---------------------------- MODULE CommandIntake ----------------------------
(***************************************************************************)
(* The commands Platform sends and what the worker durably makes of them   *)
(* (bus.rs handle_command, intake.rs, coordinator.rs accept_occurrence,    *)
(* set_subscription and create_digest_run of schema.sql), and the two      *)
(* reads the executor makes of the subscriptions meanwhile.                *)
(*                                                                         *)
(* A command stays in its durable consumer until it is acknowledged or     *)
(* terminated, so every interruption delivers it again, perhaps after      *)
(* younger ones.  The bus task handles one command at a time; a refusal    *)
(* rolls its transaction back and is recorded in a second one.             *)
(***************************************************************************)
EXTENDS Integers, FiniteSets, FiniteSetsExt

CONSTANTS
    Owner, Channel,
    Traffic,    \* the sets of command envelopes Platform may send
    Limit,      \* set_subscription: active subscriptions of one owner
    Cap,        \* normalized_window: longest scheduled window
    None,
    MaxTime,    \* bound: instants are 0..MaxTime
    MaxFaults   \* bound: storage errors, lost acknowledgements, restarts

(***************************************************************************)
(* An envelope has an identity, a subject, an idempotency key, an          *)
(* operation and a form: "valid"; "invalid", decoded but refused by        *)
(* validate_for_publish; "unreadable", not decoded but naming its          *)
(* operation and owner; "unattributable".  A subscription has an owner, a  *)
(* channel and the desired state; a run an owner, a run identity, a        *)
(* trigger and a window; an occurrence the previous and the current point  *)
(* of the schedule.  An unreadable run or subscription may lack the rest.  *)
(***************************************************************************)
Subject == {"subscription", "run", "occurrence"}
Form    == {"valid", "invalid", "unreadable", "unattributable"}

\* Platform gives an operation one key, and a key to one operation; what it
\* publishes again under a key is the same request in another envelope; schedule
\* points rise, and the occurrences of the schedule do not overlap.
ASSUME PlatformAssumption ==
    \A commands \in Traffic : \A c, d \in commands :
        /\ c.subject \in Subject /\ c.form \in Form
        /\ c.id = d.id => c = d
        /\ (c.subject = d.subject /\ c.key = d.key) =>
               /\ c.op = d.op /\ c.form = d.form
               /\ c.subject = "run" /\ c.form = "valid" => c.run = d.run /\ c.trigger = d.trigger
        /\ c.op = d.op => c.subject = d.subject /\ c.key = d.key
        /\ c.subject = "occurrence" => c.previous < c.due
        /\ (c.subject = "occurrence" /\ d.subject = "occurrence" /\ c.key # d.key) =>
               c.due <= d.previous \/ d.due <= c.previous
ASSUME IntakeBounds ==
    Limit \in Nat /\ Cap \in Nat \ {0} /\ MaxTime \in Nat /\ MaxFaults \in Nat

Command   == UNION Traffic
Operation == {c.op : c \in Command}
Row       == [since : 0 .. MaxTime, enabled : BOOLEAN]

\* The identities fan_out gives its runs, fresh UUIDs that nobody else chose.
Fanned == Owner \X {c.id : c \in Command}

\* A valid command has the fields of its kind.
ASSUME CommandAssumption ==
    \A c \in Command : c.form = "valid" =>
        /\ c.subject = "subscription" =>
               c.owner \in Owner /\ c.channel \in Channel /\ c.on \in BOOLEAN
        /\ c.subject = "run" =>
               c.owner \in Owner /\ c.trigger \in {"on_demand", "scheduled"} /\ c.run \notin Fanned
        /\ c.subject = "occurrence" => c.previous \in Nat /\ c.due \in Nat
ASSUME NoneAssumption == None \notin Command /\ None \notin Row

VARIABLES
    \* the database
    subs,     \* subscriptions by owner and channel: [since, enabled] or None
    runs,     \* digest_runs
    inbox,    \* inbox_messages
    reports,  \* outbox rows that report on an operation, by status
    \* the bus task and the consumers
    unsent,   \* commands Platform has yet to publish
    busPc, cmd, verdict, stream,
    \* the executor task
    exRun, walked, evidence,
    \* time, faults; history read by no operation
    now, faults,
    acked     \* commands that were acknowledged

database == <<subs, runs, inbox, reports>>
bus      == <<unsent, busPc, cmd, verdict, stream, acked>>
executor == <<exRun, walked, evidence>>
vars     == <<database, bus, executor, now, faults>>

Init ==
    /\ subs = [o \in Owner |-> [ch \in Channel |-> None]]
    /\ runs = {} /\ inbox = {}
    /\ reports = [op \in Operation |-> {}]
    /\ busPc = "idle" /\ cmd = None /\ verdict = "none"
    /\ unsent \in Traffic /\ stream = {} /\ acked = {}
    /\ exRun = None /\ walked = {} /\ evidence = {}
    /\ now = 0 /\ faults = 0

\* Time matters while an occurrence is still to come.
Tick ==
    /\ now < MaxTime
    /\ \E c \in unsent : c.subject = "occurrence"
    /\ now' = now + 1
    /\ UNCHANGED <<database, bus, executor, faults>>

\* Platform publishes a command, an occurrence when it is due.
Send(c) ==
    /\ c.subject = "occurrence" => c.due <= now
    /\ unsent' = unsent \ {c}
    /\ stream' = stream \cup {c}
    /\ UNCHANGED <<busPc, cmd, verdict, acked, database, executor, now, faults>>

Deliver(c) ==
    /\ busPc = "idle" /\ c \in stream
    /\ busPc' = "handle" /\ cmd' = c
    /\ UNCHANGED <<unsent, verdict, stream, acked, database, executor, now, faults>>

-----------------------------------------------------------------------------
(***************************************************************************)
(* The decisions. Every one ends with a verdict on the delivery.           *)
(***************************************************************************)

Decide(v) ==
    /\ busPc' = "decided" /\ verdict' = v
    /\ UNCHANGED <<unsent, cmd, stream, acked, executor, now, faults>>

\* The semantic key of the inbox row; an unreadable payload has none of its own.
Key(c) == IF c.form = "unreadable" THEN <<"invalid", c.id>> ELSE <<"key", c.key>>

\* Mistaken variant of Known: only the same envelope is recognised.
KnownEnvelope(c) == \E row \in inbox : row.id = c.id

\* insert into inbox_messages ... on conflict do nothing: the envelope or its
\* key is already there.
Known(c) ==
    \E row \in inbox : row.id = c.id \/ (row.subject = c.subject /\ row.key = Key(c))

Record(c, state) ==
    inbox' = inbox \cup {[id |-> c.id, subject |-> c.subject, key |-> Key(c),
                          state |-> state]}

Report(op, status) == reports' = [reports EXCEPT ![op] = @ \cup {status}]

\* Terminated without a record: nobody can be told.
Terminate ==
    /\ busPc = "handle"
    /\ \/ cmd.form = "unattributable"
       \/ cmd.subject = "occurrence" /\ cmd.form # "valid"
    /\ Decide("term")
    /\ UNCHANGED database

\* An inbox row that is already there decides the delivery.
Replay ==
    /\ busPc = "reject" \/ (busPc = "handle" /\ cmd.form = "valid")
    /\ Known(cmd)
    /\ Decide("ack")
    /\ UNCHANGED database

\* A refusal is going to be recorded, in a transaction of its own.
Refuse == busPc' = "reject" /\ UNCHANGED <<unsent, cmd, verdict, stream, acked>>

RefuseInvalid ==
    /\ busPc = "handle"
    /\ cmd.subject # "occurrence" /\ cmd.form \in {"invalid", "unreadable"}
    /\ Refuse
    /\ UNCHANGED <<database, executor, now, faults>>

Reject ==
    /\ busPc = "reject"
    /\ ~Known(cmd)
    /\ Record(cmd, "failed")
    /\ Report(cmd.op, "failed")
    /\ Decide("ack")
    /\ UNCHANGED <<subs, runs>>

-----------------------------------------------------------------------------
(***************************************************************************)
(* Subscriptions.                                                          *)
(***************************************************************************)

Fresh(subject) ==
    /\ busPc = "handle"
    /\ cmd.subject = subject /\ cmd.form = "valid" /\ ~Known(cmd)

Enabled(o) == {ch \in Channel : subs[o][ch] # None /\ subs[o][ch].enabled}

\* Mistaken variant of LimitReached: only a new subscription is counted.
LimitForNew(o, ch, on) ==
    on /\ subs[o][ch] = None /\ Cardinality(Enabled(o)) >= Limit

\* set_subscription: turning on one that is off, or new, at the limit.
LimitReached(o, ch, on) ==
    on /\ ch \notin Enabled(o) /\ Cardinality(Enabled(o)) >= Limit

\* accept_subscription: the row keeps its first activation.
SetSubscription ==
    /\ Fresh("subscription")
    /\ ~LimitReached(cmd.owner, cmd.channel, cmd.on)
    /\ LET old == subs[cmd.owner][cmd.channel]
           new == [since |-> IF old = None THEN now ELSE old.since,
                   enabled |-> cmd.on]
       IN  subs' = [subs EXCEPT ![cmd.owner][cmd.channel] = new]
    /\ Record(cmd, "completed")
    /\ Report(cmd.op, "succeeded")
    /\ Decide("ack")
    /\ UNCHANGED runs

\* Mistaken variant of RefuseLimit: the rolled back command is acknowledged.
DropOverLimit ==
    /\ Fresh("subscription")
    /\ LimitReached(cmd.owner, cmd.channel, cmd.on)
    /\ Decide("ack")
    /\ UNCHANGED database

RefuseLimit ==
    /\ Fresh("subscription")
    /\ LimitReached(cmd.owner, cmd.channel, cmd.on)
    /\ Refuse
    /\ UNCHANGED <<database, executor, now, faults>>

-----------------------------------------------------------------------------
(***************************************************************************)
(* Runs.                                                                   *)
(***************************************************************************)

\* The run the natural key of the command already has, if any.
SameNaturalKey(c) ==
    {r \in runs : /\ r.owner = c.owner /\ r.trigger = c.trigger
                  /\ r.key = c.key /\ r.window = c.window}

\* accept_run keeps the run identity Platform chose; only an on-demand run is
\* reported.
AcceptRun ==
    /\ Fresh("run")
    /\ \A r \in SameNaturalKey(cmd) : r.id = cmd.run
    /\ \A r \in runs : r.id = cmd.run => r \in SameNaturalKey(cmd)
    /\ runs' = runs \cup {[id |-> cmd.run, owner |-> cmd.owner, key |-> cmd.key,
                           trigger |-> cmd.trigger, window |-> cmd.window]}
    /\ Record(cmd, "completed")
    /\ IF cmd.trigger = "on_demand" THEN Report(cmd.op, "queued")
                                    ELSE UNCHANGED reports
    /\ Decide("ack")
    /\ UNCHANGED subs

\* Mistaken variant of RefuseRun: the conflict is taken for a storage error.
RefuseRunByNak ==
    /\ Fresh("run")
    /\ \E r \in SameNaturalKey(cmd) : r.id # cmd.run
    /\ Decide("nak")
    /\ UNCHANGED database

\* The natural key belongs to a run of another identity.
RefuseRun ==
    /\ Fresh("run")
    /\ \E r \in SameNaturalKey(cmd) : r.id # cmd.run
    /\ Refuse
    /\ UNCHANGED <<database, executor, now, faults>>

\* The identity belongs to a run of another natural key: the primary key of
\* digest_runs refuses it as a storage error.
RunIdentityTaken ==
    /\ Fresh("run")
    /\ SameNaturalKey(cmd) = {}
    /\ \E r \in runs : r.id = cmd.run
    /\ Decide("nak")
    /\ UNCHANGED database

\* Mistaken variant of WindowStart: the previous occurrence is ignored.
WindowStartCapped(activation, c) == Max({activation, c.due - Cap})

\* normalized_window for a scheduled run.
WindowStart(activation, c) == Max({activation, Max({c.previous, c.due - Cap})})

\* fan_out: the owners with a subscription active since before the due instant.
Active(o, c) == {ch \in Enabled(o) : subs[o][ch].since < c.due}

ScheduledRun(o, c) ==
    LET activation == Min({subs[o][ch].since : ch \in Active(o, c)})
    IN  [id |-> <<o, c.id>>, owner |-> o, key |-> c.key, trigger |-> "scheduled",
         window |-> <<WindowStart(activation, c), c.due>>]

AcceptOccurrence ==
    /\ Fresh("occurrence")
    /\ LET created == {ScheduledRun(o, cmd) : o \in {o \in Owner : Active(o, cmd) # {}}}
           natural(r) == <<r.owner, r.trigger, r.key, r.window>>
       IN  runs' = runs \cup {r \in created : \A q \in runs : natural(q) # natural(r)}
    /\ Record(cmd, "completed")
    /\ Report(cmd.op, "succeeded")
    /\ Decide("ack")
    /\ UNCHANGED subs

-----------------------------------------------------------------------------
(***************************************************************************)
(* The end of a delivery.                                                  *)
(***************************************************************************)

\* Mistaken variant of BusIdle: the command is not put away.
BusIdleHolding == busPc' = "idle" /\ cmd' = cmd /\ verdict' = "none"

BusIdle == busPc' = "idle" /\ cmd' = None /\ verdict' = "none"

Finish ==
    /\ busPc = "decided" /\ verdict \in {"ack", "term"}
    /\ stream' = stream \ {cmd}
    /\ acked' = IF verdict = "ack" THEN acked \cup {cmd} ELSE acked
    /\ BusIdle
    /\ UNCHANGED <<unsent, database, executor, now, faults>>

\* A negative acknowledgement delivers the command again.
Nak ==
    /\ busPc = "decided" /\ verdict = "nak"
    /\ BusIdle
    /\ UNCHANGED <<unsent, stream, acked, database, executor, now, faults>>

\* A storage error, a lost acknowledgement or a restart of the worker.
Interrupt ==
    /\ faults < MaxFaults
    /\ busPc # "idle"
    /\ faults' = faults + 1
    /\ BusIdle
    /\ UNCHANGED <<unsent, stream, acked, database, executor, now>>

-----------------------------------------------------------------------------
(***************************************************************************)
(* The executor reads the subscriptions of the owner of a run when it      *)
(* begins to acquire and again when it selects the sources.                *)
(***************************************************************************)

SubscribedChannels(r) ==
    /\ exRun = None
    /\ \A e \in evidence : e.run # r.id
    /\ exRun' = r /\ walked' = Enabled(r.owner)
    /\ UNCHANGED <<evidence, database, bus, now, faults>>

SelectSources ==
    /\ exRun # None
    /\ evidence' = evidence \cup
          {[run |-> exRun.id, walked |-> walked, selected |-> Enabled(exRun.owner)]}
    /\ exRun' = None /\ walked' = {}
    /\ UNCHANGED <<database, bus, now, faults>>

-----------------------------------------------------------------------------
Handle ==
    \/ Terminate \/ Replay \/ RefuseInvalid \/ Reject
    \/ SetSubscription \/ RefuseLimit
    \/ AcceptRun \/ RefuseRun \/ RunIdentityTaken
    \/ AcceptOccurrence

Bus == \/ \E c \in stream : Deliver(c)
       \/ Handle \/ Finish \/ Nak

Executor == (\E r \in runs : SubscribedChannels(r)) \/ SelectSources

Next == Tick \/ (\E c \in unsent : Send(c)) \/ Bus \/ Interrupt \/ Executor

Spec == Init /\ [][Next]_vars

\* The command asks for a run under the identity of another one.
Taken(c) ==
    /\ c.subject = "run" /\ c.form = "valid" /\ ~Known(c)
    /\ SameNaturalKey(c) = {} /\ \E r \in runs : r.id = c.run

\* The bus task goes on while a command waits. A command under a taken identity is
\* given again two seconds after its negative acknowledgement, and the consumer gives
\* what else waits meanwhile.
FairSpec == /\ Spec /\ WF_vars(Bus)
            /\ SF_vars(\E c \in stream : ~Taken(c) /\ Deliver(c))

-----------------------------------------------------------------------------
(***************************************************************************)
(* Properties.                                                             *)
(***************************************************************************)

Status == {"queued", "succeeded", "failed"}

\* Every variable holds a value of its kind; the bus task holds a command
\* exactly while it works on one.
TypeOK ==
    /\ subs \in [Owner -> [Channel -> Row \cup {None}]]
    /\ \A r \in runs : r.owner \in Owner /\ r.trigger \in {"on_demand", "scheduled"}
    /\ \A row \in inbox : row.state \in {"completed", "failed"} /\ row.subject \in Subject
    /\ reports \in [Operation -> SUBSET Status]
    /\ busPc \in {"idle", "handle", "reject", "decided"}
    /\ cmd \in stream \cup {None} /\ (busPc = "idle" <=> cmd = None)
    /\ verdict \in {"none", "ack", "nak", "term"}
    /\ unsent \subseteq Command
    /\ stream \subseteq Command /\ acked \subseteq Command
    /\ exRun \in runs \cup {None} /\ walked \subseteq Channel
    /\ now \in 0 .. MaxTime /\ faults \in 0 .. MaxFaults

\* set_subscription: an owner never has more than Limit active subscriptions,
\* whatever is turned off and on again, redelivered and overtaken.
LimitHolds == \A o \in Owner : Cardinality(Enabled(o)) <= Limit

\* The inbox holds a decision on the command.
Decided(c) == \E row \in inbox : row.subject = c.subject /\ row.key = Key(c)

\* handle_command, intake.rs: an acknowledged command is decided for good. It
\* has an inbox row; its operation has heard exactly one thing, and what it
\* heard is what was done: an on-demand run exists exactly if it was queued,
\* and no operation is both refused and served.
AckedIsAnswered ==
    \A c \in acked :
        /\ Decided(c)
        /\ c.subject = "run" /\ c.form = "valid" =>
               LET served == \E r \in runs : r.id = c.run /\ r.key = c.key
               IN  reports[c.op] = IF ~served THEN {"failed"}
                                   ELSE IF c.trigger = "on_demand" THEN {"queued"}
                                   ELSE {}
        /\ ~(c.subject = "run" /\ c.form = "valid") => Cardinality(reports[c.op]) = 1

\* accept_occurrence, normalized_window: an owner has one scheduled run for an
\* occurrence, its window is not empty and no longer than Cap, and no instant
\* is in the windows of two of them, so no post is digested twice; also when
\* the occurrence comes again after the subscriptions have changed.
ScheduledWindows ==
    LET fanned == {r \in runs : r.id \in Fanned}
    IN  /\ \A r \in fanned : r.window[1] < r.window[2] /\ r.window[2] - r.window[1] <= Cap
        /\ \A q, r \in fanned : q.owner = r.owner /\ q # r =>
               q.window[2] <= r.window[1] \/ r.window[2] <= q.window[1]

\* intake.rs: a redelivered or republished command that was decided changes
\* nothing: an old "enable" that comes again does not undo a younger "disable".
DecidedOnce ==
    [][cmd # None /\ Decided(cmd) => UNCHANGED <<subs, runs, reports, inbox>>]_vars

\* bus.rs: refusals, conflicts, repetitions and interruptions leave no command
\* behind. Again and again nothing waits but runs under the identity of another run:
\* such a command is redelivered for ever, and keeps no other one waiting.
EventuallyDecided == []<>(\A c \in stream : Taken(c))

\* executor.rs acquire, DATA_MODEL.md: a run that says it has read its window
\* has acquired every subscribed channel whose posts it selects.
SelectsWhatItWalked == \A e \in evidence : e.selected \subseteq e.walked
=============================================================================
