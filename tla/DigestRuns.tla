----------------------------- MODULE DigestRuns -----------------------------
(***************************************************************************)
(* The life of a digest run inside the worker.  Three tasks of one process *)
(* share the database and interleave between their statements:             *)
(*                                                                         *)
(*   - the executor task takes one pending run per tick through            *)
(*     acquisition, source selection and the commit of its manifest        *)
(*     (executor.rs, and the coordinator functions it calls);              *)
(*   - the bus task accepts commands, settles the facts Knowledge sends    *)
(*     back and publishes the outbox, strictly one message at a time       *)
(*     (bus.rs, intake.rs, coordinator.rs, reports.rs);                    *)
(*   - the reaper task fails every open run past its deadline (reaper.rs). *)
(*                                                                         *)
(* A transaction of the code is one action, since each one is guarded by   *)
(* the state of the row it locks; a read made outside a transaction is an  *)
(* action of its own and what it returned is kept in a variable until it   *)
(* is used.                                                                *)
(***************************************************************************)
EXTENDS Naturals, FiniteSets

CONSTANTS
    Run,         \* the runs that may be created
    OnDemand,    \* those requested by a command; the others are scheduled
    Digest,      \* manifest digests, standing for the manifest's content
    ResultId,    \* result identities chosen by Knowledge
    None,        \* an absent row, or a local variable that holds nothing
    OwnId,       \* the fresh identity the service gives to a failed result
    MaxInFlight, \* bound: facts waiting in the Knowledge consumer at once
    BATCH        \* reaper.rs: runs failed by one reaper pass

ASSUME RunAssumption == IsFiniteSet(Run) /\ OnDemand \subseteq Run
ASSUME BoundAssumption == MaxInFlight \in Nat /\ BATCH \in Nat \ {0}

Scheduled == Run \ OnDemand

Executing == {"accepted", "acquiring"}
Open      == Executing \cup {"waiting_recap"}
Terminal  == {"completed", "partial", "failed"}
State     == {"absent"} \cup Open \cup Terminal
Status    == {"queued", "running", "succeeded", "partially_succeeded", "failed"}
TerminalStatus == {"succeeded", "partially_succeeded", "failed"}

\* A manifest row. "whole" records whether the selection it was built from
\* was read and taken completely: history, never read by an action.
Manifest == [digest : Digest, whole : BOOLEAN]

\* A row of digest_results; "omitted" stands for the stored citation count.
Result == [id : ResultId \cup {OwnId}, outcome : Terminal, omitted : BOOLEAN]

\* The two facts of Knowledge about a requested recap.
Completion == [kind : {"completed"}, run : Run, digest : Digest,
               result : ResultId, omitted : BOOLEAN]
Failure    == [kind : {"failed"}, run : Run, digest : Digest]
Fact       == Completion \cup Failure

ASSUME NullAssumption ==
    /\ None \notin Run \cup Manifest \cup Result \cup Fact
    /\ OwnId \notin ResultId

VARIABLES
    \* the database
    state,       \* digest_runs.state
    created,     \* digest_runs.created_at, as the rank of its transaction
    incomplete,  \* digest_runs.acquisition_incomplete
    overdue,     \* runs whose updated_at is older than the deadline
    floodWait,   \* runs with an unexpired flood_wait lease
    manifest,    \* digest_manifests, by run
    result,      \* digest_results, by run
    inbox,       \* semantic keys of inbox_messages for Knowledge facts
    requested,   \* outbox rows that ask for a recap, keyed by run
    reports,     \* outbox rows that report on a run's operation, by status
    requestSent, \* published recap requests
    reportSent,  \* published operation reports
    \* the executor task
    exPc, exRun, exIncomplete, exSelection,
    \* the bus task
    busPc, fact, flag, verdict,
    \* the Knowledge consumer
    stream

dbVars  == <<state, created, incomplete, overdue, floodWait, manifest, result,
             inbox, requested, reports>>
outVars == <<requestSent, reportSent>>
exVars  == <<exPc, exRun, exIncomplete, exSelection>>
busVars == <<busPc, fact, flag, verdict, stream>>
vars    == <<dbVars, outVars, exVars, busVars>>

Init ==
    /\ state = [r \in Run |-> "absent"]
    /\ created = [r \in Run |-> 0]
    /\ incomplete = [r \in Run |-> FALSE]
    /\ overdue = {} /\ floodWait = {}
    /\ manifest = [r \in Run |-> None]
    /\ result = [r \in Run |-> None]
    /\ inbox = {} /\ requested = {}
    /\ reports = [r \in Run |-> {}]
    /\ requestSent = {}
    /\ reportSent = [r \in Run |-> {}]
    /\ exPc = "idle" /\ exRun = None
    /\ exIncomplete = FALSE /\ exSelection = "none"
    /\ busPc = "idle" /\ fact = None /\ flag = FALSE /\ verdict = "none"
    /\ stream = {}

-----------------------------------------------------------------------------
(***************************************************************************)
(* What the transactions share.                                            *)
(***************************************************************************)

\* Queues a report with this status for every on-demand run of the set. The
\* outbox key operation:<id>:<status> makes a repeated one a no-op.
Enqueue(rs, status) ==
    reports' = [r \in Run |-> IF r \in rs \cap OnDemand
                              THEN reports[r] \cup {status} ELSE reports[r]]

\* Moves the runs of the set to a new state; updated_at is now, so the
\* deadline starts again.
Move(rs, to) ==
    /\ state' = [r \in Run |-> IF r \in rs THEN to ELSE state[r]]
    /\ overdue' = overdue \ rs

-----------------------------------------------------------------------------
(***************************************************************************)
(* The bus task accepts commands. Deduplication by the inbox and refused   *)
(* commands belong to the intake; here a command creates its runs once.    *)
(***************************************************************************)

Create(rs) ==
    /\ busPc = "idle"
    /\ \A r \in rs : state[r] = "absent"
    /\ Move(rs, "accepted")
    /\ created' = [r \in Run |->
                    IF r \in rs
                    THEN 1 + Cardinality({q \in Run : state[q] # "absent"})
                    ELSE created[r]]
    /\ Enqueue(rs, "queued")
    /\ UNCHANGED <<incomplete, floodWait, manifest, result, inbox, requested>>
    /\ UNCHANGED <<outVars, exVars, busVars>>

\* intake.rs accept_run: one on-demand run, reported queued.
AcceptRun(r) == r \in OnDemand /\ Create({r})

\* coordinator.rs fan_out: one scheduled run per active owner, all in the
\* transaction of the occurrence. A scheduled run owns no operation.
FanOut(rs) == rs # {} /\ rs \subseteq Scheduled /\ Create(rs)

-----------------------------------------------------------------------------
(***************************************************************************)
(* The executor task.                                                      *)
(***************************************************************************)

\* Mistaken variant of Pending: a waiting run is taken again.
PendingOpen(r) == state[r] \in Open /\ r \notin floodWait

\* select_pending: an accepted or interrupted run with no flood wait.
Pending(r) == state[r] \in Executing /\ r \notin floodWait

ExecutorIdle ==
    exPc' = "idle" /\ exRun' = None /\ exIncomplete' = FALSE
                   /\ exSelection' = "none"

\* The oldest pending run is taken; its state is remembered by the branch.
SelectPending(r) ==
    /\ exPc = "idle"
    /\ Pending(r)
    /\ \A q \in Run : Pending(q) => created[r] <= created[q]
    /\ exPc' = IF state[r] = "accepted" THEN "begin" ELSE "acquire"
    /\ exRun' = r
    /\ UNCHANGED <<exIncomplete, exSelection, dbVars, outVars, busVars>>

\* Mistaken variant of BeginAcquisition: the running report is forgotten.
BeginSilently ==
    /\ exPc = "begin"
    /\ state[exRun] = "accepted"
    /\ Move({exRun}, "acquiring")
    /\ exPc' = "acquire"
    /\ UNCHANGED <<created, incomplete, floodWait, manifest, result, inbox,
                   requested, reports, exRun, exIncomplete, exSelection>>
    /\ UNCHANGED <<outVars, busVars>>

BeginAcquisition ==
    /\ exPc = "begin"
    /\ state[exRun] = "accepted"
    /\ Move({exRun}, "acquiring")
    /\ Enqueue({exRun}, "running")
    /\ exPc' = "acquire"
    /\ UNCHANGED <<created, incomplete, floodWait, manifest, result, inbox,
                   requested, exRun, exIncomplete, exSelection>>
    /\ UNCHANGED <<outVars, busVars>>

\* Every subscribed channel is walked. One deferred channel defers the run
\* behind a flood_wait lease; no readable channel at all fails it; an
\* unavailable or half-read channel leaves it incomplete.
AcquireDeferred ==
    /\ exPc = "acquire"
    /\ floodWait' = floodWait \cup {exRun}
    /\ ExecutorIdle
    /\ UNCHANGED <<state, created, incomplete, overdue, manifest, result, inbox,
                   requested, reports>>
    /\ UNCHANGED <<outVars, busVars>>

AcquireUnavailable ==
    /\ exPc = "acquire"
    /\ exPc' = "unavailable"
    /\ UNCHANGED <<exRun, exIncomplete, exSelection, dbVars, outVars, busVars>>

Acquire(missing) ==
    /\ exPc = "acquire"
    /\ exIncomplete' = missing
    /\ exPc' = "select"
    /\ UNCHANGED <<exRun, exSelection, dbVars, outVars, busVars>>

\* The selection is empty, cannot be built into a manifest, or is built; a
\* window that held more than the cap is truncated and makes it incomplete.
SelectSources(selection, truncated) ==
    /\ exPc = "select"
    /\ truncated => selection # "empty"
    /\ exSelection' = selection
    /\ exIncomplete' = (exIncomplete \/ truncated)
    /\ exPc' = "record"
    /\ UNCHANGED <<exRun, dbVars, outVars, busVars>>

\* Mistaken variant of RecordAcquisition: the flag accumulates over attempts.
RecordSticky ==
    /\ exPc = "record"
    /\ incomplete' = [incomplete EXCEPT ![exRun] = @ \/ exIncomplete]
    /\ exPc' = "commit"
    /\ UNCHANGED <<state, created, overdue, floodWait, manifest, result, inbox,
                   requested, reports, exRun, exIncomplete, exSelection>>
    /\ UNCHANGED <<outVars, busVars>>

\* The flag is overwritten whatever the run's state has become.
RecordAcquisition ==
    /\ exPc = "record"
    /\ incomplete' = [incomplete EXCEPT ![exRun] = exIncomplete]
    /\ exPc' = "commit"
    /\ UNCHANGED <<state, created, overdue, floodWait, manifest, result, inbox,
                   requested, reports, exRun, exIncomplete, exSelection>>
    /\ UNCHANGED <<outVars, busVars>>

\* What the executor calls for: fail_run, complete_empty_run, commit_manifest.
WantsFailure ==
    \/ exPc = "unavailable"
    \/ exPc = "commit" /\ exSelection = "empty" /\ exIncomplete
    \/ exPc = "commit" /\ exSelection = "unbuildable"
WantsEmpty    == exPc = "commit" /\ exSelection = "empty" /\ ~exIncomplete
WantsManifest == exPc = "commit" /\ exSelection = "built"

FailRun ==
    /\ WantsFailure
    /\ state[exRun] \in Executing
    /\ Move({exRun}, "failed")
    /\ Enqueue({exRun}, "failed")
    /\ ExecutorIdle
    /\ UNCHANGED <<created, incomplete, floodWait, manifest, result, inbox,
                   requested, outVars, busVars>>

\* Mistaken variant of CompleteEmptyRun: the update is not guarded by the state.
CompleteUnguarded ==
    /\ WantsEmpty
    /\ Move({exRun}, "completed")
    /\ Enqueue({exRun}, "succeeded")
    /\ ExecutorIdle
    /\ UNCHANGED <<created, incomplete, floodWait, manifest, result, inbox,
                   requested, outVars, busVars>>

CompleteEmptyRun ==
    /\ WantsEmpty
    /\ state[exRun] \in Executing
    /\ Move({exRun}, "completed")
    /\ Enqueue({exRun}, "succeeded")
    /\ ExecutorIdle
    /\ UNCHANGED <<created, incomplete, floodWait, manifest, result, inbox,
                   requested, outVars, busVars>>

\* Mistaken variant of CommitManifest: the update is not guarded by the state.
CommitUnguarded(digest) ==
    /\ WantsManifest
    /\ manifest[exRun] = None
    /\ manifest' = [manifest EXCEPT
                      ![exRun] = [digest |-> digest, whole |-> ~exIncomplete]]
    /\ requested' = requested \cup {exRun}
    /\ Move({exRun}, "waiting_recap")
    /\ ExecutorIdle
    /\ UNCHANGED <<created, incomplete, floodWait, result, inbox, reports>>
    /\ UNCHANGED <<outVars, busVars>>

\* The manifest row, the recap request and the transition in one transaction.
CommitManifest(digest) ==
    /\ WantsManifest
    /\ manifest[exRun] = None
    /\ state[exRun] \in Executing
    /\ manifest' = [manifest EXCEPT
                      ![exRun] = [digest |-> digest, whole |-> ~exIncomplete]]
    /\ requested' = requested \cup {exRun}
    /\ Move({exRun}, "waiting_recap")
    /\ ExecutorIdle
    /\ UNCHANGED <<created, incomplete, floodWait, result, inbox, reports>>
    /\ UNCHANGED <<outVars, busVars>>

\* The guarded update matches no row, or the run already has a manifest: the
\* transaction rolls back and the tick ends.
ExecutorRefused ==
    /\ \/ exPc = "begin" /\ state[exRun] # "accepted"
       \/ exPc \in {"unavailable", "commit"} /\ state[exRun] \notin Executing
       \/ WantsManifest /\ manifest[exRun] # None
    /\ ExecutorIdle
    /\ UNCHANGED <<dbVars, outVars, busVars>>

\* A storage error ends the tick anywhere; the run is taken again later.
ExecutorError ==
    /\ exPc # "idle"
    /\ ExecutorIdle
    /\ UNCHANGED <<dbVars, outVars, busVars>>

\* The flood_wait lease expires.
FloodWaitEnds(r) ==
    /\ r \in floodWait
    /\ floodWait' = floodWait \ {r}
    /\ UNCHANGED <<state, created, incomplete, overdue, manifest, result, inbox,
                   requested, reports>>
    /\ UNCHANGED <<outVars, exVars, busVars>>

-----------------------------------------------------------------------------
(***************************************************************************)
(* The bus task settles Knowledge facts. Knowledge answers a request it    *)
(* has been sent, more than once, late and with any content.               *)
(***************************************************************************)

KnowledgeSends(f) ==
    /\ f.run \in requestSent
    /\ f \notin stream
    /\ Cardinality(stream) < MaxInFlight
    /\ stream' = stream \cup {f}
    /\ UNCHANGED <<busPc, fact, flag, verdict, dbVars, outVars, exVars>>

BusIdle == busPc' = "idle" /\ fact' = None /\ flag' = FALSE /\ verdict' = "none"

Decide(v) == busPc' = "decided" /\ verdict' = v

Deliver(f) ==
    /\ busPc = "idle"
    /\ f \in stream
    /\ fact' = f
    /\ busPc' = IF f.kind = "completed" THEN "flag" ELSE "durable"
    /\ UNCHANGED <<flag, verdict, stream, dbVars, outVars, exVars>>

\* settle_completion, first read: was the acquisition incomplete?
ReadFlag ==
    /\ busPc = "flag"
    /\ flag' = incomplete[fact.run]
    /\ busPc' = "existing"
    /\ UNCHANGED <<fact, verdict, stream, dbVars, outVars, exVars>>

Outcome == IF fact.omitted \/ flag THEN "partial" ELSE "completed"

CompletionRow == [id |-> fact.result, outcome |-> Outcome,
                  omitted |-> fact.omitted]

\* The stored result is the one this completion would store.
SameResult(r) ==
    /\ r = fact.run
    /\ manifest[r].digest = fact.digest
    /\ result[r] = CompletionRow

\* Mistaken variant of ReadExisting: any stored result is taken for a replay.
ReadExistingLax ==
    /\ busPc = "existing"
    /\ IF \E r \in Run : result[r] # None /\ result[r].id = fact.result
       THEN Decide("ack") ELSE busPc' = "durable" /\ UNCHANGED verdict
    /\ UNCHANGED <<fact, flag, stream, dbVars, outVars, exVars>>

\* Second read: a result with this identity decides the delivery by itself.
ReadExisting ==
    /\ busPc = "existing"
    /\ LET stored == {r \in Run : result[r] # None /\ result[r].id = fact.result}
       IN  IF stored = {}
           THEN busPc' = "durable" /\ UNCHANGED verdict
           ELSE Decide(IF \E r \in stored : SameResult(r) THEN "ack" ELSE "term")
    /\ UNCHANGED <<fact, flag, stream, dbVars, outVars, exVars>>

Settleable == /\ state[fact.run] = "waiting_recap"
              /\ manifest[fact.run] # None
              /\ manifest[fact.run].digest = fact.digest

\* Last read: the run and its manifest. A failure of a failed run replays.
ReadDurable ==
    /\ busPc = "durable"
    /\ IF Settleable
       THEN busPc' = "settle" /\ UNCHANGED verdict
       ELSE Decide(IF /\ fact.kind = "failed"
                      /\ manifest[fact.run] # None
                      /\ state[fact.run] = "failed"
                   THEN "ack" ELSE "term")
    /\ UNCHANGED <<fact, flag, stream, dbVars, outVars, exVars>>

\* Mistaken variant of InboxKey: completions are remembered by their run.
InboxKeyByRun == <<fact.kind, fact.run>>

InboxKey == IF fact.kind = "completed" THEN <<"completed", fact.result>>
                                       ELSE <<"failed", fact.run>>

\* Mistaken variant of Settle: the affected rows of the update are not counted.
SettleUnchecked(row, status) ==
    /\ busPc = "settle"
    /\ InboxKey \notin inbox
    /\ inbox' = inbox \cup {InboxKey}
    /\ result' = [result EXCEPT ![fact.run] = row]
    /\ IF state[fact.run] = "waiting_recap"
       THEN Move({fact.run}, row.outcome) /\ Enqueue({fact.run}, status)
       ELSE UNCHANGED <<state, overdue, reports>>
    /\ Decide("ack")
    /\ UNCHANGED <<created, incomplete, floodWait, manifest, requested>>
    /\ UNCHANGED <<fact, flag, stream, outVars, exVars>>

Settle(row, status) ==
    /\ busPc = "settle"
    /\ InboxKey \notin inbox
    /\ state[fact.run] = "waiting_recap"
    /\ inbox' = inbox \cup {InboxKey}
    /\ result' = [result EXCEPT ![fact.run] = row]
    /\ Move({fact.run}, row.outcome)
    /\ Enqueue({fact.run}, status)
    /\ Decide("ack")
    /\ UNCHANGED <<created, incomplete, floodWait, manifest, requested>>
    /\ UNCHANGED <<fact, flag, stream, outVars, exVars>>

\* The transaction of settle_completion, reported by report_completion.
SettleCompletion ==
    /\ fact # None /\ fact.kind = "completed"
    /\ Settle(CompletionRow, IF fact.omitted \/ flag THEN "partially_succeeded"
                                                     ELSE "succeeded")

\* The transaction of settle_failure, reported by report_recap_failure.
SettleFailure ==
    /\ fact # None /\ fact.kind = "failed"
    /\ Settle([id |-> OwnId, outcome |-> "failed", omitted |-> FALSE], "failed")

\* A key the inbox already has replays; a run that left waiting_recap since
\* it was read makes the fact invalid. Both roll back.
SettleRefused ==
    /\ busPc = "settle"
    /\ InboxKey \in inbox \/ state[fact.run] # "waiting_recap"
    /\ Decide(IF InboxKey \in inbox THEN "ack" ELSE "term")
    /\ UNCHANGED <<fact, flag, stream, dbVars, outVars, exVars>>

\* The delivery is acknowledged or terminated: it leaves the stream.
FinishDelivery ==
    /\ busPc = "decided"
    /\ stream' = stream \ {fact}
    /\ BusIdle
    /\ UNCHANGED <<dbVars, outVars, exVars>>

\* A storage error (negative acknowledgement), a refused publication or a
\* lost acknowledgement leaves the fact in the stream for redelivery.
DeliveryInterrupted ==
    /\ busPc # "idle"
    /\ BusIdle
    /\ UNCHANGED <<stream, dbVars, outVars, exVars>>

-----------------------------------------------------------------------------
(***************************************************************************)
(* Outbox, reaper, process.                                                *)
(***************************************************************************)

\* publish_outbox runs after every handled message and on its own tick. A row
\* that backs off is passed by younger ones, so any row may be next.
Publishing == busPc \in {"idle", "decided"}

PublishRequest(r) ==
    /\ Publishing
    /\ r \in requested \ requestSent
    /\ requestSent' = requestSent \cup {r}
    /\ UNCHANGED <<reportSent, dbVars, exVars, busVars>>

PublishReport(r, status) ==
    /\ Publishing
    /\ status \in reports[r] \ reportSent[r]
    /\ reportSent' = [reportSent EXCEPT ![r] = @ \cup {status}]
    /\ UNCHANGED <<requestSent, dbVars, exVars, busVars>>

\* The deadline of an open run passes.
DeadlinePasses(r) ==
    /\ state[r] \in Open
    /\ r \notin overdue
    /\ overdue' = overdue \cup {r}
    /\ UNCHANGED <<state, created, incomplete, floodWait, manifest, result, inbox,
                   requested, reports>>
    /\ UNCHANGED <<outVars, exVars, busVars>>

\* Mistaken variants of Reap: runs that wait for Knowledge are forgotten; the
\* operation is not told.
ReapExecuting(rs) ==
    /\ rs # {}
    /\ Cardinality(rs) <= BATCH
    /\ \A r \in rs : r \in overdue /\ state[r] \in Executing
    /\ Move(rs, "failed")
    /\ Enqueue(rs, "failed")
    /\ UNCHANGED <<created, incomplete, floodWait, manifest, result, inbox,
                   requested, outVars, exVars, busVars>>
ReapSilently(rs) ==
    /\ rs # {}
    /\ Cardinality(rs) <= BATCH
    /\ \A r \in rs : r \in overdue /\ state[r] \in Open
    /\ Move(rs, "failed")
    /\ UNCHANGED <<created, incomplete, floodWait, manifest, result, inbox,
                   requested, reports, outVars, exVars, busVars>>

\* reap_once: at most BATCH overdue runs; a row another transaction has
\* locked is skipped.
Reap(rs) ==
    /\ rs # {}
    /\ Cardinality(rs) <= BATCH
    /\ \A r \in rs : r \in overdue /\ state[r] \in Open
    /\ Move(rs, "failed")
    /\ Enqueue(rs, "failed")
    /\ UNCHANGED <<created, incomplete, floodWait, manifest, result, inbox,
                   requested, outVars, exVars, busVars>>

\* The process stops and starts again: only the database and the stream last.
WorkerRestart ==
    /\ exPc # "idle" \/ busPc # "idle"
    /\ ExecutorIdle
    /\ BusIdle
    /\ UNCHANGED <<stream, dbVars, outVars>>

-----------------------------------------------------------------------------
Intake ==
    \/ \E r \in Run : AcceptRun(r)
    \/ \E rs \in SUBSET Scheduled : FanOut(rs)
Executor ==
    \/ \E r \in Run : SelectPending(r)
    \/ BeginAcquisition
    \/ AcquireDeferred \/ AcquireUnavailable
    \/ \E missing \in BOOLEAN : Acquire(missing)
    \/ \E s \in {"empty", "unbuildable", "built"}, t \in BOOLEAN : SelectSources(s, t)
    \/ RecordAcquisition
    \/ FailRun \/ CompleteEmptyRun
    \/ \E d \in Digest : CommitManifest(d)
    \/ ExecutorRefused \/ ExecutorError
    \/ \E r \in Run : FloodWaitEnds(r)
Bus ==
    \/ \E f \in stream : Deliver(f)
    \/ ReadFlag \/ ReadExisting \/ ReadDurable
    \/ SettleCompletion \/ SettleFailure \/ SettleRefused
    \/ FinishDelivery \/ DeliveryInterrupted
Outbox ==
    \/ \E r \in Run : PublishRequest(r)
    \/ \E r \in Run, s \in Status : PublishReport(r, s)
Reaper ==
    \/ \E r \in Run : DeadlinePasses(r)
    \/ \E rs \in SUBSET Run : Reap(rs)

Next == Intake \/ Executor \/ Bus \/ Outbox \/ Reaper \/ WorkerRestart
        \/ \E f \in Fact : KnowledgeSends(f)

Spec == Init /\ [][Next]_vars

(***************************************************************************)
(* Time passes, the reaper and the bus task keep ticking, and a row that   *)
(* is attempted again and again is published in the end: publish_outbox    *)
(* retries every row, at most 256 seconds apart. Nothing is assumed of the *)
(* executor, of Knowledge, or of restarts.                                 *)
(***************************************************************************)
Fairness ==
    /\ \A r \in Run : WF_vars(DeadlinePasses(r))
    /\ WF_vars(\E rs \in SUBSET Run : Reap(rs))
    /\ WF_vars(Bus)
    /\ \A r \in Run, s \in TerminalStatus : SF_vars(PublishReport(r, s))

FairSpec == Spec /\ Fairness

-----------------------------------------------------------------------------
(***************************************************************************)
(* Properties.                                                             *)
(***************************************************************************)

\* Every variable holds a value of its kind, and the two tasks hold a run and
\* a fact exactly while they work on one.
TypeOK ==
    /\ state \in [Run -> State]
    /\ created \in [Run -> Nat]
    /\ incomplete \in [Run -> BOOLEAN]
    /\ overdue \subseteq Run /\ floodWait \subseteq Run
    /\ manifest \in [Run -> Manifest \cup {None}]
    /\ result \in [Run -> Result \cup {None}]
    /\ inbox \subseteq ({"completed"} \X ResultId) \cup ({"failed"} \X Run)
    /\ requested \subseteq Run /\ requestSent \subseteq Run
    /\ reports \in [Run -> SUBSET Status]
    /\ reportSent \in [Run -> SUBSET Status]
    /\ exPc \in {"idle", "begin", "acquire", "unavailable", "select", "record",
                "commit"}
    /\ exRun \in Run \cup {None} /\ (exPc = "idle" <=> exRun = None)
    /\ exIncomplete \in BOOLEAN
    /\ exSelection \in {"none", "empty", "unbuildable", "built"}
    /\ busPc \in {"idle", "flag", "existing", "durable", "settle", "decided"}
    /\ fact \in Fact \cup {None} /\ (busPc = "idle" <=> fact = None)
    /\ busPc \in {"flag", "existing"} => fact.kind = "completed"
    /\ flag \in BOOLEAN
    /\ verdict \in {"none", "ack", "term"}
    /\ stream \subseteq Fact

TerminalReport(s) == CASE s = "completed" -> {"succeeded"}
                       [] s = "partial"   -> {"partially_succeeded"}
                       [] s = "failed"    -> {"failed"}
                       [] OTHER           -> {}

\* reports.rs, reaper.rs: the terminal reports queued for an on-demand run are
\* exactly the one its state calls for, whichever of executor, Knowledge fact
\* and reaper got there first; a scheduled run reports nothing; running is
\* reported only of a run whose acquisition has begun.
ReportsMatchState ==
    \A r \in Run :
        /\ reports[r] \cap TerminalStatus =
               IF r \in OnDemand THEN TerminalReport(state[r]) ELSE {}
        /\ "running" \in reports[r] => state[r] \notin {"absent", "accepted"}

\* coordinator.rs: a run waits for a recap exactly with a committed manifest
\* and its request; a result row exists only beside its manifest, gives the
\* run its state, and keeps an identity no other run's result has.
EvidenceChain ==
    \A r \in Run :
        /\ manifest[r] # None <=> r \in requested
        /\ state[r] \in {"absent"} \cup Executing =>
               manifest[r] = None /\ result[r] = None
        /\ state[r] = "waiting_recap" => manifest[r] # None /\ result[r] = None
        /\ state[r] = "partial" => result[r] # None
        /\ state[r] = "completed" /\ manifest[r] # None => result[r] # None
        /\ result[r] # None =>
               /\ manifest[r] # None
               /\ state[r] = result[r].outcome
               /\ \A q \in Run \ {r} : result[q] # None =>
                      result[q].id # result[r].id \/ result[r].id = OwnId

\* executor.rs acquire and record_acquisition, coordinator.rs
\* settle_completion: missing posts never read as a whole digest. A run
\* completes only if everything was read and taken, although the flag is
\* written by one task and read by another before its transaction; and it is
\* partial only if something was left out.
HonestCompletion ==
    \A r \in Run :
        /\ state[r] = "completed" =>
               IF manifest[r] = None THEN ~incomplete[r] ELSE manifest[r].whole
        /\ state[r] = "partial" =>
               result[r].omitted \/ ~manifest[r].whole

\* bus.rs handle_event: a completion is acknowledged exactly when the stored
\* result is the one it carries, so a redelivery after a lost acknowledgement
\* is never terminated as invalid and a refused one never passes as applied.
\* A failure is acknowledged only if the run is failed.
VerdictMatchesRecord ==
    busPc = "decided" =>
        IF fact.kind = "completed"
        THEN verdict = "ack" <=> /\ result[fact.run] # None
                                 /\ result[fact.run].id = fact.result
                                 /\ result[fact.run].omitted = fact.omitted
                                 /\ manifest[fact.run].digest = fact.digest
        ELSE verdict = "ack" => state[fact.run] = "failed"

\* A settled run is never moved again, a committed manifest and a stored
\* result are never replaced, and a queued report is never withdrawn.
NothingIsRevised ==
    [][\A r \in Run :
          /\ state[r] \in Terminal => state'[r] = state[r]
          /\ manifest[r] # None => manifest'[r] = manifest[r]
          /\ result[r] # None => result'[r] = result[r]
          /\ reports[r] \subseteq reports'[r]]_vars

\* reaper.rs: every accepted run settles, whatever the executor, Knowledge and
\* restarts do.
EventuallySettled ==
    \A r \in Run : state[r] # "absent" ~> state[r] \in Terminal

\* bus.rs publish_outbox, reports.rs: the operation of every accepted on-demand
\* run is told of its end.
EventuallyReported ==
    \A r \in OnDemand :
        state[r] # "absent" ~> reportSent[r] \cap TerminalStatus # {}

-----------------------------------------------------------------------------
(***************************************************************************)
(* The rows of the outbox, read as the status of the run's operation.      *)
(***************************************************************************)
OperationStatus(r) ==
    CASE "succeeded" \in reports[r]           -> "succeeded"
      [] "partially_succeeded" \in reports[r] -> "partially_succeeded"
      [] "failed" \in reports[r]              -> "failed"
      [] reports[r] \cap TerminalStatus = {} /\ "running" \in reports[r] -> "running"
      [] reports[r] = {"queued"}              -> "queued"
      [] OTHER                                -> "none"

Contract == INSTANCE OperationContract
            WITH Operation <- OnDemand,
                 status <- [r \in OnDemand |-> OperationStatus(r)]

\* reports.rs: the reports queued for the on-demand runs keep the operation
\* contract: queued, then running, then one terminal status, which always
\* comes.
ImplementsContract == Contract!Spec

\* The same without the promise that the operation ends: every step of the
\* service is a step of the contract, or none of its business.
ContractSteps ==
    Contract!Init /\ [][Contract!Next]_[r \in OnDemand |-> OperationStatus(r)]

-----------------------------------------------------------------------------
(***************************************************************************)
(* Why the properties hold: the inductive invariant, in named parts.       *)
(***************************************************************************)

\* How far the reports of an on-demand run have come, by its state.
ReportHistory ==
    \A r \in OnDemand :
        /\ state[r] = "absent" => reports[r] = {}
        /\ state[r] = "accepted" => reports[r] = {"queued"}
        /\ state[r] \in {"acquiring", "waiting_recap"} => reports[r] = {"queued", "running"}
        /\ state[r] \in {"completed", "partial"} => "running" \in reports[r]

\* The executor works on a run that only the reaper can take from it, and
\* past the beginning an open one is acquiring; at the commit the stored flag
\* is its own.
ExecutorHolds ==
    /\ exPc # "idle" => /\ state[exRun] \in Executing \cup {"failed"}
                        /\ manifest[exRun] = None
    /\ exPc \notin {"idle", "begin"} => state[exRun] # "accepted"
    /\ exPc = "commit" => incomplete[exRun] = exIncomplete

\* Facts answer published requests, and a published request was queued.
AnswersRequests ==
    /\ requestSent \subseteq requested
    /\ \A f \in stream : f.run \in requestSent
    /\ busPc # "idle" => fact.run \in requestSent

\* What the bus task has read is still true when its transaction begins.
BusHolds ==
    /\ busPc \in {"existing", "durable", "settle"} /\ fact.kind = "completed" =>
          flag = incomplete[fact.run]
    /\ busPc \in {"durable", "settle"} /\ fact.kind = "completed" =>
          \A r \in Run : result[r] # None => result[r].id # fact.result
    /\ busPc = "settle" => manifest[fact.run].digest = fact.digest

\* The flag of a committed run says what its manifest was built from, the
\* outcome of a stored result follows from it, and the inbox remembers only
\* facts that were applied.
Provenance ==
    /\ \A r \in Run : manifest[r] # None => manifest[r].whole = ~incomplete[r]
    /\ \A r \in Run : result[r] # None =>
          result[r].outcome =
              IF result[r].id = OwnId THEN "failed"
              ELSE IF result[r].omitted \/ ~manifest[r].whole THEN "partial"
              ELSE "completed"
    /\ \A x \in ResultId : <<"completed", x>> \in inbox =>
          \E r \in Run : result[r] # None /\ result[r].id = x
    /\ \A r \in Run : <<"failed", r>> \in inbox => state[r] = "failed"

IInv ==
    /\ TypeOK /\ ReportsMatchState /\ EvidenceChain /\ HonestCompletion
    /\ VerdictMatchesRecord /\ ReportHistory /\ ExecutorHolds /\ AnswersRequests
    /\ BusHolds /\ Provenance
=============================================================================
