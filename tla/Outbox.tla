-------------------------------- MODULE Outbox --------------------------------
(***************************************************************************)
(* The transactional outbox between the database, the bus task and the     *)
(* broker (bus.rs, registration.rs, envelopes.rs, reports.rs enqueue).     *)
(* Handlers and background tasks queue rows in the transaction that        *)
(* changes the state they report; the bus task publishes the due rows, in  *)
(* passes, oldest first; a row that is not acknowledged is backed off and  *)
(* the session ends.  A delivery is acknowledged only after a pass without *)
(* refusals.                                                               *)
(*                                                                         *)
(* The rows are the reports of the operations, a running one and a final   *)
(* one each, and the schedule registrations, one per configuration (the    *)
(* semantic key).  A row's id stands for its outbox_id and its created_at, *)
(* which rise together; the message the row is wrapped into is a function  *)
(* of the row (wrap_outbox_row) and has the row's id as its message id, so *)
(* the broker drops a message it has stored within its duplicate window.   *)
(***************************************************************************)
EXTENDS Naturals, FiniteSets

CONSTANTS
    Operation,     \* operations owned by runs on demand
    Config,        \* the schedule configurations the worker may start with
    Earlier,       \* the one an earlier process registered, or None
    None,          \* no configuration, no delivery, nothing registered
    Denied,        \* rows, recap requests say, on a subject the broker denies
    Batch,         \* bus.rs: rows one pass reads
    MaxRestarts,   \* bound: times the process ends
    MaxFaults      \* bound: lost messages, refusals, storage errors

Running(o) == <<o, "running">>
Final(o)   == <<o, "final">>
Report     == Operation \X {"running", "final"}
Key        == Report \cup Config \cup Denied
MaxId      == Cardinality(Report \cup Denied) + MaxRestarts + 2
Id         == 1 .. MaxId

ASSUME OutboxAssumption ==
    /\ IsFiniteSet(Operation) /\ IsFiniteSet(Config) /\ IsFiniteSet(Denied)
    /\ Earlier \in Config \cup {None}
    /\ None \notin Key /\ None \notin Operation
    /\ Config \cap Report = {} /\ Denied \cap (Report \cup Config) = {}
    /\ Batch \in Nat \ {0} /\ MaxRestarts \in Nat /\ MaxFaults \in Nat

VARIABLES
    \* the database
    row,         \* outbox_messages by semantic key: id (0: no row) and state
    next,        \* the next outbox_id and created_at
    \* the worker process
    config,      \* the schedule it was started with
    pc,          \* where the bus task is
    batch,       \* the rows of the pass that are still to be published
    refused,     \* the pass met a refused row
    delivery,    \* the delivery in hand
    \* the broker, Platform
    stored,      \* ids of the messages on the stream
    recent,      \* registrations still within the duplicate window
    schedule,    \* the last registration on the stream, Platform's schedule
    inbox,       \* deliveries not acknowledged yet
    \* history, read by no operation
    everRefused, \* keys whose publication was refused once
    restarts, faults

database == <<row, next>>
bus      == <<pc, batch, refused, delivery>>
broker   == <<stored, recent, schedule, inbox>>
vars     == <<database, config, bus, broker, everRefused, restarts, faults>>

RowState == {"absent", "due", "waiting", "published"}
NoRow    == [id |-> 0, state |-> "absent"]

Init ==
    /\ config = Earlier /\ schedule = Earlier
    /\ row = [k \in Key |-> IF k = Earlier THEN [id |-> 1, state |-> "published"] ELSE NoRow]
    /\ next = IF Earlier = None THEN 1 ELSE 2
    /\ stored = {i \in Id : i < next} /\ recent = stored
    /\ pc = "off" /\ batch = {} /\ refused = FALSE
    /\ delivery = None
    /\ inbox = Operation
    /\ everRefused = {} /\ restarts = 0 /\ faults = 0

Fault == faults < MaxFaults /\ faults' = faults + 1

-----------------------------------------------------------------------------
(* Queueing. *)

NewRow == [id |-> next, state |-> "due"]

\* A mutant: a row of that key is queued anew.
EnqueueAnew(k) == row' = [row EXCEPT ![k] = NewRow] /\ next' = next + 1

\* enqueue: a row of that key stays as it is.
Enqueue(k) ==
    IF row[k] = NoRow THEN row' = [row EXCEPT ![k] = NewRow] /\ next' = next + 1
                      ELSE UNCHANGED database

\* A background task queues a row: the executor its claim, a recap request, a
\* failure or an empty window, the reaper an overdue run.
Queue(k) ==
    /\ pc # "off" /\ row[k] = NoRow
    /\ \A o \in Operation : k = Final(o) => row[Running(o)] # NoRow
    /\ Enqueue(k)
    /\ UNCHANGED <<config, bus, broker, everRefused, restarts, faults>>

Registered == {c \in Config : row[c] # NoRow}
Latest     == {c \in Registered : \A d \in Registered : row[d].id <= row[c].id}

\* A mutant: a configuration queued before keeps its identity.
StartKeepingIdentity(c) ==
    /\ pc = "off" /\ pc' = "down"
    /\ config' = c
    /\ IF c = None \/ c \in Latest
       THEN UNCHANGED database
       ELSE IF c \in Registered
       THEN row' = [row EXCEPT ![c].state = "due"] /\ UNCHANGED next
       ELSE row' = [row EXCEPT ![c] = NewRow] /\ next' = next + 1
    /\ UNCHANGED <<batch, refused, delivery, broker, everRefused, restarts, faults>>

\* The worker starts: enqueue_schedule_registration, before the bus task.  A
\* configuration queued before gets a new identity and is unpublished again.
Start(c) ==
    /\ pc = "off" /\ pc' = "down"
    /\ config' = c
    /\ IF c = None \/ c \in Latest
       THEN UNCHANGED database
       ELSE row' = [row EXCEPT ![c] = NewRow] /\ next' = next + 1
    /\ UNCHANGED <<batch, refused, delivery, broker, everRefused, restarts, faults>>

-----------------------------------------------------------------------------
(* The session of the bus task. *)

EndSession(to) == pc' = to /\ batch' = {} /\ refused' = FALSE
                  /\ delivery' = None

\* The process ends, at any point.
Stop ==
    /\ pc # "off" /\ restarts < MaxRestarts
    /\ restarts' = restarts + 1
    /\ EndSession("off")
    /\ UNCHANGED <<database, config, broker, everRefused, faults>>

\* The connection or the database fails between two steps of consume_once.
Break ==
    /\ pc \notin {"off", "down"}
    /\ Fault
    /\ EndSession("down")
    /\ UNCHANGED <<database, config, broker, everRefused, restarts>>

Due == {k \in Key : row[k].state = "due"}

\* publish_outbox reads the oldest due rows.
BeginPass ==
    /\ batch' = {k \in Due : Cardinality({j \in Due : row[j].id < row[k].id}) < Batch}
    /\ refused' = FALSE
    /\ pc' = "publish"

\* connect and verify_consumers, and the first pass.
Connect ==
    /\ pc = "down"
    /\ BeginPass
    /\ UNCHANGED <<database, config, delivery, broker, everRefused, restarts, faults>>

\* outbox_tick; or a delivery the handler could not store, which is negatively
\* acknowledged after the pass and comes back: it changes nothing else.
Tick ==
    /\ pc = "listen"
    /\ BeginPass
    /\ UNCHANGED <<database, config, delivery, broker, everRefused, restarts, faults>>

\* process_delivery: the handler commits its report.
Receive(o) ==
    /\ pc = "listen" /\ pc' = "handled"
    /\ o \in inbox /\ row[Running(o)] # NoRow
    /\ delivery' = o
    /\ Enqueue(Final(o))
    /\ UNCHANGED <<config, batch, refused, broker, everRefused, restarts, faults>>

\* The pass between the handler and the acknowledgement.
PassForDelivery ==
    /\ pc = "handled"
    /\ BeginPass
    /\ UNCHANGED <<database, config, delivery, broker, everRefused, restarts, faults>>

\* ack_with, after the pass.
Acknowledge ==
    /\ pc = "ack" /\ pc' = "listen"
    /\ inbox' = inbox \ {delivery}
    /\ delivery' = None
    /\ UNCHANGED <<database, config, batch, refused, stored, recent, schedule,
                   everRefused, restarts, faults>>

-----------------------------------------------------------------------------
(* The rows of a pass, one after the other. *)

\* A mutant: newest first.
NextByAge(k) == k \in batch /\ \A j \in batch : row[k].id >= row[j].id

\* order by created_at, outbox_id.
NextInBatch(k) == k \in batch /\ \A j \in batch : row[k].id <= row[j].id

\* wrap_outbox_row: a row published again is the same message again.
MessageId(k) == row[k].id

\* The broker stores a message it has not stored recently.  That a report may be
\* stored twice makes no difference to the order of the first ones, so only the
\* registrations are followed through the duplicate window.
Store(k) ==
    /\ stored' = stored \cup {MessageId(k)}
    /\ IF k \in Config /\ MessageId(k) \notin recent
       THEN recent' = recent \cup {MessageId(k)} /\ schedule' = k
       ELSE UNCHANGED <<recent, schedule>>
    /\ UNCHANGED inbox

\* publish_message returns ok.
Accept(k) ==
    /\ pc = "publish" /\ NextInBatch(k)
    /\ k \notin Denied
    /\ Store(k)
    /\ pc' = "mark"
    /\ UNCHANGED <<database, config, batch, refused, delivery, everRefused,
                   restarts, faults>>

\* The broker's acknowledgement is recorded; a crash before it repeats the row.
Mark(k) ==
    /\ pc = "mark" /\ NextInBatch(k) /\ pc' = "publish"
    /\ row' = [row EXCEPT ![k].state = "published"]
    /\ batch' = batch \ {k}
    /\ UNCHANGED <<next, config, refused, delivery, broker, everRefused, restarts, faults>>

\* A mutant: a refused row is marked like an accepted one.
RefuseAndMark(k) ==
    /\ pc = "publish" /\ NextInBatch(k)
    /\ k \in Denied \/ Fault
    /\ row' = [row EXCEPT ![k].state = "published"]
    /\ batch' = batch \ {k}
    /\ UNCHANGED <<pc, next, config, refused, delivery, broker, everRefused, restarts>>
    /\ k \in Denied => UNCHANGED faults

\* A mutant: a refused row ends the pass and stays due.
RefuseAndReturn(k) ==
    /\ pc = "publish" /\ NextInBatch(k)
    /\ k \in Denied /\ UNCHANGED faults
    /\ EndSession("down")
    /\ UNCHANGED <<database, config, broker, everRefused, restarts>>

\* publish_message returns an error, for a message that was not stored or only
\* its acknowledgement was lost; the row is backed off, the next one follows.
Refuse(k) ==
    /\ pc = "publish" /\ NextInBatch(k)
    /\ \/ k \in Denied /\ UNCHANGED <<broker, faults>>
       \/ k \notin Denied /\ Fault /\ UNCHANGED broker
       \/ k \notin Denied /\ Fault /\ Store(k)
    /\ row' = [row EXCEPT ![k].state = "waiting"]
    /\ batch' = batch \ {k}
    /\ refused' = TRUE
    /\ everRefused' = everRefused \cup {k}
    /\ UNCHANGED <<pc, next, config, delivery, restarts>>

\* The pass is over: an error when a row was refused.
EndPass ==
    /\ pc = "publish" /\ batch = {}
    /\ IF refused THEN EndSession("down")
       ELSE /\ pc' = IF delivery = None THEN "listen" ELSE "ack"
            /\ UNCHANGED <<batch, refused, delivery>>
    /\ UNCHANGED <<database, config, broker, everRefused, restarts, faults>>

\* next_attempt_at is reached; that a pass takes longer than it is a fault.
BackOffOver(k) ==
    /\ row[k].state = "waiting"
    /\ row' = [row EXCEPT ![k].state = "due"]
    /\ IF pc \in {"off", "down", "listen"} THEN UNCHANGED faults ELSE Fault
    /\ UNCHANGED <<next, config, bus, broker, everRefused, restarts>>

\* A message leaves the broker's duplicate window.
Forget(i) ==
    /\ i \in recent
    /\ recent' = recent \ {i}
    /\ UNCHANGED <<database, config, bus, stored, schedule, inbox, everRefused,
                   restarts, faults>>

Next ==
    \/ \E c \in Config \cup {None} : Start(c)
    \/ Stop \/ Break \/ Connect \/ Tick \/ PassForDelivery \/ Acknowledge
    \/ EndPass
    \/ \E o \in Operation : Receive(o)
    \/ \E k \in Report \cup Denied : Queue(k)
    \/ \E k \in Key : Accept(k) \/ Mark(k) \/ Refuse(k) \/ BackOffOver(k)
    \/ \E i \in Id : Forget(i)

Spec == Init /\ [][Next]_vars

\* No denied row is due.
Quiet == Due \cap Denied = {}

\* The steps of the process that need nothing but its being run.
BusStep ==
    \/ \E c \in Config \cup {None} : Start(c)
    \/ Connect \/ Tick \/ PassForDelivery \/ EndPass \/ Acknowledge
    \/ \E k \in Key : Accept(k) \/ Mark(k) \/ (k \in Denied /\ Refuse(k))

\* The process is started again, the bus task goes on, back-offs run out and
\* runs are claimed.  A refused row's back-off doubles up to 256 seconds, while a
\* session is tried again after one second and a delivery comes within thirty:
\* again and again a session starts, and a delivery is received, while the denied
\* rows are backed off.
Fairness ==
    /\ WF_vars(BusStep)
    /\ SF_vars(\E k \in Key \ Denied : BackOffOver(k))
    /\ SF_vars(Quiet /\ Connect)
    /\ \A o \in Operation : SF_vars(Quiet /\ Receive(o))

FairSpec == Spec /\ Fairness

-----------------------------------------------------------------------------
(* What must hold. *)

\* Every variable holds a value of its kind, and a key is never queued so often
\* that its identities run out: reports once, registrations once per start.
TypeOK ==
    /\ row \in [Key -> [id : 0 .. MaxId, state : RowState]]
    /\ next \in 1 .. MaxId + 1
    /\ config \in Config \cup {None}
    /\ pc \in {"off", "down", "listen", "handled", "publish", "mark", "ack"}
    /\ batch \subseteq Key /\ refused \in BOOLEAN
    /\ delivery \in Operation \cup {None}
    /\ stored \subseteq Id /\ recent \subseteq stored
    /\ schedule \in Config \cup {None} /\ inbox \subseteq Operation
    /\ everRefused \subseteq Key
    /\ restarts \in 0 .. MaxRestarts /\ faults \in 0 .. MaxFaults

\* publish_outbox: a row that is marked published is on the stream, under the identity it has
\* now, whatever was lost, repeated or restarted between the broker and the mark.
PublishedIsDelivered ==
    \A k \in Key : row[k].state = "published" => MessageId(k) \in stored

OnStream(k) == MessageId(k) \in stored

\* publish_outbox: the final report of an operation reaches the stream before its running
\* report only when the running one was refused: batches, restarts, repeated
\* publications and broken sessions keep the order the rows were queued in.
ReportsInOrder ==
    \A o \in Operation :
        OnStream(Final(o)) => OnStream(Running(o)) \/ Running(o) \in everRefused

Settled == \A c \in Config : row[c].state \in {"absent", "published"}

\* "a changed one registers again, and returning to an earlier configuration
\* registers it again": once every registration is published, Platform has the
\* configuration the worker was started with.
RegisteredIsConfigured ==
    pc # "off" /\ config # None /\ Settled => schedule = config

\* registration.rs: the same, as long as no registration was refused: through restarts, changes
\* of the configuration and back, a crash between the publication and the mark,
\* and the broker's removal of duplicates.
ScheduleConverges == everRefused \cap Config = {} => RegisteredIsConfigured

\* bus.rs, "one refused row never starves the others": again and again every
\* queued row that the broker does not deny is published and every delivery whose
\* run was claimed is acknowledged.  A refused row, which ends session after
\* session, holds up neither the rows behind it nor the deliveries, and nothing is
\* forgotten over a fault or a restart.
EverythingGoesOut ==
    []<>(/\ \A k \in Key \ Denied : row[k].state \in {"absent", "published"}
         /\ \A o \in Operation : row[Running(o)] # NoRow => o \notin inbox)
=============================================================================
