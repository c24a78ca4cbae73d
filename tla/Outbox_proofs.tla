----------------------------- MODULE Outbox_proofs -----------------------------
(***************************************************************************)
(* What the outbox promises about rows, reports and registrations, for any *)
(* operations, configurations, batch size and number of faults and         *)
(* restarts: a row is marked published only when its message is on the     *)
(* stream; the reports of an operation reach the stream in the order they  *)
(* were queued in unless the first was refused; the identities never run   *)
(* out; and Platform's schedule converges to the configuration as long as  *)
(* no registration is refused.                                             *)
(***************************************************************************)
EXTENDS Outbox, FiniteSetTheorems, TLAPS

Typed ==
    /\ row \in [Key -> [id : Nat, state : RowState]]
    /\ next \in Nat \ {0}
    /\ batch \subseteq Key /\ stored \subseteq Nat /\ everRefused \subseteq Key

\* Identities: below the next one, no two rows share one, and a stored one was
\* given to some row.
Identified ==
    /\ \A k \in Key : /\ row[k].id < next
                      /\ row[k].id = 0 <=> row[k].state = "absent"
    /\ \A j, k \in Key : row[j].id = row[k].id /\ row[j].id # 0 => j = k
    /\ \A i \in stored : i # 0 /\ i < next

\* The pass: its rows exist; between the broker's acknowledgement and the mark the
\* next row of the pass is on the stream; a row that waits was refused.
Passing ==
    /\ \A k \in batch : row[k].id # 0
    /\ pc = "mark" => \A k \in batch : NextInBatch(k) => OnStream(k)
    /\ \A k \in Key : row[k].state = "waiting" => k \in everRefused

\* The reports of an operation: queued in order, and a pass that holds the final one
\* holds the running one too, as long as that is to be published at all.
Ordered ==
    \A o \in Operation :
        /\ row[Final(o)].id # 0 => /\ row[Running(o)].id # 0
                                   /\ row[Running(o)].id < row[Final(o)].id
        /\ Final(o) \in batch => \/ Running(o) \in batch \/ OnStream(Running(o))
                                 \/ Running(o) \in everRefused

\* publish_outbox, enqueue: what makes PublishedIsDelivered and ReportsInOrder
\* inductive.
IInv == Typed /\ Identified /\ Passing /\ Ordered /\ PublishedIsDelivered /\ ReportsInOrder

-----------------------------------------------------------------------------
\* The keys of reports are distinct from one another and from configurations.
LEMMA ReportKeys ==
    ASSUME NEW o \in Operation
    PROVE  /\ Running(o) \in Key /\ Final(o) \in Key
           /\ Running(o) \notin Config /\ Final(o) \notin Config
           /\ \A p \in Operation : /\ Running(o) # Final(p)
                                   /\ Running(o) = Running(p) => o = p
                                   /\ Final(o) = Final(p) => o = p
<1>1. Running(o) \in Report /\ Final(o) \in Report
  BY DEF Running, Final, Report
<1>2. QED
  BY <1>1, OutboxAssumption DEF Running, Final, Key

\* There are finitely many keys, and at least one identity.
LEMMA FiniteKeys == IsFiniteSet(Key) /\ MaxId \in Nat /\ MaxId >= 1
<1>1. IsFiniteSet({"running", "final"})
  <2>1. {"running", "final"} = {"running"} \cup {"final"}
    OBVIOUS
  <2>2. IsFiniteSet({"running"})
    BY FS_Singleton, Zenon
  <2>3. IsFiniteSet({"running"} \cup {"final"})
    BY <2>2, FS_AddElement
  <2>4. QED
    BY <2>1, <2>3
<1>2. IsFiniteSet(Report)
  BY <1>1, FS_Product, OutboxAssumption DEF Report
<1>3. IsFiniteSet(Report \cup Denied)
  BY <1>2, FS_Union, OutboxAssumption
<1>4. IsFiniteSet(Key)
  BY <1>2, FS_Union, OutboxAssumption DEF Key
<1>5. Cardinality(Report \cup Denied) \in Nat
  BY <1>3, FS_CardinalityType
<1>6. QED
  BY <1>4, <1>5, OutboxAssumption DEF MaxId

\* A row is absent exactly if it has no identity.
LEMMA Absent ==
    ASSUME Typed, Identified, NEW k \in Key
    PROVE  row[k] = NoRow <=> row[k].id = 0
BY DEF Typed, Identified, NoRow, RowState

LEMMA InitInv == Init => IInv
<1> SUFFICES ASSUME Init PROVE IInv
  OBVIOUS
<1> USE DEF Init, NoRow
<1>1. 1 \in Id
  BY FiniteKeys DEF Id
<1>2. Typed
  BY DEF Typed, RowState, Id
<1>3. \A k \in Key : row[k].id # 0 => k = Earlier /\ row[k].id = 1 /\ next = 2
  BY OutboxAssumption
<1>4. Identified
  BY <1>2, <1>3 DEF Identified, Id, Typed
<1>5. PublishedIsDelivered
  BY <1>1, <1>3, OutboxAssumption DEF PublishedIsDelivered, MessageId
<1>6. Passing
  BY DEF Passing
<1>7. Ordered /\ ReportsInOrder
  <2> SUFFICES ASSUME NEW o \in Operation
               PROVE  row[Final(o)].id = 0 /\ ~OnStream(Final(o)) /\ Final(o) \notin batch
    BY DEF Ordered, ReportsInOrder
  <2>1. Final(o) # Earlier /\ Final(o) \in Key
    BY ReportKeys, OutboxAssumption DEF Key
  <2> QED
    BY <2>1, <1>4 DEF OnStream, MessageId, Identified
<1>8. QED
  BY <1>2, <1>4, <1>5, <1>6, <1>7 DEF IInv

-----------------------------------------------------------------------------
\* Rows are queued: a report or a request once, behind what its operation has
\* queued before.
LEMMA QueueInv ==
    ASSUME IInv, NEW k \in Key, row[k] = NoRow,
           \A o \in Operation : k = Final(o) => row[Running(o)] # NoRow,
           row' = [row EXCEPT ![k] = NewRow], next' = next + 1,
           UNCHANGED <<batch, stored, everRefused>>, pc' = "mark" => pc = "mark"
    PROVE  IInv'
<1> USE DEF IInv
<1>1. row[k].id = 0 /\ k \notin batch
  BY Absent DEF Passing
<1>2. row'[k] = NewRow /\ \A j \in Key \ {k} : row'[j] = row[j]
  BY DEF Typed
<1>3. Typed'
  BY DEF Typed, NewRow, RowState
<1>4. Identified'
  BY <1>2, <1>3 DEF Identified, NewRow, Typed
<1>5. Passing'
  BY <1>1, <1>2 DEF Passing, NewRow, NextInBatch, OnStream, MessageId, Typed
<1>6. PublishedIsDelivered'
  BY <1>2 DEF PublishedIsDelivered, MessageId, NewRow
<1>7. ASSUME NEW o \in Operation
      PROVE  /\ (row[Final(o)].id # 0 => row[Running(o)].id # 0
                                         /\ row[Running(o)].id < row[Final(o)].id)'
             /\ OnStream(Running(o)) => OnStream(Running(o))'
             /\ OnStream(Final(o))' => OnStream(Final(o))
  <2> DEFINE r == Running(o)
             f == Final(o)
  <2>1. r \in Key /\ f \in Key /\ r # f
    BY ReportKeys
  <2>2. row[f].id # 0 => row[r].id # 0 /\ row[r].id < row[f].id
    BY DEF Ordered
  <2>3. k = f => row[r].id # 0
    BY <2>1, Absent
  <2>4. row[r].id < next /\ row[r].id \in Nat /\ row[f].id \in Nat /\ next \in Nat \ {0}
    BY <2>1 DEF Identified, Typed
  <2>5. next \notin stored /\ 0 \notin stored
    BY DEF Identified, Typed
  <2>6. row'[k].id = next
    BY <1>2 DEF NewRow
  <2> HIDE DEF r, f
  <2>7. /\ row'[f].id # 0 => row'[r].id # 0 /\ row'[r].id < row'[f].id
        /\ row[r].id \in stored => row'[r].id \in stored
        /\ row'[f].id \in stored => row[f].id \in stored
    BY <1>1, <1>2, <2>1, <2>2, <2>3, <2>4, <2>5, <2>6
  <2> QED
    BY <2>7 DEF OnStream, MessageId, r, f
<1>8. Ordered' /\ ReportsInOrder'
  BY <1>7 DEF Ordered, ReportsInOrder
<1>9. QED
  BY <1>3, <1>4, <1>5, <1>6, <1>8

\* A registration is queued, or queued again under a new identity.
LEMMA StartInv ==
    ASSUME IInv, NEW c \in Config \cup {None}, Start(c)
    PROVE  IInv'
<1> USE DEF IInv
<1>1. CASE UNCHANGED database
  BY <1>1 DEF Start, database, broker, Typed, Identified, Passing, Ordered,
     PublishedIsDelivered, ReportsInOrder, OnStream, MessageId
<1>2. CASE c \in Config /\ row' = [row EXCEPT ![c] = NewRow] /\ next' = next + 1
  <2> USE <1>2
  <2>1. UNCHANGED <<batch, stored, everRefused>> /\ pc' = "down" /\ c \in Key
    BY DEF Start, broker, Key
  <2>2. row'[c] = NewRow /\ \A j \in Key \ {c} : row'[j] = row[j]
    BY <2>1 DEF Typed
  <2>3. Typed'
    BY <2>1 DEF Typed, NewRow, RowState
  <2>4. Identified'
    BY <2>1, <2>2, <2>3 DEF Identified, NewRow, Typed
  <2>5. Passing'
    BY <2>1, <2>2 DEF Passing, NewRow, Typed
  <2>6. PublishedIsDelivered'
    BY <2>1, <2>2 DEF PublishedIsDelivered, MessageId, NewRow
  <2>7. \A o \in Operation : /\ row'[Running(o)] = row[Running(o)]
                             /\ row'[Final(o)] = row[Final(o)]
    BY <2>2, ReportKeys
  <2>8. Ordered' /\ ReportsInOrder'
    BY <2>1, <2>7 DEF Ordered, ReportsInOrder, OnStream, MessageId
  <2> QED
    BY <2>3, <2>4, <2>5, <2>6, <2>8
<1>3. QED
  BY <1>1, <1>2 DEF Start

\* A pass begins with the oldest due rows: with a final report it takes the running
\* one, unless that is published or backed off.
LEMMA BeginPassInv ==
    ASSUME IInv, BeginPass, UNCHANGED <<database, broker, everRefused>>
    PROVE  IInv'
<1> USE DEF IInv
<1>1. UNCHANGED <<row, next, stored, everRefused>> /\ pc' = "publish" /\ batch' \subseteq Due
  BY DEF BeginPass, database, broker
<1>2. Typed' /\ Identified' /\ PublishedIsDelivered' /\ ReportsInOrder'
  BY <1>1 DEF Typed, Identified, PublishedIsDelivered, ReportsInOrder, OnStream,
     MessageId, Due
<1>3. Passing'
  BY <1>1 DEF Passing, Due, Identified
<1>4. ASSUME NEW o \in Operation, Final(o) \in batch', Running(o) \in Due
      PROVE  Running(o) \in batch'
  <2> DEFINE older(k) == {j \in Due : row[j].id < row[k].id}
  <2>1. Running(o) \in Key /\ Final(o) \in Key
    BY ReportKeys
  <2>2. row[Running(o)].id < row[Final(o)].id
    BY <1>1, <1>4 DEF Ordered, Due, Identified
  <2>3. older(Running(o)) \in SUBSET older(Final(o))
    BY <2>1, <2>2 DEF Typed, Due
  <2>4. IsFiniteSet(older(Final(o)))
    BY FiniteKeys, FS_Subset DEF Due
  <2>5. /\ Cardinality(older(Running(o))) <= Cardinality(older(Final(o)))
        /\ IsFiniteSet(older(Running(o)))
    BY <2>3, <2>4, FS_Subset
  <2>6. Cardinality(older(Running(o))) \in Nat /\ Cardinality(older(Final(o))) \in Nat
    BY <2>4, <2>5, FS_CardinalityType
  <2>7. Cardinality(older(Final(o))) < Batch
    BY <1>4 DEF BeginPass
  <2>8. Cardinality(older(Running(o))) < Batch
    BY <2>5, <2>6, <2>7, OutboxAssumption
  <2> QED
    BY <1>4, <2>8 DEF BeginPass
<1>5. Ordered'
  <2> SUFFICES ASSUME NEW o \in Operation, Final(o) \in batch'
               PROVE  Running(o) \in batch' \/ OnStream(Running(o)) \/ Running(o) \in everRefused
    BY <1>1 DEF Ordered, OnStream, MessageId
  <2>1. Running(o) \in Key /\ Final(o) \in Key
    BY ReportKeys
  <2>2. row[Running(o)].state \in {"due", "waiting", "published"}
    BY <1>1, <2>1 DEF Ordered, Due, Identified, Typed, RowState
  <2> QED
    BY <1>4, <2>1, <2>2 DEF Due, Passing, PublishedIsDelivered, OnStream
<1>6. QED
  BY <1>2, <1>3, <1>5

\* When a final report is the next row of a pass, its running report is behind it.
LEMMA FinalComesSecond ==
    ASSUME IInv, NEW k \in Key, NextInBatch(k),
           NEW o \in Operation, row[Final(o)].id = row[k].id
    PROVE  OnStream(Running(o)) \/ Running(o) \in everRefused
<1> USE DEF IInv
<1>1. Final(o) \in Key /\ Running(o) \in Key
  BY ReportKeys
<1>2. row[k].id # 0 /\ Final(o) = k /\ k \in batch
  BY <1>1 DEF Passing, Identified, NextInBatch
<1>3. row[Running(o)].id < row[k].id
  BY <1>2 DEF Ordered
<1>4. Running(o) \notin batch
  BY <1>1, <1>3 DEF NextInBatch, Typed
<1>5. QED
  BY <1>2, <1>4 DEF Ordered

\* A row is taken off the pass or gets another state; its message may be stored.
LEMMA RowInv ==
    ASSUME IInv, NEW k \in Key, NEW s \in RowState \ {"absent"}, row[k].id # 0,
           row' = [row EXCEPT ![k].state = s], UNCHANGED next,
           stored' = stored \/ (NextInBatch(k) /\ stored' = stored \cup {MessageId(k)}),
           batch' = batch \/ batch' = batch \ {k},
           everRefused' = everRefused \/ everRefused' = everRefused \cup {k},
           k \notin batch' => s \in {"published", "waiting"} \/ batch' = batch,
           s = "published" => OnStream(k),
           s = "waiting" => k \in everRefused',
           pc' = "mark" => pc = "mark" /\ batch' = batch
    PROVE  IInv'
<1> USE DEF IInv
<1>1. /\ \A j \in Key : row'[j].id = row[j].id
      /\ \A j \in Key \ {k} : row'[j].state = row[j].state
      /\ row'[k].state = s
  BY DEF Typed
<1>2. stored \subseteq stored' /\ everRefused \subseteq everRefused' /\ batch' \subseteq batch
  OBVIOUS
<1>3. Typed'
  BY DEF Typed, MessageId
<1>4. Identified'
  BY <1>1, <1>3 DEF Identified, MessageId, Typed
<1>5. Passing'
  BY <1>1, <1>2 DEF Passing, NextInBatch, OnStream, MessageId, Typed
<1>6. PublishedIsDelivered'
  BY <1>1, <1>2 DEF PublishedIsDelivered, OnStream, MessageId
<1>7. ASSUME NEW o \in Operation
      PROVE  /\ row'[Running(o)].id = row[Running(o)].id
             /\ row'[Final(o)].id = row[Final(o)].id
             /\ Running(o) \in Key /\ Final(o) \in Key
  BY <1>1, ReportKeys
<1>8. Ordered'
  BY <1>2, <1>7 DEF Ordered, OnStream, MessageId
<1>9. ReportsInOrder'
  <2> SUFFICES ASSUME NEW o \in Operation, OnStream(Final(o))'
               PROVE  OnStream(Running(o))' \/ Running(o) \in everRefused'
    BY DEF ReportsInOrder
  <2>1. OnStream(Running(o)) => OnStream(Running(o))'
    BY <1>2, <1>7 DEF OnStream, MessageId
  <2>2. CASE OnStream(Final(o))
    BY <2>1, <2>2, <1>2 DEF ReportsInOrder
  <2>3. CASE ~OnStream(Final(o))
    <3>1. NextInBatch(k) /\ row[Final(o)].id = row[k].id
      BY <2>3, <1>7 DEF OnStream, MessageId
    <3> QED
      BY <3>1, <2>1, <1>2, FinalComesSecond
  <2> QED
    BY <2>2, <2>3
<1>10. QED
  BY <1>3, <1>4, <1>5, <1>6, <1>8, <1>9

\* The broker accepts the next row of the pass.
LEMMA AcceptInv ==
    ASSUME IInv, NEW k \in Key, Accept(k)
    PROVE  IInv'
<1> USE DEF IInv
<1>1. /\ NextInBatch(k) /\ k \in batch /\ stored' = stored \cup {MessageId(k)}
      /\ UNCHANGED <<row, next, batch, everRefused>>
  BY DEF Accept, Store, database, NextInBatch
<1>2. Typed' /\ PublishedIsDelivered'
  BY <1>1 DEF Typed, PublishedIsDelivered, MessageId
<1>3. Identified'
  BY <1>1 DEF Identified, Passing, MessageId
<1>4. Passing'
  <2>1. ASSUME NEW j \in batch, NextInBatch(j) PROVE row[j].id = row[k].id
    BY <1>1, <2>1 DEF NextInBatch, Typed
  <2> QED
    BY <1>1, <2>1 DEF Passing, OnStream, MessageId, NextInBatch
<1>5. Ordered'
  BY <1>1 DEF Ordered, OnStream, MessageId
<1>6. ReportsInOrder'
  BY <1>1, FinalComesSecond DEF ReportsInOrder, OnStream, MessageId
<1>7. QED
  BY <1>2, <1>3, <1>4, <1>5, <1>6

\* A refusal backs the row off, a mark publishes it, a back-off ends.
LEMMA PublishInv ==
    ASSUME IInv, NEW k \in Key, Refuse(k) \/ Mark(k) \/ BackOffOver(k)
    PROVE  IInv'
<1>1. CASE Refuse(k)
  <2>1. row[k].id # 0 /\ NextInBatch(k)
    BY <1>1 DEF Refuse, IInv, Passing, NextInBatch
  <2>2. stored' = stored \/ stored' = stored \cup {MessageId(k)}
    BY <1>1 DEF Refuse, Store, broker
  <2>3. "waiting" \in RowState \ {"absent"}
    BY DEF RowState
  <2>4. /\ row' = [row EXCEPT ![k].state = "waiting"] /\ UNCHANGED next
        /\ batch' = batch \ {k} /\ everRefused' = everRefused \cup {k}
        /\ pc' # "mark"
    BY <1>1 DEF Refuse
  <2> QED
    BY <2>1, <2>2, <2>3, <2>4, RowInv
<1>2. CASE Mark(k)
  <2>1. row[k].id # 0 /\ OnStream(k)
    BY <1>2 DEF Mark, IInv, Passing, NextInBatch
  <2> QED
    BY <1>2, <2>1, RowInv DEF Mark, RowState, broker
<1>3. CASE BackOffOver(k)
  <2>1. row[k].id # 0
    BY <1>3 DEF BackOffOver, IInv, Identified
  <2>2. "due" \in RowState \ {"absent"}
    BY DEF RowState
  <2>3. /\ row' = [row EXCEPT ![k].state = "due"] /\ UNCHANGED next
        /\ UNCHANGED <<stored, batch, everRefused, pc>>
    BY <1>3 DEF BackOffOver, bus, broker
  <2> QED
    BY <2>1, <2>2, <2>3, RowInv
<1>4. QED
  BY <1>1, <1>2, <1>3

\* The steps that leave rows and messages alone and keep or drop the pass.
LEMMA SessionInv ==
    ASSUME IInv, UNCHANGED <<row, next, stored, everRefused>>,
           batch' = batch \/ batch' = {}, pc' = "mark" => pc = "mark" /\ batch' = batch
    PROVE  IInv'
BY DEF IInv, Typed, Identified, Passing, Ordered, PublishedIsDelivered, ReportsInOrder,
       NextInBatch, OnStream, MessageId

LEMMA StepInv == IInv /\ [Next]_vars => IInv'
<1> SUFFICES ASSUME IInv, [Next]_vars PROVE IInv'
  OBVIOUS
<1>1. ASSUME NEW c \in Config \cup {None}, Start(c) PROVE IInv'
  BY <1>1, StartInv
<1>2. CASE Stop \/ Break
  BY <1>2, SessionInv DEF Stop, Break, EndSession, database, broker
<1>3. CASE Connect \/ Tick \/ PassForDelivery
  BY <1>3, BeginPassInv DEF Connect, Tick, PassForDelivery
<1>4. CASE Acknowledge
  BY <1>4, SessionInv DEF Acknowledge, database
<1>5. CASE EndPass
  BY <1>5, SessionInv DEF EndPass, EndSession, database, broker
<1>6. ASSUME NEW o \in Operation, Receive(o) PROVE IInv'
  <2>1. Final(o) \in Key /\ \A p \in Operation : Final(o) = Final(p) => o = p
    BY ReportKeys
  <2>2. CASE row[Final(o)] = NoRow
    BY <1>6, <2>1, <2>2, QueueInv DEF Receive, Enqueue, broker
  <2>3. CASE row[Final(o)] # NoRow
    BY <1>6, <2>3, SessionInv DEF Receive, Enqueue, database, broker
  <2> QED
    BY <2>2, <2>3
<1>7. ASSUME NEW k \in Report \cup Denied, Queue(k) PROVE IInv'
  BY <1>7, QueueInv DEF Queue, Enqueue, Key, bus, broker
<1>8. ASSUME NEW k \in Key, Accept(k) PROVE IInv'
  BY <1>8, AcceptInv
<1>9. ASSUME NEW k \in Key, Refuse(k) \/ Mark(k) \/ BackOffOver(k) PROVE IInv'
  BY <1>9, PublishInv
<1>10. ASSUME NEW i \in Id, Forget(i) PROVE IInv'
  BY <1>10, SessionInv DEF Forget, database, bus
<1>11. CASE UNCHANGED vars
  BY <1>11, SessionInv DEF vars, database, bus, broker
<1>12. QED
  BY <1>1, <1>2, <1>3, <1>4, <1>5, <1>6, <1>7, <1>8, <1>9, <1>10, <1>11 DEF Next

-----------------------------------------------------------------------------
\* The inductive invariant of the outbox holds in every reachable state.
THEOREM Invariance == Spec => []IInv
BY InitInv, StepInv, PTL DEF Spec

\* publish_outbox: a row that is marked published is on the stream under its present
\* identity, whatever was lost, repeated or restarted.
THEOREM MarkedIsDelivered == Spec => []PublishedIsDelivered
<1>1. IInv => PublishedIsDelivered
  BY DEF IInv
<1>2. QED
  BY <1>1, Invariance, PTL

\* publish_outbox: the final report of an operation overtakes its running report
\* only when that one was refused, for any batch size and any sequence of sessions.
THEOREM ReportsKeepOrder == Spec => []ReportsInOrder
<1>1. IInv => ReportsInOrder
  BY DEF IInv
<1>2. QED
  BY <1>1, Invariance, PTL

-----------------------------------------------------------------------------
(* Type correctness: the identities never run out. *)

Kinds ==
    /\ config \in Config \cup {None}
    /\ pc \in {"off", "down", "listen", "handled", "publish", "mark", "ack"}
    /\ refused \in BOOLEAN /\ delivery \in Operation \cup {None}
    /\ recent \subseteq stored
    /\ schedule \in Config \cup {None} /\ inbox \subseteq Operation
    /\ restarts \in 0 .. MaxRestarts /\ faults \in 0 .. MaxFaults

\* The rows that are still to be queued for the first time, and the starts to come.
Unqueued == {k \in Report \cup Denied : row[k].id = 0}
Starts   == MaxRestarts - restarts + IF pc = "off" THEN 1 ELSE 0

\* Each of them takes one identity, and there are enough.
Counted == next + Cardinality(Unqueued) + Starts <= MaxId + 1

LEMMA FiniteUnqueued ==
    /\ IsFiniteSet(Report \cup Denied)
    /\ IsFiniteSet(Unqueued) /\ Cardinality(Unqueued) \in Nat
    /\ Cardinality(Unqueued) <= Cardinality(Report \cup Denied)
    /\ Cardinality(Report \cup Denied) \in Nat
<1>1. IsFiniteSet(Report \cup Denied)
  <2>1. Report \cup Denied \subseteq Key
    BY DEF Key
  <2> QED
    BY <2>1, FiniteKeys, FS_Subset
<1>2. Unqueued \in SUBSET (Report \cup Denied)
  BY DEF Unqueued
<1> QED
  BY <1>1, <1>2, FS_Subset, FS_CardinalityType

LEMMA InitCounted == Init => Kinds /\ Counted
<1> SUFFICES ASSUME Init PROVE Kinds /\ Counted
  OBVIOUS
<1>1. Kinds
  <2>1. restarts \in 0 .. MaxRestarts /\ faults \in 0 .. MaxFaults
    BY OutboxAssumption DEF Init
  <2>2. Earlier \in Config \cup {None}
    BY OutboxAssumption
  <2> QED
    BY <2>1, <2>2 DEF Init, Kinds
<1>2. next <= 2 /\ next \in Nat /\ Starts = MaxRestarts + 1
  BY OutboxAssumption DEF Init, Starts
<1>3. Counted
  BY <1>2, FiniteUnqueued, OutboxAssumption DEF Counted, MaxId
<1> QED
  BY <1>1, <1>3

LEMMA StepKinds ==
    ASSUME IInv, Kinds, [Next]_vars
    PROVE  Kinds'
<1> USE DEF Kinds
<1>1. ASSUME NEW c \in Config \cup {None}, Start(c) PROVE Kinds'
  BY <1>1 DEF Start, broker
<1>2. CASE Stop \/ Break \/ EndPass
  <2>1. UNCHANGED <<config, recent, stored, schedule, inbox>>
    BY <1>2 DEF Stop, Break, EndPass, broker
  <2>2. restarts' \in 0 .. MaxRestarts /\ faults' \in 0 .. MaxFaults
    BY <1>2, OutboxAssumption DEF Stop, Break, EndPass, Fault
  <2>3. refused' \in BOOLEAN
    BY <1>2 DEF Stop, Break, EndPass, EndSession
  <2>4. delivery' \in Operation \cup {None}
    BY <1>2 DEF Stop, Break, EndPass, EndSession
  <2>5. pc' \in {"off", "down", "listen", "ack"}
    BY <1>2 DEF Stop, Break, EndPass, EndSession
  <2> QED
    BY <2>1, <2>2, <2>3, <2>4, <2>5
<1>3. CASE Connect \/ Tick \/ PassForDelivery
  BY <1>3 DEF Connect, Tick, PassForDelivery, BeginPass, broker
<1>4. CASE Acknowledge
  BY <1>4 DEF Acknowledge
<1>5. ASSUME NEW o \in Operation, Receive(o) PROVE Kinds'
  BY <1>5 DEF Receive, broker
<1>6. ASSUME NEW k \in Report \cup Denied, Queue(k) PROVE Kinds'
  BY <1>6 DEF Queue, bus, broker
<1>7. ASSUME NEW k \in Key, Store(k)
      PROVE  /\ recent' \subseteq stored' /\ schedule' \in Config \cup {None}
             /\ inbox' \subseteq Operation
  BY <1>7 DEF Store
<1>8. ASSUME NEW k \in Key, Accept(k) PROVE Kinds'
  BY <1>7, <1>8 DEF Accept
<1>9. ASSUME NEW k \in Key, Mark(k) \/ BackOffOver(k) PROVE Kinds'
  BY <1>9, OutboxAssumption DEF Mark, BackOffOver, Fault, bus, broker
<1>10. ASSUME NEW k \in Key, Refuse(k) PROVE Kinds'
  <2>1. /\ recent' \subseteq stored' /\ schedule' \in Config \cup {None}
        /\ inbox' \subseteq Operation
    BY <1>7, <1>10 DEF Refuse, broker
  <2>2. faults' \in 0 .. MaxFaults
    BY <1>10, OutboxAssumption DEF Refuse, Fault
  <2> QED
    BY <2>1, <2>2, <1>10 DEF Refuse
<1>11. ASSUME NEW i \in Id, Forget(i) PROVE Kinds'
  BY <1>11 DEF Forget, bus
<1>12. CASE UNCHANGED vars
  BY <1>12 DEF vars, bus, broker
<1> QED
  BY <1>1, <1>2, <1>3, <1>4, <1>5, <1>6, <1>8, <1>9, <1>10, <1>11, <1>12 DEF Next

\* A row of a report or a denied one is queued: one identity, one row less to come.
LEMMA QueueCounts ==
    ASSUME IInv, Kinds, Counted, NEW k \in Report \cup Denied, row[k] = NoRow,
           row' = [row EXCEPT ![k] = NewRow], next' = next + 1,
           UNCHANGED restarts, pc' = "off" => pc = "off"
    PROVE  Counted'
<1>1. k \in Key /\ row[k].id = 0 /\ next \in Nat \ {0}
  BY Absent DEF IInv, Key, Typed
<1>2. Unqueued' = Unqueued \ {k} /\ k \in Unqueued
  BY <1>1 DEF Unqueued, NewRow, IInv, Typed, Key
<1>3. Cardinality(Unqueued \ {k}) = Cardinality(Unqueued) - 1
  <2>1. Cardinality(Unqueued \ {k}) = IF k \in Unqueued THEN Cardinality(Unqueued) - 1
                                                       ELSE Cardinality(Unqueued)
    BY FiniteUnqueued, FS_RemoveElement
  <2> QED
    BY <1>2, <2>1
<1>4. Starts' <= Starts /\ Starts \in Int /\ Starts' \in Int
  BY OutboxAssumption DEF Starts, Kinds
<1>5. Cardinality(Unqueued)' = Cardinality(Unqueued) - 1
  BY <1>2, <1>3
<1> QED
  BY <1>1, <1>4, <1>5, FiniteUnqueued, FiniteKeys DEF Counted

\* A start: one identity at most, one start less to come.
LEMMA StartCounts ==
    ASSUME IInv, Kinds, Counted, NEW c \in Config \cup {None}, Start(c)
    PROVE  Counted'
<1>1. next' <= next + 1 /\ next \in Nat /\ next' \in Nat /\ pc = "off" /\ pc' = "down"
      /\ restarts' = restarts
  BY DEF Start, IInv, Typed, database
<1>2. Starts' = Starts - 1 /\ Starts \in Int
  BY <1>1, OutboxAssumption DEF Starts, Kinds
<1>3. \A k \in Report \cup Denied : row'[k] = row[k]
  BY OutboxAssumption DEF Start, IInv, Typed, database, Key
<1>4. Unqueued' = Unqueued
  BY <1>3 DEF Unqueued
<1> QED
  BY <1>1, <1>2, <1>4, FiniteUnqueued, FiniteKeys DEF Counted

\* The other steps give no identity; an end of the process uses up a restart.
LEMMA OtherCounts ==
    ASSUME IInv, Kinds, Counted, UNCHANGED next, \A k \in Key : row'[k].id = row[k].id,
           \/ UNCHANGED restarts /\ (pc' = "off" => pc = "off")
           \/ restarts' = restarts + 1
    PROVE  Counted'
<1>1. Unqueued' = Unqueued
  BY DEF Unqueued, Key
<1>2. Starts' <= Starts /\ Starts \in Int /\ Starts' \in Int
  BY OutboxAssumption DEF Starts, Kinds
<1> QED
  BY <1>1, <1>2, FiniteUnqueued, FiniteKeys DEF Counted, IInv, Typed

LEMMA StepCounted ==
    ASSUME IInv, Kinds, Counted, [Next]_vars
    PROVE  Counted'
<1>1. ASSUME NEW c \in Config \cup {None}, Start(c) PROVE Counted'
  BY <1>1, StartCounts
<1>2. CASE Stop \/ Break \/ EndPass
  BY <1>2, OtherCounts DEF Stop, Break, EndPass, EndSession, database
<1>3. CASE Connect \/ Tick \/ PassForDelivery
  BY <1>3, OtherCounts DEF Connect, Tick, PassForDelivery, BeginPass, database
<1>4. CASE Acknowledge
  BY <1>4, OtherCounts DEF Acknowledge, database
<1>5. ASSUME NEW o \in Operation, Receive(o) PROVE Counted'
  <2>1. Final(o) \in Report \cup Denied
    BY DEF Final, Report
  <2>2. CASE row[Final(o)] = NoRow
    BY <1>5, <2>1, <2>2, QueueCounts DEF Receive, Enqueue
  <2>3. CASE row[Final(o)] # NoRow
    BY <1>5, <2>3, OtherCounts DEF Receive, Enqueue, database
  <2> QED
    BY <2>2, <2>3
<1>6. ASSUME NEW k \in Report \cup Denied, Queue(k) PROVE Counted'
  BY <1>6, QueueCounts DEF Queue, Enqueue, bus
<1>7. ASSUME NEW k \in Key, Accept(k) PROVE Counted'
  BY <1>7, OtherCounts DEF Accept, database
<1>8. ASSUME NEW k \in Key, Mark(k) \/ Refuse(k) \/ BackOffOver(k) PROVE Counted'
  <2>1. \A j \in Key : row'[j].id = row[j].id
    BY <1>8 DEF Mark, Refuse, BackOffOver, IInv, Typed
  <2> QED
    BY <1>8, <2>1, OtherCounts DEF Mark, Refuse, BackOffOver, bus
<1>9. ASSUME NEW i \in Id, Forget(i) PROVE Counted'
  BY <1>9, OtherCounts DEF Forget, database, bus
<1>10. CASE UNCHANGED vars
  BY <1>10, OtherCounts DEF vars, database, bus
<1> QED
  BY <1>1, <1>2, <1>3, <1>4, <1>5, <1>6, <1>7, <1>8, <1>9, <1>10 DEF Next

LEMMA CountedIsTyped ==
    ASSUME IInv, Kinds, Counted
    PROVE  TypeOK
<1>1. Starts \in Nat
  BY OutboxAssumption DEF Starts, Kinds
<1>2. next \in 1 .. MaxId + 1
  BY <1>1, FiniteUnqueued, FiniteKeys DEF Counted, IInv, Typed
<1>3. row \in [Key -> [id : 0 .. MaxId, state : RowState]]
  <2>1. ASSUME NEW k \in Key PROVE row[k] \in [id : 0 .. MaxId, state : RowState]
    <3>1. row[k] \in [id : Nat, state : RowState] /\ row[k].id < next
      BY DEF IInv, Typed, Identified
    <3>2. row[k].id \in 0 .. MaxId /\ row[k].state \in RowState
      BY <3>1, <1>2, FiniteKeys
    <3> QED
      BY <3>1, <3>2
  <2> QED
    BY <2>1 DEF IInv, Typed
<1>4. stored \subseteq Id
  BY <1>2, FiniteKeys DEF IInv, Typed, Identified, Id
<1> QED
  BY <1>2, <1>3, <1>4 DEF TypeOK, Kinds, IInv, Typed

\* enqueue, enqueue_schedule_registration: every variable holds a value of its kind,
\* and a report is queued once and a registration once per start, so that the
\* identities never run out.
THEOREM TypeCorrect == Spec => []TypeOK
<1>1. Init => Kinds /\ Counted
  BY InitCounted
<1>2. IInv /\ Kinds /\ Counted /\ [Next]_vars => (Kinds /\ Counted)'
  BY StepKinds, StepCounted
<1>3. IInv /\ Kinds /\ Counted => TypeOK
  BY CountedIsTyped
<1> QED
  BY <1>1, <1>2, <1>3, Invariance, PTL DEF Spec

-----------------------------------------------------------------------------
(* The schedule Platform has converges to the configuration. *)

\* The rows of a pass are due, no pass survives the end of the process, and the worker
\* was started with the configuration that was queued last.
Current ==
    /\ \A k \in batch : row[k].state = "due"
    /\ pc = "off" => batch = {}
    /\ pc # "off" /\ config # None => config \in Latest

\* Registrations go out in the order they were queued in: one that is due has no younger
\* one on the stream, and no younger one in a pass it is not in itself; so the one that
\* was queued last is the schedule as soon as it is on the stream.
InSequence ==
    /\ \A c, d \in Config : row[c].state = "due" /\ row[c].id < row[d].id =>
                               ~OnStream(d) /\ (d \in batch => c \in batch)
    /\ \A c \in Latest : OnStream(c) => schedule = c

\* enqueue_schedule_registration, publish_outbox: what makes ScheduleConverges inductive.
SInv == Kinds /\ Current /\ (everRefused \cap Config = {} => InSequence)

LEMMA ConfigKeys == Config \subseteq Key
BY DEF Key

\* The configuration that was queued last has the greatest identity.
Greatest(c) == row[c].id # 0 /\ \A d \in Config : row[d].id <= row[c].id

LEMMA LatestMeans == Typed /\ Identified => \A c \in Config : c \in Latest <=> Greatest(c)
<1> SUFFICES ASSUME Typed, Identified, NEW c \in Config PROVE c \in Latest <=> Greatest(c)
  OBVIOUS
<1>1. \A d \in Config : (row[d] = NoRow <=> row[d].id = 0) /\ row[d].id \in Nat
  BY Absent, ConfigKeys DEF Typed
<1>2. Registered = {d \in Config : row[d].id # 0}
  BY <1>1 DEF Registered
<1>3. c \in Latest <=> row[c].id # 0 /\ \A d \in Registered : row[d].id <= row[c].id
  BY <1>2 DEF Latest
<1> QED
  BY <1>1, <1>2, <1>3 DEF Greatest

\* The same after a step.
LEMMA LatestThen == (Typed /\ Identified => \A c \in Config : c \in Latest <=> Greatest(c))'
BY LatestMeans, PTL

LEMMA InitSequence == Init => SInv
<1> SUFFICES ASSUME Init PROVE SInv
  OBVIOUS
<1>1. IInv /\ Kinds
  BY InitInv, InitCounted
<1>2. batch = {} /\ pc = "off" /\ schedule = Earlier
  BY DEF Init
<1>3. \A c \in Config : row[c].state # "due"
  BY ConfigKeys DEF Init, NoRow
<1>4. \A c \in Config : row[c].id # 0 => c = Earlier
  BY ConfigKeys DEF Init, NoRow
<1>5. \A c \in Latest : c = Earlier
  <2>1. \A c \in Latest : c \in Config
    BY DEF Latest, Registered
  <2> QED
    BY <2>1, <1>1, <1>4, LatestMeans DEF IInv, Greatest
<1> QED
  BY <1>1, <1>2, <1>3, <1>5 DEF SInv, Current, InSequence

\* A step that leaves the registrations and what the broker knows of them as they are.
LEMMA KeepsLatest ==
    ASSUME IInv, IInv', \A c \in Config : row'[c].id = row[c].id
    PROVE  Latest' = Latest
<1>1. \A c \in Config : c \in Latest <=> Greatest(c)
  BY LatestMeans DEF IInv
<1>2. \A c \in Config : c \in Latest' <=> Greatest(c)'
  BY LatestThen DEF IInv
<1>3. Latest \subseteq Config /\ Latest' \subseteq Config
  BY DEF Latest, Registered
<1> QED
  BY <1>1, <1>2, <1>3 DEF Greatest

\* The steps that queue, drop a pass or touch the session only.
LEMMA SessionSequence ==
    ASSUME IInv, IInv', SInv, Kinds',
           \A c \in Config : row'[c] = row[c],
           \A k \in batch' : row'[k] = row[k],
           batch' = batch \/ batch' = {},
           pc' = "off" => pc = "off" \/ batch' = {},
           pc' # "off" => pc # "off",
           UNCHANGED <<config, stored, schedule, everRefused>>
    PROVE  SInv'
<1>1. Latest' = Latest
  BY KeepsLatest
<1>2. Current'
  BY <1>1 DEF SInv, Current
<1>3. ASSUME (everRefused \cap Config = {})' PROVE InSequence'
  <2>1. InSequence /\ Latest \subseteq Config
    BY <1>3 DEF SInv, Latest, Registered
  <2> QED
    BY <1>1, <2>1 DEF InSequence, OnStream, MessageId
<1> QED
  BY <1>2, <1>3 DEF SInv

\* A registration that is queued anew is the last one, and not on the stream.
LEMMA StartSequence ==
    ASSUME IInv, IInv', SInv, Kinds', NEW c \in Config \cup {None}, Start(c)
    PROVE  SInv'
<1>1. /\ batch = {} /\ batch' = {} /\ pc' = "down" /\ config' = c
      /\ UNCHANGED <<stored, schedule, everRefused>>
  BY DEF Start, SInv, Current, broker
<1>2. CASE c = None \/ c \in Latest
  <2>1. UNCHANGED row
    BY <1>2 DEF Start, database
  <2>2. Latest' = Latest
    BY <2>1 DEF Latest, Registered
  <2>3. Current'
    BY <1>1, <1>2, <2>2 DEF Current
  <2>4. InSequence => InSequence'
    BY <1>1, <2>1, <2>2 DEF InSequence, OnStream, MessageId
  <2> QED
    BY <1>1, <2>3, <2>4 DEF SInv
<1>3. CASE c # None /\ c \notin Latest
  <2>1. /\ c \in Config /\ c \in Key /\ row' = [row EXCEPT ![c] = NewRow]
        /\ next \in Nat \ {0} /\ \A d \in Config : row[d].id < next /\ row[d].id \in Nat
    BY <1>3, ConfigKeys DEF Start, IInv, Typed, Identified
  <2>2. row'[c].id = next /\ \A d \in Config \ {c} : row'[d] = row[d]
    BY <2>1, ConfigKeys DEF IInv, Typed, NewRow
  <2>3. next \notin stored
    BY <2>1 DEF IInv, Identified, Typed
  <2>4. \A d \in Config : d \in Latest' <=> d = c
    <3>1. \A d \in Config : d \in Latest' <=> Greatest(d)'
      BY LatestThen DEF IInv
    <3> QED
      BY <2>1, <2>2, <3>1 DEF Greatest
  <2>5. Current'
    BY <1>1, <2>1, <2>4 DEF Current
  <2>6. ASSUME InSequence PROVE InSequence'
    <3>1. ~OnStream(c)'
      BY <1>1, <2>2, <2>3 DEF OnStream, MessageId
    <3>2. \A d \in Latest' : d = c
      BY <2>4 DEF Latest, Registered
    <3>3. ASSUME NEW a \in Config, NEW d \in Config,
                 row'[a].state = "due", row'[a].id < row'[d].id
          PROVE  ~OnStream(d)'
      <4>1. CASE d = c
        BY <4>1, <3>1
      <4>2. CASE d # c
        <5>1. a # c
          BY <4>2, <2>1, <2>2, <3>3
        <5> QED
          BY <4>2, <5>1, <1>1, <2>2, <2>6, <3>3 DEF InSequence, OnStream, MessageId
      <4> QED
        BY <4>1, <4>2
    <3> QED
      BY <1>1, <3>1, <3>2, <3>3 DEF InSequence
  <2> QED
    BY <1>1, <2>5, <2>6 DEF SInv
<1> QED
  BY <1>2, <1>3

\* A pass that takes a registration takes the older ones that are due.
LEMMA PassSequence ==
    ASSUME IInv, IInv', SInv, Kinds', BeginPass, pc # "off",
           UNCHANGED <<database, config, broker, everRefused>>
    PROVE  SInv'
<1>1. UNCHANGED <<row, config, stored, schedule, everRefused>> /\ pc' = "publish"
  BY DEF BeginPass, database, broker
<1>2. Latest' = Latest
  BY <1>1 DEF Latest, Registered
<1>3. Current'
  BY <1>1, <1>2 DEF SInv, Current, BeginPass, Due
<1>4. ASSUME NEW c \in Config, NEW d \in Config, c \in Due, row[c].id < row[d].id,
             d \in batch'
      PROVE  c \in batch'
  <2> DEFINE older(k) == {j \in Due : row[j].id < row[k].id}
  <2>1. older(c) \in SUBSET older(d)
    BY <1>4, ConfigKeys DEF IInv, Typed, Due
  <2>2. IsFiniteSet(older(d))
    BY FiniteKeys, FS_Subset DEF Due
  <2>3. Cardinality(older(c)) <= Cardinality(older(d)) /\ IsFiniteSet(older(c))
    BY <2>1, <2>2, FS_Subset
  <2>4. Cardinality(older(c)) \in Nat /\ Cardinality(older(d)) \in Nat
    BY <2>2, <2>3, FS_CardinalityType
  <2>5. Cardinality(older(d)) < Batch
    BY <1>4 DEF BeginPass
  <2>6. Cardinality(older(c)) < Batch
    BY <2>3, <2>4, <2>5, OutboxAssumption
  <2> QED
    BY <1>4, <2>6 DEF BeginPass
<1>5. ASSUME InSequence PROVE InSequence'
  <2>1. \A c, d \in Config : row[c].state = "due" /\ row[c].id < row[d].id =>
                                ~OnStream(d) /\ (d \in batch' => c \in batch')
    BY <1>4, <1>5, ConfigKeys DEF InSequence, Due
  <2> QED
    BY <1>1, <1>2, <1>5, <2>1 DEF InSequence, OnStream, MessageId
<1> QED
  BY <1>1, <1>3, <1>5 DEF SInv

\* The next row of a pass is stored: no younger registration is on the stream, so the one
\* that was queued last is, from then on, the schedule.
LEMMA AcceptSequence ==
    ASSUME IInv, IInv', SInv, Kinds', NEW k \in Key, Accept(k)
    PROVE  SInv'
<1>1. /\ NextInBatch(k) /\ k \in batch /\ pc = "publish" /\ pc' = "mark"
      /\ stored' = stored \cup {row[k].id}
      /\ UNCHANGED <<row, config, batch, everRefused>>
  BY DEF Accept, Store, MessageId, NextInBatch, database
<1>2. Latest' = Latest /\ Latest \subseteq Config
  BY <1>1 DEF Latest, Registered
<1>3. Current'
  BY <1>1, <1>2 DEF SInv, Current
<1>4. \A j \in Key : row[j].id \in Nat /\ (row[j].id = row[k].id => j = k)
  BY <1>1 DEF IInv, Typed, Identified, Passing
<1>5. \A j \in Key : OnStream(j)' => OnStream(j) \/ j = k
  BY <1>1, <1>4 DEF OnStream, MessageId
<1>6. ASSUME InSequence PROVE InSequence'
  <2>1. ASSUME NEW c \in Config, NEW d \in Config,
               row[c].state = "due", row[c].id < row[d].id
        PROVE  ~OnStream(d)' /\ (d \in batch => c \in batch)
    <3>1. ~OnStream(d) /\ (d \in batch => c \in batch)
      BY <2>1, <1>6 DEF InSequence
    <3>2. d # k
      BY <1>1, <1>4, <2>1, <3>1, ConfigKeys DEF NextInBatch
    <3> QED
      BY <3>1, <3>2, <1>5, ConfigKeys
  <2>2. ASSUME NEW l \in Latest, OnStream(l)' PROVE schedule' = l
    <3>1. CASE l = k /\ row[k].id \notin recent
      BY <3>1, <1>2 DEF Accept, Store, MessageId
    <3>2. CASE l = k /\ row[k].id \in recent
      <4>1. OnStream(l) /\ UNCHANGED schedule
        BY <3>2 DEF Accept, Store, MessageId, OnStream, SInv, Kinds
      <4> QED
        BY <4>1, <1>6 DEF InSequence
    <3>3. CASE l # k
      <4>1. OnStream(l) /\ l \in Config
        BY <2>2, <3>3, <1>2, <1>5, ConfigKeys
      <4>2. k \notin Config
        <5> SUFFICES ASSUME k \in Config PROVE FALSE
          OBVIOUS
        <5>1. row[k].id <= row[l].id
          BY <4>1, LatestMeans DEF IInv, Greatest
        <5>2. row[k].id < row[l].id
          BY <5>1, <4>1, <3>3, <1>4, ConfigKeys
        <5>3. row[k].state = "due"
          BY <1>1 DEF SInv, Current
        <5> QED
          BY <4>1, <5>2, <5>3, <1>6 DEF InSequence
      <4> QED
        BY <4>1, <4>2, <1>6 DEF InSequence, Accept, Store
    <3> QED
      BY <3>1, <3>2, <3>3
  <2> QED
    BY <1>1, <1>2, <2>1, <2>2 DEF InSequence
<1> QED
  BY <1>1, <1>3, <1>6 DEF SInv

\* A row is marked, backed off or due again: as long as no registration was refused, only
\* a mark touches one, and it takes it off the pass.
LEMMA RowSequence ==
    ASSUME IInv, IInv', SInv, Kinds', NEW k \in Key, NEW s \in RowState \ {"absent"},
           row' = [row EXCEPT ![k].state = s],
           pc' = "off" <=> pc = "off", UNCHANGED config,
           \/ batch' = batch \ {k}
           \/ batch' = batch /\ s = "due",
           everRefused \subseteq everRefused',
           k \in Config /\ everRefused' \cap Config = {} => s # "due",
           k \in Config /\ everRefused' \cap Config = {} => UNCHANGED <<stored, schedule>>,
           k \notin Config => UNCHANGED schedule,
           stored' = stored \/ stored' = stored \cup {row[k].id}, row[k].id # 0
    PROVE  SInv'
<1>1. /\ \A j \in Key : row'[j].id = row[j].id
      /\ \A j \in Key \ {k} : row'[j].state = row[j].state
      /\ row'[k].state = s
  BY DEF IInv, Typed
<1>2. Latest' = Latest /\ Latest \subseteq Config
  <2>1. \A c \in Config : row'[c].id = row[c].id
    BY <1>1, ConfigKeys
  <2> QED
    BY <2>1, KeepsLatest DEF Latest, Registered
<1>3. Current'
  <2>1. batch \subseteq Key
    BY DEF IInv, Typed
  <2>2. \A j \in batch' : row'[j].state = "due"
    BY <1>1, <2>1 DEF SInv, Current
  <2> QED
    BY <1>2, <2>2 DEF SInv, Current
<1>4. ASSUME everRefused' \cap Config = {} PROVE InSequence'
  <2>1. InSequence
    BY <1>4 DEF SInv
  <2>2. \A d \in Config : OnStream(d)' => OnStream(d)
    <3>1. CASE k \in Config
      BY <1>1, <1>4, <3>1, ConfigKeys DEF OnStream, MessageId
    <3>2. CASE k \notin Config
      <4>1. \A d \in Config : row[d].id # row[k].id
        BY <3>2, ConfigKeys DEF IInv, Identified
      <4> QED
        BY <1>1, <4>1, ConfigKeys DEF OnStream, MessageId
    <3> QED
      BY <3>1, <3>2
  <2>3. ASSUME NEW c \in Config, NEW d \in Config,
               row'[c].state = "due", row'[c].id < row'[d].id
        PROVE  ~OnStream(d)' /\ (d \in batch' => c \in batch')
    <3>1. c # k /\ row[c].state = "due" /\ row[c].id < row[d].id
      BY <1>1, <1>4, <2>3, ConfigKeys
    <3> QED
      BY <3>1, <2>1, <2>2 DEF InSequence
  <2>4. UNCHANGED schedule
    BY <1>4
  <2> QED
    BY <1>2, <2>1, <2>2, <2>3, <2>4 DEF InSequence
<1> QED
  BY <1>3, <1>4 DEF SInv

LEMMA PublishSequence ==
    ASSUME IInv, IInv', SInv, Kinds', NEW k \in Key, Refuse(k) \/ Mark(k) \/ BackOffOver(k)
    PROVE  SInv'
<1> USE DEF RowState
<1>1. CASE Refuse(k)
  <2>1. row[k].id # 0
    BY <1>1 DEF Refuse, IInv, Passing, NextInBatch
  <2>2. stored' = stored \/ stored' = stored \cup {row[k].id}
    BY <1>1 DEF Refuse, Store, broker, MessageId
  <2>3. k \notin Config => UNCHANGED schedule
    BY <1>1 DEF Refuse, Store, broker
  <2>4. k \in everRefused' /\ everRefused \subseteq everRefused'
    BY <1>1 DEF Refuse
  <2>5. /\ row' = [row EXCEPT ![k].state = "waiting"] /\ batch' = batch \ {k}
        /\ UNCHANGED <<pc, config>>
    BY <1>1 DEF Refuse
  <2> QED
    BY <2>1, <2>2, <2>3, <2>4, <2>5, RowSequence
<1>2. CASE Mark(k)
  <2>1. row[k].id # 0
    BY <1>2 DEF Mark, IInv, Passing, NextInBatch
  <2>2. /\ row' = [row EXCEPT ![k].state = "published"] /\ batch' = batch \ {k}
        /\ UNCHANGED <<config, stored, schedule, everRefused>> /\ pc = "mark" /\ pc' = "publish"
    BY <1>2 DEF Mark, broker
  <2> QED
    BY <2>1, <2>2, RowSequence
<1>3. CASE BackOffOver(k)
  <2>1. row[k].id # 0 /\ k \in everRefused
    BY <1>3 DEF BackOffOver, IInv, Identified, Passing
  <2>2. /\ row' = [row EXCEPT ![k].state = "due"]
        /\ UNCHANGED <<config, pc, batch, stored, schedule, everRefused>>
    BY <1>3 DEF BackOffOver, bus, broker
  <2> QED
    BY <2>1, <2>2, RowSequence
<1> QED
  BY <1>1, <1>2, <1>3

LEMMA StepSequence ==
    ASSUME IInv, SInv, [Next]_vars
    PROVE  SInv'
<1>0. IInv' /\ Kinds' /\ batch \subseteq Key
  BY StepInv, StepKinds DEF SInv, IInv, Typed
<1> USE <1>0
<1>1. ASSUME NEW c \in Config \cup {None}, Start(c) PROVE SInv'
  BY <1>1, StartSequence
<1>2. CASE Stop \/ Break \/ EndPass
  BY <1>2, SessionSequence DEF Stop, Break, EndPass, EndSession, database, broker
<1>3. CASE Connect \/ Tick \/ PassForDelivery
  BY <1>3, PassSequence DEF Connect, Tick, PassForDelivery
<1>4. CASE Acknowledge
  BY <1>4, SessionSequence DEF Acknowledge, database
<1>5. ASSUME NEW k \in Report \cup Denied, row[k] = NoRow, row' = [row EXCEPT ![k] = NewRow]
      PROVE  /\ \A c \in Config : row'[c] = row[c]
             /\ \A j \in batch : row'[j] = row[j]
  <2>1. k \notin Config /\ k \notin batch
    BY <1>5, OutboxAssumption DEF IInv, Passing, NoRow
  <2> QED
    BY <1>5, <2>1, ConfigKeys DEF IInv, Typed
<1>6. ASSUME NEW o \in Operation, Receive(o) PROVE SInv'
  <2>1. /\ UNCHANGED <<config, batch, stored, schedule, everRefused>>
        /\ pc' # "off" /\ pc # "off" /\ Final(o) \in Report \cup Denied
    BY <1>6 DEF Receive, broker, Final, Report
  <2>2. CASE row[Final(o)] = NoRow
    BY <1>5, <1>6, <2>1, <2>2, SessionSequence DEF Receive, Enqueue
  <2>3. CASE row[Final(o)] # NoRow
    BY <1>6, <2>1, <2>3, SessionSequence DEF Receive, Enqueue, database
  <2> QED
    BY <2>2, <2>3
<1>7. ASSUME NEW k \in Report \cup Denied, Queue(k) PROVE SInv'
  BY <1>5, <1>7, SessionSequence DEF Queue, Enqueue, bus, broker
<1>8. ASSUME NEW k \in Key, Accept(k) PROVE SInv'
  BY <1>8, AcceptSequence
<1>9. ASSUME NEW k \in Key, Refuse(k) \/ Mark(k) \/ BackOffOver(k) PROVE SInv'
  BY <1>9, PublishSequence
<1>10. ASSUME NEW i \in Id, Forget(i) PROVE SInv'
  BY <1>10, SessionSequence DEF Forget, database, bus
<1>11. CASE UNCHANGED vars
  BY <1>11, SessionSequence DEF vars, database, bus, broker
<1> QED
  BY <1>1, <1>2, <1>3, <1>4, <1>6, <1>7, <1>8, <1>9, <1>10, <1>11 DEF Next

\* enqueue_schedule_registration, publish_outbox: as long as no registration was refused,
\* Platform has the configuration the worker was started with once every registration is
\* published, for any configurations, batch size, restarts, and duplicate window.
THEOREM Converges == Spec => []ScheduleConverges
<1>1. Init => SInv
  BY InitSequence
<1>2. IInv /\ SInv /\ [Next]_vars => SInv'
  BY StepSequence
<1>3. IInv /\ SInv => ScheduleConverges
  <2> SUFFICES ASSUME IInv, SInv, everRefused \cap Config = {}, pc # "off", config # None,
                      Settled
               PROVE  schedule = config
    BY DEF ScheduleConverges, RegisteredIsConfigured
  <2>1. config \in Latest /\ config \in Config /\ config \in Key /\ row[config] # NoRow
    BY ConfigKeys DEF SInv, Current, Latest, Registered
  <2>2. row[config].state = "published"
    BY <2>1, Absent DEF Settled, IInv, Identified
  <2>3. OnStream(config)
    BY <2>1, <2>2 DEF IInv, PublishedIsDelivered, OnStream
  <2> QED
    BY <2>1, <2>3 DEF SInv, InSequence
<1> QED
  BY <1>1, <1>2, <1>3, Invariance, PTL DEF Spec
=============================================================================
