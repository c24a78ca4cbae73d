------------------------ MODULE DigestRuns_refinement ------------------------
(***************************************************************************)
(* Proofs about steps: nothing settled is revised, and every step of the   *)
(* service is a step of OperationContract or leaves its status alone.      *)
(***************************************************************************)
EXTENDS DigestRuns_proofs

\* The moves a run can make in one step, with the reports they queue.
Accepted(rs)  == /\ \A r \in rs : state[r] = "absent"
                 /\ Move(rs, "accepted") /\ Enqueue(rs, "queued")
Started(r)    == /\ state[r] = "accepted"
                 /\ Move({r}, "acquiring") /\ Enqueue({r}, "running")
Committed(r)  == /\ state[r] = "acquiring" /\ manifest[r] = None
                 /\ Move({r}, "waiting_recap") /\ UNCHANGED reports
Ended(r, to, status) ==
                 /\ state[r] \in {"acquiring", "waiting_recap"}
                 /\ to \in Terminal
                 /\ Move({r}, to) /\ Enqueue({r}, status)
Expired(rs)   == /\ \A r \in rs : state[r] \in Open
                 /\ Move(rs, "failed") /\ Enqueue(rs, "failed")

\* Every step makes one of these moves, or moves no run and queues nothing.
LEMMA StepMoves ==
    ASSUME IInv, [Next]_vars
    PROVE  \/ \E r \in OnDemand : Accepted({r})
           \/ \E rs \in SUBSET Scheduled : Accepted(rs)
           \/ \E r \in Run : Started(r) \/ Committed(r)
           \/ \E r \in Run, to \in Terminal, s \in TerminalStatus : Ended(r, to, s)
           \/ \E rs \in SUBSET Run : Expired(rs)
           \/ UNCHANGED <<state, reports>>
<1> USE IInvParts
<1>1. CASE Intake
  BY <1>1 DEF Intake, AcceptRun, FanOut, Create, Accepted
<1>2. CASE BeginAcquisition
  <2>1. exRun \in Run /\ Started(exRun)
    BY <1>2 DEF BeginAcquisition, Started, TypeOK
  <2> QED BY <2>1
<1>3. CASE FailRun
  <2>1. {exRun} \in SUBSET Run /\ Expired({exRun})
    BY <1>3 DEF FailRun, WantsFailure, Expired, TypeOK, Open
  <2> QED BY <2>1
<1>4. CASE CompleteEmptyRun
  <2>1. exRun \in Run /\ Ended(exRun, "completed", "succeeded")
    BY <1>4 DEF CompleteEmptyRun, WantsEmpty, Ended, TypeOK, TaskInv, ExecutorHolds,
                Executing, Terminal
  <2> QED BY <2>1 DEF Terminal, TerminalStatus
<1>5. ASSUME NEW d \in Digest, CommitManifest(d)
      PROVE  \E r \in Run : Committed(r)
  <2>1. exRun \in Run /\ Committed(exRun)
    BY <1>5 DEF CommitManifest, WantsManifest, Committed, TypeOK, TaskInv,
                ExecutorHolds, Executing
  <2> QED BY <2>1
<1>6. ASSUME NEW row, NEW s, Settle(row, s), row.outcome \in Terminal
      PROVE  fact.run \in Run /\ Ended(fact.run, row.outcome, s)
  BY <1>6, FactInHand DEF Settle, Ended
<1>7. CASE SettleCompletion
  <2>1. CompletionRow.outcome \in Terminal
    BY DEF CompletionRow, Outcome, Terminal
  <2> QED BY <1>6, <1>7, <2>1 DEF SettleCompletion, TerminalStatus
<1>8. CASE SettleFailure
  <2> DEFINE row == [id |-> OwnId, outcome |-> "failed", omitted |-> FALSE]
  <2>1. row.outcome \in Terminal /\ Settle(row, "failed")
    BY <1>8 DEF SettleFailure, Terminal
  <2> HIDE DEF row
  <2> QED BY <1>6, <2>1 DEF TerminalStatus
<1>9. ASSUME NEW rs \in SUBSET Run, Reap(rs) PROVE Expired(rs)
  BY <1>9 DEF Reap, Expired
<1>10. CASE \/ \E r \in Run : \/ SelectPending(r) \/ FloodWaitEnds(r)
                              \/ DeadlinePasses(r) \/ PublishRequest(r)
            \/ AcquireDeferred \/ AcquireUnavailable
            \/ \E missing \in BOOLEAN : Acquire(missing)
            \/ \E s \in {"empty", "unbuildable", "built"}, t \in BOOLEAN : SelectSources(s, t)
            \/ ExecutorRefused \/ ExecutorError \/ RecordAcquisition
  BY <1>10 DEF dbVars, SelectPending, FloodWaitEnds, DeadlinePasses, PublishRequest,
     AcquireDeferred, AcquireUnavailable, Acquire, SelectSources, ExecutorRefused,
     ExecutorError, RecordAcquisition
<1>11. CASE \/ \E f \in stream : Deliver(f)
            \/ ReadFlag \/ ReadExisting \/ ReadDurable \/ SettleRefused
            \/ FinishDelivery \/ DeliveryInterrupted \/ WorkerRestart
            \/ \E f \in Fact : KnowledgeSends(f)
            \/ \E r \in Run, s \in Status : PublishReport(r, s)
            \/ UNCHANGED vars
  BY <1>11 DEF dbVars, vars, Deliver, ReadFlag, ReadExisting, ReadDurable,
     SettleRefused, FinishDelivery, DeliveryInterrupted, WorkerRestart,
     KnowledgeSends, PublishReport
<1> QED BY <1>1, <1>2, <1>3, <1>4, <1>5, <1>7, <1>8, <1>9, <1>10, <1>11
        DEF Next, Executor, Bus, Outbox, Reaper

-----------------------------------------------------------------------------
\* Manifests and results are written once: the executor commits only a run that
\* has no manifest, the bus task settles only one that has no result.
LEMMA WrittenOnce ==
    ASSUME IInv, [Next]_vars, NEW r \in Run
    PROVE  /\ manifest[r] # None => manifest'[r] = manifest[r]
           /\ result[r] # None => result'[r] = result[r]
<1> USE IInvParts
<1>1. ASSUME NEW d \in Digest, CommitManifest(d)
      PROVE  (manifest[r] # None => manifest'[r] = manifest[r]) /\ UNCHANGED result
  BY <1>1 DEF CommitManifest, TypeOK
<1>2. ASSUME NEW row, NEW s, Settle(row, s)
      PROVE  UNCHANGED manifest /\ (result[r] # None => result'[r] = result[r])
  <2>1. fact.run \in Run /\ result[fact.run] = None
    BY <1>2, FactInHand DEF Settle, DbInv, EvidenceChain
  <2> QED BY <1>2, <2>1 DEF Settle, TypeOK
<1>3. CASE SettleCompletion \/ SettleFailure
  BY <1>2, <1>3 DEF SettleCompletion, SettleFailure
<1>4. CASE \/ Intake \/ Reaper \/ Outbox \/ WorkerRestart
           \/ (\E f \in Fact : KnowledgeSends(f)) \/ UNCHANGED vars
  BY <1>4 DEF Intake, AcceptRun, FanOut, Create, Reaper, DeadlinePasses, Reap, Outbox,
     PublishRequest, PublishReport, WorkerRestart, KnowledgeSends, vars, dbVars
<1>5. CASE \/ \E q \in Run : SelectPending(q) \/ FloodWaitEnds(q)
           \/ BeginAcquisition \/ AcquireDeferred \/ AcquireUnavailable
           \/ \E missing \in BOOLEAN : Acquire(missing)
           \/ \E s \in {"empty", "unbuildable", "built"}, t \in BOOLEAN : SelectSources(s, t)
           \/ RecordAcquisition \/ FailRun \/ CompleteEmptyRun
           \/ ExecutorRefused \/ ExecutorError
  BY <1>5 DEF dbVars, SelectPending, FloodWaitEnds, BeginAcquisition, AcquireDeferred,
     AcquireUnavailable, Acquire, SelectSources, RecordAcquisition, FailRun,
     CompleteEmptyRun, ExecutorRefused, ExecutorError
<1>6. CASE \/ \E f \in stream : Deliver(f)
           \/ ReadFlag \/ ReadExisting \/ ReadDurable \/ SettleRefused
           \/ FinishDelivery \/ DeliveryInterrupted
  BY <1>6 DEF dbVars, Deliver, ReadFlag, ReadExisting, ReadDurable, SettleRefused,
     FinishDelivery, DeliveryInterrupted
<1> QED BY <1>1, <1>3, <1>4, <1>5, <1>6 DEF Next, Executor, Bus

\* A settled run is final in every interleaving of executor, reaper and facts.
THEOREM SettledIsFinal == Spec => NothingIsRevised
<1> DEFINE Kept == \A r \in Run :
              /\ state[r] \in Terminal => state'[r] = state[r]
              /\ manifest[r] # None => manifest'[r] = manifest[r]
              /\ result[r] # None => result'[r] = result[r]
              /\ reports[r] \subseteq reports'[r]
<1>1. ASSUME IInv, [Next]_vars PROVE Kept
  <2> SUFFICES ASSUME NEW r \in Run
               PROVE  /\ state[r] \in Terminal => state'[r] = state[r]
                      /\ manifest[r] # None => manifest'[r] = manifest[r]
                      /\ result[r] # None => result'[r] = result[r]
                      /\ reports[r] \subseteq reports'[r]
    OBVIOUS
  <2>1. ASSUME NEW rs, NEW to, NEW s, Move(rs, to), Enqueue(rs, s),
               \A q \in rs : state[q] \notin Terminal
        PROVE  /\ state[r] \in Terminal => state'[r] = state[r]
               /\ reports[r] \subseteq reports'[r]
    <3>1. state'[r] = IF r \in rs THEN to ELSE state[r]
      BY <2>1 DEF Move
    <3>2. reports'[r] = IF r \in rs \cap OnDemand THEN reports[r] \cup {s} ELSE reports[r]
      BY <2>1 DEF Enqueue
    <3> QED BY <2>1, <3>1, <3>2
  <2>2. ASSUME NEW rs, Accepted(rs) \/ Expired(rs)
        PROVE  /\ state[r] \in Terminal => state'[r] = state[r]
               /\ reports[r] \subseteq reports'[r]
    BY <2>1, <2>2 DEF Accepted, Expired, Open, Executing, Terminal
  <2>3. ASSUME NEW q \in Run, NEW to, NEW s, Started(q) \/ Ended(q, to, s)
        PROVE  /\ state[r] \in Terminal => state'[r] = state[r]
               /\ reports[r] \subseteq reports'[r]
    BY <2>1, <2>3 DEF Started, Ended, Terminal
  <2>4. ASSUME NEW q \in Run, Committed(q)
        PROVE  /\ state[r] \in Terminal => state'[r] = state[r]
               /\ reports[r] \subseteq reports'[r]
    BY <2>4, MovePointwise DEF Committed, Terminal
  <2>5. /\ state[r] \in Terminal => state'[r] = state[r]
        /\ reports[r] \subseteq reports'[r]
    BY <1>1, StepMoves, <2>2, <2>3, <2>4
  <2> QED BY <1>1, <2>5, WrittenOnce
<1> QED BY <1>1, Invariance, PTL DEF Spec, NothingIsRevised

-----------------------------------------------------------------------------
\* The operation's status, as the outbox shows it, is a function of the state.
View(s) == CASE s = "absent"    -> "none"
             [] s = "accepted"  -> "queued"
             [] s \in {"acquiring", "waiting_recap"} -> "running"
             [] s = "completed" -> "succeeded"
             [] s = "partial"   -> "partially_succeeded"
             [] OTHER           -> "failed"

LEMMA ViewOfState ==
    ASSUME IInv, NEW r \in OnDemand PROVE OperationStatus(r) = View(state[r])
<1>0. r \in Run /\ state[r] \in State
  BY RunAssumption DEF IInv, TypeOK
<1>1. reports[r] \cap TerminalStatus = TerminalReport(state[r])
  BY <1>0 DEF IInv, ReportsMatchState
<1>2. CASE state[r] \in {"completed", "partial", "failed"}
  <2>1. /\ state[r] = "completed" => reports[r] \cap TerminalStatus = {"succeeded"}
        /\ state[r] = "partial" => reports[r] \cap TerminalStatus = {"partially_succeeded"}
        /\ state[r] = "failed" => reports[r] \cap TerminalStatus = {"failed"}
    BY <1>1 DEF TerminalReport
  <2>2. /\ state[r] = "completed" <=> "succeeded" \in reports[r]
        /\ state[r] = "partial" <=> "partially_succeeded" \in reports[r]
        /\ state[r] = "failed" <=> "failed" \in reports[r]
    BY <1>2, <2>1 DEF TerminalStatus
  <2> QED BY <1>2, <2>2 DEF OperationStatus, View, TerminalStatus
<1>3. CASE state[r] \notin {"completed", "partial", "failed"}
  <2>1. reports[r] = CASE state[r] = "absent" -> {}
                       [] state[r] = "accepted" -> {"queued"}
                       [] OTHER -> {"queued", "running"}
    BY <1>0, <1>3 DEF IInv, ReportHistory, State, Open, Executing, Terminal
  <2>2. CASE state[r] = "absent"
    BY <2>1, <2>2 DEF OperationStatus, View, TerminalStatus
  <2>3. CASE state[r] = "accepted"
    BY <2>1, <2>3 DEF OperationStatus, View, TerminalStatus
  <2>4. CASE state[r] \in {"acquiring", "waiting_recap"}
    BY <2>1, <2>4 DEF OperationStatus, View, TerminalStatus
  <2> QED BY <1>0, <1>3, <2>2, <2>3, <2>4 DEF State, Open, Executing, Terminal
<1> QED BY <1>2, <1>3

LEMMA ViewOfStates == IInv => \A r \in OnDemand : OperationStatus(r) = View(state[r])
BY ViewOfState

\* Each move, seen through the reports, is a step of the contract or a stutter:
\* committing a manifest and anything about a scheduled run cannot be seen.
LEMMA StepImplementsContract ==
    ASSUME IInv, IInv', [Next]_vars
    PROVE  [Contract!Next]_([r \in OnDemand |-> OperationStatus(r)])
<1> DEFINE st == [r \in OnDemand |-> OperationStatus(r)]
<1>1. \A r \in OnDemand : st[r] = View(state[r])
  BY ViewOfState
<1>2. (\A r \in OnDemand : OperationStatus(r) = View(state[r]))'
  BY ViewOfStates, PTL
<1>3. st' = [r \in OnDemand |-> View(state'[r])]
  BY <1>2
<1>4. ASSUME NEW rs, NEW to, Move(rs, to)
      PROVE  st' = [r \in OnDemand |-> IF r \in rs THEN View(to) ELSE st[r]]
  BY <1>1, <1>3, <1>4, RunAssumption DEF Move
<1> HIDE DEF st
<1> SUFFICES Contract!Next \/ st' = st
  BY DEF st
<1>5. st = [r \in OnDemand |-> st[r]]
  BY DEF st
<1>6. ASSUME NEW rs, rs \cap OnDemand = {}, NEW to, Move(rs, to) PROVE st' = st
  BY <1>4, <1>5, <1>6
<1>7. ASSUME NEW r \in OnDemand, NEW to, Move({r}, to) PROVE st' = [st EXCEPT ![r] = View(to)]
  BY <1>4, <1>5, <1>7
<1>8. ASSUME NEW rs \in SUBSET Scheduled, Accepted(rs) PROVE st' = st
  BY <1>6, <1>8 DEF Accepted, Scheduled
<1>9. ASSUME NEW r \in OnDemand, Accepted({r}) PROVE Contract!Next
  <2>1. st[r] = "none" /\ st' = [st EXCEPT ![r] = "queued"]
    BY <1>1, <1>7, <1>9 DEF Accepted, View
  <2>2. Contract!Queue(r)
    BY <2>1 DEF Contract!Queue, Contract!Become, st
  <2> QED BY <2>2 DEF Contract!Next
<1>10. ASSUME NEW r \in Run, Started(r) PROVE Contract!Next \/ st' = st
  <2>1. CASE r \in OnDemand
    <3>1. st[r] = "queued" /\ st' = [st EXCEPT ![r] = "running"]
      BY <1>1, <1>7, <1>10, <2>1 DEF Started, View
    <3>2. Contract!Start(r)
      BY <3>1 DEF Contract!Start, Contract!Become, st
    <3> QED BY <2>1, <3>2 DEF Contract!Next
  <2>2. CASE r \notin OnDemand
    BY <1>6, <1>10, <2>2 DEF Started
  <2> QED BY <2>1, <2>2
<1>11. ASSUME NEW r \in Run, Committed(r) PROVE st' = st
  <2>1. CASE r \in OnDemand
    BY <1>1, <1>5, <1>7, <1>11, <2>1 DEF Committed, View
  <2>2. CASE r \notin OnDemand
    BY <1>6, <1>11, <2>2 DEF Committed
  <2> QED BY <2>1, <2>2
<1>12. ASSUME NEW r \in Run, NEW to \in Terminal, NEW s, Ended(r, to, s)
       PROVE  Contract!Next \/ st' = st
  <2>1. CASE r \in OnDemand
    <3>1. st[r] = "running" /\ st' = [st EXCEPT ![r] = View(to)]
      BY <1>1, <1>7, <1>12, <2>1 DEF Ended, View
    <3>2. View(to) \in Contract!Ended
      BY DEF View, Terminal, Contract!Ended
    <3>3. Contract!Finish(r)
      BY <3>1, <3>2 DEF Contract!Finish, Contract!Become, st
    <3> QED BY <2>1, <3>3 DEF Contract!Next
  <2>2. CASE r \notin OnDemand
    BY <1>6, <1>12, <2>2 DEF Ended
  <2> QED BY <2>1, <2>2
<1>13. ASSUME NEW rs \in SUBSET Run, Expired(rs) PROVE Contract!Next
  <2> DEFINE os == rs \cap OnDemand
  <2>1. \A r \in os : st[r] \in {"queued", "running"}
    BY <1>1, <1>13 DEF Expired, Open, Executing, View
  <2>2. st' = [r \in OnDemand |-> IF r \in rs THEN "failed" ELSE st[r]]
    BY <1>4, <1>13 DEF Expired, View
  <2>3. st' = [r \in OnDemand |-> IF r \in os THEN "failed" ELSE st[r]]
    BY <2>2
  <2>4. Contract!Expire(os)
    BY <2>1, <2>3 DEF Contract!Expire, st
  <2> QED BY <2>4 DEF Contract!Next
<1>14. CASE UNCHANGED <<state, reports>>
  BY <1>1, <1>3, <1>5, <1>14
<1> QED BY StepMoves, <1>8, <1>9, <1>10, <1>11, <1>12, <1>13, <1>14

\* The service keeps the operation contract, whatever the number of runs, the
\* batch and the number of facts in flight: reports are queued in the order
\* queued, running, one terminal status, and only a running operation succeeds.
THEOREM KeepsContract == Spec => ContractSteps
<1>1. Init => Contract!Init
  BY RunAssumption DEF Init, Contract!Init, OperationStatus, TerminalStatus
<1>2. ASSUME IInv, IInv', [Next]_vars
      PROVE  [Contract!Next]_([r \in OnDemand |-> OperationStatus(r)])
  BY <1>2, StepImplementsContract
<1> QED BY <1>1, <1>2, Invariance, PTL DEF Spec, ContractSteps
=============================================================================
