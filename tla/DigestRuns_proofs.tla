-------------------------- MODULE DigestRuns_proofs --------------------------
(***************************************************************************)
(* Machine-checked proofs about DigestRuns, for every set of runs, digests *)
(* and result identities and every bound.                                  *)
(***************************************************************************)
EXTENDS DigestRuns, FiniteSetTheorems, TLAPS

\* The rank given to a created run is a natural number.
LEMMA RankType ==
    ASSUME TypeOK
    PROVE  1 + Cardinality({q \in Run : state[q] # "absent"}) \in Nat
<1>1. IsFiniteSet({q \in Run : state[q] # "absent"})
  BY RunAssumption, FS_Subset
<1> QED BY <1>1, FS_CardinalityType

\* Moving runs and queueing reports keeps the types of what they touch.
LEMMA MoveType ==
    ASSUME TypeOK, NEW rs, NEW to \in State, Move(rs, to)
    PROVE  state' \in [Run -> State] /\ overdue' \subseteq Run
BY DEF TypeOK, Move

LEMMA EnqueueType ==
    ASSUME TypeOK, NEW rs, NEW st \in Status, Enqueue(rs, st)
    PROVE  reports' \in [Run -> SUBSET Status]
BY DEF TypeOK, Enqueue

LEMMA TypeStep == TypeOK /\ [Next]_vars => TypeOK'
<1> SUFFICES ASSUME TypeOK, [Next]_vars PROVE TypeOK'
  OBVIOUS
<1> USE NullAssumption DEF TypeOK
<1>1. ASSUME NEW rs \in SUBSET Run, Create(rs) PROVE TypeOK'
  <2>1. state' \in [Run -> State] /\ overdue' \subseteq Run
    BY <1>1, MoveType DEF Create, State, Open, Executing
  <2>2. reports' \in [Run -> SUBSET Status]
    BY <1>1, EnqueueType DEF Create, Status
  <2>3. created' \in [Run -> Nat]
    BY <1>1, RankType DEF Create
  <2> QED BY <1>1, <2>1, <2>2, <2>3 DEF Create, outVars, exVars, busVars
<1>2. ASSUME NEW r \in Run, SelectPending(r) PROVE TypeOK'
  BY <1>2 DEF SelectPending, dbVars, outVars, busVars
<1>3. CASE BeginAcquisition
  <2>1. state' \in [Run -> State] /\ overdue' \subseteq Run
    BY <1>3, MoveType DEF BeginAcquisition, State, Open, Executing
  <2>2. reports' \in [Run -> SUBSET Status]
    BY <1>3, EnqueueType DEF BeginAcquisition, Status
  <2> QED BY <1>3, <2>1, <2>2 DEF BeginAcquisition, outVars, busVars
<1>4. CASE AcquireDeferred
  BY <1>4 DEF AcquireDeferred, ExecutorIdle, outVars, busVars
<1>5. CASE AcquireUnavailable
  BY <1>5 DEF AcquireUnavailable, dbVars, outVars, busVars
<1>6. ASSUME NEW missing \in BOOLEAN, Acquire(missing) PROVE TypeOK'
  BY <1>6 DEF Acquire, dbVars, outVars, busVars
<1>7. ASSUME NEW s \in {"empty", "unbuildable", "built"}, NEW t \in BOOLEAN,
             SelectSources(s, t)
      PROVE  TypeOK'
  BY <1>7 DEF SelectSources, dbVars, outVars, busVars
<1>8. CASE RecordAcquisition
  BY <1>8 DEF RecordAcquisition, outVars, busVars
<1>9. CASE FailRun
  <2>1. state' \in [Run -> State] /\ overdue' \subseteq Run
    BY <1>9, MoveType DEF FailRun, State, Terminal
  <2>2. reports' \in [Run -> SUBSET Status]
    BY <1>9, EnqueueType DEF FailRun, Status
  <2> QED BY <1>9, <2>1, <2>2 DEF FailRun, ExecutorIdle, outVars, busVars
<1>10. CASE CompleteEmptyRun
  <2>1. state' \in [Run -> State] /\ overdue' \subseteq Run
    BY <1>10, MoveType DEF CompleteEmptyRun, State, Terminal
  <2>2. reports' \in [Run -> SUBSET Status]
    BY <1>10, EnqueueType DEF CompleteEmptyRun, Status
  <2> QED BY <1>10, <2>1, <2>2 DEF CompleteEmptyRun, ExecutorIdle, outVars, busVars
<1>11. ASSUME NEW d \in Digest, CommitManifest(d) PROVE TypeOK'
  <2>1. state' \in [Run -> State] /\ overdue' \subseteq Run
    BY <1>11, MoveType DEF CommitManifest, State, Open
  <2>2. exRun \in Run
    BY <1>11 DEF CommitManifest, WantsManifest
  <2>3. manifest' \in [Run -> Manifest \cup {None}]
    BY <1>11 DEF CommitManifest, Manifest
  <2> QED BY <1>11, <2>1, <2>2, <2>3 DEF CommitManifest, ExecutorIdle, outVars, busVars
<1>12. CASE ExecutorRefused \/ ExecutorError
  BY <1>12 DEF ExecutorRefused, ExecutorError, ExecutorIdle, dbVars, outVars, busVars
<1>13. ASSUME NEW r \in Run, FloodWaitEnds(r) PROVE TypeOK'
  BY <1>13 DEF FloodWaitEnds, outVars, exVars, busVars
<1>14. ASSUME NEW f \in Fact, KnowledgeSends(f) PROVE TypeOK'
  BY <1>14 DEF KnowledgeSends, dbVars, outVars, exVars
<1>15. ASSUME NEW f \in stream, Deliver(f) PROVE TypeOK'
  <2>1. f \in Fact
    BY <1>15
  <2>2. fact' \in Fact /\ fact' # None
    BY <1>15, <2>1 DEF Deliver
  <2> QED BY <1>15, <2>2 DEF Deliver, dbVars, outVars, exVars
<1>16. CASE ReadFlag
  <2>1. fact.run \in Run
    BY <1>16 DEF ReadFlag, Fact, Completion, Failure
  <2> QED BY <1>16, <2>1 DEF ReadFlag, dbVars, outVars, exVars
<1>17. CASE ReadExisting
  BY <1>17 DEF ReadExisting, Decide, dbVars, outVars, exVars
<1>18. CASE ReadDurable
  BY <1>18 DEF ReadDurable, Decide, dbVars, outVars, exVars
<1>19. ASSUME NEW row \in Result, NEW st \in Status, Settle(row, st) PROVE TypeOK'
  <2>1. fact \in Fact /\ fact.run \in Run
    BY <1>19 DEF Settle, Fact, Completion, Failure
  <2>2. state' \in [Run -> State] /\ overdue' \subseteq Run
    BY <1>19, MoveType DEF Settle, State, Result
  <2>3. reports' \in [Run -> SUBSET Status]
    BY <1>19, EnqueueType DEF Settle
  <2>4. InboxKey \in ({"completed"} \X ResultId) \cup ({"failed"} \X Run)
    BY <2>1 DEF InboxKey, Fact, Completion, Failure
  <2>5. result' \in [Run -> Result \cup {None}]
    BY <1>19, <2>1 DEF Settle
  <2> QED BY <1>19, <2>2, <2>3, <2>4, <2>5 DEF Settle, Decide, outVars, exVars
<1>20. CASE SettleCompletion
  <2>1. CompletionRow \in Result
    BY <1>20 DEF SettleCompletion, CompletionRow, Outcome, Result, Terminal,
                 Fact, Completion, Failure
  <2> QED BY <1>20, <1>19, <2>1 DEF SettleCompletion, Status
<1>21. CASE SettleFailure
  <2>1. [id |-> OwnId, outcome |-> "failed", omitted |-> FALSE] \in Result
    BY DEF Result, Terminal
  <2> QED BY <1>21, <1>19, <2>1 DEF SettleFailure, Status
<1>22. CASE SettleRefused
  BY <1>22 DEF SettleRefused, Decide, dbVars, outVars, exVars
<1>23. CASE FinishDelivery \/ DeliveryInterrupted
  BY <1>23 DEF FinishDelivery, DeliveryInterrupted, BusIdle, dbVars, outVars, exVars
<1>24. ASSUME NEW r \in Run, PublishRequest(r) PROVE TypeOK'
  BY <1>24 DEF PublishRequest, dbVars, exVars, busVars
<1>25. ASSUME NEW r \in Run, NEW s \in Status, PublishReport(r, s) PROVE TypeOK'
  BY <1>25 DEF PublishReport, dbVars, exVars, busVars
<1>26. ASSUME NEW r \in Run, DeadlinePasses(r) PROVE TypeOK'
  BY <1>26 DEF DeadlinePasses, outVars, exVars, busVars
<1>27. ASSUME NEW rs \in SUBSET Run, Reap(rs) PROVE TypeOK'
  <2>1. state' \in [Run -> State] /\ overdue' \subseteq Run
    BY <1>27, MoveType DEF Reap, State, Terminal
  <2>2. reports' \in [Run -> SUBSET Status]
    BY <1>27, EnqueueType DEF Reap, Status
  <2> QED BY <1>27, <2>1, <2>2 DEF Reap, outVars, exVars, busVars
<1>28. CASE WorkerRestart
  BY <1>28 DEF WorkerRestart, ExecutorIdle, BusIdle, dbVars, outVars
<1>29. CASE UNCHANGED vars
  BY <1>29 DEF vars, dbVars, outVars, exVars, busVars
<1> HIDE DEF TypeOK
<1>30. CASE Intake
  BY <1>30, <1>1 DEF Intake, AcceptRun, FanOut, Scheduled
<1>31. CASE Executor
  BY <1>31, <1>2, <1>3, <1>4, <1>5, <1>6, <1>7, <1>8, <1>9, <1>10, <1>11, <1>12,
     <1>13 DEF Executor
<1>32. CASE Bus
  BY <1>32, <1>15, <1>16, <1>17, <1>18, <1>20, <1>21, <1>22, <1>23 DEF Bus
<1>33. CASE Outbox \/ Reaper
  BY <1>33, <1>24, <1>25, <1>26, <1>27 DEF Outbox, Reaper
<1> QED BY <1>14, <1>28, <1>29, <1>30, <1>31, <1>32, <1>33 DEF Next

LEMMA InitType == Init => TypeOK
<1> SUFFICES ASSUME Init PROVE TypeOK
  OBVIOUS
<1>1. /\ state \in [Run -> State] /\ created \in [Run -> Nat]
        /\ incomplete \in [Run -> BOOLEAN]
    BY DEF Init, State
<1>2. /\ manifest \in [Run -> Manifest \cup {None}]
        /\ result \in [Run -> Result \cup {None}]
    BY DEF Init
<1>3. /\ reports \in [Run -> SUBSET Status]
        /\ reportSent \in [Run -> SUBSET Status]
    BY DEF Init
<1> QED BY <1>1, <1>2, <1>3 DEF Init, TypeOK

\* Every variable keeps its type in every reachable state, for every choice of
\* the constants.
THEOREM TypeCorrect == Spec => []TypeOK
BY InitType, TypeStep, PTL DEF Spec

-----------------------------------------------------------------------------
(***************************************************************************)
(* The inductive invariant. DbInv speaks of the database alone; a step     *)
(* that writes none of the rows it reads cannot disturb it.                *)
(***************************************************************************)

DbInv == ReportsMatchState /\ EvidenceChain /\ HonestCompletion /\ ReportHistory
         /\ Provenance

rowVars == <<state, incomplete, manifest, result, inbox, requested, reports>>

LEMMA DbFrame == ASSUME DbInv, UNCHANGED rowVars PROVE DbInv'
BY DEF DbInv, rowVars, ReportsMatchState, EvidenceChain, HonestCompletion,
       ReportHistory, Provenance

\* Move and Enqueue, run by run.
LEMMA MovePointwise ==
    ASSUME NEW rs, NEW to, Move(rs, to), NEW r \in Run
    PROVE  state'[r] = IF r \in rs THEN to ELSE state[r]
BY DEF Move

LEMMA EnqueuePointwise ==
    ASSUME NEW rs, NEW st, Enqueue(rs, st), NEW r \in Run
    PROVE  reports'[r] = IF r \in rs /\ r \in OnDemand
                         THEN reports[r] \cup {st} ELSE reports[r]
BY DEF Enqueue

\* A run that fails without a result, from an open state: the executor and the
\* reaper do nothing else.
LEMMA FailurePreservesDb ==
    ASSUME TypeOK, DbInv, NEW rs \in SUBSET Run,
           \A r \in rs : state[r] \in Open,
           Move(rs, "failed"), Enqueue(rs, "failed"),
           UNCHANGED <<incomplete, manifest, result, inbox, requested>>
    PROVE  DbInv'
<1>1. \A r \in Run : state'[r] = IF r \in rs THEN "failed" ELSE state[r]
  BY MovePointwise
<1>2. \A r \in Run : reports'[r] = IF r \in rs /\ r \in OnDemand
                                  THEN reports[r] \cup {"failed"} ELSE reports[r]
  BY EnqueuePointwise
<1>3. \A r \in rs : result[r] = None
  BY DEF DbInv, EvidenceChain, Open, Executing
<1>4. ReportsMatchState'
  <2> SUFFICES ASSUME NEW r \in Run
               PROVE  /\ reports'[r] \cap TerminalStatus =
                           IF r \in OnDemand THEN TerminalReport(state'[r]) ELSE {}
                      /\ "running" \in reports'[r] => state'[r] \notin {"absent", "accepted"}
    BY DEF ReportsMatchState
  <2>1. CASE r \notin rs
    BY <1>1, <1>2, <2>1 DEF DbInv, ReportsMatchState
  <2>2. CASE r \in rs
    <3>1. TerminalReport(state[r]) = {} /\ TerminalReport(state'[r]) = {"failed"}
      BY <1>1, <2>2 DEF TerminalReport, Open, Executing
    <3>2. reports[r] \cap TerminalStatus = {}
      BY <3>1 DEF DbInv, ReportsMatchState
    <3> QED BY <1>1, <1>2, <2>2, <3>1, <3>2 DEF TerminalStatus
  <2> QED BY <2>1, <2>2
<1>5. EvidenceChain'
  BY <1>1, <1>3 DEF DbInv, EvidenceChain, Executing
<1>6. HonestCompletion'
  BY <1>1 DEF DbInv, HonestCompletion
<1>7. ReportHistory'
  BY <1>1, <1>2, RunAssumption DEF DbInv, ReportHistory
<1>8. Provenance'
  BY <1>1 DEF DbInv, Provenance
<1> QED BY <1>4, <1>5, <1>6, <1>7, <1>8 DEF DbInv

LEMMA CreatePreservesDb ==
    ASSUME TypeOK, DbInv, NEW rs \in SUBSET Run, Create(rs) PROVE DbInv'
<1>1. \A r \in Run : state'[r] = IF r \in rs THEN "accepted" ELSE state[r]
  BY MovePointwise DEF Create
<1>2. \A r \in Run : reports'[r] = IF r \in rs /\ r \in OnDemand
                                  THEN reports[r] \cup {"queued"} ELSE reports[r]
  BY EnqueuePointwise DEF Create
<1>3. \A r \in rs : state[r] = "absent"
  BY DEF Create
<1>4. UNCHANGED <<incomplete, manifest, result, inbox, requested>>
  BY DEF Create
<1>5. ReportsMatchState'
  <2> SUFFICES ASSUME NEW r \in Run
               PROVE  /\ reports'[r] \cap TerminalStatus =
                           IF r \in OnDemand THEN TerminalReport(state'[r]) ELSE {}
                      /\ "running" \in reports'[r] => state'[r] \notin {"absent", "accepted"}
    BY DEF ReportsMatchState
  <2>1. CASE r \notin rs
    BY <1>1, <1>2, <2>1 DEF DbInv, ReportsMatchState
  <2>2. CASE r \in rs
    <3>1. TerminalReport(state[r]) = {} /\ TerminalReport(state'[r]) = {}
      BY <1>1, <1>3, <2>2 DEF TerminalReport
    <3>2. reports[r] \cap TerminalStatus = {} /\ "running" \notin reports[r]
      BY <1>3, <2>2, <3>1 DEF DbInv, ReportsMatchState
    <3>3. reports'[r] \subseteq reports[r] \cup {"queued"}
      BY <1>2
    <3>4. "running" \notin reports'[r]
      BY <3>2, <3>3
    <3>5. reports'[r] \cap TerminalStatus = {}
      BY <3>2, <3>3 DEF TerminalStatus
    <3> QED BY <3>1, <3>4, <3>5
  <2> QED BY <2>1, <2>2
<1>6. EvidenceChain'
  BY <1>1, <1>3, <1>4 DEF DbInv, EvidenceChain, Executing
<1>7. HonestCompletion'
  BY <1>1, <1>4 DEF DbInv, HonestCompletion
<1>8. ReportHistory'
  BY <1>1, <1>2, <1>3, RunAssumption DEF DbInv, ReportHistory
<1>9. Provenance'
  BY <1>1, <1>3, <1>4 DEF DbInv, Provenance
<1> QED BY <1>5, <1>6, <1>7, <1>8, <1>9 DEF DbInv

LEMMA BeginPreservesDb ==
    ASSUME TypeOK, DbInv, BeginAcquisition PROVE DbInv'
<1>0. exRun \in Run /\ state[exRun] = "accepted"
  BY DEF BeginAcquisition, TypeOK
<1>1. \A r \in Run : state'[r] = IF r = exRun THEN "acquiring" ELSE state[r]
  BY MovePointwise DEF BeginAcquisition
<1>2. \A r \in Run : reports'[r] = IF r = exRun /\ r \in OnDemand
                                  THEN reports[r] \cup {"running"} ELSE reports[r]
  BY EnqueuePointwise DEF BeginAcquisition
<1>3. UNCHANGED <<incomplete, manifest, result, inbox, requested>>
  BY DEF BeginAcquisition
<1>4. ReportsMatchState'
  <2> SUFFICES ASSUME NEW r \in Run
               PROVE  /\ reports'[r] \cap TerminalStatus =
                           IF r \in OnDemand THEN TerminalReport(state'[r]) ELSE {}
                      /\ "running" \in reports'[r] => state'[r] \notin {"absent", "accepted"}
    BY DEF ReportsMatchState
  <2>1. CASE r # exRun
    BY <1>1, <1>2, <2>1 DEF DbInv, ReportsMatchState
  <2>2. CASE r = exRun
    <3>1. TerminalReport(state[r]) = {} /\ TerminalReport(state'[r]) = {}
      BY <1>0, <1>1, <2>2 DEF TerminalReport
    <3>2. reports[r] \cap TerminalStatus = {}
      BY <3>1 DEF DbInv, ReportsMatchState
    <3> QED BY <1>1, <1>2, <2>2, <3>1, <3>2 DEF TerminalStatus
  <2> QED BY <2>1, <2>2
<1>5. EvidenceChain'
  BY <1>0, <1>1, <1>3 DEF DbInv, EvidenceChain, Executing
<1>6. HonestCompletion'
  BY <1>1, <1>3 DEF DbInv, HonestCompletion
<1>7. ReportHistory'
  BY <1>0, <1>1, <1>2, RunAssumption DEF DbInv, ReportHistory
<1>8. Provenance'
  BY <1>0, <1>1, <1>3 DEF DbInv, Provenance
<1> QED BY <1>4, <1>5, <1>6, <1>7, <1>8 DEF DbInv

LEMMA CompleteEmptyPreservesDb ==
    ASSUME TypeOK, DbInv, ExecutorHolds, CompleteEmptyRun PROVE DbInv'
<1>0. /\ exRun \in Run /\ state[exRun] = "acquiring"
      /\ manifest[exRun] = None /\ result[exRun] = None /\ ~incomplete[exRun]
  BY DEF CompleteEmptyRun, WantsEmpty, TypeOK, ExecutorHolds, Executing, DbInv,
         EvidenceChain
<1>1. \A r \in Run : state'[r] = IF r = exRun THEN "completed" ELSE state[r]
  BY MovePointwise DEF CompleteEmptyRun
<1>2. \A r \in Run : reports'[r] = IF r = exRun /\ r \in OnDemand
                                  THEN reports[r] \cup {"succeeded"} ELSE reports[r]
  BY EnqueuePointwise DEF CompleteEmptyRun
<1>3. UNCHANGED <<incomplete, manifest, result, inbox, requested>>
  BY DEF CompleteEmptyRun
<1>4. ReportsMatchState'
  <2> SUFFICES ASSUME NEW r \in Run
               PROVE  /\ reports'[r] \cap TerminalStatus =
                           IF r \in OnDemand THEN TerminalReport(state'[r]) ELSE {}
                      /\ "running" \in reports'[r] => state'[r] \notin {"absent", "accepted"}
    BY DEF ReportsMatchState
  <2>1. CASE r # exRun
    BY <1>1, <1>2, <2>1 DEF DbInv, ReportsMatchState
  <2>2. CASE r = exRun
    <3>1. TerminalReport(state[r]) = {} /\ TerminalReport(state'[r]) = {"succeeded"}
      BY <1>0, <1>1, <2>2 DEF TerminalReport
    <3>2. reports[r] \cap TerminalStatus = {}
      BY <3>1 DEF DbInv, ReportsMatchState
    <3> QED BY <1>1, <1>2, <2>2, <3>1, <3>2 DEF TerminalStatus
  <2> QED BY <2>1, <2>2
<1>5. EvidenceChain'
  BY <1>0, <1>1, <1>3 DEF DbInv, EvidenceChain, Executing
<1>6. HonestCompletion'
  BY <1>0, <1>1, <1>3 DEF DbInv, HonestCompletion
<1>7. ReportHistory'
  BY <1>0, <1>1, <1>2, RunAssumption DEF DbInv, ReportHistory
<1>8. Provenance'
  BY <1>0, <1>1, <1>3 DEF DbInv, Provenance
<1> QED BY <1>4, <1>5, <1>6, <1>7, <1>8 DEF DbInv

LEMMA CommitPreservesDb ==
    ASSUME TypeOK, DbInv, ExecutorHolds, NEW d \in Digest, CommitManifest(d)
    PROVE  DbInv'
<1>0. /\ exRun \in Run /\ state[exRun] = "acquiring" /\ result[exRun] = None
      /\ incomplete[exRun] = exIncomplete
  BY DEF CommitManifest, WantsManifest, TypeOK, ExecutorHolds, Executing, DbInv,
         EvidenceChain
<1>1. \A r \in Run : state'[r] = IF r = exRun THEN "waiting_recap" ELSE state[r]
  BY MovePointwise DEF CommitManifest
<1>2. \A r \in Run : manifest'[r] = IF r = exRun
                        THEN [digest |-> d, whole |-> ~exIncomplete] ELSE manifest[r]
  BY DEF CommitManifest, TypeOK
<1>3. [digest |-> d, whole |-> ~exIncomplete] # None
  <2>1. [digest |-> d, whole |-> ~exIncomplete] \in Manifest
    BY DEF Manifest
  <2> QED BY <2>1, NullAssumption
<1>4. UNCHANGED <<incomplete, result, inbox, reports>>
      /\ requested' = requested \cup {exRun}
  BY DEF CommitManifest
<1>5. ReportsMatchState'
  <2>1. TerminalReport("acquiring") = {} /\ TerminalReport("waiting_recap") = {}
    BY DEF TerminalReport
  <2> QED BY <1>0, <1>1, <1>4, <2>1 DEF DbInv, ReportsMatchState
<1>6. EvidenceChain'
  BY <1>0, <1>1, <1>2, <1>3, <1>4 DEF DbInv, EvidenceChain, Executing
<1>7. HonestCompletion'
  BY <1>0, <1>1, <1>2, <1>4 DEF DbInv, HonestCompletion, EvidenceChain
<1>8. ReportHistory'
  BY <1>0, <1>1, <1>4, RunAssumption DEF DbInv, ReportHistory
<1>9. Provenance'
  <2>1. \A r \in Run : manifest'[r] # None => manifest'[r].whole = ~incomplete[r]
    BY <1>0, <1>2 DEF DbInv, Provenance, TypeOK
  <2>2. \A r \in Run : result[r] # None => manifest'[r] = manifest[r]
    BY <1>0, <1>2
  <2>3. \A r \in Run : state[r] = "failed" => state'[r] = "failed"
    BY <1>0, <1>1
  <2> QED BY <1>4, <2>1, <2>2, <2>3 DEF DbInv, Provenance
<1> QED BY <1>5, <1>6, <1>7, <1>8, <1>9 DEF DbInv

\* The flag is rewritten only while the run has no manifest and is not
\* completed, so no recorded outcome depends on it.
LEMMA RecordPreservesDb ==
    ASSUME TypeOK, DbInv, ExecutorHolds, RecordAcquisition PROVE DbInv'
<1>0. /\ exRun \in Run /\ manifest[exRun] = None /\ state[exRun] # "completed"
  BY DEF RecordAcquisition, TypeOK, ExecutorHolds, Executing
<1>1. /\ \A r \in Run : r # exRun => incomplete'[r] = incomplete[r]
      /\ UNCHANGED <<state, manifest, result, inbox, requested, reports>>
  BY DEF RecordAcquisition, TypeOK
<1>2. ReportsMatchState' /\ EvidenceChain' /\ ReportHistory'
  BY <1>1 DEF DbInv, ReportsMatchState, EvidenceChain, ReportHistory
<1>3. HonestCompletion'
  BY <1>0, <1>1 DEF DbInv, HonestCompletion
<1>4. Provenance'
  BY <1>0, <1>1 DEF DbInv, Provenance
<1> QED BY <1>2, <1>3, <1>4 DEF DbInv

\* A settlement of either kind, from what the two facts have in common.
LEMMA SettlePreservesDb ==
    ASSUME TypeOK, DbInv, NEW row \in Result, NEW st \in TerminalStatus,
           Settle(row, st),
           TerminalReport(row.outcome) = {st},
           row.outcome = IF row.id = OwnId THEN "failed"
                         ELSE IF row.omitted \/ ~manifest[fact.run].whole
                         THEN "partial" ELSE "completed",
           InboxKey = IF row.id = OwnId THEN <<"failed", fact.run>>
                                        ELSE <<"completed", row.id>>,
           row.id # OwnId =>
               \A r \in Run : result[r] # None => result[r].id # row.id
    PROVE  DbInv'
<1>0. /\ fact.run \in Run /\ state[fact.run] = "waiting_recap"
      /\ manifest[fact.run] # None /\ result[fact.run] = None /\ row # None
  BY NullAssumption DEF Settle, TypeOK, Fact, Completion, Failure, DbInv, EvidenceChain
<1>1. \A r \in Run : state'[r] = IF r = fact.run THEN row.outcome ELSE state[r]
  BY MovePointwise DEF Settle
<1>2. \A r \in Run : reports'[r] = IF r = fact.run /\ r \in OnDemand
                                  THEN reports[r] \cup {st} ELSE reports[r]
  BY EnqueuePointwise DEF Settle
<1>3. \A r \in Run : result'[r] = IF r = fact.run THEN row ELSE result[r]
  BY DEF Settle, TypeOK
<1>4. /\ UNCHANGED <<incomplete, manifest, requested>>
      /\ inbox' = inbox \cup {InboxKey}
  BY DEF Settle
<1>5. row.outcome \in Terminal
  BY DEF Result
<1>6. ReportsMatchState'
  <2> SUFFICES ASSUME NEW r \in Run
               PROVE  /\ reports'[r] \cap TerminalStatus =
                           IF r \in OnDemand THEN TerminalReport(state'[r]) ELSE {}
                      /\ "running" \in reports'[r] => state'[r] \notin {"absent", "accepted"}
    BY DEF ReportsMatchState
  <2>1. CASE r # fact.run
    BY <1>1, <1>2, <2>1 DEF DbInv, ReportsMatchState
  <2>2. CASE r = fact.run
    <3>1. TerminalReport(state[r]) = {} /\ TerminalReport(state'[r]) = {st}
      BY <1>0, <1>1, <2>2 DEF TerminalReport
    <3>2. reports[r] \cap TerminalStatus = {}
      BY <3>1 DEF DbInv, ReportsMatchState
    <3>3. reports'[r] \cap TerminalStatus = IF r \in OnDemand THEN {st} ELSE {}
      BY <1>2, <2>2, <3>2
    <3>4. state'[r] \notin {"absent", "accepted"}
      BY <1>1, <1>5, <2>2 DEF Terminal
    <3> QED BY <3>1, <3>3, <3>4
  <2> QED BY <2>1, <2>2
<1>7. EvidenceChain'
  BY <1>0, <1>1, <1>3, <1>4, <1>5 DEF DbInv, EvidenceChain, Executing, Terminal
<1>8. HonestCompletion'
  <2>1. \A r \in Run \ {fact.run} : result'[r] = result[r] /\ state'[r] = state[r]
    BY <1>1, <1>3
  <2>2. /\ state'[fact.run] = "completed" => manifest[fact.run].whole
        /\ state'[fact.run] = "partial" => row.omitted \/ ~manifest[fact.run].whole
    BY <1>0, <1>1
  <2> QED BY <1>0, <1>3, <1>4, <2>1, <2>2 DEF DbInv, HonestCompletion
<1>9. ReportHistory'
  BY <1>0, <1>1, <1>2, <1>5, RunAssumption DEF DbInv, ReportHistory, Terminal
<1>10. Provenance'
  <2>1. \A r \in Run : result'[r] # None =>
          result'[r].outcome =
              IF result'[r].id = OwnId THEN "failed"
              ELSE IF result'[r].omitted \/ ~manifest[r].whole THEN "partial"
              ELSE "completed"
    BY <1>3 DEF DbInv, Provenance
  <2>2. \A x \in ResultId : <<"completed", x>> \in inbox' =>
          \E r \in Run : result'[r] # None /\ result'[r].id = x
    <3> SUFFICES ASSUME NEW x \in ResultId, <<"completed", x>> \in inbox'
                 PROVE  \E r \in Run : result'[r] # None /\ result'[r].id = x
      OBVIOUS
    <3>1. CASE <<"completed", x>> \in inbox
      <4>1. PICK r \in Run : result[r] # None /\ result[r].id = x
        BY <3>1 DEF DbInv, Provenance
      <4>2. r # fact.run
        BY <1>0, <4>1
      <4> QED BY <1>3, <4>1, <4>2
    <3>2. CASE <<"completed", x>> = InboxKey
      <4>1. row.id = x
        BY <3>2
      <4> QED BY <1>0, <1>3, <4>1
    <3> QED BY <1>4, <3>1, <3>2
  <2>3. \A r \in Run : <<"failed", r>> \in inbox' => state'[r] = "failed"
    <3> SUFFICES ASSUME NEW r \in Run, <<"failed", r>> \in inbox'
                 PROVE  state'[r] = "failed"
      OBVIOUS
    <3>1. CASE <<"failed", r>> \in inbox
      BY <1>0, <1>1, <3>1 DEF DbInv, Provenance
    <3>2. CASE <<"failed", r>> = InboxKey
      BY <1>1, <3>2
    <3> QED BY <1>4, <3>1, <3>2
  <2> QED BY <1>4, <2>1, <2>2, <2>3 DEF DbInv, Provenance
<1> QED BY <1>6, <1>7, <1>8, <1>9, <1>10 DEF DbInv

LEMMA SettleCompletionPreservesDb ==
    ASSUME TypeOK, DbInv, BusHolds, SettleCompletion PROVE DbInv'
<1> DEFINE st == IF fact.omitted \/ flag THEN "partially_succeeded" ELSE "succeeded"
<1>1. /\ fact \in Completion /\ busPc = "settle" /\ state[fact.run] = "waiting_recap"
      /\ Settle(CompletionRow, st)
  BY DEF SettleCompletion, Settle, TypeOK, Fact, Completion, Failure
<1>2. CompletionRow \in Result /\ CompletionRow.id # OwnId
  BY <1>1, NullAssumption DEF CompletionRow, Outcome, Result, Terminal, Completion
<1>3. manifest[fact.run] # None
  BY <1>1 DEF DbInv, EvidenceChain, Completion
<1>4. flag = ~manifest[fact.run].whole
  BY <1>1, <1>3 DEF DbInv, Provenance, BusHolds, Completion, TypeOK, Manifest
<1>5. CompletionRow.outcome = IF CompletionRow.omitted \/ ~manifest[fact.run].whole
                              THEN "partial" ELSE "completed"
  BY <1>4 DEF CompletionRow, Outcome
<1>6. TerminalReport(CompletionRow.outcome) = {st}
  BY DEF TerminalReport, CompletionRow, Outcome
<1>7. \A r \in Run : result[r] # None => result[r].id # CompletionRow.id
  BY <1>1 DEF BusHolds, CompletionRow, Completion
<1>8. InboxKey = <<"completed", CompletionRow.id>>
  BY <1>1 DEF InboxKey, CompletionRow, Completion
<1>9. st \in TerminalStatus
  BY DEF TerminalStatus
<1> HIDE DEF st
<1> QED BY <1>1, <1>2, <1>5, <1>6, <1>7, <1>8, <1>9, SettlePreservesDb

LEMMA SettleFailurePreservesDb ==
    ASSUME TypeOK, DbInv, SettleFailure PROVE DbInv'
<1> DEFINE row == [id |-> OwnId, outcome |-> "failed", omitted |-> FALSE]
<1>1. Settle(row, "failed") /\ fact.kind = "failed"
  BY DEF SettleFailure
<1>2. row \in Result /\ row.id = OwnId /\ row.outcome = "failed"
  BY DEF Result, Terminal
<1>3. TerminalReport(row.outcome) = {"failed"} /\ "failed" \in TerminalStatus
  BY DEF TerminalReport, TerminalStatus
<1>4. InboxKey = <<"failed", fact.run>>
  BY <1>1 DEF InboxKey
<1> HIDE DEF row
<1> QED BY <1>1, <1>2, <1>3, <1>4, SettlePreservesDb

-----------------------------------------------------------------------------
(***************************************************************************)
(* What the tasks remember stays true. TaskInv relates the locals of the   *)
(* executor and of the bus task to the rows.                               *)
(***************************************************************************)

TaskInv == VerdictMatchesRecord /\ ExecutorHolds /\ AnswersRequests /\ BusHolds

\* A fact in hand is about a run with a manifest, hence not the executor's.
LEMMA FactInHand ==
    ASSUME TypeOK, DbInv, TaskInv, busPc # "idle"
    PROVE  /\ fact \in Fact /\ fact.run \in Run
           /\ manifest[fact.run] # None
           /\ exPc # "idle" => exRun # fact.run
BY DEF TypeOK, Fact, Completion, Failure, TaskInv, AnswersRequests, DbInv,
       EvidenceChain, ExecutorHolds

\* Steps that leave the bus task alone: results stay, and so do the manifest
\* and the flag of every run the bus task may hold.
LEMMA BusFrame ==
    ASSUME TypeOK, DbInv, TaskInv, UNCHANGED <<busPc, fact, flag, verdict, result>>,
           \A r \in Run : manifest[r] # None =>
               manifest'[r] = manifest[r] /\ incomplete'[r] = incomplete[r],
           \A r \in Run : state[r] = "failed" => state'[r] = "failed"
    PROVE  VerdictMatchesRecord' /\ BusHolds'
<1>1. CASE busPc = "idle"
  BY <1>1 DEF VerdictMatchesRecord, BusHolds
<1>2. CASE busPc # "idle"
  <2>1. /\ fact.run \in Run /\ manifest'[fact.run] = manifest[fact.run]
        /\ incomplete'[fact.run] = incomplete[fact.run]
    BY <1>2, FactInHand
  <2>2. VerdictMatchesRecord'
    BY <2>1 DEF TaskInv, VerdictMatchesRecord
  <2>3. BusHolds'
    BY <2>1 DEF TaskInv, BusHolds
  <2> QED BY <2>2, <2>3
<1> QED BY <1>1, <1>2

\* Steps that leave the executor alone: a run changes state only if it was
\* absent, was waiting for its recap, or fails.
LEMMA ExecutorFrame ==
    ASSUME TypeOK, DbInv, TaskInv, UNCHANGED <<exVars, manifest, incomplete>>,
           \A r \in Run : \/ state'[r] = state[r]
                          \/ state[r] \in {"absent", "waiting_recap"}
                          \/ state'[r] = "failed"
    PROVE  ExecutorHolds'
BY DEF TypeOK, TaskInv, ExecutorHolds, Executing, exVars

LEMMA TaskStep == TypeOK /\ DbInv /\ TaskInv /\ [Next]_vars => TaskInv'
<1> SUFFICES ASSUME TypeOK, DbInv, TaskInv, [Next]_vars PROVE TaskInv'
  OBVIOUS
<1>1. ASSUME NEW rs \in SUBSET Run, Create(rs) PROVE TaskInv'
  <2>1. \A r \in Run : state'[r] = IF r \in rs THEN "accepted" ELSE state[r]
    BY <1>1, MovePointwise DEF Create
  <2>2. VerdictMatchesRecord' /\ BusHolds'
    BY <1>1, <2>1, BusFrame DEF Create, busVars
  <2>3. ExecutorHolds'
    BY <1>1, <2>1, ExecutorFrame DEF Create
  <2>4. AnswersRequests'
    BY <1>1 DEF Create, outVars, busVars, TaskInv, AnswersRequests
  <2> QED BY <2>2, <2>3, <2>4 DEF TaskInv
<1>2. ASSUME NEW r \in Run, SelectPending(r) PROVE TaskInv'
  <2>1. VerdictMatchesRecord' /\ BusHolds'
    BY <1>2, BusFrame DEF SelectPending, dbVars, busVars
  <2>2. ExecutorHolds'
    BY <1>2 DEF SelectPending, Pending, dbVars, DbInv, EvidenceChain, Executing,
                ExecutorHolds
  <2>3. AnswersRequests'
    BY <1>2 DEF SelectPending, dbVars, outVars, busVars, TaskInv, AnswersRequests
  <2> QED BY <2>1, <2>2, <2>3 DEF TaskInv
<1>3. CASE BeginAcquisition
  <2>1. \A r \in Run : state'[r] = IF r = exRun THEN "acquiring" ELSE state[r]
    BY <1>3, MovePointwise DEF BeginAcquisition
  <2>2. VerdictMatchesRecord' /\ BusHolds'
    BY <1>3, <2>1, BusFrame DEF BeginAcquisition, busVars
  <2>3. ExecutorHolds'
    BY <1>3, <2>1 DEF BeginAcquisition, TypeOK, TaskInv, ExecutorHolds, Executing
  <2>4. AnswersRequests'
    BY <1>3 DEF BeginAcquisition, outVars, busVars, TaskInv, AnswersRequests
  <2> QED BY <2>2, <2>3, <2>4 DEF TaskInv
<1>4. CASE \/ AcquireDeferred \/ AcquireUnavailable
           \/ \E missing \in BOOLEAN : Acquire(missing)
           \/ \E s \in {"empty", "unbuildable", "built"}, t \in BOOLEAN : SelectSources(s, t)
  <2>1. UNCHANGED <<state, incomplete, manifest, result, requested, outVars, busVars>>
    BY <1>4 DEF AcquireDeferred, AcquireUnavailable, Acquire, SelectSources, dbVars
  <2>2. VerdictMatchesRecord' /\ BusHolds'
    BY <2>1, BusFrame DEF busVars
  <2>3. ExecutorHolds'
    BY <1>4, <2>1 DEF AcquireDeferred, AcquireUnavailable, Acquire, SelectSources,
                      ExecutorIdle, TaskInv, ExecutorHolds
  <2>4. AnswersRequests'
    BY <2>1 DEF outVars, busVars, TaskInv, AnswersRequests
  <2> QED BY <2>2, <2>3, <2>4 DEF TaskInv
<1>5. CASE RecordAcquisition
  <2>1. /\ exRun \in Run /\ exPc # "idle" /\ manifest[exRun] = None
        /\ incomplete' = [incomplete EXCEPT ![exRun] = exIncomplete]
    BY <1>5 DEF RecordAcquisition, TypeOK, TaskInv, ExecutorHolds
  <2>2. VerdictMatchesRecord' /\ BusHolds'
    <3>1. \A r \in Run : manifest[r] # None =>
              manifest'[r] = manifest[r] /\ incomplete'[r] = incomplete[r]
      BY <1>5, <2>1 DEF RecordAcquisition, TypeOK
    <3> QED BY <1>5, <3>1, BusFrame DEF RecordAcquisition, busVars
  <2>3. ExecutorHolds'
    BY <1>5, <2>1 DEF RecordAcquisition, TypeOK, TaskInv, ExecutorHolds
  <2>4. AnswersRequests'
    BY <1>5 DEF RecordAcquisition, outVars, busVars, TaskInv, AnswersRequests
  <2> QED BY <2>2, <2>3, <2>4 DEF TaskInv
<1>6. CASE FailRun \/ CompleteEmptyRun
  <2>1. exRun \in Run /\ state[exRun] \in Executing
    BY <1>6 DEF FailRun, CompleteEmptyRun, WantsFailure, WantsEmpty, TypeOK
  <2>2. \A r \in Run : state[r] = "failed" => state'[r] = "failed"
    BY <1>6, <2>1, MovePointwise DEF FailRun, CompleteEmptyRun, Executing
  <2>3. VerdictMatchesRecord' /\ BusHolds'
    BY <1>6, <2>2, BusFrame DEF FailRun, CompleteEmptyRun, busVars
  <2>4. ExecutorHolds'
    BY <1>6 DEF FailRun, CompleteEmptyRun, ExecutorIdle, ExecutorHolds
  <2>5. AnswersRequests'
    BY <1>6 DEF FailRun, CompleteEmptyRun, outVars, busVars, TaskInv, AnswersRequests
  <2> QED BY <2>3, <2>4, <2>5 DEF TaskInv
<1>7. ASSUME NEW d \in Digest, CommitManifest(d) PROVE TaskInv'
  <2>1. exRun \in Run /\ manifest[exRun] = None /\ state[exRun] \in Executing
    BY <1>7 DEF CommitManifest, WantsManifest, TypeOK
  <2>2. \A r \in Run : state[r] = "failed" => state'[r] = "failed"
    BY <1>7, <2>1, MovePointwise DEF CommitManifest, Executing
  <2>3. \A r \in Run : manifest[r] # None =>
            manifest'[r] = manifest[r] /\ incomplete'[r] = incomplete[r]
    BY <1>7, <2>1 DEF CommitManifest, TypeOK
  <2>4. VerdictMatchesRecord' /\ BusHolds'
    BY <1>7, <2>2, <2>3, BusFrame DEF CommitManifest, busVars
  <2>5. ExecutorHolds'
    BY <1>7 DEF CommitManifest, ExecutorIdle, ExecutorHolds
  <2>6. AnswersRequests'
    BY <1>7 DEF CommitManifest, outVars, busVars, TaskInv, AnswersRequests
  <2> QED BY <2>4, <2>5, <2>6 DEF TaskInv
<1>8. CASE ExecutorRefused \/ ExecutorError
  <2>1. VerdictMatchesRecord' /\ BusHolds'
    BY <1>8, BusFrame DEF ExecutorRefused, ExecutorError, dbVars, busVars
  <2>2. ExecutorHolds'
    BY <1>8 DEF ExecutorRefused, ExecutorError, ExecutorIdle, ExecutorHolds
  <2>3. AnswersRequests'
    BY <1>8 DEF ExecutorRefused, ExecutorError, dbVars, outVars, busVars, TaskInv,
                AnswersRequests
  <2> QED BY <2>1, <2>2, <2>3 DEF TaskInv
<1>9. CASE \/ \E r \in Run : FloodWaitEnds(r) \/ DeadlinePasses(r) \/ PublishRequest(r)
           \/ \E r \in Run, s \in Status : PublishReport(r, s)
           \/ \E f \in Fact : KnowledgeSends(f)
           \/ UNCHANGED vars
  <2>1. UNCHANGED <<state, incomplete, manifest, result, requested, exVars,
                    busPc, fact, flag, verdict>>
    BY <1>9 DEF FloodWaitEnds, DeadlinePasses, PublishRequest, PublishReport,
                KnowledgeSends, vars, dbVars, busVars
  <2>2. VerdictMatchesRecord' /\ BusHolds'
    BY <2>1, BusFrame
  <2>3. ExecutorHolds'
    BY <2>1, ExecutorFrame
  <2>4. AnswersRequests'
    BY <1>9, <2>1 DEF FloodWaitEnds, DeadlinePasses, PublishRequest, PublishReport,
                KnowledgeSends, vars, outVars, busVars, TaskInv, AnswersRequests
  <2> QED BY <2>2, <2>3, <2>4 DEF TaskInv
<1>10. ASSUME NEW rs \in SUBSET Run, Reap(rs) PROVE TaskInv'
  <2>1. \A r \in Run : state'[r] = IF r \in rs THEN "failed" ELSE state[r]
    BY <1>10, MovePointwise DEF Reap
  <2>2. VerdictMatchesRecord' /\ BusHolds'
    BY <1>10, <2>1, BusFrame DEF Reap, busVars
  <2>3. ExecutorHolds'
    BY <1>10, <2>1, ExecutorFrame DEF Reap
  <2>4. AnswersRequests'
    BY <1>10 DEF Reap, outVars, busVars, TaskInv, AnswersRequests
  <2> QED BY <2>2, <2>3, <2>4 DEF TaskInv
<1>11. ASSUME NEW f \in stream, Deliver(f) PROVE TaskInv'
  <2>1. VerdictMatchesRecord' /\ BusHolds'
    <3>1. f \in Fact
      BY DEF TypeOK
    <3>2. busPc' \in {"flag", "durable"} /\ (fact'.kind = "completed" => busPc' = "flag")
      BY <1>11 DEF Deliver
    <3> QED BY <3>2 DEF VerdictMatchesRecord, BusHolds
  <2>2. ExecutorHolds'
    BY <1>11, ExecutorFrame DEF Deliver, dbVars
  <2>3. AnswersRequests'
    BY <1>11 DEF Deliver, dbVars, outVars, TaskInv, AnswersRequests
  <2> QED BY <2>1, <2>2, <2>3 DEF TaskInv
<1>12. CASE ReadFlag
  <2>1. VerdictMatchesRecord' /\ BusHolds'
    BY <1>12 DEF ReadFlag, dbVars, VerdictMatchesRecord, BusHolds
  <2>2. ExecutorHolds'
    BY <1>12, ExecutorFrame DEF ReadFlag, dbVars
  <2>3. AnswersRequests'
    BY <1>12 DEF ReadFlag, dbVars, outVars, TaskInv, AnswersRequests
  <2> QED BY <2>1, <2>2, <2>3 DEF TaskInv
<1>13. CASE ReadExisting
  <2>0. /\ busPc = "existing" /\ fact \in Completion /\ fact.run \in Run
        /\ manifest[fact.run] # None /\ UNCHANGED <<fact, flag, dbVars>>
    BY <1>13, FactInHand DEF ReadExisting, TypeOK, Fact, Completion, Failure
  <2> DEFINE stored == {r \in Run : result[r] # None /\ result[r].id = fact.result}
  <2>1. VerdictMatchesRecord' /\ BusHolds'
    <3>1. CASE stored = {}
      BY <1>13, <2>0, <3>1 DEF ReadExisting, VerdictMatchesRecord, BusHolds, TaskInv, dbVars
    <3>2. CASE stored # {}
      <4>1. busPc' = "decided" /\ verdict' = IF \E r \in stored : SameResult(r)
                                            THEN "ack" ELSE "term"
        BY <1>13, <3>2 DEF ReadExisting, Decide
      <4>2. ASSUME result[fact.run] # None, result[fact.run].id = fact.result,
                   result[fact.run].omitted = fact.omitted,
                   manifest[fact.run].digest = fact.digest
            PROVE  \E r \in stored : SameResult(r)
        <5>1. result[fact.run] \in Result /\ result[fact.run].id # OwnId
          BY <2>0, <4>2, NullAssumption DEF TypeOK, Completion
        <5>2. flag = ~manifest[fact.run].whole
          BY <2>0 DEF DbInv, Provenance, TaskInv, BusHolds, Completion, TypeOK, Manifest
        <5>3. result[fact.run].outcome = Outcome
          BY <2>0, <4>2, <5>1, <5>2 DEF DbInv, Provenance, Outcome
        <5>4. result[fact.run] = CompletionRow
          BY <4>2, <5>1, <5>3 DEF Result, CompletionRow
        <5> QED BY <2>0, <4>2, <5>4 DEF SameResult
      <4>3. ASSUME NEW r \in stored, SameResult(r)
            PROVE  /\ result[fact.run] # None /\ result[fact.run].id = fact.result
                   /\ result[fact.run].omitted = fact.omitted
                   /\ manifest[fact.run].digest = fact.digest
        BY <4>3 DEF SameResult, CompletionRow
      <4>4. verdict' = "ack" <=> /\ result[fact.run] # None
                                 /\ result[fact.run].id = fact.result
                                 /\ result[fact.run].omitted = fact.omitted
                                 /\ manifest[fact.run].digest = fact.digest
        BY <4>1, <4>2, <4>3
      <4>5. fact.kind = "completed"
        BY <2>0 DEF Completion
      <4> HIDE DEF stored
      <4> QED BY <2>0, <4>1, <4>4, <4>5 DEF VerdictMatchesRecord, BusHolds, dbVars
    <3> QED BY <3>1, <3>2
  <2>2. ExecutorHolds'
    BY <1>13, ExecutorFrame DEF ReadExisting, dbVars
  <2>3. AnswersRequests'
    BY <1>13, <2>0 DEF ReadExisting, dbVars, outVars, TaskInv, AnswersRequests
  <2> QED BY <2>1, <2>2, <2>3 DEF TaskInv
<1>14. CASE ReadDurable
  <2>0. /\ busPc = "durable" /\ fact \in Fact /\ fact.run \in Run
        /\ UNCHANGED <<fact, flag, dbVars>>
    BY <1>14, FactInHand DEF ReadDurable
  <2>1. VerdictMatchesRecord' /\ BusHolds'
    <3>1. CASE Settleable
      BY <1>14, <2>0, <3>1 DEF ReadDurable, Settleable, dbVars, VerdictMatchesRecord,
                               BusHolds, TaskInv
    <3>2. CASE ~Settleable
      <4>1. /\ busPc' = "decided"
            /\ verdict' = "ack" => fact.kind = "failed" /\ state[fact.run] = "failed"
        BY <1>14, <3>2 DEF ReadDurable, Decide
      <4>2. fact.kind = "completed" =>
                ~(result[fact.run] # None /\ result[fact.run].id = fact.result)
        BY <2>0 DEF TaskInv, BusHolds
      <4> QED BY <2>0, <4>1, <4>2 DEF VerdictMatchesRecord, BusHolds, dbVars
    <3> QED BY <3>1, <3>2
  <2>2. ExecutorHolds'
    BY <1>14, ExecutorFrame DEF ReadDurable, dbVars
  <2>3. AnswersRequests'
    BY <1>14, <2>0 DEF ReadDurable, dbVars, outVars, TaskInv, AnswersRequests
  <2> QED BY <2>1, <2>2, <2>3 DEF TaskInv
<1>15. CASE SettleCompletion \/ SettleFailure
  <2> DEFINE lost == [id |-> OwnId, outcome |-> "failed", omitted |-> FALSE]
  <2>0. PICK row, st : Settle(row, st) /\ row = IF fact.kind = "completed"
                                               THEN CompletionRow ELSE lost
    BY <1>15 DEF SettleCompletion, SettleFailure
  <2>1. fact \in Fact /\ fact.run \in Run /\ busPc = "settle"
        /\ state[fact.run] = "waiting_recap"
    BY <2>0, FactInHand DEF Settle
  <2>2. \A r \in Run : state'[r] = IF r = fact.run THEN row.outcome ELSE state[r]
    BY <2>0, MovePointwise DEF Settle
  <2>3. result'[fact.run] = row /\ busPc' = "decided" /\ verdict' = "ack"
        /\ UNCHANGED <<fact, manifest>>
    BY <2>0, <2>1 DEF Settle, Decide, TypeOK
  <2>4. VerdictMatchesRecord' /\ BusHolds'
    <3>1. manifest[fact.run].digest = fact.digest
      BY <2>1 DEF TaskInv, BusHolds
    <3>2. CASE fact.kind = "completed"
      <4>1. row.id = fact.result /\ row.omitted = fact.omitted
        BY <2>0, <3>2 DEF CompletionRow
      <4>2. CompletionRow \in Result
        BY <2>1, <3>2 DEF CompletionRow, Outcome, Result, Terminal, Fact, Completion, Failure
      <4>3. row # None
        BY <2>0, <3>2, <4>2, NullAssumption
      <4> QED BY <2>3, <3>1, <3>2, <4>1, <4>3 DEF VerdictMatchesRecord, BusHolds
    <3>3. CASE fact.kind # "completed"
      <4>1. state'[fact.run] = "failed"
        BY <2>0, <2>1, <2>2, <3>3
      <4> QED BY <2>3, <3>3, <4>1 DEF VerdictMatchesRecord, BusHolds
    <3> QED BY <3>2, <3>3
  <2>5. ExecutorHolds'
    BY <2>0, <2>1, <2>2, ExecutorFrame DEF Settle
  <2>6. AnswersRequests'
    BY <2>0, <2>1 DEF Settle, Decide, outVars, TaskInv, AnswersRequests
  <2> QED BY <2>4, <2>5, <2>6 DEF TaskInv
<1>16. CASE SettleRefused
  <2>0. /\ busPc = "settle" /\ fact \in Fact /\ fact.run \in Run
        /\ busPc' = "decided" /\ verdict' = IF InboxKey \in inbox THEN "ack" ELSE "term"
        /\ UNCHANGED <<fact, flag, dbVars>>
    BY <1>16, FactInHand DEF SettleRefused, Decide
  <2>1. VerdictMatchesRecord' /\ BusHolds'
    <3>1. CASE fact.kind = "completed"
      <4>1. /\ ~(result[fact.run] # None /\ result[fact.run].id = fact.result)
            /\ \A r \in Run : result[r] # None => result[r].id # fact.result
        BY <2>0, <3>1 DEF TaskInv, BusHolds
      <4>2. fact.result \in ResultId
        BY <2>0, <3>1 DEF Fact, Completion, Failure
      <4>3. InboxKey \notin inbox
        BY <3>1, <4>1, <4>2 DEF InboxKey, DbInv, Provenance
      <4> QED BY <2>0, <3>1, <4>1, <4>3 DEF VerdictMatchesRecord, BusHolds, dbVars
    <3>2. CASE fact.kind # "completed"
      <4>1. InboxKey \in inbox => state[fact.run] = "failed"
        BY <2>0, <3>2 DEF InboxKey, DbInv, Provenance
      <4> QED BY <2>0, <3>2, <4>1 DEF VerdictMatchesRecord, BusHolds, dbVars
    <3> QED BY <3>1, <3>2
  <2>2. ExecutorHolds'
    BY <1>16, ExecutorFrame DEF SettleRefused, dbVars
  <2>3. AnswersRequests'
    BY <1>16, <2>0 DEF SettleRefused, dbVars, outVars, TaskInv, AnswersRequests
  <2> QED BY <2>1, <2>2, <2>3 DEF TaskInv
<1>17. CASE FinishDelivery \/ DeliveryInterrupted \/ WorkerRestart
  <2>1. VerdictMatchesRecord' /\ BusHolds'
    BY <1>17 DEF FinishDelivery, DeliveryInterrupted, WorkerRestart, BusIdle,
                 VerdictMatchesRecord, BusHolds
  <2>2. ExecutorHolds'
    BY <1>17 DEF FinishDelivery, DeliveryInterrupted, WorkerRestart, ExecutorIdle,
                 dbVars, exVars, TaskInv, ExecutorHolds
  <2>3. AnswersRequests'
    BY <1>17 DEF FinishDelivery, DeliveryInterrupted, WorkerRestart, BusIdle,
                 dbVars, outVars, TaskInv, AnswersRequests
  <2> QED BY <2>1, <2>2, <2>3 DEF TaskInv
<1>18. CASE Intake
  BY <1>18, <1>1 DEF Intake, AcceptRun, FanOut, Scheduled
<1>19. CASE Executor
  BY <1>19, <1>2, <1>3, <1>4, <1>5, <1>6, <1>7, <1>8, <1>9 DEF Executor
<1>20. CASE Bus
  BY <1>20, <1>11, <1>12, <1>13, <1>14, <1>15, <1>16, <1>17 DEF Bus
<1>21. CASE Outbox \/ Reaper
  BY <1>21, <1>9, <1>10 DEF Outbox, Reaper
<1> QED BY <1>9, <1>17, <1>18, <1>19, <1>20, <1>21 DEF Next

-----------------------------------------------------------------------------
\* The database part of the invariant is preserved by every step.
LEMMA DbStep == TypeOK /\ DbInv /\ TaskInv /\ [Next]_vars => DbInv'
<1> SUFFICES ASSUME TypeOK, DbInv, TaskInv, [Next]_vars PROVE DbInv'
  OBVIOUS
<1>1. CASE Intake
  BY <1>1, CreatePreservesDb DEF Intake, AcceptRun, FanOut, Scheduled
<1>2. CASE FailRun
  <2>1. exRun \in Run /\ state[exRun] \in Open
    BY <1>2 DEF FailRun, WantsFailure, TypeOK, Open
  <2> QED BY <1>2, <2>1, FailurePreservesDb DEF FailRun
<1>3. ASSUME NEW rs \in SUBSET Run, Reap(rs) PROVE DbInv'
  BY <1>3, FailurePreservesDb DEF Reap
<1>4. CASE \/ BeginAcquisition \/ CompleteEmptyRun \/ RecordAcquisition
           \/ \E d \in Digest : CommitManifest(d)
           \/ SettleCompletion \/ SettleFailure
  BY <1>4, BeginPreservesDb, CompleteEmptyPreservesDb, RecordPreservesDb,
     CommitPreservesDb, SettleCompletionPreservesDb, SettleFailurePreservesDb DEF TaskInv
<1>5. CASE \/ \E r \in Run : \/ SelectPending(r) \/ FloodWaitEnds(r)
                             \/ DeadlinePasses(r) \/ PublishRequest(r)
           \/ AcquireDeferred \/ AcquireUnavailable
           \/ \E missing \in BOOLEAN : Acquire(missing)
           \/ \E s \in {"empty", "unbuildable", "built"}, t \in BOOLEAN : SelectSources(s, t)
           \/ ExecutorRefused \/ ExecutorError
  BY <1>5, DbFrame DEF rowVars, dbVars, SelectPending, FloodWaitEnds, DeadlinePasses,
     PublishRequest, AcquireDeferred, AcquireUnavailable, Acquire, SelectSources,
     ExecutorRefused, ExecutorError
<1>6. CASE \/ \E f \in stream : Deliver(f)
           \/ ReadFlag \/ ReadExisting \/ ReadDurable \/ SettleRefused
           \/ FinishDelivery \/ DeliveryInterrupted \/ WorkerRestart
           \/ \E f \in Fact : KnowledgeSends(f)
           \/ \E r \in Run, s \in Status : PublishReport(r, s)
           \/ UNCHANGED vars
  BY <1>6, DbFrame DEF rowVars, dbVars, vars, Deliver, ReadFlag, ReadExisting,
     ReadDurable, SettleRefused, FinishDelivery, DeliveryInterrupted, WorkerRestart,
     KnowledgeSends, PublishReport
<1> QED BY <1>1, <1>2, <1>3, <1>4, <1>5, <1>6 DEF Next, Executor, Bus, Outbox, Reaper

LEMMA IInvParts == IInv <=> TypeOK /\ DbInv /\ TaskInv
BY DEF IInv, DbInv, TaskInv

LEMMA InitIInv == Init => IInv
<1> SUFFICES ASSUME Init PROVE IInv
  OBVIOUS
<1>1. TypeOK
  BY InitType
<1>2. DbInv
  <2>1. \A r \in Run : /\ state[r] = "absent" /\ manifest[r] = None /\ result[r] = None
                       /\ reports[r] = {} /\ r \notin requested
    BY DEF Init
  <2>2. TerminalReport("absent") = {}
    BY DEF TerminalReport
  <2>3. ReportsMatchState
    BY <2>1, <2>2 DEF ReportsMatchState
  <2>4. EvidenceChain /\ HonestCompletion
    BY <2>1 DEF EvidenceChain, HonestCompletion
  <2>5. ReportHistory
    BY <2>1, RunAssumption DEF ReportHistory
  <2>6. Provenance
    BY <2>1 DEF Provenance, Init
  <2> QED BY <2>3, <2>4, <2>5, <2>6 DEF DbInv
<1>3. TaskInv
  BY DEF Init, TaskInv, VerdictMatchesRecord, ExecutorHolds, AnswersRequests, BusHolds
<1> QED BY <1>1, <1>2, <1>3, IInvParts

\* The inductive invariant holds throughout: the reads the bus task makes
\* before its transaction and the flag the executor writes without a guard stay
\* consistent with the rows in every interleaving.
THEOREM Invariance == Spec => []IInv
<1>1. IInv /\ [Next]_vars => IInv'
  <2> SUFFICES ASSUME TypeOK, DbInv, TaskInv, [Next]_vars
               PROVE  TypeOK' /\ DbInv' /\ TaskInv'
    BY DEF IInv, DbInv, TaskInv
  <2> QED BY TypeStep, DbStep, TaskStep
<1> QED BY <1>1, InitIInv, PTL DEF Spec

\* Exactly one terminal report per settled on-demand run, the one its state
\* calls for, whoever settled it.
THEOREM OneTerminalReport == Spec => []ReportsMatchState
<1>1. IInv => ReportsMatchState
  BY DEF IInv
<1> QED BY <1>1, Invariance, PTL

\* Manifest, recap request, result and state of a run always agree.
THEOREM EvidenceIsLinked == Spec => []EvidenceChain
<1>1. IInv => EvidenceChain
  BY DEF IInv
<1> QED BY <1>1, Invariance, PTL

\* No run completes over posts that were missed, and none is partial without
\* a cause.
THEOREM CompletionIsHonest == Spec => []HonestCompletion
<1>1. IInv => HonestCompletion
  BY DEF IInv
<1> QED BY <1>1, Invariance, PTL

\* A completion is acknowledged exactly when it is the stored result.
THEOREM VerdictIsRight == Spec => []VerdictMatchesRecord
<1>1. IInv => VerdictMatchesRecord
  BY DEF IInv
<1> QED BY <1>1, Invariance, PTL
=============================================================================
