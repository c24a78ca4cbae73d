--------------------------- MODULE Readiness_proofs ---------------------------
(***************************************************************************)
(* The worker is not ready once its two flagged tasks have returned, for   *)
(* any set of other tasks and any interleaving of the atomic operations    *)
(* of set_bus and set_provider (runtime.rs WorkerReadiness).               *)
(***************************************************************************)
EXTENDS Readiness, TLAPS

\* A task that is down, and the part of its set_bus(false) or set_provider(false)
\* that is still to come.
Down(t) == at[t] \notin {"up", "busy"}

Lowering(t) ==
    Down(t) => /\ call[t] = "store" => ~value[t]
               /\ call[t] # "store" => ~flag[t]
               /\ call[t] = "publish" => ~value[t]
               /\ t = "bus" => call[t] # "load provider"

\* runtime.rs: what makes JoinedIsNotReady inductive.  A task that is down has
\* lowered its flag or is about to, its computation can only end in not ready, and
\* when both are down and have finished theirs, the worker is not ready.
IInv ==
    /\ TypeOK
    /\ \A t \in Flagged : Lowering(t) /\ (at[t] = "done" => call[t] = "none")
    /\ (\A t \in Flagged : Down(t) /\ call[t] = "none") => ~ready

USE WorkerAssumption DEF Flagged, Task

\* The initial state of run_worker.
LEMMA InitInv == Init => IInv
BY DEF Init, IInv, TypeOK, Lowering, Down

\* A step inside set_bus or set_provider leaves a lowered flag lowered, and a
\* computation of a task that is down can only store "not ready".
LEMMA CallInv ==
    ASSUME NEW t \in Flagged, IInv, Call(t)
    PROVE  IInv'
<1> USE DEF IInv, TypeOK, Lowering, Down
<1>1. CASE StoreFlag(t)
  BY <1>1 DEF StoreFlag, Call
<1>2. CASE LoadBus(t)
  BY <1>2 DEF LoadBus, Call
<1>3. CASE LoadProvider(t)
  BY <1>3 DEF LoadProvider, Call
<1>4. CASE SetReady(t)
  BY <1>4 DEF SetReady, Call
<1>5. QED
  BY <1>1, <1>2, <1>3, <1>4 DEF Call

\* A task leaves "up" only by beginning to lower its flag, and begins a call only
\* when the one before has returned.
LEMMA SuperviseInv ==
    ASSUME NEW t \in Flagged, IInv, Supervise(t) \/ (t = "bus" /\ SessionEnds)
    PROVE  IInv'
<1> USE DEF IInv, TypeOK, Lowering, Down, Go, Begin, Changed, calls
<1>1. CASE Try(t)
  BY <1>1 DEF Try
<1>2. CASE Connected(t)
  BY <1>2 DEF Connected
<1>3. CASE ConnectFails(t)
  BY <1>3 DEF ConnectFails
<1>4. CASE Drained(t)
  BY <1>4 DEF Drained
<1>5. CASE Work(t)
  BY <1>5 DEF Work
<1>6. CASE WorkDone(t)
  BY <1>6 DEF WorkDone
<1>7. CASE Failed(t)
  BY <1>7 DEF Failed
<1>8. CASE Slept(t)
  BY <1>8 DEF Slept
<1>9. CASE Woken(t)
  BY <1>9 DEF Woken
<1>10. CASE t = "bus" /\ SessionEnds
  BY <1>10 DEF SessionEnds
<1>11. QED
  BY <1>1, <1>2, <1>3, <1>4, <1>5, <1>6, <1>7, <1>8, <1>9, <1>10 DEF Supervise

\* The tasks without a flag touch no part of readiness.
LEMMA LoopInv ==
    ASSUME NEW t \in Worker, IInv, Loop(t)
    PROVE  IInv'
<1> USE DEF IInv, TypeOK, Lowering, Down, Move, calls
<1>1. CASE Move(t, "loop", "busy") /\ UNCHANGED seen
  BY <1>1
<1>2. CASE Move(t, "busy", "loop") /\ UNCHANGED seen
  BY <1>2
<1>3. CASE Move(t, "loop", "done") /\ Changed(t)
  BY <1>3 DEF Changed
<1>4. QED
  BY <1>1, <1>2, <1>3 DEF Loop

\* The signal, the drain and the join.
LEMMA MainInv ==
    ASSUME IInv, BeginDrain \/ Send \/ Join
    PROVE  IInv'
<1> USE DEF IInv, TypeOK, Lowering, Down, calls
<1>1. CASE BeginDrain
  BY <1>1 DEF BeginDrain
<1>2. CASE Send
  BY <1>2 DEF Send
<1>3. CASE Join
  BY <1>3 DEF Join
<1>4. QED
  BY <1>1, <1>2, <1>3

LEMMA StepInv == IInv /\ [Next]_vars => IInv'
<1> SUFFICES ASSUME IInv, [Next]_vars PROVE IInv'
  OBVIOUS
<1>1. CASE Next
  BY <1>1, CallInv, SuperviseInv, LoopInv, MainInv DEF Next
<1>2. CASE UNCHANGED vars
  BY <1>2 DEF IInv, TypeOK, Lowering, Down, vars, calls
<1>3. QED
  BY <1>1, <1>2

\* The inductive invariant of readiness holds in every reachable state.
THEOREM Invariance == Spec => []IInv
BY InitInv, StepInv, PTL DEF Spec

\* run_worker, set_bus, set_provider: every variable keeps its kind, and no task
\* sees a drain that was not sent.
THEOREM TypeCorrect == Spec => []TypeOK
<1>1. IInv => TypeOK
  BY DEF IInv
<1>2. QED
  BY <1>1, Invariance, PTL

\* runtime.rs: once the bus task and the provider task have returned the worker is
\* not ready, whatever the order of the last loads and stores of the two.
THEOREM ReturnedIsNotReady == Spec => []JoinedIsNotReady
<1>1. IInv => JoinedIsNotReady
  BY DEF IInv, JoinedIsNotReady, Down
<1>2. QED
  BY <1>1, Invariance, PTL
=============================================================================
