------------------------------- MODULE Readiness -------------------------------
(***************************************************************************)
(* The worker process (runtime.rs run_worker, WorkerReadiness and          *)
(* Lifecycle; bus.rs supervise_bus).  The bus task and the provider task   *)
(* each keep a flag and, after every change of it, compute readiness from  *)
(* both; the other tasks only work.  A signal turns readiness off and      *)
(* tells every task to drain, and the process ends when all are joined or  *)
(* the shutdown bound is over.                                             *)
(*                                                                         *)
(* The tasks run on several threads, so set_bus and set_provider interleave*)
(* at each of their atomic operations: the store of the own flag, the load *)
(* of the bus flag, the load of the provider flag (only if the first was   *)
(* set), the store of the result.                                          *)
(***************************************************************************)

CONSTANTS Worker   \* the tasks without a flag: server, reaper, retention

Flagged == {"bus", "provider"}
Task    == Flagged \cup Worker

ASSUME WorkerAssumption == Worker \cap Flagged = {}

VARIABLES
    flag,      \* the bus and the provider flag of WorkerReadiness
    ready,     \* Lifecycle, what /ready answers
    drain,     \* the value of the watch channel
    seen,      \* tasks whose receiver has taken the change
    at,        \* where each task is
    call,      \* where its set_bus or set_provider is, "none" outside one
    value,     \* what the call will store: the flag first, then the result
    main       \* run_worker

calls == <<flag, ready, call, value>>
vars  == <<calls, drain, seen, at, main>>

Init ==
    /\ flag = [t \in Flagged |-> FALSE] /\ ready = FALSE
    /\ drain = FALSE /\ seen = {}
    /\ at = [t \in Task |-> IF t \in Flagged THEN "try" ELSE "loop"]
    /\ call = [t \in Flagged |-> "none"] /\ value = [t \in Flagged |-> FALSE]
    /\ main = "serving"

\* The process has not ended.
Alive == main \in {"serving", "send", "join"}

-----------------------------------------------------------------------------
(* set_bus and set_provider. *)

Begin(t, up) == call' = [call EXCEPT ![t] = "store"] /\ value' = [value EXCEPT ![t] = up]
                /\ UNCHANGED <<flag, ready>>

StoreFlag(t) ==
    /\ call[t] = "store"
    /\ flag' = [flag EXCEPT ![t] = value[t]]
    /\ call' = [call EXCEPT ![t] = "load bus"]
    /\ UNCHANGED <<ready, value>>

LoadBus(t) ==
    /\ call[t] = "load bus"
    /\ value' = [value EXCEPT ![t] = flag["bus"]]
    /\ call' = [call EXCEPT ![t] = IF flag["bus"] THEN "load provider" ELSE "publish"]
    /\ UNCHANGED <<flag, ready>>

LoadProvider(t) ==
    /\ call[t] = "load provider"
    /\ value' = [value EXCEPT ![t] = flag["provider"]]
    /\ call' = [call EXCEPT ![t] = "publish"]
    /\ UNCHANGED <<flag, ready>>

SetReady(t) ==
    /\ call[t] = "publish"
    /\ ready' = value[t]
    /\ call' = [call EXCEPT ![t] = "none"]
    /\ UNCHANGED <<flag, value>>

Call(t) ==
    /\ Alive
    /\ StoreFlag(t) \/ LoadBus(t) \/ LoadProvider(t) \/ SetReady(t)
    /\ UNCHANGED <<drain, seen, at, main>>

-----------------------------------------------------------------------------
(* supervise_bus and supervise_provider. *)

Go(t, from, to) == Alive /\ call[t] = "none" /\ at[t] = from
                   /\ at' = [at EXCEPT ![t] = to] /\ UNCHANGED <<drain, main>>

\* A mutant: changed() returns at once.
ChangedAtOnce(t) == t \notin seen /\ seen' = seen \cup {t}

\* drain.changed() returns, once.
Changed(t) == drain /\ t \notin seen /\ seen' = seen \cup {t}

\* A mutant: the loop has no condition.
TryForever(t) == Go(t, "try", "connect") /\ UNCHANGED <<calls, seen>>

\* The loop condition.
Try(t) == Go(t, "try", IF drain THEN "done" ELSE "connect") /\ UNCHANGED <<calls, seen>>

Connected(t) == Go(t, "connect", "up") /\ Begin(t, TRUE) /\ UNCHANGED seen

\* A mutant: only a session that was up lowers the flag.
ConnectFailsQuietly(t) == Go(t, "connect", "failed") /\ UNCHANGED <<calls, seen>>

\* The bus task and the provider task lower their flag after a failed attempt.
ConnectFails(t) == Go(t, "connect", "failed") /\ Begin(t, FALSE) /\ UNCHANGED seen

\* A bus session ends; the provider is kept until the drain.
SessionEnds == Go("bus", "up", "failed") /\ Begin("bus", FALSE) /\ UNCHANGED seen

\* A mutant: the drain leaves the flag.
DrainedQuietly(t) ==
    /\ Changed(t)
    /\ Go(t, "up", IF t = "bus" THEN "failed" ELSE "try")
    /\ UNCHANGED calls

Drained(t) ==
    /\ Changed(t)
    /\ Go(t, "up", IF t = "bus" THEN "failed" ELSE "try")
    /\ Begin(t, FALSE)

\* execute_one; a delivery.
Work(t) == Go(t, "up", "busy") /\ UNCHANGED <<calls, seen>>
WorkDone(t) == Go(t, "busy", "up") /\ UNCHANGED <<calls, seen>>

\* The bus task looks at the drain before it sleeps.
Failed(t) ==
    /\ Go(t, "failed", IF t = "bus" /\ drain THEN "done" ELSE "sleep")
    /\ UNCHANGED <<calls, seen>>

Slept(t) == Go(t, "sleep", "try") /\ UNCHANGED <<calls, seen>>
Woken(t) == Changed(t) /\ Go(t, "sleep", "try") /\ UNCHANGED calls

Supervise(t) ==
    \/ Try(t) \/ Connected(t) \/ ConnectFails(t) \/ Drained(t)
    \/ Work(t) \/ WorkDone(t) \/ Failed(t) \/ Slept(t) \/ Woken(t)

-----------------------------------------------------------------------------
(* supervise_reaper, supervise_retention, serve. *)

Move(t, from, to) == Alive /\ at[t] = from /\ at' = [at EXCEPT ![t] = to]
                     /\ UNCHANGED <<calls, drain, main>>

Loop(t) ==
    \/ Move(t, "loop", "busy") /\ UNCHANGED seen
    \/ Move(t, "busy", "loop") /\ UNCHANGED seen
    \/ Move(t, "loop", "done") /\ Changed(t)

-----------------------------------------------------------------------------
(* run_worker, from the signal on. *)

BeginDrain ==
    /\ main = "serving" /\ main' = "send"
    /\ ready' = FALSE
    /\ UNCHANGED <<flag, call, value, drain, seen, at>>

Send ==
    /\ main = "send" /\ main' = "join"
    /\ drain' = TRUE
    /\ UNCHANGED <<calls, seen, at>>

Joined == \A t \in Task : at[t] = "done"

\* join_servers, in time or not.
Join ==
    /\ main = "join"
    /\ \/ Joined /\ main' = "closed"
       \/ ~Joined /\ main' = "timed out"
    /\ UNCHANGED <<calls, drain, seen, at>>

Next ==
    \/ \E t \in Flagged : Call(t) \/ Supervise(t)
    \/ SessionEnds
    \/ \E t \in Worker : Loop(t)
    \/ BeginDrain \/ Send \/ Join

Spec == Init /\ [][Next]_vars

\* Every task is run; a select that may take the drain takes it (biased), and what
\* a task is busy with ends, by its own timeouts.
Fairness ==
    /\ \A t \in Flagged :
         /\ WF_vars(Call(t))
         /\ WF_vars(Try(t) \/ Connected(t) \/ ConnectFails(t) \/ WorkDone(t)
                    \/ Failed(t) \/ Slept(t))
         /\ SF_vars(Drained(t))
    /\ \A t \in Worker : WF_vars(Move(t, "busy", "loop") /\ UNCHANGED seen)
                         /\ SF_vars(Move(t, "loop", "done") /\ Changed(t))
    /\ WF_vars(Send)
    /\ WF_vars(Joined /\ Join)

FairSpec == Spec /\ Fairness

-----------------------------------------------------------------------------
(* What must hold. *)

\* Every variable holds a value of its kind, and no task has seen a drain that was
\* not sent.
TypeOK ==
    /\ flag \in [Flagged -> BOOLEAN] /\ ready \in BOOLEAN
    /\ drain \in BOOLEAN /\ seen \subseteq Task /\ (seen # {} => drain)
    /\ call \in [Flagged -> {"none", "store", "load bus", "load provider", "publish"}]
    /\ value \in [Flagged -> BOOLEAN]
    /\ DOMAIN at = Task
    /\ \A t \in Flagged : at[t] \in {"try", "connect", "up", "busy", "failed", "sleep", "done"}
    /\ \A t \in Worker : at[t] \in {"loop", "busy", "done"}
    /\ main \in {"serving", "send", "join", "closed", "timed out"}

\* INTERFACES.md: a drain turns readiness off before work is joined.  A task may
\* still announce itself after the signal; once the bus task and the provider
\* task have returned, the worker is not ready, whatever order their last
\* computations of readiness were interleaved in.
JoinedIsNotReady == at["bus"] = "done" /\ at["provider"] = "done" => ~ready

\* supervise_bus: a bus that stays down is seen in the end, although a computation
\* that began while it was up may store its result later.
DownIsSeen ==
    <>[](at["bus"] # "up" /\ at["bus"] # "busy") => <>[](~(Alive /\ ready))

\* run_worker: once the drain is sent every task returns and is joined, wherever
\* it was, unless the shutdown bound is over first.
DrainEnds == main = "join" ~> main \in {"closed", "timed out"}

\* INTERFACES.md: worker readiness requires the bus and the provider; OPERATIONS.md:
\* /ready reports dependency readiness.  A worker whose bus and provider stay up
\* is ready in the end.
UpIsSeen ==
    <>[](flag["bus"] /\ flag["provider"] /\ main = "serving") => []<>ready
=============================================================================
