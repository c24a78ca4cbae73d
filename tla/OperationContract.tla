-------------------------- MODULE OperationContract --------------------------
(***************************************************************************)
(* What the service promises Platform about an operation it owns: once     *)
(* queued it may be seen running, it ends in exactly one terminal status,  *)
(* and it does end.  This is the abstract specification the run life cycle *)
(* implements; it knows no executor, no Knowledge, no deadline.            *)
(***************************************************************************)
CONSTANT Operation
VARIABLE status

Ended == {"succeeded", "partially_succeeded", "failed"}

Init == status = [o \in Operation |-> "none"]

Become(o, from, to) ==
    /\ status[o] \in from
    /\ status' = [status EXCEPT ![o] = to]

Queue(o)  == Become(o, {"none"}, "queued")
Start(o)  == Become(o, {"queued"}, "running")

\* A deadline may end several operations at once.
Expire(os) ==
    /\ \A o \in os : status[o] \in {"queued", "running"}
    /\ status' = [o \in Operation |-> IF o \in os THEN "failed" ELSE status[o]]

\* Only a running operation can succeed: nothing is produced unacquired.
Finish(o) == \/ \E to \in Ended : Become(o, {"running"}, to)
             \/ Expire({o})

Next == \/ \E o \in Operation : Queue(o) \/ Start(o) \/ Finish(o)
        \/ \E os \in SUBSET Operation : Expire(os)

Spec == Init /\ [][Next]_status /\ \A o \in Operation : WF_status(Finish(o))
=============================================================================
