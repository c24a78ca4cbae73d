------------------------------ MODULE Retention ------------------------------
(***************************************************************************)
(* How long the texts stay: the retention sweep (maintenance.rs,           *)
(* retention.rs) beside the executor that walks, selects and commits       *)
(* (executor.rs select_sources and commit, coordinator.rs commit_manifest, *)
(* manifest.rs), the withdrawals of the walks (revisions.rs) and the       *)
(* manifest endpoint (api.rs get_manifest).                                *)
(*                                                                         *)
(* Time is counted in days.  Message m is published on day m and may be    *)
(* edited once and deleted; its revisions are its first and second text.   *)
(* The walk of a run is one step here (module Acquisition has its steps);  *)
(* the sweep works between any two statements of a run.                    *)
(***************************************************************************)
EXTENDS Integers, FiniteSets

CONSTANTS
    Run,           \* runs, of one or several owners, over the same channel
    Start, End,    \* the window of each run
    None,
    BodyDays,      \* config.rs: the age at which a text is dropped
    SourceCount,   \* config.rs: messages one digest takes
    SweepBatch,    \* retention.rs: rows one statement minimizes
    MaxMessage,    \* bound: messages are 1..MaxMessage
    MaxDay,        \* bound: days are 1..MaxDay
    MaxChanged,    \* bound: messages that are edited or deleted
    MaxFaults      \* bound: restarts and storage errors

Message  == 1 .. MaxMessage
Version  == {1, 2}
Revision == Message \X Version

ASSUME RetentionAssumption ==
    /\ Start \in [Run -> Nat] /\ End \in [Run -> Nat]
    /\ \A r \in Run : Start[r] < End[r] /\ End[r] - Start[r] < BodyDays
    /\ None \notin Run
    /\ BodyDays \in Nat /\ SourceCount \in Nat \ {0} /\ SweepBatch \in Nat \ {0}
    /\ MaxMessage \in Nat /\ MaxDay \in Nat \ {0} /\ MaxChanged \in Nat /\ MaxFaults \in Nat

VARIABLES
    day,        \* now
    post,       \* the text each message has now: its version, 0 when it is gone
    \* the database
    stored,     \* post_revisions: the revisions that have a row
    observed,   \* their observed_at, 0: no row
    body,       \* those that still have their body
    withdrawn,  \* messages with deleted_at
    state,      \* digest_runs.state
    incomplete, \* digest_runs.acquisition_incomplete
    holds,      \* digest_manifests: the revisions of each run's manifest, {}: none
    text,       \* runs whose manifest has its canonical_text
    \* the executor
    step,       \* where it is
    run,        \* the run it executes
    partly,     \* its walk left something unread
    chosen,     \* the sources it selected
    \* the sweep
    cutoff,     \* while it is between its two statements; None before the first
    faults

executor == <<step, run, partly, chosen>>
runs     == <<state, incomplete>>
vars     == <<day, post, stored, observed, body, withdrawn, runs, holds, text, executor, cutoff,
              faults>>

Open    == {"accepted", "waiting_recap"}
Settled == {"completed", "failed"}

Init ==
    /\ day = 1
    /\ post = [m \in Message |-> 1]
    /\ stored = {} /\ body = {} /\ withdrawn = {}
    /\ observed = [p \in Revision |-> 0]
    /\ state = [r \in Run |-> "accepted"] /\ incomplete = [r \in Run |-> FALSE]
    /\ holds = [r \in Run |-> {}] /\ text = {}
    /\ step = "idle" /\ run = None /\ partly = FALSE /\ chosen = {}
    /\ cutoff = None
    /\ faults = 0

Fault == faults < MaxFaults /\ faults' = faults + 1

-----------------------------------------------------------------------------
(* Time and the channel. *)

NextDay ==
    /\ day < MaxDay /\ day' = day + 1
    /\ UNCHANGED <<post, stored, observed, body, withdrawn, runs, holds, text, executor, cutoff,
                   faults>>

\* An edit, or a deletion for good.
Change(m) ==
    /\ m <= day /\ post[m] # 0
    /\ Cardinality({n \in Message : post[n] # 1} \cup {m}) <= MaxChanged
    /\ \E v \in {0, 2} \ {post[m]} : post' = [post EXCEPT ![m] = v]
    /\ UNCHANGED <<day, stored, observed, body, withdrawn, runs, holds, text, executor, cutoff,
                   faults>>

-----------------------------------------------------------------------------
(* The executor. *)

Window(r) == {m \in Message : Start[r] <= m /\ m < End[r]}
MessagesOf(revisions) == {p[1] : p \in revisions}

\* append_revision: a new row is observed at the end of the run's window.
Stamp(r, new) == [p \in Revision |-> IF p \in new THEN End[r] ELSE observed[p]]

Idle == step' = "idle" /\ run' = None /\ partly' = FALSE /\ chosen' = {}

\* A mutant: the rows of a withdrawn message are deleted.
AcquireDeleting(r) ==
    /\ step = "idle" /\ state[r] = "accepted" /\ day >= End[r]
    /\ LET found == {<<m, post[m]>> : m \in {n \in Window(r) : post[n] # 0}}
           gone  == {m \in MessagesOf(stored) : m >= Start[r] /\ post[m] = 0}
       IN  /\ stored' = {p \in stored \cup found : p[1] \notin gone}
           /\ observed' = Stamp(r, found \ stored)
           /\ body' = {p \in body \cup (found \ stored) : p[1] \notin gone}
           /\ withdrawn' = withdrawn \cup gone
           /\ text' = {q \in text : MessagesOf(holds[q]) \cap gone = {}}
    /\ step' = "select" /\ run' = r
    /\ UNCHANGED <<day, post, runs, holds, partly, chosen, cutoff, faults>>

\* A mutant: a revision seen again has its body again.
AcquireRenewing(r) ==
    /\ step = "idle" /\ state[r] = "accepted" /\ day >= End[r]
    /\ LET found == {<<m, post[m]>> : m \in {n \in Window(r) : post[n] # 0}}
       IN  /\ stored' = stored \cup found /\ body' = body \cup found
           /\ observed' = Stamp(r, found \ stored)
    /\ step' = "select" /\ run' = r
    /\ UNCHANGED <<day, post, withdrawn, runs, holds, text, partly, chosen, cutoff, faults>>

\* execute_one takes the run; its walk appends what the window holds (a revision
\* that has a row is left as it is) and withdraws the stored messages that are
\* gone, their bodies, and the text of the manifests that hold one of them.
Acquire(r) ==
    /\ step = "idle" /\ state[r] = "accepted" /\ day >= End[r]
    /\ LET found == {<<m, post[m]>> : m \in {n \in Window(r) : post[n] # 0}}
           gone  == {m \in MessagesOf(stored) : m >= Start[r] /\ post[m] = 0}
       IN  /\ stored' = stored \cup found
           /\ observed' = Stamp(r, found \ stored)
           /\ body' = {p \in body \cup (found \ stored) : p[1] \notin gone}
           /\ withdrawn' = withdrawn \cup gone
           /\ text' = {q \in text : MessagesOf(holds[q]) \cap gone = {}}
    /\ step' = "select" /\ run' = r
    /\ partly' \in BOOLEAN
    /\ UNCHANGED <<day, post, runs, holds, chosen, cutoff, faults>>

\* The messages of the window with a live text.
Eligible(r) == Window(r) \cap (MessagesOf(body) \ withdrawn)

\* The latest text of each: observed for the latest window end, then inserted last.
NotAfter(p, q) == observed[p] < observed[q] \/ (observed[p] = observed[q] /\ p[2] <= q[2])
LatestOf(m, revisions) ==
    CHOOSE v \in Version : /\ <<m, v>> \in revisions
                           /\ \A w \in Version : <<m, w>> \in revisions =>
                                                   NotAfter(<<m, w>>, <<m, v>>)
Newest(M) == {m \in M : Cardinality({n \in M : n > m}) < SourceCount}

\* select_sources, and record_acquisition with what it found.
SelectSources ==
    /\ step = "select" /\ step' = "commit"
    /\ chosen' = {<<m, LatestOf(m, body)>> : m \in Newest(Eligible(run))}
    /\ incomplete' = [incomplete EXCEPT
                        ![run] = partly \/ Cardinality(Eligible(run)) > Cardinality(chosen')]
    /\ UNCHANGED <<day, post, stored, observed, body, withdrawn, state, holds, text, run, partly,
                   cutoff, faults>>

\* commit: the manifest and the recap request, or the end of an empty run; a run
\* that was given up meanwhile is left as it is.
Commit ==
    /\ step = "commit"
    /\ IF state[run] # "accepted"
       THEN UNCHANGED <<state, holds, text>>
       ELSE IF chosen = {}
       THEN /\ state' = [state EXCEPT ![run] = IF incomplete[run] THEN "failed"
                                                                   ELSE "completed"]
            /\ UNCHANGED <<holds, text>>
       ELSE /\ state' = [state EXCEPT ![run] = "waiting_recap"]
            /\ holds' = [holds EXCEPT ![run] = chosen]
            /\ text' = text \cup {run}
    /\ Idle
    /\ UNCHANGED <<day, post, stored, observed, body, withdrawn, incomplete, cutoff, faults>>

\* The process restarts or a statement fails: the run is executed again.
ExecutorFails ==
    /\ step # "idle" /\ Fault /\ Idle
    /\ UNCHANGED <<day, post, stored, observed, body, withdrawn, runs, holds, text, cutoff>>

\* Knowledge answers, or the reaper gives the run up.
Settle(r) ==
    /\ state[r] \in Open
    /\ \E s \in Settled : /\ s = "completed" => state[r] = "waiting_recap"
                          /\ state' = [state EXCEPT ![r] = s]
    /\ UNCHANGED <<day, post, stored, observed, body, withdrawn, incomplete, holds, text, executor,
                   cutoff, faults>>

-----------------------------------------------------------------------------
(* The sweep. *)

\* A mutant: the newer revisions of a message first.
BeforeByAge(p, q) == p[1] < q[1] \/ (p[1] = q[1] /\ p[2] > q[2])

\* Older messages first, and the older revisions of a message.
Before(p, q) == p[1] < q[1] \/ (p[1] = q[1] /\ p[2] < q[2])

\* A mutant: off by one.
ExpiredToday(c) == {p \in body : p[1] <= c}

\* The bodies published before the cutoff.
Expired(c) == {p \in body : p[1] < c}

\* A mutant: the manifests are passed over when no body has expired.
SweepBodiesOnly ==
    /\ cutoff = None
    /\ LET c == day - BodyDays IN
       /\ cutoff' = IF Expired(c) = {} THEN None ELSE c
       /\ body' = body \ {p \in Expired(c) :
                            Cardinality({q \in Expired(c) : Before(q, p)}) < SweepBatch}
    /\ UNCHANGED <<day, post, stored, observed, withdrawn, runs, holds, text, executor, faults>>

\* minimize_before.
SweepBodies ==
    /\ cutoff = None /\ cutoff' = day - BodyDays
    /\ body' = body \ {p \in Expired(cutoff') :
                         Cardinality({q \in Expired(cutoff') : Before(q, p)}) < SweepBatch}
    /\ UNCHANGED <<day, post, stored, observed, withdrawn, runs, holds, text, executor, faults>>

\* A mutant: open runs too.
ExpiredTextsOfAll(c) == {r \in text : Start[r] < c}

\* Manifests of settled runs with an old window, the oldest windows first.
ExpiredTexts(c) == {r \in text : state[r] \in Settled /\ Start[r] < c}

\* minimize_manifests_before.
SweepManifests ==
    /\ cutoff # None /\ cutoff' = None
    /\ \E batch \in SUBSET ExpiredTexts(cutoff) :
         /\ Cardinality(batch) = IF Cardinality(ExpiredTexts(cutoff)) < SweepBatch
                                 THEN Cardinality(ExpiredTexts(cutoff)) ELSE SweepBatch
         /\ \A r \in batch, q \in ExpiredTexts(cutoff) \ batch : Start[r] <= Start[q]
         /\ text' = text \ batch
    /\ UNCHANGED <<day, post, stored, observed, body, withdrawn, runs, holds, executor, faults>>

\* The second statement fails, or the process ends between the two.
SweepFails ==
    /\ cutoff # None /\ cutoff' = None
    /\ Fault
    /\ UNCHANGED <<day, post, stored, observed, body, withdrawn, runs, holds, text, executor>>

Next ==
    \/ NextDay
    \/ \E m \in Message : Change(m)
    \/ \E r \in Run : Acquire(r) \/ Settle(r)
    \/ SelectSources \/ Commit \/ ExecutorFails
    \/ SweepBodies \/ SweepManifests \/ SweepFails

Spec == Init /\ [][Next]_vars

\* The sweep's timer goes on, whatever the bus and the provider do.
FairSpec == Spec /\ WF_vars(SweepBodies) /\ WF_vars(SweepManifests)

-----------------------------------------------------------------------------
(* The manifest endpoint. *)

\* get_manifest, with claims that match the row or do not.
Answer(r, claimed) ==
    IF holds[r] = {} \/ ~claimed THEN "not found"
    ELSE IF r \in text THEN "ok" ELSE "gone"

-----------------------------------------------------------------------------
(* What must hold. *)

\* Every variable holds a value of its kind; a body, a withdrawal and a manifest
\* always have the revision row they are about.
TypeOK ==
    /\ day \in 1 .. MaxDay /\ post \in [Message -> {0} \cup Version]
    /\ stored \subseteq Revision /\ body \subseteq stored
    /\ observed \in [Revision -> Nat]
    /\ \A p \in stored : \E r \in Run : observed[p] = End[r]
    /\ withdrawn \subseteq MessagesOf(stored)
    /\ state \in [Run -> Open \cup Settled] /\ incomplete \in [Run -> BOOLEAN]
    /\ holds \in [Run -> SUBSET stored] /\ text \subseteq Run
    /\ step \in {"idle", "select", "commit"} /\ run \in Run \cup {None}
    /\ partly \in BOOLEAN
    /\ chosen \subseteq Revision
    /\ cutoff \in {None} \cup (1 - BodyDays) .. MaxDay
    /\ faults \in 0 .. MaxFaults

\* maintenance.rs: the text of a manifest stays while its run waits for the recap,
\* however old the window, unless a message in it was withdrawn.
OpenRunKeepsText ==
    \A r \in Run : state[r] = "waiting_recap" =>
        r \in text \/ MessagesOf(holds[r]) \cap withdrawn # {}

Selects(r) == run = r /\ step = "select" /\ step' = "commit"

\* executor.rs select_sources: a run that is not recorded incomplete took every
\* message its window has stored and not withdrawn, if it selects before the
\* oldest day of the window expires: the cap is known, and no sweep, edit or
\* restart between the walk and the selection takes a message away unnoticed.
NothingMissedInTime ==
    [][\A r \in Run : Selects(r) /\ day - BodyDays <= Start[r] =>
         incomplete'[r] \/ MessagesOf(chosen') = (Window(r) \cap MessagesOf(stored)) \ withdrawn]_vars

\* select_sources and minimize_before: a sweep never decides which text of a message
\* is selected, although one that stops at its batch drops some texts of a message
\* and not others.  A stored text newer than the selected one is passed over only
\* because a run with an earlier window end observed it.
SweepHidesNoNewerText ==
    [][\A r \in Run : Selects(r) =>
         \A p \in chosen', q \in stored :
            q[1] = p[1] /\ q[2] > p[2] => observed[q] < observed[p]]_vars

\* A step that brings no manifest text and no body back.
KeepsGone ==
    /\ \A r \in Run : /\ Answer(r, TRUE) = "gone" => Answer(r, TRUE)' = "gone"
                      /\ Answer(r, TRUE) = "ok" => Answer(r, TRUE)' \in {"ok", "gone"}
    /\ (stored \ body) \cap body' = {}

\* api.rs get_manifest, append_revision: a dropped text never comes back.  A
\* manifest that was gone stays gone, its row is never lost, and a revision
\* that lost its body never has one again, whoever walks the channel.
GoneStaysGone == [][KeepsGone]_vars

\* retention.rs: every expired body, and the text of every settled run with an
\* expired window, is dropped in the end, batch after batch and over failures of
\* the second statement.
TextExpires ==
    []<>(body = {p \in body : p[1] >= day - BodyDays} /\ ExpiredTexts(day - BodyDays) = {})
=============================================================================
