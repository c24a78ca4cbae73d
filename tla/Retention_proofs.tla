---------------------------- MODULE Retention_proofs ----------------------------
(***************************************************************************)
(* Retention beside the executor and the withdrawals, for any windows,     *)
(* days, batch and number of faults: the text of an open run stays, a text *)
(* that was dropped never comes back, no sweep makes a run take an older   *)
(* text of a message, and a run misses no message without recording it.    *)
(***************************************************************************)
EXTENDS Retention, FiniteSetTheorems, TLAPS

\* What makes OpenRunKeepsText and GoneStaysGone inductive: a run has a manifest
\* only from the moment it waits for its recap, and only a manifest has a text.
IInv ==
    /\ state \in [Run -> Open \cup Settled] /\ text \subseteq Run
    /\ DOMAIN holds = Run
    /\ step # "idle" => run \in Run
    /\ \A r \in Run : state[r] = "accepted" => holds[r] = {}
    /\ \A r \in text : holds[r] # {}
    /\ OpenRunKeepsText

USE DEF Open, Settled

LEMMA InitInv == Init => IInv
BY DEF Init, IInv, OpenRunKeepsText

\* A walk drops the text of a manifest only with a message it withdraws.
LEMMA AcquireInv ==
    ASSUME IInv, NEW r \in Run, Acquire(r)
    PROVE  IInv'
BY DEF IInv, OpenRunKeepsText, Acquire, runs

LEMMA CommitInv == ASSUME IInv, Commit PROVE IInv'
<1> USE DEF IInv, OpenRunKeepsText, Commit, Idle
<1>1. run \in Run
  OBVIOUS
<1>2. CASE state[run] # "accepted"
  BY <1>2
<1>3. CASE state[run] = "accepted" /\ chosen = {}
  BY <1>1, <1>3
<1>4. CASE state[run] = "accepted" /\ chosen # {}
  BY <1>1, <1>4
<1>5. QED
  BY <1>2, <1>3, <1>4

\* A settled run stays settled; the sweep drops the texts of settled runs only.
LEMMA SettleInv ==
    ASSUME IInv, NEW r \in Run, Settle(r)
    PROVE  IInv'
BY DEF IInv, OpenRunKeepsText, Settle, executor

LEMMA SweepInv ==
    ASSUME IInv, SweepManifests
    PROVE  IInv'
BY DEF IInv, OpenRunKeepsText, SweepManifests, ExpiredTexts, runs, executor

\* The other steps touch neither texts nor the states of runs.
LEMMA OtherInv ==
    ASSUME IInv, UNCHANGED <<state, text, holds, withdrawn>>, step' # "idle" => run' \in Run
    PROVE  IInv'
BY DEF IInv, OpenRunKeepsText

LEMMA StepInv == IInv /\ [Next]_vars => IInv'
<1> SUFFICES ASSUME IInv, [Next]_vars PROVE IInv'
  OBVIOUS
<1>1. CASE NextDay
  BY <1>1, OtherInv DEF NextDay, runs, executor, IInv
<1>2. ASSUME NEW m \in Message, Change(m) PROVE IInv'
  BY <1>2, OtherInv DEF Change, runs, executor, IInv
<1>3. ASSUME NEW r \in Run, Acquire(r) \/ Settle(r) PROVE IInv'
  BY <1>3, AcquireInv, SettleInv
<1>4. CASE SelectSources
  BY <1>4, OtherInv DEF SelectSources, IInv
<1>5. CASE ExecutorFails
  BY <1>5, OtherInv DEF ExecutorFails, Idle, runs
<1>6. CASE SweepBodies \/ SweepFails
  BY <1>6, OtherInv DEF SweepBodies, SweepFails, runs, executor, IInv
<1>7. CASE UNCHANGED vars
  BY <1>7, OtherInv DEF vars, runs, executor, IInv
<1>8. QED
  BY <1>1, <1>2, <1>3, <1>4, <1>5, <1>6, <1>7, CommitInv, SweepInv DEF Next

\* The inductive invariant of retention holds in every reachable state.
THEOREM Invariance == Spec => []IInv
BY InitInv, StepInv, PTL DEF Spec

\* maintenance.rs minimize_manifests_before: a run that waits for its recap keeps the
\* text of its manifest, unless a message in it was withdrawn.
THEOREM OpenRunsKeepText == Spec => []OpenRunKeepsText
<1>1. IInv => OpenRunKeepsText
  BY DEF IInv
<1>2. QED
  BY <1>1, Invariance, PTL

-----------------------------------------------------------------------------
\* A step that changes no manifest and adds neither text nor body.
LEMMA StillGone ==
    ASSUME IInv, UNCHANGED holds, text' \subseteq text, body' \subseteq body
    PROVE  KeepsGone
BY DEF KeepsGone, Answer

\* Only a walk adds a body, that of a revision that had no row; only a commit adds
\* a manifest, that of a run that had none.
LEMMA StepKeepsGone == IInv /\ [Next]_vars => [KeepsGone]_vars
<1> SUFFICES ASSUME IInv, Next PROVE KeepsGone
  OBVIOUS
<1>1. ASSUME NEW r \in Run, Acquire(r) PROVE KeepsGone
  <2>1. UNCHANGED holds /\ text' \subseteq text /\ (stored \ body) \cap body' = {}
    BY <1>1 DEF Acquire
  <2> QED
    BY <2>1 DEF KeepsGone, Answer
<1>2. CASE Commit
  <2>1. run \in Run /\ UNCHANGED <<stored, body>>
    BY <1>2 DEF Commit, IInv
  <2>2. CASE state[run] # "accepted" \/ chosen = {}
    BY <1>2, <2>1, <2>2, StillGone DEF Commit
  <2>3. CASE state[run] = "accepted" /\ chosen # {}
    <3>1. /\ holds[run] = {} /\ DOMAIN holds = Run
          /\ holds' = [holds EXCEPT ![run] = chosen] /\ text' = text \cup {run}
      BY <1>2, <2>1, <2>3 DEF Commit, IInv
    <3> QED
      BY <2>1, <3>1 DEF KeepsGone, Answer
  <2> QED
    BY <2>2, <2>3
<1>3. CASE SweepBodies \/ SweepManifests \/ SweepFails
  BY <1>3, StillGone DEF SweepBodies, SweepManifests, SweepFails
<1>4. CASE NextDay \/ SelectSources \/ ExecutorFails
  BY <1>4, StillGone DEF NextDay, SelectSources, ExecutorFails
<1>5. ASSUME NEW m \in Message, Change(m) PROVE KeepsGone
  BY <1>5, StillGone DEF Change
<1>6. ASSUME NEW r \in Run, Settle(r) PROVE KeepsGone
  BY <1>6, StillGone DEF Settle
<1>7. QED
  BY <1>1, <1>2, <1>3, <1>4, <1>5, <1>6 DEF Next

\* get_manifest, append_revision: a manifest that was gone stays gone and is never
\* lost, and a revision that lost its body never has one again.
THEOREM GoneForGood == Spec => GoneStaysGone
BY Invariance, StepKeepsGone, PTL DEF Spec, GoneStaysGone

-----------------------------------------------------------------------------
(* Type correctness, and what a run selects. *)

\* What is selected has a row.
ChosenIsStored == chosen \subseteq stored

\* A message is edited once, so a second text is stored only when the first is not there
\* any more; a withdrawn message is gone for good.
ChannelOrder ==
    /\ \A m \in Message : <<m, 2>> \in stored => post[m] \in {0, 2}
    /\ \A m \in withdrawn : post[m] = 0

\* The bodies: none of a withdrawn message; never an older text of a message without the
\* newer one that is stored; every one that has not expired.
BodiesKept ==
    /\ \A p \in body : p[1] \notin withdrawn
    /\ \A m \in Message : <<m, 1>> \in body /\ <<m, 2>> \in stored => <<m, 2>> \in body
    /\ \A p \in stored : p[1] >= day - BodyDays /\ p[1] \notin withdrawn => p \in body

\* maintenance.rs, revisions.rs, executor.rs: what makes TypeOK inductive, and what
\* NothingMissedInTime and SweepHidesNoNewerText follow from.
RInv == TypeOK /\ ChosenIsStored /\ ChannelOrder /\ BodiesKept

\* Messages and days are numbers, and a revision is a message and a version.
LEMMA Numbers ==
    /\ Message \subseteq Nat /\ IsFiniteSet(Message)
    /\ \A p \in Revision : p = <<p[1], p[2]>> /\ p[1] \in Message /\ p[2] \in Version
    /\ BodyDays \in Int /\ MaxDay \in Int
<1>1. IsFiniteSet(Message)
  BY FS_Interval, RetentionAssumption DEF Message
<1> QED
  BY <1>1, RetentionAssumption DEF Message, Revision

\* What LatestOf returns: a text of the message that no other one comes after.
LEMMA LatestIs ==
    ASSUME TypeOK, NEW R \in SUBSET Revision, NEW m \in MessagesOf(R)
    PROVE  /\ <<m, LatestOf(m, R)>> \in R
           /\ \A w \in Version : <<m, w>> \in R =>
                                   NotAfter(<<m, w>>, <<m, LatestOf(m, R)>>)
<1> DEFINE Last(v) == /\ <<m, v>> \in R
                      /\ \A w \in Version : <<m, w>> \in R => NotAfter(<<m, w>>, <<m, v>>)
<1>1. <<m, 1>> \in R \/ <<m, 2>> \in R
  BY Numbers DEF MessagesOf, Version
<1>2. \A p \in R : observed[p] \in Nat
  BY DEF TypeOK
<1>3. \E v \in Version : Last(v)
  <2>1. CASE <<m, 1>> \in R /\ <<m, 2>> \in R
    BY <1>2, <2>1 DEF NotAfter, Version
  <2>2. CASE ~(<<m, 1>> \in R /\ <<m, 2>> \in R)
    BY <1>1, <1>2, <2>2 DEF NotAfter, Version
  <2> QED
    BY <2>1, <2>2
<1>4. Last(CHOOSE v \in Version : Last(v))
  <2> HIDE DEF Last
  <2> QED
    BY <1>3
<1> QED
  BY <1>4 DEF LatestOf

LEMMA InitKept == Init => RInv
<1> SUFFICES ASSUME Init PROVE RInv
  OBVIOUS
<1>1. TypeOK
  <2>1. day \in 1 .. MaxDay /\ faults \in 0 .. MaxFaults
    BY RetentionAssumption DEF Init
  <2>2. post \in [Message -> {0} \cup Version]
    BY DEF Init, Version
  <2>3. observed \in [Revision -> Nat]
    BY DEF Init
  <2> QED
    BY <2>1, <2>2, <2>3 DEF Init, TypeOK, MessagesOf
<1> QED
  BY <1>1 DEF Init, RInv, ChosenIsStored, ChannelOrder, BodiesKept

\* Days only make more bodies expire.
LEMMA DayKept ==
    ASSUME RInv, NextDay
    PROVE  RInv'
<1>1. TypeOK'
  BY RetentionAssumption DEF RInv, TypeOK, NextDay, runs, executor, MessagesOf
<1>2. ChosenIsStored' /\ ChannelOrder'
  BY DEF RInv, ChosenIsStored, ChannelOrder, NextDay, executor
<1>3. BodiesKept'
  <2>1. \A p \in stored : p[1] >= day' - BodyDays => p[1] >= day - BodyDays
    BY Numbers DEF RInv, TypeOK, NextDay
  <2> QED
    BY <2>1 DEF RInv, BodiesKept, NextDay
<1> QED
  BY <1>1, <1>2, <1>3 DEF RInv

LEMMA ChangeKept ==
    ASSUME RInv, NEW m \in Message, Change(m)
    PROVE  RInv'
<1>1. PICK v \in {0, 2} : post' = [post EXCEPT ![m] = v] /\ post[m] # 0 /\ v # post[m]
  BY DEF Change
<1>2. UNCHANGED <<day, stored, observed, body, withdrawn, runs, holds, text, executor, cutoff, faults>>
  BY DEF Change
<1>3. post' \in [Message -> {0} \cup Version]
  BY <1>1 DEF RInv, TypeOK, Version
<1>4. TypeOK'
  BY <1>2, <1>3 DEF RInv, TypeOK, runs, executor, MessagesOf
<1>5. withdrawn \subseteq Message
  BY Numbers DEF RInv, TypeOK, MessagesOf
<1>6. ChannelOrder'
  BY <1>1, <1>2, <1>5 DEF RInv, ChannelOrder, TypeOK, Version
<1> QED
  BY <1>2, <1>4, <1>6 DEF RInv, ChosenIsStored, BodiesKept, executor

\* A walk adds the bodies of what it adds, and takes those of what it withdraws.
LEMMA AcquireKept ==
    ASSUME RInv, NEW r \in Run, Acquire(r)
    PROVE  RInv'
<1> DEFINE found == {<<m, post[m]>> : m \in {n \in Window(r) : post[n] # 0}}
           gone  == {m \in MessagesOf(stored) : m >= Start[r] /\ post[m] = 0}
<1>1. /\ stored' = stored \cup found
      /\ observed' = [p \in Revision |-> IF p \in found \ stored THEN End[r] ELSE observed[p]]
      /\ body' = {p \in body \cup (found \ stored) : p[1] \notin gone}
      /\ withdrawn' = withdrawn \cup gone
      /\ text' = {q \in text : MessagesOf(holds[q]) \cap gone = {}}
      /\ step' = "select" /\ run' = r /\ partly' \in BOOLEAN
      /\ UNCHANGED <<day, post, runs, holds, chosen, cutoff, faults>>
  BY DEF Acquire, Stamp
<1>2. \A p \in found : p \in Revision /\ p = <<p[1], post[p[1]]>> /\ post[p[1]] # 0
  BY DEF Window, RInv, TypeOK, Revision
<1>3. gone \subseteq MessagesOf(stored) /\ \A m \in gone : post[m] = 0
  OBVIOUS
<1>4. \A p \in stored : p \in Revision
  BY DEF RInv, TypeOK
<1>5. \A p \in stored \cup found : p \in Revision /\ p = <<p[1], p[2]>> /\ p[1] \in Message
  BY <1>2, <1>4, Numbers
<1> HIDE DEF found, gone
<1>6. TypeOK'
  <2>1. stored' \subseteq Revision /\ body' \subseteq stored'
    BY <1>1, <1>5 DEF RInv, TypeOK
  <2>2. withdrawn' \subseteq MessagesOf(stored)'
    BY <1>1, <1>3 DEF RInv, TypeOK, MessagesOf
  <2>3. holds' \in [Run -> SUBSET stored']
    BY <1>1 DEF RInv, TypeOK
  <2>4. text' \subseteq Run
    BY <1>1 DEF RInv, TypeOK
  <2>5. /\ observed' \in [Revision -> Nat]
        /\ \A p \in stored' : \E q \in Run : observed'[p] = End[q]
    BY <1>1, <1>5, RetentionAssumption DEF RInv, TypeOK
  <2> QED
    BY <1>1, <2>1, <2>2, <2>3, <2>4, <2>5 DEF RInv, TypeOK, runs
<1>7. ChosenIsStored'
  BY <1>1 DEF RInv, ChosenIsStored
<1>8. ChannelOrder'
  <2>1. ASSUME NEW m \in Message, <<m, 2>> \in found PROVE post[m] = 2
    BY <1>2, <2>1
  <2> QED
    BY <1>1, <1>3, <2>1 DEF RInv, ChannelOrder
<1>9. BodiesKept'
  <2>1. ASSUME NEW p \in body' PROVE p[1] \notin withdrawn'
    BY <1>1, <1>2 DEF RInv, BodiesKept, ChannelOrder
  <2>2. ASSUME NEW m \in Message, <<m, 1>> \in body', <<m, 2>> \in stored'
        PROVE  <<m, 2>> \in body'
    <3>1. m \notin gone
      BY <1>1, <2>2
    <3>2. CASE <<m, 2>> \in stored
      <4>1. <<m, 1>> \notin found
        BY <1>2, <3>2 DEF RInv, ChannelOrder
      <4> QED
        BY <1>1, <2>2, <3>1, <3>2, <4>1 DEF RInv, BodiesKept
    <3>3. CASE <<m, 2>> \notin stored
      BY <1>1, <2>2, <3>1, <3>3
    <3> QED
      BY <3>2, <3>3
  <2>3. ASSUME NEW p \in stored', p[1] >= day - BodyDays, p[1] \notin withdrawn'
        PROVE  p \in body'
    BY <1>1, <2>3 DEF RInv, BodiesKept
  <2> QED
    BY <1>1, <2>1, <2>2, <2>3 DEF BodiesKept
<1> QED
  BY <1>6, <1>7, <1>8, <1>9 DEF RInv

LEMMA SelectKept ==
    ASSUME RInv, IInv, SelectSources
    PROVE  RInv' /\ chosen' \subseteq body
<1>1. /\ chosen' = {<<m, LatestOf(m, body)>> : m \in Newest(Eligible(run))}
      /\ incomplete' = [incomplete EXCEPT
                ![run] = partly \/ Cardinality(Eligible(run)) > Cardinality(chosen')]
      /\ UNCHANGED <<day, post, stored, observed, body, withdrawn, state, holds, text, run, partly,
                     cutoff, faults>>
      /\ step = "select" /\ step' = "commit"
  BY DEF SelectSources
<1>2. body \in SUBSET Revision
  BY DEF RInv, TypeOK
<1>3. \A m \in Newest(Eligible(run)) : m \in MessagesOf(body)
  BY DEF Newest, Eligible
<1>4. chosen' \subseteq body
  BY <1>1, <1>2, <1>3, LatestIs DEF RInv
<1>5. incomplete' \in [Run -> BOOLEAN]
  <2>1. (partly \/ Cardinality(Eligible(run)) > Cardinality(chosen')) \in BOOLEAN
    OBVIOUS
  <2> QED
    BY <1>1, <2>1, Zenon DEF RInv, TypeOK
<1>6. TypeOK'
  BY <1>1, <1>4, <1>5 DEF RInv, TypeOK, MessagesOf
<1> QED
  BY <1>1, <1>4, <1>6 DEF RInv, ChosenIsStored, ChannelOrder, BodiesKept, TypeOK

\* A sweep drops expired bodies, and a newer text of a message only with the older one.
LEMMA SweepKept ==
    ASSUME RInv, SweepBodies
    PROVE  RInv'
<1> DEFINE c == day - BodyDays
           before(p) == {q \in Expired(c) : Before(q, p)}
<1>1. /\ cutoff' = c /\ body' = body \ {p \in Expired(c) : Cardinality(before(p)) < SweepBatch}
      /\ UNCHANGED <<day, post, stored, observed, withdrawn, runs, holds, text, executor, faults>>
  BY DEF SweepBodies
<1>2. c \in (1 - BodyDays) .. MaxDay
  BY RetentionAssumption DEF RInv, TypeOK
<1>3. body \subseteq Revision /\ IsFiniteSet(Revision)
  <2>1. IsFiniteSet(Version)
    <3>1. Version = 1 .. 2
      BY DEF Version
    <3>2. IsFiniteSet(1 .. 2)
      <4>1. 1 \in Int /\ 2 \in Int
        OBVIOUS
      <4> QED
        BY <4>1, FS_Interval
    <3> QED
      BY <3>1, <3>2
  <2> QED
    BY <2>1, Numbers, FS_Product DEF Revision, RInv, TypeOK
<1>4. ASSUME NEW m \in Message, <<m, 1>> \in body', <<m, 2>> \in stored
      PROVE  <<m, 2>> \in body'
  <2>1. <<m, 1>> \in body /\ <<m, 2>> \in body
    BY <1>1, <1>4 DEF RInv, BodiesKept
  <2> SUFFICES ASSUME <<m, 2>> \in Expired(c), Cardinality(before(<<m, 2>>)) < SweepBatch
               PROVE  FALSE
    BY <1>1, <2>1
  <2>2. <<m, 1>> \in Expired(c)
    BY <2>1 DEF Expired
  <2>3. before(<<m, 1>>) \in SUBSET before(<<m, 2>>)
    <3>1. \A q \in Expired(c) : q[1] \in Nat /\ q[2] \in {1, 2}
      BY <1>3, Numbers DEF Expired, Version
    <3>2. ASSUME NEW q \in Expired(c), Before(q, <<m, 1>>) PROVE Before(q, <<m, 2>>)
      BY <3>1, <3>2 DEF Before
    <3> QED
      BY <3>2
  <2>4. IsFiniteSet(before(<<m, 2>>))
    BY <1>3, FS_Subset DEF Expired
  <2>5. /\ Cardinality(before(<<m, 1>>)) <= Cardinality(before(<<m, 2>>))
        /\ Cardinality(before(<<m, 1>>)) \in Nat /\ Cardinality(before(<<m, 2>>)) \in Nat
    BY <2>3, <2>4, FS_Subset, FS_CardinalityType
  <2>6. Cardinality(before(<<m, 1>>)) < SweepBatch
    BY <2>5, RetentionAssumption
  <2> QED
    BY <1>1, <1>4, <2>2, <2>6
<1>5. \A p \in stored : p[1] >= c => p \notin Expired(c)
  BY <1>2, Numbers DEF Expired, RInv, TypeOK
<1>6. body' \subseteq body
  BY <1>1
<1>7. BodiesKept'
  BY <1>1, <1>4, <1>5, <1>6 DEF RInv, BodiesKept
<1>8. TypeOK'
  BY <1>1, <1>2, <1>6 DEF RInv, TypeOK, runs, executor, MessagesOf
<1> QED
  BY <1>1, <1>7, <1>8 DEF RInv, ChosenIsStored, ChannelOrder, executor

\* The steps of runs and of the sweep's second statement touch no revision.
LEMMA RunKept ==
    ASSUME RInv, UNCHANGED <<day, post, stored, observed, body, withdrawn>>,
           state' \in [Run -> Open \cup Settled], UNCHANGED incomplete,
           holds' \in [Run -> SUBSET stored], text' \subseteq Run,
           step' \in {"idle", "select", "commit"}, run' \in Run \cup {None},
           partly' \in BOOLEAN, chosen' = chosen \/ chosen' = {},
           cutoff' \in {cutoff, None}, faults' \in 0 .. MaxFaults
    PROVE  RInv'
BY DEF RInv, TypeOK, ChosenIsStored, ChannelOrder, BodiesKept, MessagesOf

LEMMA CommitKept ==
    ASSUME RInv, IInv, Commit
    PROVE  RInv'
<1>1. run \in Run /\ chosen \in SUBSET stored
  BY DEF IInv, Commit, RInv, ChosenIsStored
<1>2. holds' \in [Run -> SUBSET stored]
  BY <1>1 DEF Commit, RInv, TypeOK
<1>3. state' \in [Run -> Open \cup Settled]
  BY <1>1 DEF Commit, RInv, TypeOK
<1>4. text' \subseteq Run
  BY <1>1 DEF Commit, RInv, TypeOK
<1> QED
  BY <1>2, <1>3, <1>4, RunKept DEF Commit, Idle, RInv, TypeOK

LEMMA StepKept ==
    ASSUME IInv, RInv, [Next]_vars
    PROVE  RInv'
<1> USE RetentionAssumption
<1>1. ASSUME NEW m \in Message, Change(m) PROVE RInv'
  BY <1>1, ChangeKept
<1>2. ASSUME NEW r \in Run, Acquire(r) PROVE RInv'
  BY <1>2, AcquireKept
<1>3. ASSUME NEW r \in Run, Settle(r) PROVE RInv'
  <2>1. state' \in [Run -> Open \cup Settled]
    BY <1>3 DEF Settle, RInv, TypeOK
  <2> QED
    BY <1>3, <2>1, RunKept DEF Settle, executor, RInv, TypeOK
<1>4. CASE ExecutorFails
  <2>1. UNCHANGED <<day, post, stored, observed, body, withdrawn, state, incomplete, holds, text, cutoff>>
    BY <1>4 DEF ExecutorFails, runs
  <2>2. faults' \in 0 .. MaxFaults
    BY <1>4 DEF ExecutorFails, Fault, RInv, TypeOK
  <2>3. step' = "idle" /\ run' = None /\ partly' = FALSE /\ chosen' = {}
    BY <1>4 DEF ExecutorFails, Idle
  <2>4. /\ state' \in [Run -> Open \cup Settled] /\ holds' \in [Run -> SUBSET stored]
        /\ text' \subseteq Run
    BY <2>1 DEF RInv, TypeOK
  <2> QED
    BY <2>1, <2>2, <2>3, <2>4, RunKept
<1>5. CASE SweepManifests
  BY <1>5, RunKept DEF SweepManifests, runs, executor, RInv, TypeOK
<1>6. CASE SweepFails
  BY <1>6, RunKept DEF SweepFails, Fault, runs, executor, RInv, TypeOK
<1>7. CASE UNCHANGED vars
  BY <1>7, RunKept DEF vars, runs, executor, RInv, TypeOK
<1> QED
  BY <1>1, <1>2, <1>3, <1>4, <1>5, <1>6, <1>7, DayKept, SelectKept, CommitKept, SweepKept
     DEF Next

\* The inductive invariant of the texts and the selection holds in every reachable state.
THEOREM TextsKept == Spec => [](IInv /\ RInv)
<1>1. Init => RInv
  BY InitKept
<1>2. IInv /\ RInv /\ [Next]_vars => RInv'
  BY StepKept
<1> QED
  BY <1>1, <1>2, Invariance, PTL DEF Spec

\* revisions.rs, maintenance.rs, commit_manifest: every variable holds a value of its
\* kind; a body, a withdrawal and a manifest have the revision rows they are about.
THEOREM TypeCorrect == Spec => []TypeOK
<1>1. IInv /\ RInv => TypeOK
  BY DEF RInv
<1> QED
  BY <1>1, TextsKept, PTL

-----------------------------------------------------------------------------
\* Only select_sources selects.
LEMMA OnlySelectSources ==
    ASSUME Next, NEW r \in Run, Selects(r)
    PROVE  SelectSources /\ run = r
BY DEF Next, Selects, SelectSources, NextDay, Change, Acquire, Settle, Commit, Idle,
       ExecutorFails, SweepBodies, SweepManifests, SweepFails, executor

LEMMA StepHidesNothing ==
    ASSUME IInv, RInv, Next, NEW r \in Run, Selects(r), NEW p \in chosen', NEW q \in stored,
           q[1] = p[1], q[2] > p[2]
    PROVE  observed[q] < observed[p]
<1>1. PICK m \in Newest(Eligible(run)) : p = <<m, LatestOf(m, body)>>
  BY OnlySelectSources DEF SelectSources
<1>2. m \in MessagesOf(body)
  BY <1>1 DEF Newest, Eligible
<1>3. TypeOK /\ body \in SUBSET Revision /\ body \subseteq stored
  BY DEF RInv, TypeOK
<1>4. /\ p \in body
      /\ \A w \in Version : <<m, w>> \in body => NotAfter(<<m, w>>, p)
  BY <1>1, <1>2, <1>3, LatestIs
<1>5. m \in Message /\ p = <<m, 1>> /\ q = <<m, 2>>
  <2>1. p \in Revision /\ q \in Revision
    BY <1>3, <1>4 DEF RInv, TypeOK
  <2>2. p[2] \in {1, 2} /\ q[2] \in {1, 2} /\ p = <<p[1], p[2]>> /\ q = <<q[1], q[2]>>
    BY <2>1, Numbers DEF Version
  <2>3. p[1] = m /\ m \in Message
    BY <1>1, <2>1, Numbers
  <2> QED
    BY <2>2, <2>3
<1>6. q \in body
  BY <1>4, <1>5 DEF RInv, BodiesKept
<1>7. NotAfter(q, p)
  BY <1>4, <1>5, <1>6 DEF Version
<1> QED
  BY <1>5, <1>7 DEF NotAfter

\* select_sources, minimize_before: wherever a sweep stops, a stored text newer than the
\* selected one is passed over only because a run with an earlier window end observed it.
THEOREM NoNewerTextHidden == Spec => SweepHidesNoNewerText
<1>1. IInv /\ RInv /\ [Next]_vars =>
        [\A r \in Run : Selects(r) =>
            \A p \in chosen', q \in stored :
               q[1] = p[1] /\ q[2] > p[2] => observed[q] < observed[p]]_vars
  BY StepHidesNothing
<1> QED
  BY <1>1, TextsKept, PTL DEF Spec, SweepHidesNoNewerText

LEMMA StepMissesNothing ==
    ASSUME IInv, RInv, Next, NEW r \in Run, Selects(r), day - BodyDays <= Start[r],
           ~incomplete'[r]
    PROVE  MessagesOf(chosen') = (Window(r) \cap MessagesOf(stored)) \ withdrawn
<1> DEFINE E == Eligible(r)
           N == Newest(E)
           pair == [m \in N |-> <<m, LatestOf(m, body)>>]
<1>1. /\ chosen' = {<<m, LatestOf(m, body)>> : m \in N}
      /\ incomplete' = [incomplete EXCEPT
                ![r] = partly \/ Cardinality(E) > Cardinality(chosen')]
  BY OnlySelectSources DEF SelectSources
<1>2. ~(Cardinality(E) > Cardinality(chosen'))
  BY <1>1 DEF RInv, TypeOK
<1>3. IsFiniteSet(E) /\ N \in SUBSET E
  BY Numbers, FS_Subset DEF Eligible, Window, Newest
<1>4. IsFiniteSet(N) /\ Cardinality(N) <= Cardinality(E)
  BY <1>3, FS_Subset
<1> HIDE DEF N, E
<1>5. pair \in Surjection(N, chosen')
  BY <1>1 DEF Surjection
<1>6. IsFiniteSet(chosen') /\ Cardinality(chosen') <= Cardinality(N)
  <2> HIDE DEF pair
  <2> QED
    BY <1>4, <1>5, FS_Surjection
<1>7. Cardinality(N) \in Nat /\ Cardinality(E) \in Nat /\ Cardinality(chosen') \in Nat
  BY <1>3, <1>4, <1>6, FS_CardinalityType
<1>8. N = E
  BY <1>2, <1>3, <1>4, <1>6, <1>7, FS_Subset
<1>9. MessagesOf(chosen') = N
  <2>1. ASSUME NEW p \in chosen' PROVE p[1] \in N
    BY <1>1
  <2>2. ASSUME NEW m \in N PROVE \E p \in chosen' : m = p[1]
    <3>1. <<m, LatestOf(m, body)>> \in chosen'
      BY <1>1
    <3> QED
      BY <3>1
  <2> QED
    BY <2>1, <2>2 DEF MessagesOf
<1>10. E = (Window(r) \cap MessagesOf(stored)) \ withdrawn
  <2>1. ASSUME NEW p \in stored, p[1] \in Window(r), p[1] \notin withdrawn
        PROVE  p \in body
    <3>1. p[1] >= Start[r] /\ p[1] \in Nat /\ Start[r] \in Nat /\ day \in Int
      BY <2>1, Numbers, RetentionAssumption DEF Window, RInv, TypeOK
    <3>2. p[1] >= day - BodyDays
      BY <3>1, Numbers
    <3> QED
      BY <2>1, <3>2 DEF RInv, BodiesKept
  <2>2. body \subseteq stored
    BY DEF RInv, TypeOK
  <2> QED
    BY <2>1, <2>2 DEF E, Eligible, MessagesOf
<1> QED
  BY <1>8, <1>9, <1>10

\* select_sources, minimize_before: a run that is not recorded incomplete took every stored
\* message of its window that is not withdrawn, if it selects before the oldest day of the
\* window expires.
THEOREM NothingMissed == Spec => NothingMissedInTime
<1>1. IInv /\ RInv /\ [Next]_vars =>
        [\A r \in Run : Selects(r) /\ day - BodyDays <= Start[r] =>
            incomplete'[r] \/ MessagesOf(chosen') = (Window(r) \cap MessagesOf(stored)) \ withdrawn]_vars
  BY StepMissesNothing
<1> QED
  BY <1>1, TextsKept, PTL DEF Spec, NothingMissedInTime
=============================================================================
