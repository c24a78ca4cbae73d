--------------------------- MODULE Acquisition_proofs ---------------------------
(***************************************************************************)
(* The walk of a channel, for any number of messages and runs, any         *)
(* windows, page size and page limit, and any number of edits, deletions,  *)
(* restarts, flood waits and storage errors: what a complete walk has      *)
(* read, what it withdraws, and how often it calls the provider.           *)
(***************************************************************************)
EXTENDS Acquisition, NumberSets, FiniteSetTheorems, TLAPS

(***************************************************************************)
(* The inductive invariant.                                                *)
(***************************************************************************)

\* Where the walk stands.
WalkInv ==
    /\ pc = "fetch" => pages < MaxPages
    /\ pc \in {"store", "commit", "finish"} => pages > 0
    /\ pc = "idle" => DOMAIN page = {}
    /\ pc = "commit" => rest = {}

\* A run is executed until it has its evidence, and only when its window closed.
RunsInv ==
    /\ \A r \in Run : evidence[r] # None => outcome[r] # None
    /\ run # None => evidence[run] = None
    /\ pc = "select" => outcome[run] # None
    /\ \A r \in Run : lease[r] # None \/ r = run \/ evidence[r] # None => clock >= End[r]
    /\ \A r \in Run : lease[r] # None /\ lease[r].state = "completed" =>
                        lease[r].before = None /\ lease[r].pages > 0
    /\ \A r \in Run : r \in text \/ evidence[r] # None => DOMAIN evidence[r] \subseteq Message

\* A page is paid for by the checkpoint, by a restart, or it is the one in hand.
LeasePages(r) == IF lease[r] = None THEN 0 ELSE lease[r].pages
InHand(r) == IF r = run /\ pc \in {"store", "commit"} THEN 1 ELSE 0
CallsInv ==
    /\ \A r \in Run : fetched[r] <= LeasePages(r) + restarts + InHand(r)
    /\ pc \notin {"idle", "select"} => LeasePages(run) + InHand(run) <= pages

\* Finitely many rows; those of one message are withdrawn together.
Rows == {p \in Message \X Body : rows[p[1]][p[2]] # None}
RowsInv ==
    /\ IsFiniteSet(Rows)
    /\ \A m \in Message, b \in Body : rows[m][b] # None => m < clock
    /\ \A m \in Message : \A b, c \in Body :
         rows[m][b] # None /\ rows[m][c] # None /\ rows[m][b].live => rows[m][c].live

\* What the page in hand says of the channel, although the channel lives on.
PageInv ==
    /\ \A m \in DOMAIN page : m < clock /\ (channel[m] = page[m] \/ \A r \in Run : m \in touched[r])
    /\ pc \in {"store", "commit"} =>
         /\ \A m \in Message : Proved(m) /\ m \notin DOMAIN page =>
              /\ m < End[run] => channel[m] = Gone
              /\ \A b \in Body : rows[m][b] # None => channel[m] = Gone
         /\ \A m \in DOMAIN page, b \in Body : rows[m][b] # None => rows[m][b].live
         /\ \A m \in DOMAIN page \ rest :
              page[m] \in Body /\ InWindow(m, run) => rows[m][page[m]] # None
         /\ reached => \E n \in DOMAIN page : n < Start[run]
    /\ pc = "commit" => \A m \in Message : Proved(m) /\ m \notin DOMAIN page => Live(m) = {}

\* The database knows what has become of message m since the walk of r began.
Done(r, m) ==
    m \notin touched[r] /\ InWindow(m, r) =>
        /\ channel[m] \in Body => rows[m][channel[m]] # None
        /\ channel[m] = Gone => Live(m) = {}

\* A walk that took n pages and goes on below c has done what is not below c.
Covered(r, c, n) ==
    /\ c # None => n > 0
    /\ n > 0 => \A m \in Message : (c # None => m >= c) => Done(r, m)

CoverInv ==
    /\ \A r \in Run : lease[r] # None => Covered(r, lease[r].before, lease[r].pages)
    /\ pc \in {"resolve", "fetch", "finish"} => Covered(run, before, pages)
    /\ pc \in {"store", "commit"} => Covered(run, before, pages - 1)
    /\ pc = "select" /\ outcome[run] = "complete" => \A m \in Message : Done(run, m)

Acquired == CompleteMeansRead /\ DeletedIsNotSelected
Withdrawn == WithdrawnIsGone /\ WithdrawnLeavesNoText

IInv == /\ TypeOK /\ WalkInv /\ RunsInv /\ CallsInv /\ RowsInv /\ Withdrawn
        /\ PageInv /\ CoverInv /\ Acquired

-----------------------------------------------------------------------------
(***************************************************************************)
(* Pages: the newest posts below a cursor.                                 *)
(***************************************************************************)

LEMMA MessageInt == \A m \in Message : m \in Nat /\ m \in Int /\ m > 0 /\ m <= MaxMessage
BY WindowAssumption DEF Message

LEMMA MinIsLeast ==
    ASSUME NEW S \in SUBSET Message, S # {}
    PROVE  Min(S) \in S /\ \A y \in S : Min(S) <= y
<1>1. \E x \in S : \A y \in S : x <= y
  BY LeastExists, WindowAssumption DEF Message
<1> QED
  BY <1>1 DEF Min

LEMMA GreatestExists ==
    ASSUME NEW S \in SUBSET Message, S # {}
    PROVE  \E x \in S : \A y \in S : x >= y
<1> DEFINE D == {n \in Nat : \E m \in S : n = MaxMessage - m}
<1>1. D # {}
  <2>1. PICK m \in S : TRUE
    OBVIOUS
  <2>2. MaxMessage - m \in D
    BY WindowAssumption DEF Message
  <2> QED
    BY <2>2
<1>2. PICK d \in D : \A e \in D : d <= e
  BY <1>1, LeastExists
<1>3. PICK x \in S : d = MaxMessage - x
  OBVIOUS
<1>4. ASSUME NEW y \in S PROVE x >= y
  <2>1. MaxMessage - y \in D
    BY WindowAssumption DEF Message
  <2> QED
    BY <2>1, <1>2, <1>3, WindowAssumption DEF Message
<1> QED
  BY <1>4

LEMMA MaxIsGreatest ==
    ASSUME NEW S \in SUBSET Message, S # {}
    PROVE  Max(S) \in S /\ \A y \in S : Max(S) >= y
<1>1. \E x \in S : \A y \in S : x >= y
  BY GreatestExists
<1> QED
  BY <1>1 DEF Max

LEMMA MessagesFinite ==
    ASSUME NEW S \in SUBSET Message
    PROVE  IsFiniteSet(S) /\ Cardinality(S) \in Nat
<1>1. IsFiniteSet(Message)
  BY FS_Interval, WindowAssumption DEF Message
<1>2. IsFiniteSet(S)
  BY <1>1, FS_Subset
<1> QED
  BY <1>2, FS_CardinalityType

Above(B, x) == {n \in B : n > x}
Newest(B) == {x \in B : Cardinality(Above(B, x)) < PageSize}

LEMMA AboveShrinks ==
    ASSUME NEW B \in SUBSET Message, NEW x \in B, NEW y \in B, x <= y
    PROVE  /\ Cardinality(Above(B, y)) <= Cardinality(Above(B, x))
           /\ Cardinality(Above(B, y)) \in Nat /\ Cardinality(Above(B, x)) \in Nat
<1>0. \A n \in B : n \in Int
  BY WindowAssumption DEF Message
<1>1. Above(B, y) \in SUBSET Above(B, x)
  BY <1>0 DEF Above
<1>2. Above(B, x) \in SUBSET Message /\ Above(B, y) \in SUBSET Message
  BY DEF Above
<1> QED
  BY <1>1, <1>2, MessagesFinite, FS_Subset

\* A page holds the newest PageSize posts: what it leaves out lies below all of
\* them, and then the page is full.
LEMMA NewestPage ==
    ASSUME NEW B \in SUBSET Message, NEW m \in B \ Newest(B)
    PROVE  Cardinality(Newest(B)) = PageSize /\ \A x \in Newest(B) : x > m
<1> DEFINE T == Newest(B)
<1>0. T \subseteq B /\ PageSize \in Nat \ {0}
  BY PageAssumption DEF Newest
<1>1. \A x \in B : x \in Int /\ x \in Nat
  BY WindowAssumption DEF Message
<1>2. \A x \in B : Cardinality(Above(B, x)) \in Nat
  BY <1>1, AboveShrinks
<1>3. \A x \in B : x \in T <=> Cardinality(Above(B, x)) < PageSize
  BY DEF Newest
<1>4. Cardinality(T) \in Nat /\ IsFiniteSet(T)
  BY <1>0, MessagesFinite
<1> HIDE DEF T
<1>5. \A x \in T : x > m
  <2> SUFFICES ASSUME NEW x \in T, x <= m PROVE FALSE
    BY <1>0, <1>1
  <2>1. Cardinality(Above(B, m)) <= Cardinality(Above(B, x))
    BY <1>0, AboveShrinks
  <2> QED
    BY <2>1, <1>0, <1>2, <1>3 DEF T
<1>6. Cardinality(T) >= PageSize
  <2>1. PICK g \in B \ T : \A y \in B \ T : g >= y
    BY GreatestExists DEF T
  <2>2. Above(B, g) \in SUBSET T
    BY <1>1, <2>1 DEF Above
  <2>3. Cardinality(Above(B, g)) >= PageSize
    BY <1>0, <1>2, <1>3, <2>1
  <2>4. Cardinality(Above(B, g)) <= Cardinality(T)
    BY <1>4, <2>2, FS_Subset
  <2> QED
    BY <2>1, <2>3, <2>4, <1>0, <1>2, <1>4
<1>7. Cardinality(T) <= PageSize
  <2>1. T # {}
    BY <1>6, <1>0, FS_EmptySet
  <2>2. T \in SUBSET Nat
    BY <1>0, <1>1
  <2>3. PICK t \in T : \A y \in T : t <= y
    BY <2>1, <2>2, LeastExists
  <2>4. T \ {t} \in SUBSET Above(B, t)
    BY <2>2, <2>3, <1>0 DEF Above
  <2>5. IsFiniteSet(Above(B, t))
    BY MessagesFinite DEF Above
  <2>6. Cardinality(T \ {t}) <= Cardinality(Above(B, t))
    BY <2>4, <2>5, FS_Subset
  <2>7. Cardinality(T \ {t}) = Cardinality(T) - 1
    BY <1>4, FS_RemoveElement
  <2> QED
    BY <2>3, <2>6, <2>7, <1>0, <1>2, <1>3, <1>4
<1> QED
  BY <1>0, <1>4, <1>5, <1>6, <1>7 DEF T

LEMMA NextBeforeType ==
    ASSUME NEW p, DOMAIN p \subseteq Message
    PROVE  /\ NextBefore(p) \in Message \cup {None}
           /\ NextBefore(p) # None => NextBefore(p) \in DOMAIN p
                                     /\ \A n \in DOMAIN p : NextBefore(p) <= n
<1>1. CASE Cardinality(DOMAIN p) = PageSize
  <2>1. DOMAIN p # {}
    BY <1>1, PageAssumption, FS_EmptySet
  <2> QED
    BY <1>1, <2>1, MinIsLeast DEF NextBefore
<1> QED
  BY <1>1 DEF NextBefore

\* fetch_public_posts and proved_range: a message in the range the fetched page
\* answers for and not on the page is not in the channel.
LEMMA PageAnswers ==
    ASSUME TypeOK, NEW p, DOMAIN p = Posts(before), NEW m \in Message, m \notin DOMAIN p,
           NextBefore(p) # None => m >= NextBefore(p), before # None => m < before
    PROVE  channel[m] = Gone
<1> SUFFICES ASSUME channel[m] # Gone PROVE FALSE
  OBVIOUS
<1> DEFINE B == {n \in Message : channel[n] # Gone /\ (before # None => n < before)}
<1>1. m \in B /\ B \in SUBSET Message
  OBVIOUS
<1>2. DOMAIN p = Newest(B) /\ Newest(B) \subseteq B
  BY DEF Posts, Newest, Above
<1> HIDE DEF B
<1>3. Cardinality(DOMAIN p) = PageSize /\ \A x \in DOMAIN p : x > m
  BY <1>1, <1>2, NewestPage
<1>4. NextBefore(p) = Min(DOMAIN p) /\ DOMAIN p # {}
  BY <1>3, PageAssumption, FS_EmptySet DEF NextBefore
<1>5. Min(DOMAIN p) \in DOMAIN p
  BY <1>1, <1>2, <1>4, MinIsLeast
<1>6. NextBefore(p) # None
  BY <1>1, <1>4, <1>5, <1>2, ContentAssumption
<1>7. m \in Int /\ Min(DOMAIN p) \in Int
  BY <1>1, <1>2, <1>5, MessageInt
<1> QED
  BY <1>3, <1>4, <1>5, <1>6, <1>7

-----------------------------------------------------------------------------
(***************************************************************************)
(* Types and the walk's own bookkeeping.                                   *)
(***************************************************************************)
USE WindowAssumption, PageAssumption, ContentAssumption

LEMMA InitInv == Init => IInv
<1> SUFFICES ASSUME Init PROVE IInv
  OBVIOUS
<1>1. TypeOK
  <2>1. rows \in [Message -> [Body -> Row \cup {None}]]
    BY DEF Init
  <2>2. lease \in [Run -> Checkpoint \cup {None}] /\ outcome \in [Run -> Outcome \cup {None}]
    BY DEF Init
  <2>3. DOMAIN page = {} /\ rest \subseteq DOMAIN page
    BY DEF Init, EmptyPage
  <2>4. /\ DOMAIN evidence = Run /\ touched \in [Run -> SUBSET Message]
        /\ fetched \in [Run -> Nat]
    BY DEF Init
  <2>5. reached \in BOOLEAN /\ pc = "idle" /\ run = None
    BY DEF Init
  <2>6. before \in Message \cup {None} /\ pages \in 0 .. MaxPages
    BY DEF Init
  <2>7. /\ channel \in [Message -> Content] /\ clock \in 1 .. MaxMessage + 1
        /\ \A m \in Message : m >= clock => channel[m] = Gone
    BY DEF Init
  <2>8. waiting \subseteq Run /\ text \subseteq Run /\ sawOlder \subseteq Run /\ changes \in Nat /\ restarts \in Nat
    BY DEF Init
  <2> QED
    BY <2>1, <2>2, <2>3, <2>4, <2>5, <2>6, <2>7, <2>8 DEF TypeOK
<1>2. WalkInv /\ RunsInv /\ CallsInv
  BY NoneAssumption DEF Init, WalkInv, RunsInv, CallsInv, LeasePages, InHand, EmptyPage
<1>3. RowsInv /\ Withdrawn
  <2>1. Rows = {}
    BY DEF Init, Rows
  <2> QED
    BY <2>1, FS_EmptySet DEF Init, RowsInv, Withdrawn, WithdrawnIsGone, WithdrawnLeavesNoText
<1>4. PageInv
  BY DEF Init, PageInv, EmptyPage
<1>5. CoverInv /\ Acquired
  BY DEF Init, CoverInv, Acquired, CompleteMeansRead, DeletedIsNotSelected, Selection
<1> QED
  BY <1>1, <1>2, <1>3, <1>4, <1>5 DEF IInv

LEMMA FetchedPage ==
    ASSUME TypeOK, Fetch
    PROVE  /\ DOMAIN page' = Posts(before) /\ Posts(before) \subseteq Message
           /\ \A m \in DOMAIN page' : page'[m] = channel[m] /\ channel[m] # Gone
BY DEF TypeOK, Fetch, Posts

\* append_revision adds at most one row, a live one, of a post of the window.
LEMMA StoredRow ==
    ASSUME TypeOK, RowsInv, StorePost
    PROVE  /\ Max(rest) \in rest
           /\ rows' \in [Message -> [Body -> Row \cup {None}]]
           /\ \A m \in Message, b \in Body :
                \/ rows'[m][b] = rows[m][b]
                \/ /\ m = Max(rest) /\ b = page[m] /\ rows[m][b] = None
                   /\ rows'[m][b] # None /\ rows'[m][b].live
           /\ IsFiniteSet(Rows')
<1> DEFINE m == Max(rest)
<1>1. rest \in SUBSET Message /\ rest # {} /\ run \in Run
  BY DEF TypeOK, StorePost
<1>2. m \in rest
  BY <1>1, MaxIsGreatest
<1> HIDE DEF m
<1>3. CASE UNCHANGED rows
  BY <1>2, <1>3 DEF TypeOK, RowsInv, Rows, m
<1>4. CASE ~UNCHANGED rows
  <2>1. page[m] \in Body /\ Append(m, page[m]) /\ rows[m][page[m]] = None
    BY <1>4 DEF StorePost, Append, m
  <2> DEFINE new == [at |-> End[run], nth |-> RowCount + 1, live |-> TRUE]
  <2>2. rows' = [rows EXCEPT ![m][page[m]] = new]
    BY <2>1 DEF Append
  <2>3. RowCount \in Nat
    BY FS_CardinalityType DEF RowCount, RowsInv, Rows
  <2>4. new \in Row
    BY <1>1, <2>3 DEF Row
  <2> HIDE DEF new
  <2>5. rows' \in [Message -> [Body -> Row \cup {None}]]
    BY <1>1, <1>2, <2>1, <2>2, <2>4 DEF TypeOK
  <2>6. \A n \in Message, b \in Body :
          rows'[n][b] = IF n = m /\ b = page[m] THEN new ELSE rows[n][b]
    BY <1>1, <1>2, <2>1, <2>2 DEF TypeOK
  <2>7. new # None /\ new.live
    BY <2>4, NoneAssumption DEF new
  <2>8. Rows' = Rows \cup {<<m, page[m]>>}
    BY <1>1, <1>2, <2>1, <2>6, <2>7 DEF Rows
  <2>9. IsFiniteSet(Rows')
    BY <2>8, FS_AddElement DEF RowsInv
  <2> QED
    BY <1>2, <2>1, <2>5, <2>6, <2>7, <2>9 DEF m
<1> QED
  BY <1>3, <1>4

\* withdraw_missing changes nothing of a row but that it is live.
LEMMA WithdrawnRow ==
    ASSUME TypeOK, RowsInv, WithdrawAbsent
    PROVE  /\ rows' \in [Message -> [Body -> Row \cup {None}]]
           /\ \A m \in Message, b \in Body :
                IF Proved(m) /\ m \notin DOMAIN page /\ rows[m][b] # None
                THEN /\ rows'[m][b] # None /\ ~rows'[m][b].live
                     /\ rows'[m][b].at = rows[m][b].at /\ rows'[m][b].nth = rows[m][b].nth
                ELSE rows'[m][b] = rows[m][b]
           /\ Rows' = Rows
<1>1. rows' = [m \in Message |-> [b \in Body |->
                 IF Proved(m) /\ m \notin DOMAIN page /\ rows[m][b] # None
                 THEN [rows[m][b] EXCEPT !.live = FALSE] ELSE rows[m][b]]]
  BY DEF WithdrawAbsent, WithdrawMissing, WithdrawRows
<1>2. \A m \in Message, b \in Body : rows[m][b] \in Row \cup {None}
  BY DEF TypeOK
<1>3. ASSUME NEW x \in Row
      PROVE  LET y == [x EXCEPT !.live = FALSE]
             IN  y \in Row /\ y # None /\ ~y.live /\ y.at = x.at /\ y.nth = x.nth
  BY NoneAssumption DEF Row
<1>4. rows' \in [Message -> [Body -> Row \cup {None}]]
  BY <1>1, <1>2, <1>3
<1>5. ASSUME NEW m \in Message, NEW b \in Body
      PROVE  IF Proved(m) /\ m \notin DOMAIN page /\ rows[m][b] # None
             THEN /\ rows'[m][b] # None /\ ~rows'[m][b].live
                  /\ rows'[m][b].at = rows[m][b].at /\ rows'[m][b].nth = rows[m][b].nth
             ELSE rows'[m][b] = rows[m][b]
  BY <1>1, <1>2, <1>3
<1>6. Rows' = Rows
  BY <1>5 DEF Rows
<1> QED
  BY <1>4, <1>5, <1>6

\* TypeOK, component by component.
TelegramOK ==
    /\ channel \in [Message -> Content] /\ clock \in 1 .. MaxMessage + 1
    /\ \A m \in Message : m >= clock => channel[m] = Gone
    /\ changes \in Nat
LeasesOK ==
    lease \in [Run -> Checkpoint \cup {None}] /\ waiting \subseteq Run /\ text \subseteq Run
WalkOK ==
    /\ pc \in {"idle", "resolve", "fetch", "store", "commit", "finish", "select"}
    /\ run \in Run \cup {None} /\ (pc = "idle" <=> run = None)
    /\ before \in Message \cup {None} /\ pages \in 0 .. MaxPages
PageOK ==
    /\ DOMAIN page \subseteq Message
    /\ \A m \in DOMAIN page : page[m] \in Body \cup NoText
    /\ rest \subseteq DOMAIN page
RunsOK ==
    /\ outcome \in [Run -> Outcome \cup {None}] /\ DOMAIN evidence = Run
    /\ touched \in [Run -> SUBSET Message] /\ sawOlder \subseteq Run
    /\ fetched \in [Run -> Nat] /\ restarts \in Nat

LEMMA TypeParts ==
    TypeOK <=> /\ TelegramOK /\ LeasesOK /\ WalkOK /\ PageOK /\ RunsOK
               /\ rows \in [Message -> [Body -> Row \cup {None}]] /\ reached \in BOOLEAN
BY DEF TypeOK, TelegramOK, LeasesOK, WalkOK, PageOK, RunsOK

LEMMA TelegramStep == ASSUME TypeOK, [Next]_vars PROVE TelegramOK'
<1> USE DEF TelegramOK
<1>0. TelegramOK /\ clock \in Int
  BY TypeParts
<1>1. ASSUME NEW c \in Content, Publish(c) PROVE TelegramOK'
  <2>1. clock \in Message /\ clock' = clock + 1 /\ channel' = [channel EXCEPT ![clock] = c]
        /\ changes' = changes
    BY <1>1 DEF Publish
  <2>2. clock' \in 1 .. MaxMessage + 1
    BY <2>1, MessageInt
  <2>3. \A m \in Message : m >= clock' => m # clock /\ m >= clock
    BY <1>0, <2>1, MessageInt
  <2> QED
    BY <1>0, <2>1, <2>2, <2>3
<1>2. ASSUME NEW m \in Message, NEW c \in Content, Change(m, c) PROVE TelegramOK'
  BY <1>0, <1>2 DEF Change
<1>3. CASE UNCHANGED telegram
  BY <1>0, <1>3 DEF telegram
<1> QED
  BY <1>1, <1>2, <1>3 DEF Next, Provider, Walk, vars, FloodWait, ProviderUnavailable, FetchFails,
     FloodWaitEnds, OtherChannelDefers, Resume, Resolve, Fetch, StorePost, WithdrawAbsent,
     CommitPage, Finish, SelectSources, Restart, StorageFails

\* The checkpoint a step saves is one.
LEMMA CheckpointType ==
    ASSUME NEW c \in CheckpointState, NEW b \in Message \cup {None}, NEW n \in 0 .. MaxPages
    PROVE  [state |-> c, before |-> b, pages |-> n] \in Checkpoint
BY DEF Checkpoint

LEMMA RunWalked == ASSUME TypeOK, pc # "idle" PROVE run \in Run
BY DEF TypeOK

LEMMA LeasesStep == ASSUME TypeOK, WalkInv, [Next]_vars PROVE LeasesOK'
<1> USE DEF LeasesOK
<1>0. LeasesOK /\ WalkOK /\ PageOK
  BY TypeParts
<1>1. CASE FloodWait
  BY <1>0, <1>1, CheckpointType, RunWalked DEF FloodWait, Save, WalkOK, CheckpointState
<1>2. CASE FetchFails
  BY <1>0, <1>2, CheckpointType, RunWalked DEF FetchFails, Save, WalkOK, CheckpointState
<1>3. CASE CommitPage
  BY <1>0, <1>3, CheckpointType, RunWalked, NextBeforeType
     DEF CommitPage, Save, WalkOK, CheckpointState, PageOK
<1>4. CASE Finish
  BY <1>0, <1>4, CheckpointType, RunWalked DEF Finish, Save, WalkOK, CheckpointState
<1>5. CASE SelectSources
  BY <1>0, <1>5, RunWalked DEF SelectSources
<1>6. CASE WithdrawAbsent
  BY <1>0, <1>6 DEF WithdrawAbsent, WithdrawMissing
<1>7. ASSUME NEW r \in Run, FloodWaitEnds(r) PROVE LeasesOK'
  BY <1>0, <1>7 DEF FloodWaitEnds
<1>8. CASE UNCHANGED <<lease, waiting, text>>
  BY <1>0, <1>8
<1> QED
  BY <1>1, <1>2, <1>3, <1>4, <1>5, <1>6, <1>7, <1>8 DEF Next, Provider, Walk, vars, database,
     Publish, Change, ProviderUnavailable, OtherChannelDefers, Resume, Resolve, Fetch, StorePost,
     Restart, StorageFails

\* Where the walk goes.
LEMMA WalkStep == ASSUME TypeOK, WalkInv, [Next]_vars PROVE WalkOK' /\ WalkInv'
<1> USE DEF WalkOK, WalkInv
<1>0. WalkOK /\ PageOK /\ LeasesOK /\ RunsOK
  BY TypeParts
<1>1. CASE Idle
  BY <1>1 DEF Idle, EmptyPage
<1>2. ASSUME NEW r \in Run, Resume(r) PROVE WalkOK' /\ WalkInv'
  <2>1. lease[r] # None => lease[r].before \in Message \cup {None} /\ lease[r].pages \in 0 .. MaxPages
    BY <1>0 DEF LeasesOK, Checkpoint
  <2>2. before' \in Message \cup {None} /\ pages' \in 0 .. MaxPages
    BY <1>2, <2>1 DEF Resume
  <2> QED
    BY <1>0, <1>2, <2>2, NoneAssumption DEF Resume
<1>3. CASE Resolve
  BY <1>0, <1>3 DEF Resolve
<1>4. CASE ProviderUnavailable \/ FetchFails \/ StorageFails \/ Finish
  BY <1>0, <1>4 DEF ProviderUnavailable, FetchFails, StorageFails, Finish, Return
<1>5. CASE Fetch
  BY <1>0, <1>5 DEF Fetch
<1>6. CASE StorePost \/ WithdrawAbsent
  BY <1>0, <1>6 DEF StorePost, WithdrawAbsent
<1>7. CASE CommitPage
  <2>1. before' \in Message \cup {None}
    BY <1>0, <1>7, NextBeforeType DEF CommitPage, PageOK
  <2>2. pages' = pages /\ run' = run /\ run \in Run /\ pages > 0 /\ pc' \in {"fetch", "finish"}
        /\ (pc' = "fetch" => pages # MaxPages)
    BY <1>0, <1>7 DEF CommitPage
  <2> QED
    BY <1>0, <2>1, <2>2, NoneAssumption
<1>8. CASE UNCHANGED walk
  BY <1>0, <1>8 DEF walk
<1> QED
  BY <1>1, <1>2, <1>3, <1>4, <1>5, <1>6, <1>7, <1>8 DEF Next, Provider, Walk, vars,
     Publish, Change, FloodWait, FloodWaitEnds, OtherChannelDefers, SelectSources, Restart

LEMMA PageStep == ASSUME TypeOK, WalkInv, [Next]_vars PROVE PageOK'
<1> USE DEF PageOK
<1>0. PageOK /\ TelegramOK
  BY TypeParts
<1>1. CASE Idle
  BY <1>1 DEF Idle, EmptyPage
<1>2. CASE Fetch
  <2>1. rest' = DOMAIN page'
    BY <1>2 DEF Fetch
  <2> QED
    BY <1>0, <1>2, <2>1, FetchedPage DEF TelegramOK, Content
<1>3. CASE StorePost
  BY <1>0, <1>3 DEF StorePost
<1>4. CASE CommitPage
  BY <1>0, <1>4 DEF CommitPage, EmptyPage, WalkInv
<1>5. CASE UNCHANGED <<page, rest>>
  BY <1>0, <1>5
<1> QED
  BY <1>1, <1>2, <1>3, <1>4, <1>5 DEF Next, Provider, Walk, vars, walk, Publish, Change, FloodWait,
     ProviderUnavailable, FetchFails, FloodWaitEnds, OtherChannelDefers, Resume, Resolve,
     WithdrawAbsent, Finish, SelectSources, Restart, StorageFails

LEMMA RunsTypeStep == ASSUME TypeOK, [Next]_vars PROVE RunsOK'
<1> USE DEF RunsOK
<1>0. RunsOK
  BY TypeParts
<1>1. ASSUME NEW m \in Message, NEW c \in Content, Change(m, c) PROVE RunsOK'
  BY <1>0, <1>1 DEF Change
<1>2. ASSUME NEW r \in Run, Resume(r) PROVE RunsOK'
  BY <1>0, <1>2 DEF Resume
<1>3. CASE Fetch
  BY <1>0, <1>3, RunWalked DEF Fetch
<1>4. CASE ProviderUnavailable \/ FetchFails \/ Finish \/ StorageFails
  <2>1. pc # "idle"
    BY <1>4 DEF ProviderUnavailable, FetchFails, Finish, StorageFails
  <2> QED
    BY <1>0, <1>4, <2>1, RunWalked
       DEF ProviderUnavailable, FetchFails, Finish, StorageFails, Return, Outcome, history
<1>5. CASE OtherChannelDefers \/ Restart
  BY <1>0, <1>5, RunWalked DEF OtherChannelDefers, Restart, history
<1>6. CASE SelectSources
  BY <1>0, <1>6 DEF SelectSources, history
<1>7. CASE UNCHANGED <<outcome, evidence, history, restarts>>
  BY <1>0, <1>7 DEF history
<1> QED
  BY <1>1, <1>2, <1>3, <1>4, <1>5, <1>6, <1>7 DEF Next, Provider, Walk, vars, history, Publish,
     FloodWait, FloodWaitEnds, Resolve, StorePost, WithdrawAbsent, CommitPage

LEMMA RowsTypeStep ==
    ASSUME TypeOK, RowsInv, [Next]_vars
    PROVE  rows' \in [Message -> [Body -> Row \cup {None}]] /\ IsFiniteSet(Rows')
<1>1. CASE StorePost
  BY <1>1, StoredRow
<1>2. CASE WithdrawAbsent
  BY <1>2, WithdrawnRow DEF RowsInv
<1>3. CASE UNCHANGED rows
  BY <1>3 DEF TypeOK, RowsInv, Rows
<1> QED
  BY <1>1, <1>2, <1>3 DEF Next, Provider, Walk, vars, database, Publish, Change, FloodWait,
     ProviderUnavailable, FetchFails, FloodWaitEnds, OtherChannelDefers, Resume, Resolve,
     Fetch, CommitPage, Finish, SelectSources, Restart, StorageFails

LEMMA ReachedStep == ASSUME TypeOK, [Next]_vars PROVE reached' \in BOOLEAN
BY DEF TypeOK, Next, Provider, Walk, vars, walk, Publish, Change, FloodWait, Idle,
   ProviderUnavailable, FetchFails, FloodWaitEnds, OtherChannelDefers, Resume, Resolve,
   Fetch, StorePost, WithdrawAbsent, CommitPage, Finish, SelectSources, Restart, StorageFails

LEMMA TypeStep == ASSUME TypeOK, WalkInv, RowsInv, [Next]_vars PROVE TypeOK'
<1>1. TelegramOK' /\ LeasesOK' /\ WalkOK' /\ PageOK' /\ RunsOK'
  BY TelegramStep, LeasesStep, WalkStep, PageStep, RunsTypeStep
<1> QED
  BY <1>1, RowsTypeStep, ReachedStep DEF TypeOK, TelegramOK, LeasesOK, WalkOK, PageOK, RunsOK

-----------------------------------------------------------------------------
(***************************************************************************)
(* Runs and provider calls.                                                *)
(***************************************************************************)

LEMMA RunsStep == ASSUME TypeOK, WalkInv, RunsInv, [Next]_vars PROVE RunsInv'
<1> USE DEF RunsInv
<1>0. RunsOK /\ WalkOK /\ LeasesOK /\ clock \in Int /\ \A r \in Run : End[r] \in Int
  BY TypeParts DEF TelegramOK
<1>1. ASSUME NEW c \in Content, Publish(c) PROVE RunsInv'
  BY <1>0, <1>1 DEF Publish, database, walk
<1>2. ASSUME NEW r \in Run, Resume(r) PROVE RunsInv'
  BY <1>0, <1>2 DEF Resume, telegram, database
<1>3. CASE FloodWait
  BY <1>0, <1>3, RunWalked, NoneAssumption DEF FloodWait, Save, Idle, telegram, RunsOK, LeasesOK
<1>4. CASE FetchFails
  BY <1>0, <1>4, RunWalked, NoneAssumption DEF FetchFails, Save, Return, telegram, RunsOK, LeasesOK, Outcome
<1>5. CASE CommitPage
  BY <1>0, <1>5, RunWalked, NoneAssumption DEF CommitPage, Save, telegram, RunsOK, LeasesOK
<1>6. CASE Finish
  BY <1>0, <1>6, RunWalked, NoneAssumption
     DEF Finish, Save, Return, telegram, RunsOK, LeasesOK, Outcome, WalkInv
<1>7. CASE ProviderUnavailable \/ StorageFails
  <2>1. pc # "idle"
    BY <1>7 DEF ProviderUnavailable, StorageFails
  <2> QED
    BY <1>0, <1>7, <2>1, RunWalked, NoneAssumption
       DEF ProviderUnavailable, StorageFails, Return, telegram, database, RunsOK, Outcome
<1>8. CASE OtherChannelDefers \/ Restart
  BY <1>0, <1>8, RunWalked, NoneAssumption DEF OtherChannelDefers, Restart, Idle, telegram, database, RunsOK
<1>9. CASE WithdrawAbsent
  BY <1>0, <1>9 DEF WithdrawAbsent, WithdrawMissing, telegram
<1>10. CASE SelectSources
  <2>1. DOMAIN Selected(run) \subseteq Message /\ run \in Run
    BY <1>10, RunWalked DEF Selected, SelectSources
  <2>2. evidence' = [evidence EXCEPT ![run] = Selected(run)] /\ text' \subseteq text \cup {run}
    BY <1>10 DEF SelectSources
  <2>3. \A r \in Run : r \in text' \/ evidence'[r] # None => DOMAIN evidence'[r] \subseteq Message
    BY <1>0, <2>1, <2>2 DEF RunsOK, LeasesOK
  <2>4. \A r \in Run : r # run => evidence'[r] = evidence[r]
    BY <1>0, <2>2 DEF RunsOK
  <2>5. UNCHANGED <<outcome, lease, clock>> /\ run' = None /\ pc' = "idle" /\ pc = "select"
    BY <1>10 DEF SelectSources, Idle, telegram
  <2> QED
    BY <1>0, <2>1, <2>3, <2>4, <2>5, NoneAssumption
<1>11. CASE UNCHANGED <<outcome, evidence, run, lease, clock, text>> /\ (pc' = pc \/ pc' # "select")
  BY <1>0, <1>11
<1> QED
  BY <1>1, <1>2, <1>3, <1>4, <1>5, <1>6, <1>7, <1>8, <1>9, <1>10, <1>11 DEF Next, Provider, Walk, vars,
     telegram, database, walk, Change, FloodWaitEnds, Resolve, Fetch, StorePost

LEMMA LeasePagesType == ASSUME TypeOK, NEW r \in Run PROVE LeasePages(r) \in 0 .. MaxPages
BY DEF TypeOK, LeasePages, Checkpoint

\* A step that fetches nothing and moves no checkpoint.
LEMMA CallsFrame ==
    ASSUME TypeOK, CallsInv, UNCHANGED <<fetched, lease>>, restarts' \in Nat, restarts' >= restarts,
           \/ /\ UNCHANGED <<pages, run>> /\ pc \notin {"idle", "select"}
              /\ \A r \in Run : InHand(r)' = InHand(r)
           \/ pc' \in {"idle", "select"} /\ (pc \in {"store", "commit"} => restarts' > restarts)
           \/ UNCHANGED <<pages, run, pc>>
    PROVE  CallsInv'
<1>1. \A r \in Run : LeasePages(r) \in Int /\ LeasePages(r)' = LeasePages(r) /\ fetched[r] \in Int
  BY LeasePagesType DEF LeasePages, TypeOK
<1>2. restarts \in Int /\ restarts' \in Int /\ pages \in Int
  BY DEF TypeOK
<1>3. \A r \in Run : InHand(r) \in {0, 1}
  BY DEF InHand
<1>4. pc' \in {"idle", "select"} => \A r \in Run : InHand(r)' = 0
  BY DEF InHand
<1>5. pc \notin {"store", "commit"} => \A r \in Run : InHand(r) = 0
  BY DEF InHand
<1>6. UNCHANGED <<run, pc>> => \A r \in Run : InHand(r)' = InHand(r)
  BY DEF InHand
<1>7. \A r \in Run : fetched'[r] <= LeasePages(r)' + restarts' + InHand(r)'
  BY <1>1, <1>2, <1>3, <1>4, <1>5, <1>6 DEF CallsInv
<1>8. ASSUME pc' \notin {"idle", "select"} PROVE (LeasePages(run) + InHand(run) <= pages)'
  <2>1. run' = run /\ pages' = pages /\ pc # "idle" /\ pc # "select" /\ run \in Run
    BY <1>8, RunWalked
  <2>2. LeasePages(run)' = LeasePages(run) /\ InHand(run)' = InHand(run)
    BY <1>8, <2>1, <1>6, <1>1 DEF LeasePages, InHand
  <2> QED
    BY <2>1, <2>2 DEF CallsInv
<1> QED
  BY <1>7, <1>8 DEF CallsInv

\* A step that saves the pages of the walk; one in hand is saved with them.
LEMMA CallsSave ==
    ASSUME TypeOK, CallsInv, pc \notin {"idle", "select"}, pc' \notin {"store", "commit"},
           UNCHANGED <<fetched, restarts>>,
           NEW c \in CheckpointState, NEW b \in Message \cup {None}, Save(c, b, pages),
           pc' \in {"idle", "select"} \/ UNCHANGED <<pages, run>>
    PROVE  CallsInv'
<1> DEFINE saved == [state |-> c, before |-> b, pages |-> pages]
<1>1. run \in Run /\ \A r \in Run : LeasePages(r) \in Int /\ fetched[r] \in Int
  BY LeasePagesType, RunWalked DEF TypeOK
<1>2. lease' = [lease EXCEPT ![run] = saved] /\ DOMAIN lease = Run
  BY DEF Save, TypeOK
<1>3. saved # None /\ saved.pages = pages
  BY CheckpointType, NoneAssumption DEF TypeOK
<1> HIDE DEF saved
<1>4. \A r \in Run : LeasePages(r)' = IF r = run THEN pages ELSE LeasePages(r)
  BY <1>1, <1>2, <1>3 DEF LeasePages
<1>5. \A r \in Run : InHand(r)' = 0 /\ InHand(r) = (IF r = run THEN InHand(run) ELSE 0) /\ InHand(r) \in {0, 1}
  BY DEF InHand
<1>6. restarts \in Int /\ pages \in Int
  BY DEF TypeOK
<1>7. \A r \in Run : fetched'[r] <= LeasePages(r)' + restarts' + InHand(r)'
  BY <1>1, <1>4, <1>5, <1>6 DEF CallsInv
<1>8. ASSUME pc' \notin {"idle", "select"} PROVE (LeasePages(run) + InHand(run) <= pages)'
  <2>1. run' = run /\ pages' = pages
    BY <1>8
  <2>2. LeasePages(run)' = pages /\ InHand(run)' = 0
    BY <2>1, <1>1, <1>4, <1>5 DEF LeasePages, InHand
  <2> QED
    BY <2>1, <2>2, <1>6
<1> QED
  BY <1>7, <1>8 DEF CallsInv

LEMMA CallsStep == ASSUME TypeOK, WalkInv, CallsInv, [Next]_vars PROVE CallsInv'
<1>0. /\ RunsOK /\ WalkOK /\ LeasesOK /\ restarts' \in Nat /\ restarts \in Int
      /\ before \in Message \cup {None}
  BY TypeParts, RunsTypeStep DEF RunsOK, WalkOK
<1>1. ASSUME NEW r \in Run, Resume(r) PROVE CallsInv'
  <2>1. \A q \in Run : /\ LeasePages(q)' = LeasePages(q) /\ LeasePages(q) \in 0 .. MaxPages
                       /\ InHand(q)' = 0 /\ InHand(q) = 0
    BY <1>1, LeasePagesType DEF Resume, LeasePages, InHand, database
  <2>2. LeasePages(r) <= pages' /\ run' = r
    BY <1>1, LeasePagesType DEF Resume, LeasePages
  <2>3. LeasePages(run)' <= pages' /\ InHand(run)' = 0
    BY <2>1, <2>2 DEF LeasePages, InHand
  <2>4. \A q \in Run : fetched'[q] <= LeasePages(q)' + restarts' + InHand(q)'
    BY <1>1, <2>1 DEF Resume, CallsInv
  <2>5. LeasePages(run)' \in Int
    BY <2>1, <2>2 DEF LeasePages
  <2> QED
    BY <2>3, <2>4, <2>5 DEF CallsInv
<1>2. CASE Fetch
  <2>1. run \in Run /\ pages \in Int
    BY <1>2, RunWalked, <1>0 DEF Fetch, WalkOK
  <2>2. /\ fetched' = [fetched EXCEPT ![run] = @ + 1] /\ pages' = pages + 1
        /\ UNCHANGED <<run, lease, restarts>>
    BY <1>2 DEF Fetch, database
  <2>3. \A q \in Run : /\ LeasePages(q)' = LeasePages(q) /\ LeasePages(q) \in Int /\ fetched[q] \in Int
                       /\ InHand(q)' = (IF q = run THEN 1 ELSE 0) /\ InHand(q) = 0
    BY <1>0, <1>2, <2>2, LeasePagesType DEF Fetch, LeasePages, InHand, RunsOK
  <2>4. \A q \in Run : fetched'[q] <= LeasePages(q)' + restarts' + InHand(q)'
    BY <1>0, <2>1, <2>2, <2>3 DEF CallsInv, RunsOK
  <2>5. LeasePages(run) <= pages /\ (LeasePages(run) + InHand(run))' = LeasePages(run) + 1
    BY <1>2, <2>1, <2>2, <2>3 DEF CallsInv, Fetch, LeasePages, InHand
  <2> QED
    BY <2>1, <2>2, <2>3, <2>4, <2>5 DEF CallsInv
<1>3. CASE FloodWait
  BY <1>0, <1>3, CallsSave DEF FloodWait, Idle, history, CheckpointState
<1>4. CASE FetchFails
  BY <1>0, <1>4, CallsSave DEF FetchFails, Return, history, CheckpointState
<1>5. CASE CommitPage
  <2>1. before' \in Message \cup {None}
    BY <1>5, WalkStep DEF WalkOK
  <2> QED
    BY <1>0, <1>5, <2>1, CallsSave DEF CommitPage, history, CheckpointState
<1>6. CASE Finish
  BY <1>0, <1>6, CallsSave DEF Finish, Return, history, CheckpointState
<1>7. CASE Resolve \/ StorePost \/ WithdrawAbsent
  <2>1. /\ UNCHANGED <<pages, run, fetched, lease, restarts>> /\ pc \notin {"idle", "select"}
        /\ \A r \in Run : InHand(r)' = InHand(r)
    BY <1>7 DEF Resolve, StorePost, WithdrawAbsent, database, history, InHand
  <2> QED
    BY <1>0, <2>1, CallsFrame
<1>8. CASE ProviderUnavailable \/ StorageFails \/ OtherChannelDefers \/ Restart \/ SelectSources
  BY <1>0, <1>8, CallsFrame DEF ProviderUnavailable, StorageFails, OtherChannelDefers, Restart,
     SelectSources, Idle, Return, database, history
<1>9. CASE UNCHANGED <<fetched, lease, restarts, pages, run, pc>>
  BY <1>0, <1>9, CallsFrame
<1> QED
  BY <1>1, <1>2, <1>3, <1>4, <1>5, <1>6, <1>7, <1>8, <1>9 DEF Next, Provider, Walk, vars,
     telegram, database, walk, history, Publish, Change, FloodWaitEnds

-----------------------------------------------------------------------------
(***************************************************************************)
(* Revisions and withdrawals.                                              *)
(***************************************************************************)

LEMMA RowsStep == ASSUME TypeOK, RowsInv, PageInv, [Next]_vars PROVE RowsInv'
<1>0. /\ IsFiniteSet(Rows') /\ clock \in Int /\ rest \subseteq DOMAIN page
      /\ DOMAIN page \subseteq Message /\ \A m \in Message : m \in Int
  BY RowsTypeStep, MessageInt DEF TypeOK
<1>1. CASE StorePost
  <2>1. clock' = clock /\ pc = "store"
    BY <1>1 DEF StorePost, telegram
  <2>2. Max(rest) \in DOMAIN page
    BY <1>0, <1>1, StoredRow
  <2>3. /\ Max(rest) < clock
        /\ \A b \in Body : rows[Max(rest)][b] # None => rows[Max(rest)][b].live
    BY <2>1, <2>2 DEF PageInv
  <2>4. \A m \in Message, b \in Body : rows'[m][b] # None => m < clock'
    BY <1>1, <2>1, <2>3, StoredRow DEF RowsInv
  <2>5. \A m \in Message : \A b, c \in Body :
          rows'[m][b] # None /\ rows'[m][c] # None /\ rows'[m][b].live => rows'[m][c].live
    BY <1>1, <2>3, StoredRow DEF RowsInv
  <2> QED
    BY <1>0, <2>4, <2>5 DEF RowsInv
<1>2. CASE WithdrawAbsent
  <2>1. clock' = clock
    BY <1>2 DEF WithdrawAbsent, telegram
  <2>2. \A m \in Message, b \in Body : rows'[m][b] # None => m < clock'
    BY <1>2, <2>1, WithdrawnRow DEF RowsInv
  <2>3. \A m \in Message : \A b, c \in Body :
          rows'[m][b] # None /\ rows'[m][c] # None /\ rows'[m][b].live => rows'[m][c].live
    BY <1>2, WithdrawnRow DEF RowsInv
  <2> QED
    BY <1>0, <2>2, <2>3 DEF RowsInv
<1>3. CASE UNCHANGED rows /\ (clock' = clock \/ clock' = clock + 1)
  <2>1. \A m \in Message : m < clock => m < clock'
    BY <1>0, <1>3
  <2> QED
    BY <1>0, <1>3, <2>1 DEF RowsInv
<1> QED
  BY <1>1, <1>2, <1>3 DEF Next, Provider, Walk, vars, telegram, database, Publish, Change, FloodWait,
     ProviderUnavailable, FetchFails, FloodWaitEnds, OtherChannelDefers, Resume, Resolve,
     Fetch, CommitPage, Finish, SelectSources, Restart, StorageFails

\* Only a page that answers for a message without holding it withdraws it.
LEMMA WithdrawnIsGoneStep ==
    ASSUME TypeOK, RowsInv, PageInv, WithdrawnIsGone, [Next]_vars
    PROVE  WithdrawnIsGone'
<1> USE DEF WithdrawnIsGone
<1>0. channel \in [Message -> Content]
  BY DEF TypeOK
<1>1. ASSUME NEW c \in Content, Publish(c) PROVE WithdrawnIsGone'
  <2>1. \A b \in Body : rows[clock][b] = None
    BY <1>1, MessageInt DEF RowsInv, Publish
  <2> QED
    BY <1>0, <1>1, <2>1 DEF Publish, database
<1>2. ASSUME NEW m \in Message, NEW c \in Content, Change(m, c) PROVE WithdrawnIsGone'
  BY <1>0, <1>2 DEF Change, database
<1>3. CASE StorePost
  BY <1>0, <1>3, StoredRow DEF StorePost, telegram
<1>4. CASE WithdrawAbsent
  <2>1. pc = "store" /\ channel' = channel
    BY <1>4 DEF WithdrawAbsent, telegram
  <2> QED
    BY <1>4, <2>1, WithdrawnRow DEF PageInv
<1>5. CASE UNCHANGED <<rows, channel>>
  BY <1>5
<1> QED
  BY <1>1, <1>2, <1>3, <1>4, <1>5 DEF Next, Provider, Walk, vars, telegram, database, FloodWait,
     ProviderUnavailable, FetchFails, FloodWaitEnds, OtherChannelDefers, Resume, Resolve,
     Fetch, CommitPage, Finish, SelectSources, Restart, StorageFails

LEMMA NoTextStep ==
    ASSUME TypeOK, RunsInv, RowsInv, WithdrawnLeavesNoText, [Next]_vars
    PROVE  WithdrawnLeavesNoText'
<1> USE DEF WithdrawnLeavesNoText
<1>0. \A r \in text : DOMAIN evidence[r] \subseteq Message
  BY DEF RunsInv, TypeOK
<1>1. CASE StorePost
  BY <1>0, <1>1, StoredRow DEF StorePost
<1>2. CASE WithdrawAbsent
  <2>1. /\ evidence' = evidence
        /\ text' = {r \in text : \A m \in DOMAIN evidence[r] : ~Proved(m) \/ m \in DOMAIN page}
    BY <1>2 DEF WithdrawAbsent, WithdrawMissing
  <2> QED
    BY <1>0, <1>2, <2>1, WithdrawnRow
<1>3. CASE SelectSources
  <2>1. /\ run \in Run /\ evidence' = [evidence EXCEPT ![run] = Selected(run)]
        /\ text' \subseteq text \cup {run} /\ rows' = rows /\ DOMAIN evidence = Run /\ text \subseteq Run
    BY <1>3, RunWalked DEF SelectSources, TypeOK
  <2>2. \A m \in DOMAIN Selected(run) : m \in Message /\ Live(m) # {}
    BY DEF Selected
  <2>3. \A m \in DOMAIN Selected(run), b \in Body : rows[m][b] # None => rows[m][b].live
    BY <2>2 DEF RowsInv, Live
  <2>4. evidence'[run] = Selected(run) /\ \A r \in text : r # run => evidence'[r] = evidence[r]
    BY <2>1
  <2> QED
    BY <2>1, <2>3, <2>4
<1>4. CASE UNCHANGED <<rows, evidence, text>>
  BY <1>4
<1> QED
  BY <1>1, <1>2, <1>3, <1>4 DEF Next, Provider, Walk, vars, database, Publish, Change, FloodWait,
     ProviderUnavailable, FetchFails, FloodWaitEnds, OtherChannelDefers, Resume, Resolve,
     Fetch, CommitPage, Finish, Restart, StorageFails

-----------------------------------------------------------------------------
(***************************************************************************)
(* The page in hand.                                                       *)
(***************************************************************************)

LEMMA ProvedFrame ==
    ASSUME UNCHANGED <<page, before>>, NEW m PROVE Proved(m)' <=> Proved(m)
BY DEF Proved, NextBefore

\* A page whose walk has ended.
LEMMA PageDropped ==
    ASSUME PageInv, pc' \notin {"store", "commit"},
           DOMAIN page' = {} \/ UNCHANGED <<page, channel, clock, touched>>
    PROVE  PageInv'
BY DEF PageInv

LEMMA FetchPage ==
    ASSUME TypeOK, RowsInv, WithdrawnIsGone, Fetch
    PROVE  PageInv'
<1>0. /\ DOMAIN page' = Posts(before) /\ Posts(before) \subseteq Message /\ rest' = DOMAIN page'
      /\ \A m \in DOMAIN page' : page'[m] = channel[m] /\ channel[m] # Gone
      /\ pc' = "store" /\ reached' = FALSE /\ UNCHANGED <<channel, clock, rows, before>>
  BY FetchedPage DEF Fetch, telegram, database
<1>1. \A m \in DOMAIN page' : m < clock
  BY <1>0, MessageInt DEF TypeOK
<1>2. \A m \in Message : Proved(m)' /\ m \notin DOMAIN page' => channel'[m] = Gone
  BY <1>0, PageAnswers DEF Proved
<1>3. \A m \in DOMAIN page', b \in Body : rows'[m][b] # None => rows'[m][b].live
  BY <1>0 DEF WithdrawnIsGone
<1> QED
  BY <1>0, <1>1, <1>2, <1>3 DEF PageInv

LEMMA StorePage ==
    ASSUME TypeOK, RowsInv, PageInv, StorePost
    PROVE  PageInv'
<1> DEFINE m == Max(rest)
<1>0. /\ pc = "store" /\ pc' = "store" /\ rest' = rest \ {m} /\ run \in Run
      /\ UNCHANGED <<channel, clock, touched, page, before, run>>
      /\ reached' = (reached \/ (page[m] \in Body /\ m < Start[run]))
      /\ IF page[m] \in Body /\ InWindow(m, run) THEN Append(m, page[m]) ELSE UNCHANGED rows
  BY RunWalked DEF StorePost, telegram, history
<1>1. m \in DOMAIN page /\ DOMAIN page \subseteq Message
  BY StoredRow DEF TypeOK
<1>2. \A n \in Message : Proved(n)' <=> Proved(n)
  BY <1>0, ProvedFrame
<1>3. \A n \in Message \ DOMAIN page, b \in Body : rows'[n][b] = rows[n][b]
  BY <1>1, StoredRow
<1>4. \A n \in DOMAIN page, b \in Body : rows'[n][b] # None => rows'[n][b].live
  BY <1>0, <1>1, StoredRow DEF PageInv
<1>5. ASSUME NEW n \in DOMAIN page \ rest', page[n] \in Body, InWindow(n, run)
      PROVE  rows'[n][page[n]] # None
  <2>1. CASE n = m
    <3>1. Append(n, page[n])
      BY <1>0, <1>5, <2>1
    <3>2. CASE rows[n][page[n]] # None
      BY <3>1, <3>2 DEF Append
    <3>3. CASE rows[n][page[n]] = None
      <4>1. rows' = [rows EXCEPT ![n][page[n]] =
                       [at |-> End[run], nth |-> RowCount + 1, live |-> TRUE]]
        BY <3>1, <3>3 DEF Append
      <4>2. rows'[n][page[n]] = [at |-> End[run], nth |-> RowCount + 1, live |-> TRUE]
        BY <1>1, <1>5, <4>1 DEF TypeOK
      <4>3. rows'[n][page[n]] \in Row
        <5>1. RowCount \in Nat
          BY FS_CardinalityType DEF RowCount, RowsInv, Rows
        <5> QED
          BY <1>0, <4>2, <5>1 DEF Row
      <4> QED
        BY <4>3, NoneAssumption
    <3> QED
      BY <3>2, <3>3
  <2>2. CASE n # m
    BY <1>0, <1>1, <1>5, <2>2, StoredRow DEF PageInv
  <2> QED
    BY <2>1, <2>2
<1>6. reached' => \E n \in DOMAIN page : n < Start[run]
  BY <1>0, <1>1 DEF PageInv
<1> HIDE DEF m
<1> QED
  BY <1>0, <1>1, <1>2, <1>3, <1>4, <1>5, <1>6 DEF PageInv, InWindow

LEMMA WithdrawPage ==
    ASSUME TypeOK, RowsInv, PageInv, WithdrawAbsent
    PROVE  PageInv'
<1>0. /\ pc = "store" /\ pc' = "commit" /\ rest = {}
      /\ UNCHANGED <<channel, clock, touched, page, before, run, rest, reached>>
  BY DEF WithdrawAbsent, telegram, history
<1>1. DOMAIN page \subseteq Message /\ \A n \in DOMAIN page : page[n] \in Body \cup NoText
  BY DEF TypeOK
<1>2. \A n \in Message : Proved(n)' <=> Proved(n)
  BY <1>0, ProvedFrame
<1>3. \A n \in Message, b \in Body : rows'[n][b] # None <=> rows[n][b] # None
  BY WithdrawnRow
<1>4. \A n \in DOMAIN page, b \in Body : rows'[n][b] = rows[n][b]
  BY <1>1, WithdrawnRow
<1>5. \A n \in Message : Proved(n) /\ n \notin DOMAIN page => Live(n)' = {}
  BY WithdrawnRow DEF Live
<1> QED
  BY <1>0, <1>1, <1>2, <1>3, <1>4, <1>5 DEF PageInv, InWindow

LEMMA PageInvStep ==
    ASSUME TypeOK, WalkInv, RunsInv, RowsInv, PageInv, WithdrawnIsGone, [Next]_vars
    PROVE  PageInv'
<1>0. /\ channel \in [Message -> Content] /\ clock \in Int /\ DOMAIN page \subseteq Message
      /\ pc # "idle" => run \in Run
  BY DEF TypeOK
<1>1. ASSUME NEW c \in Content, Publish(c) PROVE PageInv'
  <2>1. /\ clock \in Message /\ clock' = clock + 1 /\ channel' = [channel EXCEPT ![clock] = c]
        /\ UNCHANGED <<rows, pc, run, before, page, rest, reached, touched>>
    BY <1>1 DEF Publish, database, walk, history
  <2>2. \A m \in Message : Proved(m)' <=> Proved(m)
    BY <2>1, ProvedFrame
  <2>3. \A m \in DOMAIN page : m < clock' /\ m # clock
    <3>1. \A m \in DOMAIN page : m < clock /\ m \in Int
      BY <1>0, MessageInt DEF PageInv
    <3> QED
      BY <1>0, <2>1, <3>1
  <2>4. ASSUME pc \in {"store", "commit"}, NEW m \in Message,
               m < End[run] \/ \E b \in Body : rows[m][b] # None
        PROVE  m # clock
    BY <1>0, <2>4, MessageInt DEF RunsInv, RowsInv
  <2>5. \A m \in Message : m # clock => channel'[m] = channel[m]
    BY <1>0, <2>1
  <2>6. \A m \in Message : Live(m)' = Live(m)
    BY <2>1 DEF Live
  <2> QED
    BY <1>0, <2>1, <2>2, <2>3, <2>4, <2>5, <2>6 DEF PageInv, InWindow
<1>2. ASSUME NEW n \in Message, NEW c \in Content, Change(n, c) PROVE PageInv'
  <2>1. /\ channel[n] # Gone /\ channel' = [channel EXCEPT ![n] = c]
        /\ touched' = [r \in Run |-> touched[r] \cup {n}]
        /\ UNCHANGED <<clock, rows, pc, run, before, page, rest, reached>>
    BY <1>2 DEF Change, database, walk
  <2>2. \A m \in Message : Proved(m)' <=> Proved(m)
    BY <2>1, ProvedFrame
  <2>3. \A m \in Message : m # n => channel'[m] = channel[m]
    BY <1>0, <2>1
  <2>4. \A m \in Message : Live(m)' = Live(m)
    BY <2>1 DEF Live
  <2>5. \A m \in DOMAIN page : channel'[m] = page[m] \/ \A r \in Run : m \in touched'[r]
    BY <1>0, <2>1, <2>3 DEF PageInv
  <2> QED
    BY <1>0, <2>1, <2>2, <2>3, <2>4, <2>5 DEF PageInv, InWindow
<1>3. CASE Idle
  BY <1>3, PageDropped DEF Idle, EmptyPage
<1>4. ASSUME NEW r \in Run, Resume(r) PROVE PageInv'
  BY <1>4, PageDropped DEF Resume, WalkInv
<1>5. CASE Resolve \/ ProviderUnavailable \/ FetchFails \/ Finish \/ StorageFails
  BY <1>5, PageDropped DEF Resolve, ProviderUnavailable, FetchFails, Finish, StorageFails, Return,
     telegram, history
<1>6. CASE CommitPage
  BY <1>6, PageDropped DEF CommitPage, EmptyPage
<1>7. CASE UNCHANGED <<telegram, rows, walk, touched>>
  <2>1. \A m \in Message : (Proved(m)' <=> Proved(m)) /\ Live(m)' = Live(m)
    BY <1>7, ProvedFrame DEF walk, Live
  <2> QED
    BY <1>7, <2>1 DEF PageInv, telegram, walk, InWindow
<1> QED
  BY <1>1, <1>2, <1>3, <1>4, <1>5, <1>6, <1>7, FetchPage, StorePage, WithdrawPage
     DEF Next, Provider, Walk, vars, database, history, FloodWait, FloodWaitEnds,
     OtherChannelDefers, SelectSources, Restart

-----------------------------------------------------------------------------
(***************************************************************************)
(* What the walk has covered.                                              *)
(***************************************************************************)

\* A step keeps every row, makes a live row only of a post that was in the
\* channel, and leaves alone the messages it does not touch.
Keeps(r) ==
    \A m \in Message \ touched'[r] : InWindow(m, r) =>
        /\ m \notin touched[r] /\ channel'[m] = channel[m]
        /\ \A b \in Body : rows[m][b] # None => rows'[m][b] # None
        /\ channel[m] = Gone /\ Live(m) = {} => Live(m)' = {}

LEMMA DoneKept ==
    ASSUME NEW r \in Run, Keeps(r), NEW m \in Message, Done(r, m)
    PROVE  Done(r, m)'
BY DEF Keeps, Done, InWindow

LEMMA CoveredKept ==
    ASSUME NEW r \in Run, Keeps(r), NEW c, NEW n, Covered(r, c, n)
    PROVE  (c # None => n > 0) /\ (n > 0 => \A m \in Message : (c # None => m >= c) => Done(r, m)')
BY DoneKept DEF Covered

\* Every step of the channel and of the walks keeps what is done, but for the one
\* that begins the first walk of a run.
LEMMA StepKeeps ==
    ASSUME IInv, [Next]_vars, NEW r \in Run, clock >= End[r], ~(Resume(r) /\ lease[r] = None)
    PROVE  Keeps(r)
<1>0. /\ channel \in [Message -> Content] /\ clock \in Int /\ End[r] \in Int
      /\ DOMAIN page \subseteq Message /\ touched \in [Run -> SUBSET Message]
      /\ rest \subseteq DOMAIN page /\ \A m \in Message : m \in Int
  BY MessageInt DEF IInv, TypeOK
<1>1. ASSUME NEW c \in Content, Publish(c) PROVE Keeps(r)
  <2>1. /\ channel' = [channel EXCEPT ![clock] = c] /\ UNCHANGED <<rows, touched>>
    BY <1>1 DEF Publish, database, history
  <2>2. \A m \in Message : InWindow(m, r) => m # clock
    BY <1>0 DEF InWindow
  <2> QED
    BY <1>0, <2>1, <2>2 DEF Keeps, Live
<1>2. ASSUME NEW n \in Message, NEW c \in Content, Change(n, c) PROVE Keeps(r)
  BY <1>0, <1>2 DEF Change, Keeps, Live, database
<1>3. CASE StorePost
  <2>1. UNCHANGED <<channel, touched>> /\ Max(rest) \in DOMAIN page
    BY <1>0, <1>3, StoredRow DEF StorePost, telegram, history, IInv
  <2>2. Max(rest) \in Message /\ (channel[Max(rest)] = Gone => Max(rest) \in touched[r])
    BY <1>0, <2>1, ContentAssumption DEF IInv, PageInv, TypeOK
  <2>3. \A m \in Message, b \in Body : rows[m][b] # None => rows'[m][b] # None
    BY <1>3, StoredRow DEF IInv
  <2>4. \A m \in Message : m # Max(rest) => Live(m)' = Live(m)
    BY <1>3, StoredRow DEF IInv, Live
  <2> QED
    BY <2>1, <2>2, <2>3, <2>4 DEF Keeps
<1>4. CASE WithdrawAbsent
  <2>1. UNCHANGED <<channel, touched>>
    BY <1>4 DEF WithdrawAbsent, telegram, history
  <2>2. \A m \in Message, b \in Body : rows[m][b] # None => rows'[m][b] # None
    BY <1>4, WithdrawnRow DEF IInv
  <2>3. \A m \in Message : Live(m)' \subseteq Live(m)
    BY <1>4, WithdrawnRow DEF IInv, Live
  <2> QED
    BY <2>1, <2>2, <2>3 DEF Keeps
<1>5. ASSUME NEW q \in Run, Resume(q) PROVE Keeps(r)
  <2>1. UNCHANGED <<channel, rows>> /\ touched'[r] = touched[r]
    BY <1>0, <1>5 DEF Resume, telegram, database
  <2> QED
    BY <2>1 DEF Keeps, Live
<1>6. CASE UNCHANGED <<channel, rows, touched>>
  BY <1>6 DEF Keeps, Live
<1> QED
  BY <1>1, <1>2, <1>3, <1>4, <1>5, <1>6 DEF Next, Provider, Walk, vars, telegram, database, history,
     FloodWait, ProviderUnavailable, FetchFails, FloodWaitEnds, OtherChannelDefers, Resolve,
     Fetch, CommitPage, Finish, SelectSources, Restart, StorageFails

\* A committed page answers for its range.
LEMMA ProvedIsDone ==
    ASSUME IInv, pc = "commit", NEW m \in Message, Proved(m)
    PROVE  Done(run, m)
<1> SUFFICES ASSUME m \notin touched[run], InWindow(m, run)
             PROVE  /\ channel[m] \in Body => rows[m][channel[m]] # None
                    /\ channel[m] = Gone => Live(m) = {}
  BY DEF Done
<1>0. run \in Run /\ rest = {} /\ m < End[run]
  BY RunWalked DEF IInv, WalkInv, InWindow
<1>1. CASE m \in DOMAIN page
  <2>1. channel[m] = page[m] /\ page[m] \in Body \cup NoText
    BY <1>0, <1>1 DEF IInv, PageInv, TypeOK
  <2> QED
    BY <1>0, <1>1, <2>1, ContentAssumption DEF IInv, PageInv
<1>2. CASE m \notin DOMAIN page
  <2>1. channel[m] = Gone /\ Live(m) = {}
    BY <1>0, <1>2 DEF IInv, PageInv
  <2> QED
    BY <2>1, ContentAssumption
<1> QED
  BY <1>1, <1>2

\* CommitPage: the pages so far answer for everything down to the next cursor.
LEMMA CommitCovers ==
    ASSUME IInv, CommitPage
    PROVE  Covered(run, before', pages)
<1>0. /\ pc = "commit" /\ before' = (IF reached THEN None ELSE NextBefore(page)) /\ pages > 0
      /\ run \in Run /\ pages - 1 \in Int /\ DOMAIN page \subseteq Message
      /\ before \in Message \cup {None}
  BY RunWalked DEF CommitPage, IInv, WalkInv, TypeOK
<1>1. Covered(run, before, pages - 1)
  BY <1>0 DEF IInv, CoverInv
<1>2. ASSUME NEW m \in Message, before' # None => m >= before'
      PROVE  Done(run, m)
  <2>1. CASE before # None /\ m >= before
    BY <1>0, <1>1, <2>1 DEF Covered
  <2>2. CASE NextBefore(page) # None => m >= NextBefore(page)
    <3>1. CASE before # None => m < before
      BY <1>0, <2>2, <3>1, ProvedIsDone DEF Proved
    <3> QED
      BY <1>0, <2>1, <3>1, MessageInt
  <2>3. CASE NextBefore(page) # None /\ ~(m >= NextBefore(page))
    <3>1. PICK n \in DOMAIN page : n < Start[run]
      BY <1>0, <1>2, <2>3 DEF IInv, PageInv
    <3>2. NextBefore(page) \in Message /\ NextBefore(page) <= n /\ n \in Message
      BY <1>0, <2>3, NextBeforeType
    <3>3. ~InWindow(m, run)
      BY <1>0, <2>3, <3>1, <3>2, MessageInt DEF InWindow
    <3> QED
      BY <3>3 DEF Done
  <2> QED
    BY <2>2, <2>3
<1> QED
  BY <1>0, <1>2 DEF Covered

LEMMA WalkedKeeps ==
    ASSUME IInv, [Next]_vars, pc # "idle"
    PROVE  run \in Run /\ Keeps(run)
<1>1. run \in Run
  BY RunWalked DEF IInv
<1>2. clock >= End[run] /\ ~Resume(run)
  BY <1>1 DEF IInv, RunsInv, Resume
<1> QED
  BY <1>1, <1>2, StepKeeps

\* The checkpoints of all runs, after a step that saves what the walk covered.
LEMMA LeasesCovered ==
    ASSUME IInv, [Next]_vars,
           \/ lease' = lease
           \/ /\ pc # "idle"
              /\ \E c \in CheckpointState, b \in Message \cup {None} :
                   Save(c, b, pages) /\ Covered(run, b, pages)
    PROVE  (\A r \in Run : lease[r] # None => Covered(r, lease[r].before, lease[r].pages))'
<1> SUFFICES ASSUME NEW r \in Run, lease'[r] # None
             PROVE  /\ lease'[r].before # None => lease'[r].pages > 0
                    /\ lease'[r].pages > 0 => \A m \in Message :
                         (lease'[r].before # None => m >= lease'[r].before) => Done(r, m)'
  BY DEF Covered
<1>1. CASE lease'[r] = lease[r]
  <2>1. Covered(r, lease[r].before, lease[r].pages) /\ clock >= End[r]
    BY <1>1 DEF IInv, CoverInv, RunsInv
  <2>2. Keeps(r)
    BY <1>1, <2>1, StepKeeps
  <2> QED
    BY <1>1, <2>1, <2>2, CoveredKept
<1>2. CASE lease'[r] # lease[r]
  <2>1. PICK c \in CheckpointState, b \in Message \cup {None} :
          Save(c, b, pages) /\ Covered(run, b, pages)
    BY <1>2
  <2>2. r = run /\ lease'[r] = [state |-> c, before |-> b, pages |-> pages]
    BY <1>2, <2>1 DEF Save, IInv, TypeOK
  <2>3. Keeps(run) /\ run \in Run
    BY <1>2, WalkedKeeps
  <2> QED
    BY <2>1, <2>2, <2>3, CoveredKept
<1> QED
  BY <1>1, <1>2

LEMMA CoverStep == ASSUME IInv, [Next]_vars PROVE CoverInv'
<1> DEFINE A == \A r \in Run : lease[r] # None => Covered(r, lease[r].before, lease[r].pages)
           W == pc \in {"resolve", "fetch", "finish"} => Covered(run, before, pages)
           P == pc \in {"store", "commit"} => Covered(run, before, pages - 1)
           S == pc = "select" /\ outcome[run] = "complete" => \A m \in Message : Done(run, m)
<1>0. /\ WalkOK /\ WalkOK' /\ pages \in Int /\ before \in Message \cup {None}
      /\ pc \in {"resolve", "fetch", "finish"} => Covered(run, before, pages)
      /\ CheckpointState = {"page_committed", "flood_wait", "provider_unavailable",
                            "page_limit", "completed"}
  BY TypeParts, WalkStep DEF IInv, CoverInv, WalkOK, CheckpointState
<1>1. ASSUME NEW r \in Run, Resume(r) PROVE CoverInv'
  <2>1. lease' = lease /\ run' = r /\ pc' = "resolve"
    BY <1>1 DEF Resume, database
  <2>2. A'
    BY <2>1, LeasesCovered
  <2>3. CASE lease[r] = None
    <3>1. before' = None /\ pages' = 0
      BY <1>1, <2>3 DEF Resume
    <3> QED
      BY <2>1, <2>2, <3>1 DEF CoverInv, Covered
  <2>4. CASE lease[r] # None
    <3>1. Covered(r, lease[r].before, lease[r].pages) /\ Keeps(r)
      BY <2>4, StepKeeps DEF IInv, CoverInv, RunsInv
    <3>2. /\ lease[r].pages \in Int
          /\ IF lease[r].state = "completed"
             THEN before' = None /\ pages' = MaxPages /\ lease[r].before = None /\ lease[r].pages > 0
             ELSE before' = lease[r].before /\ pages' = lease[r].pages
      BY <1>1, <2>4 DEF Resume, IInv, RunsInv, TypeOK, Checkpoint
    <3>3. Covered(r, before', pages')
      BY <3>1, <3>2 DEF Covered
    <3>4. Covered(run, before, pages)'
      BY <2>1, <3>1, <3>3, CoveredKept DEF Covered
    <3> QED
      BY <2>1, <2>2, <3>4 DEF CoverInv
  <2> QED
    BY <2>3, <2>4
<1>2. CASE FloodWait
  <2>1. pc' = "idle" /\ pc \in {"resolve", "fetch"} /\ Save("flood_wait", before, pages)
    BY <1>2 DEF FloodWait, Idle
  <2>2. A'
    BY <1>0, <2>1, LeasesCovered
  <2> QED
    BY <2>1, <2>2 DEF CoverInv
<1>3. CASE FetchFails
  <2>1. /\ pc' = "select" /\ pc = "fetch" /\ Save("provider_unavailable", before, pages)
        /\ outcome' = [outcome EXCEPT ![run] = "partial"] /\ run' = run
    BY <1>3 DEF FetchFails, Return
  <2>2. A'
    BY <1>0, <2>1, LeasesCovered
  <2>3. outcome'[run'] # "complete"
    BY <2>1, RunWalked DEF IInv, TypeOK
  <2> QED
    BY <2>1, <2>2, <2>3 DEF CoverInv
<1>4. CASE Finish
  <2>1. /\ pc' = "select" /\ pc = "finish" /\ run' = run
        /\ Save(IF before = None THEN "completed" ELSE "page_limit", before, pages)
        /\ outcome' = [outcome EXCEPT ![run] = IF before = None THEN "complete" ELSE "partial"]
    BY <1>4 DEF Finish, Return
  <2>2. A'
    BY <1>0, <2>1, LeasesCovered
  <2>3. outcome'[run'] = "complete" => before = None /\ pages > 0
    BY <2>1, RunWalked DEF IInv, TypeOK, WalkInv
  <2>4. before = None /\ pages > 0 => \A m \in Message : Done(run, m)'
    BY <1>0, <2>1, WalkedKeeps, CoveredKept
  <2>5. S'
    BY <2>1, <2>3, <2>4 DEF Done
  <2> QED
    BY <2>1, <2>2, <2>5 DEF CoverInv
<1>5. CASE CommitPage
  <2>1. /\ pc = "commit" /\ Save("page_committed", before', pages) /\ pages' = pages /\ run' = run
        /\ pc' \in {"fetch", "finish"} /\ before' \in Message \cup {None}
    BY <1>0, <1>5 DEF CommitPage, WalkOK
  <2>2. Covered(run, before', pages)
    BY <1>5, CommitCovers
  <2>3. A'
    BY <1>0, <2>1, <2>2, LeasesCovered
  <2>4. Covered(run, before, pages)'
    BY <2>1, <2>2, WalkedKeeps, CoveredKept DEF Covered, Done
  <2> QED
    BY <2>1, <2>3, <2>4 DEF CoverInv
<1>6. CASE Fetch
  <2>1. /\ lease' = lease /\ run' = run /\ before' = before /\ pages' = pages + 1 /\ pc = "fetch"
        /\ pc' = "store"
    BY <1>6 DEF Fetch, database
  <2>2. A'
    BY <2>1, LeasesCovered
  <2>3. pages' - 1 = pages
    BY <1>0, <2>1
  <2>4. Covered(run, before, pages - 1)'
    BY <1>0, <2>1, <2>3, WalkedKeeps, CoveredKept DEF Covered, Done
  <2> QED
    BY <2>1, <2>2, <2>4 DEF CoverInv
<1>7. CASE ProviderUnavailable \/ StorageFails
  <2>1. lease' = lease /\ pc' = "select" /\ run' = run /\ outcome' = [outcome EXCEPT ![run] = "unavailable"]
    BY <1>7 DEF ProviderUnavailable, StorageFails, Return, database
  <2>2. A'
    BY <2>1, LeasesCovered
  <2>3. outcome'[run'] # "complete"
    <3>1. run \in Run
      BY <1>7, RunWalked DEF IInv, ProviderUnavailable, StorageFails
    <3> QED
      BY <2>1, <3>1 DEF IInv, TypeOK
  <2> QED
    BY <2>1, <2>2, <2>3 DEF CoverInv
<1>8. CASE Idle /\ lease' = lease
  <2>1. A'
    BY <1>8, LeasesCovered
  <2> QED
    BY <1>8, <2>1 DEF CoverInv, Idle
<1>9. CASE /\ UNCHANGED <<lease, run, before, pages, outcome>>
           /\ \/ pc' = pc
              \/ pc \in {"resolve", "fetch", "finish"} /\ pc' \in {"resolve", "fetch", "finish"}
              \/ pc \in {"store", "commit"} /\ pc' \in {"store", "commit"}
  <2>1. A'
    BY <1>9, LeasesCovered
  <2>2. pc # "idle" => Keeps(run) /\ run \in Run
    BY WalkedKeeps
  <2>3. W'
    BY <1>9, <2>2, CoveredKept DEF IInv, CoverInv, Covered, Done
  <2>4. P'
    BY <1>9, <2>2, CoveredKept DEF IInv, CoverInv, Covered, Done
  <2>5. S'
    BY <1>9, <2>2, DoneKept DEF IInv, CoverInv, Done
  <2> QED
    BY <2>1, <2>3, <2>4, <2>5 DEF CoverInv
<1> QED
  BY <1>1, <1>2, <1>3, <1>4, <1>5, <1>6, <1>7, <1>8, <1>9 DEF Next, Provider, Walk, vars, walk, database,
     Publish, Change, FloodWaitEnds, OtherChannelDefers, Resolve, StorePost, WithdrawAbsent,
     SelectSources, Restart

-----------------------------------------------------------------------------
(***************************************************************************)
(* The evidence of a run.                                                  *)
(***************************************************************************)

\* Evidence that stays is of a run that is not walked.
LEMMA EvidenceKept ==
    ASSUME IInv, [Next]_vars, ~SelectSources, NEW r \in Run, evidence'[r] # None
    PROVE  evidence'[r] = evidence[r] /\ outcome'[r] = outcome[r] /\ clock >= End[r] /\ ~Resume(r)
<1>1. evidence' = evidence
  BY DEF Next, Provider, Walk, vars, Publish, Change, FloodWait, ProviderUnavailable, FetchFails,
     FloodWaitEnds, OtherChannelDefers, Resume, Resolve, Fetch, StorePost, WithdrawAbsent,
     CommitPage, Finish, Restart, StorageFails
<1>2. r # run /\ outcome[r] # None /\ clock >= End[r]
  BY <1>1, NoneAssumption DEF IInv, RunsInv
<1>3. outcome'[r] = outcome[r]
  BY <1>2 DEF Next, Provider, Walk, vars, Publish, Change, FloodWait, ProviderUnavailable, FetchFails,
     FloodWaitEnds, OtherChannelDefers, Resume, Resolve, Fetch, StorePost, WithdrawAbsent,
     CommitPage, Finish, Restart, StorageFails, Return, IInv, TypeOK
<1> QED
  BY <1>1, <1>2, <1>3 DEF Resume

\* Nothing is gone that was there, unless it was touched.
LEMMA ThereStays ==
    ASSUME IInv, [Next]_vars, NEW r \in Run, ~Resume(r), NEW m \in Message,
           channel[m] # Gone \/ m \in touched[r]
    PROVE  channel'[m] # Gone \/ m \in touched'[r]
<1>0. channel \in [Message -> Content] /\ touched \in [Run -> SUBSET Message] /\ clock \in Int
  BY DEF IInv, TypeOK
<1>1. ASSUME NEW c \in Content, Publish(c) PROVE channel'[m] # Gone \/ m \in touched'[r]
  <2>1. m = clock => channel[m] = Gone
    BY <1>0 DEF IInv, TypeOK
  <2> QED
    BY <1>0, <1>1, <2>1 DEF Publish, history
<1>2. ASSUME NEW n \in Message, NEW c \in Content, Change(n, c) PROVE channel'[m] # Gone \/ m \in touched'[r]
  BY <1>0, <1>2 DEF Change
<1>3. ASSUME NEW q \in Run, Resume(q) PROVE channel'[m] # Gone \/ m \in touched'[r]
  BY <1>0, <1>3 DEF Resume, telegram
<1>4. CASE UNCHANGED <<channel, touched>>
  BY <1>4
<1> QED
  BY <1>1, <1>2, <1>3, <1>4 DEF Next, Provider, Walk, vars, telegram, history,
     FloodWait, ProviderUnavailable, FetchFails, FloodWaitEnds, OtherChannelDefers, Resolve,
     Fetch, StorePost, WithdrawAbsent, CommitPage, Finish, SelectSources, Restart, StorageFails

LEMMA AcquiredStep == ASSUME IInv, [Next]_vars PROVE Acquired'
<1> SUFFICES ASSUME NEW r \in Run, Selection(r)'
             PROVE  /\ \A m \in Message \ touched'[r] :
                         InWindow(m, r) /\ channel'[m] \in Body => m \in DOMAIN evidence'[r]
                    /\ \A m \in DOMAIN evidence'[r] : channel'[m] # Gone \/ m \in touched'[r]
  BY DEF Acquired, CompleteMeansRead, DeletedIsNotSelected, InWindow
<1>0. evidence'[r] # None /\ outcome'[r] = "complete"
  BY DEF Selection
<1>1. CASE SelectSources /\ r = run
  <2>1. /\ evidence'[r] = Selected(r) /\ UNCHANGED <<channel, touched>> /\ outcome[r] = "complete"
        /\ pc = "select"
    BY <1>0, <1>1 DEF SelectSources, telegram, history, IInv, TypeOK
  <2>2. \A m \in Message : Done(r, m)
    BY <1>1, <2>1 DEF IInv, CoverInv
  <2>3. DOMAIN Selected(r) = {n \in Message : InWindow(n, r) /\ Live(n) # {}}
    BY DEF Selected
  <2>4. ASSUME NEW m \in Message \ touched[r], InWindow(m, r), channel[m] \in Body
        PROVE  Live(m) # {}
    <3>1. rows[m][channel[m]] # None /\ channel[m] # Gone
      BY <2>2, <2>4, ContentAssumption DEF Done
    <3> QED
      BY <2>4, <3>1 DEF Live, IInv, Withdrawn, WithdrawnIsGone
  <2> QED
    BY <2>1, <2>2, <2>3, <2>4 DEF Done
<1>2. CASE ~SelectSources
  <2>1. evidence'[r] = evidence[r] /\ outcome'[r] = outcome[r] /\ clock >= End[r] /\ ~Resume(r)
    BY <1>0, <1>2, EvidenceKept
  <2>2. Selection(r)
    BY <1>0, <2>1 DEF Selection
  <2>3. \A m \in Message \ touched'[r] : InWindow(m, r) => m \notin touched[r] /\ channel'[m] = channel[m]
    BY <2>1, StepKeeps DEF Keeps
  <2>4. ASSUME NEW m \in DOMAIN evidence[r] PROVE channel'[m] # Gone \/ m \in touched'[r]
    <3>1. channel[m] # Gone \/ m \in touched[r]
      BY <2>2, <2>4 DEF IInv, Acquired, DeletedIsNotSelected
    <3>2. m \in Message
      BY <1>0, <2>1, <2>4 DEF IInv, RunsInv
    <3> QED
      BY <2>1, <3>1, <3>2, ThereStays
  <2> QED
    BY <2>1, <2>2, <2>3, <2>4 DEF IInv, Acquired, CompleteMeansRead
<1>3. CASE SelectSources /\ r # run
  <2>1. evidence'[r] = evidence[r] /\ UNCHANGED <<outcome, channel, touched>>
    BY <1>3 DEF SelectSources, telegram, history, IInv, TypeOK
  <2>2. Selection(r)
    BY <1>0, <2>1 DEF Selection
  <2> QED
    BY <2>1, <2>2 DEF IInv, Acquired, CompleteMeansRead, DeletedIsNotSelected
<1> QED
  BY <1>1, <1>2, <1>3

-----------------------------------------------------------------------------
(***************************************************************************)
(* The theorems.                                                           *)
(***************************************************************************)

LEMMA StepInv == IInv /\ [Next]_vars => IInv'
<1> SUFFICES ASSUME IInv, [Next]_vars PROVE IInv'
  OBVIOUS
<1>1. TypeOK' /\ WalkInv' /\ RunsInv' /\ CallsInv' /\ RowsInv'
  BY TypeStep, WalkStep, RunsStep, CallsStep, RowsStep DEF IInv
<1>2. Withdrawn'
  BY WithdrawnIsGoneStep, NoTextStep DEF IInv, Withdrawn
<1>3. PageInv'
  BY PageInvStep DEF IInv, Withdrawn
<1> QED
  BY <1>1, <1>2, <1>3, CoverStep, AcquiredStep DEF IInv

\* The inductive invariant of the walk holds in every reachable state.
THEOREM Invariance == Spec => []IInv
BY InitInv, StepInv, PTL DEF Spec

\* Every variable of the walk, of Telegram and of the database keeps its kind.
THEOREM TypeCorrect == Spec => []TypeOK
<1>1. IInv => TypeOK
  BY DEF IInv
<1> QED
  BY <1>1, Invariance, PTL

\* acquisition.rs execute: a walk reported complete selects every post with text
\* that was in the window, unchanged, from its beginning, across any number of
\* restarts, flood waits and deferrals.
THEOREM CompleteWalksRead == Spec => []CompleteMeansRead
<1>1. IInv => CompleteMeansRead
  BY DEF IInv, Acquired
<1> QED
  BY <1>1, Invariance, PTL

\* acquisition.rs withdraw_absent: only a post that has left the channel is withdrawn.
THEOREM OnlyGoneIsWithdrawn == Spec => []WithdrawnIsGone
<1>1. IInv => WithdrawnIsGone
  BY DEF IInv, Withdrawn
<1> QED
  BY <1>1, Invariance, PTL

\* acquisition.rs withdraw_absent: a complete walk selects no post deleted before it began.
THEOREM DeletedStaysOut == Spec => []DeletedIsNotSelected
<1>1. IInv => DeletedIsNotSelected
  BY DEF IInv, Acquired
<1> QED
  BY <1>1, Invariance, PTL

\* revisions.rs withdraw_missing: a withdrawn post is in the text of no manifest.
THEOREM WithdrawalTakesTexts == Spec => []WithdrawnLeavesNoText
<1>1. IInv => WithdrawnLeavesNoText
  BY DEF IInv, Withdrawn
<1> QED
  BY <1>1, Invariance, PTL

\* acquisition.rs resume, checkpoint: the pages received for a run are bounded by the
\* page limit and the number of restarts and storage errors.
THEOREM CallsBounded == Spec => []CallsAreFinite
<1>1. ASSUME IInv, NEW r \in Run PROVE fetched[r] <= MaxPages + restarts
  <2>1. /\ LeasePages(r) \in 0 .. MaxPages /\ fetched[r] \in Int /\ restarts \in Int /\ pages \in 0 .. MaxPages
        /\ fetched[r] <= LeasePages(r) + restarts + InHand(r)
    BY <1>1, LeasePagesType DEF IInv, TypeOK, CallsInv
  <2>2. InHand(r) = 0 \/ (InHand(r) = 1 /\ LeasePages(r) + 1 <= pages)
    BY <1>1 DEF InHand, IInv, CallsInv
  <2> QED
    BY <2>1, <2>2
<1>2. IInv => CallsAreFinite
  BY <1>1 DEF CallsAreFinite
<1> QED
  BY <1>2, Invariance, PTL

\* schema.sql append_revision, revisions.rs: a stored revision keeps its observation and
\* its place, and once withdrawn stays so.
THEOREM Immutable == Spec => RevisionsAreImmutable
<1> DEFINE A == \A m \in Message, b \in Body : rows[m][b] # None =>
                  /\ rows'[m][b] # None
                  /\ rows'[m][b].at = rows[m][b].at /\ rows'[m][b].nth = rows[m][b].nth
                  /\ ~rows[m][b].live => ~rows'[m][b].live
<1>1. IInv /\ [Next]_vars => [A]_vars
  <2> SUFFICES ASSUME IInv, Next PROVE A
    OBVIOUS
  <2>1. CASE StorePost
    BY <2>1, StoredRow DEF IInv
  <2>2. CASE WithdrawAbsent
    BY <2>2, WithdrawnRow DEF IInv
  <2>3. CASE UNCHANGED rows
    BY <2>3
  <2> QED
    BY <2>1, <2>2, <2>3 DEF Next, Provider, Walk, database, Publish, Change, FloodWait,
       ProviderUnavailable, FetchFails, FloodWaitEnds, OtherChannelDefers, Resume, Resolve,
       Fetch, CommitPage, Finish, SelectSources, Restart, StorageFails
<1> QED
  BY <1>1, Invariance, PTL DEF Spec, RevisionsAreImmutable
=============================================================================
