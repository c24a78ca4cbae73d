----------------------------- MODULE Acquisition -----------------------------
(***************************************************************************)
(* The walk of one public channel on behalf of the digest runs that cover  *)
(* it (acquisition.rs, revisions.rs, the provider's fetch_public_posts,    *)
(* the executor's select_sources).  The channel goes on living while it is *)
(* read: posts appear, are edited and are deleted between any two provider *)
(* calls.  The walk survives restarts through the checkpoint it keeps in   *)
(* the leases table, one per run.                                          *)
(*                                                                         *)
(* Message ids rise with time, so one number serves as the id of a post    *)
(* and as its publication instant, and a window is an interval of them.    *)
(* The executor walks for one run at a time; a run it had to leave is      *)
(* walked again later, perhaps after another run.                          *)
(***************************************************************************)
EXTENDS Integers, FiniteSets, FiniteSetsExt

CONSTANTS
    MaxMessage,   \* bound: messages are 1..MaxMessage
    Body,         \* the texts a post can have
    NoText,       \* post contents without a usable text (empty, oversized)
    Gone,         \* the content of a message that is not in the channel
    None,         \* no cursor, no row, no checkpoint
    Run,          \* the runs that acquire this channel
    Start, End,   \* the window of each run: Start[r] <= m < End[r]
    MaxPages,     \* executor.rs: pages one walk may take
    PageSize,     \* executor.rs: posts one page may hold
    MaxChanges,   \* bound: edits and deletions while runs are acquired
    MaxRestarts   \* bound: restarts and storage errors

Message == 1 .. MaxMessage
Content == Body \cup NoText \cup {Gone}

ASSUME WindowAssumption ==
    /\ MaxMessage \in Nat
    /\ Start \in [Run -> Nat] /\ End \in [Run -> Nat]
ASSUME PageAssumption == MaxPages \in Nat \ {0} /\ PageSize \in Nat \ {0}
ASSUME ContentAssumption ==
    /\ Body \cap NoText = {}
    /\ Gone \notin Body \cup NoText
    /\ None \notin Message
    /\ MaxChanges \in Nat /\ MaxRestarts \in Nat

CheckpointState == {"page_committed", "flood_wait", "provider_unavailable",
                    "page_limit", "completed"}
Checkpoint == [state : CheckpointState, before : Message \cup {None},
               pages : 0 .. MaxPages]
Row == [at : Nat, nth : Nat, live : BOOLEAN]
Outcome == {"complete", "partial", "unavailable"}

\* None stands for SQL's NULL and Rust's None: it is no value of any column.
ASSUME NoneAssumption == None \notin Run \cup Outcome /\ None \notin Checkpoint /\ None \notin Row

VARIABLES
    \* Telegram
    channel,    \* what each message of the channel holds now
    clock,      \* the messages below it have been published
    \* the database
    rows,       \* post_revisions: by message and body, a row or None
    lease,      \* leases: the checkpoint of each run's walk, or None
    text,       \* runs whose committed manifest still has its text
    waiting,    \* runs whose flood_wait lease has not expired
    \* the walk
    pc, run, before, pages,
    page,       \* the fetched page: contents by message
    rest,       \* messages of the page not stored yet
    reached,    \* a stored post was older than the window
    \* the run
    outcome,    \* what execute returned for the run
    evidence,   \* the sources selected for the run, body by message
    \* history, read by no operation
    touched,    \* messages edited or deleted since the run began
    sawOlder,   \* runs that got a page with a post older than the window
    fetched,    \* pages received for each run
    changes, restarts

telegram == <<channel, clock, changes>>
database == <<rows, text, lease, waiting>>
walk     == <<pc, run, before, pages, page, rest, reached>>
history  == <<touched, sawOlder, fetched>>
vars     == <<telegram, database, walk, outcome, evidence, history, restarts>>

EmptyPage == [m \in {} |-> Gone]

Init ==
    /\ clock \in 1 .. MaxMessage + 1
    /\ channel \in [Message -> Content]
    /\ \A m \in Message : m >= clock => channel[m] = Gone
    /\ rows = [m \in Message |-> [b \in Body |-> None]]
    /\ text = {} /\ lease = [r \in Run |-> None] /\ waiting = {}
    /\ pc = "idle" /\ run = None /\ before = None /\ pages = 0
    /\ page = EmptyPage /\ rest = {} /\ reached = FALSE
    /\ outcome = [r \in Run |-> None] /\ evidence = [r \in Run |-> None]
    /\ touched = [r \in Run |-> {}] /\ sawOlder = {}
    /\ fetched = [r \in Run |-> 0]
    /\ changes = 0 /\ restarts = 0

-----------------------------------------------------------------------------
(***************************************************************************)
(* The channel.                                                            *)
(***************************************************************************)

Publish(c) ==
    /\ clock \in Message
    /\ channel' = [channel EXCEPT ![clock] = c]
    /\ clock' = clock + 1
    /\ UNCHANGED <<changes, database, walk, outcome, evidence, history, restarts>>

\* A post is edited, or deleted for good (c = Gone).
Change(m, c) ==
    /\ changes < MaxChanges
    /\ channel[m] # Gone /\ channel[m] # c
    /\ channel' = [channel EXCEPT ![m] = c]
    /\ touched' = [r \in Run |-> touched[r] \cup {m}]
    /\ changes' = changes + 1
    /\ UNCHANGED <<clock, database, walk, outcome, evidence, sawOlder, fetched,
                   restarts>>

\* fetch_public_posts: the newest PageSize posts below the cursor; a full page
\* continues below its last post.
Posts(cursor) ==
    LET below == {m \in Message : channel[m] # Gone /\ (cursor # None => m < cursor)}
    IN  {m \in below : Cardinality({n \in below : n > m}) < PageSize}

NextBefore(p) == IF Cardinality(DOMAIN p) = PageSize THEN Min(DOMAIN p) ELSE None

-----------------------------------------------------------------------------
(***************************************************************************)
(* The walk.                                                               *)
(***************************************************************************)

Idle == /\ pc' = "idle" /\ run' = None /\ before' = None /\ pages' = 0
        /\ page' = EmptyPage /\ rest' = {} /\ reached' = FALSE

Save(state, cursor, count) ==
    lease' = [lease EXCEPT ![run] = [state |-> state, before |-> cursor,
                                     pages |-> count]]

\* The executor is done with the channel and goes on to select the sources.
Return(result) == outcome' = [outcome EXCEPT ![run] = result] /\ pc' = "select"

\* Mistaken variant of Resume: a completed walk is walked again.
ResumeForgetful(r) ==
    /\ pc = "idle"
    /\ outcome[r] = None /\ r \notin waiting /\ clock >= End[r]
    /\ pc' = "resolve" /\ run' = r
    /\ before' = IF lease[r] = None THEN None ELSE lease[r].before
    /\ pages' = IF lease[r] = None \/ lease[r].state = "completed" THEN 0
                ELSE lease[r].pages
    /\ touched' = IF lease[r] = None THEN [touched EXCEPT ![r] = {}] ELSE touched
    /\ UNCHANGED <<page, rest, reached, telegram, database, outcome, evidence,
                   sawOlder, fetched, restarts>>

\* The executor takes a run whose window has closed; resume reads where its
\* walk stands. A completed walk has no page left to fetch.
Resume(r) ==
    /\ pc = "idle"
    /\ outcome[r] = None /\ r \notin waiting /\ clock >= End[r]
    /\ pc' = "resolve" /\ run' = r
    /\ LET from == lease[r] IN
       /\ before' = IF from = None \/ from.state = "completed" THEN None ELSE from.before
       /\ pages' = CASE from = None -> 0
                     [] from # None /\ from.state = "completed" -> MaxPages
                     [] OTHER -> from.pages
    /\ touched' = IF lease[r] = None THEN [touched EXCEPT ![r] = {}] ELSE touched
    /\ UNCHANGED <<page, rest, reached, telegram, database, outcome, evidence,
                   sawOlder, fetched, restarts>>

\* Mistaken variant of Resolve: the page limit is not looked at on resuming.
ResolveUnbounded ==
    /\ pc = "resolve" /\ pc' = "fetch"
    /\ UNCHANGED <<run, before, pages, page, rest, reached, telegram, database,
                   outcome, evidence, history, restarts>>

Resolve ==
    /\ pc = "resolve"
    /\ pc' = IF pages < MaxPages THEN "fetch" ELSE "finish"
    /\ UNCHANGED <<run, before, pages, page, rest, reached, telegram, database,
                   outcome, evidence, history, restarts>>

\* Either provider call may answer with a flood wait, which defers the run.
FloodWait ==
    /\ pc \in {"resolve", "fetch"}
    /\ Save("flood_wait", before, pages)
    /\ waiting' = waiting \cup {run}
    /\ Idle
    /\ UNCHANGED <<rows, text, telegram, outcome, evidence, history, restarts>>

FloodWaitEnds(r) ==
    /\ r \in waiting
    /\ waiting' = waiting \ {r}
    /\ UNCHANGED <<rows, text, lease, walk, telegram, outcome, evidence, history,
                   restarts>>

\* A failure or a timeout before the first page; nothing is checkpointed.
ProviderUnavailable ==
    /\ pc = "resolve" \/ (pc = "fetch" /\ pages = 0)
    /\ Return("unavailable")
    /\ UNCHANGED <<run, before, pages, page, rest, reached, telegram, database,
                   evidence, history, restarts>>

\* A failure or a timeout after a page keeps what was read.
FetchFails ==
    /\ pc = "fetch" /\ pages > 0
    /\ Save("provider_unavailable", before, pages)
    /\ Return("partial")
    /\ UNCHANGED <<run, before, pages, page, rest, reached, telegram, rows, text,
                   waiting, evidence, history, restarts>>

\* Mistaken variant of Fetch: the page is checkpointed before it is stored.
FetchAndMark ==
    /\ pc = "fetch"
    /\ page' = [m \in Posts(before) |-> channel[m]]
    /\ rest' = Posts(before)
    /\ Save("page_committed", NextBefore(page'), pages + 1)
    /\ reached' = FALSE
    /\ pages' = pages + 1
    /\ pc' = "store"
    /\ fetched' = [fetched EXCEPT ![run] = @ + 1]
    /\ UNCHANGED <<run, before, telegram, rows, text, waiting, outcome, evidence,
                   touched, sawOlder, restarts>>

Fetch ==
    /\ pc = "fetch"
    /\ page' = [m \in Posts(before) |-> channel[m]]
    /\ rest' = Posts(before)
    /\ reached' = FALSE
    /\ pages' = pages + 1
    /\ pc' = "store"
    /\ sawOlder' = IF \E m \in Posts(before) : m < Start[run]
                   THEN sawOlder \cup {run} ELSE sawOlder
    /\ fetched' = [fetched EXCEPT ![run] = @ + 1]
    /\ UNCHANGED <<run, before, telegram, database, outcome, evidence, touched,
                   restarts>>

InWindow(m, r) == Start[r] <= m /\ m < End[r]

\* revision_id is a UUIDv7: rows are ordered by their insertion.
RowCount == Cardinality({p \in Message \X Body : rows[p[1]][p[2]] # None})

\* Mistaken variant of Append: a repeated observation renews the row.
AppendOrRenew(m, b) ==
    rows' = [rows EXCEPT ![m][b] =
               [at |-> End[run],
                nth |-> IF rows[m][b] = None THEN RowCount + 1 ELSE rows[m][b].nth,
                live |-> TRUE]]

\* append_revision: one row per message and body, observed at the window end.
Append(m, b) ==
    IF rows[m][b] = None
    THEN rows' = [rows EXCEPT ![m][b] =
                    [at |-> End[run], nth |-> RowCount + 1, live |-> TRUE]]
    ELSE UNCHANGED rows

\* store_page, one post at a time, newest first: a post without text is passed
\* over before its date is looked at.
StorePost ==
    /\ pc = "store" /\ rest # {}
    /\ LET m == Max(rest) IN
       /\ rest' = rest \ {m}
       /\ reached' = (reached \/ (page[m] \in Body /\ m < Start[run]))
       /\ IF page[m] \in Body /\ InWindow(m, run) THEN Append(m, page[m])
                                                  ELSE UNCHANGED rows
    /\ UNCHANGED <<pc, run, before, pages, page, telegram, text, lease, waiting,
                   outcome, evidence, history, restarts>>

\* Mistaken variants of Proved: every page answers down to the start of the
\* channel; a page answers only from its own lowest post.
ProvedToStart(m) == before # None => m < before
ProvedByPosts(m) == /\ \E n \in DOMAIN page : n <= m
                    /\ before # None => m < before

\* proved_range: the page answers for the ids from its lowest, or from the
\* start of the channel if it is the last, up to the cursor.
Proved(m) == /\ NextBefore(page) # None => m >= NextBefore(page)
             /\ before # None => m < before

\* Every stored revision of a message the page answers for and does not hold.
WithdrawRows ==
    rows' = [m \in Message |-> [b \in Body |->
               IF Proved(m) /\ m \notin DOMAIN page /\ rows[m][b] # None
               THEN [rows[m][b] EXCEPT !.live = FALSE] ELSE rows[m][b]]]

\* Mistaken variant of WithdrawMissing: the manifests are forgotten.
WithdrawRowsOnly == WithdrawRows /\ UNCHANGED text

\* withdraw_missing, one statement: the revisions, and the text of every
\* manifest that holds such a message.
WithdrawMissing ==
    /\ WithdrawRows
    /\ text' = {r \in text : \A m \in DOMAIN evidence[r] :
                                ~Proved(m) \/ m \in DOMAIN page}

WithdrawAbsent ==
    /\ pc = "store" /\ rest = {}
    /\ WithdrawMissing
    /\ pc' = "commit"
    /\ UNCHANGED <<run, before, pages, page, rest, reached, telegram, lease, waiting,
                   outcome, evidence, history, restarts>>

\* The page is checkpointed; a page that reached the window start is the last.
CommitPage ==
    /\ pc = "commit"
    /\ before' = IF reached THEN None ELSE NextBefore(page)
    /\ Save("page_committed", before', pages)
    /\ pc' = IF before' = None \/ pages = MaxPages THEN "finish" ELSE "fetch"
    /\ page' = EmptyPage /\ reached' = FALSE
    /\ UNCHANGED <<run, pages, rest, telegram, rows, text, waiting, outcome, evidence,
                   history, restarts>>

Finish ==
    /\ pc = "finish"
    /\ Save(IF before = None THEN "completed" ELSE "page_limit", before, pages)
    /\ Return(IF before = None THEN "complete" ELSE "partial")
    /\ UNCHANGED <<run, before, pages, page, rest, reached, telegram, rows, text,
                   waiting, evidence, history, restarts>>

\* select_sources: of every message of the window the last live revision, by
\* observation and then by insertion.
Later(x, y) == x.at > y.at \/ (x.at = y.at /\ x.nth >= y.nth)
Live(m) == {b \in Body : rows[m][b] # None /\ rows[m][b].live}
Latest(m) == CHOOSE b \in Live(m) : \A c \in Live(m) : Later(rows[m][b], rows[m][c])
Selected(r) == [m \in {n \in Message : InWindow(n, r) /\ Live(n) # {}} |-> Latest(m)]

\* The selection is committed as the manifest of the run unless it is empty.
SelectSources ==
    /\ pc = "select"
    /\ evidence' = [evidence EXCEPT ![run] = Selected(run)]
    /\ text' = IF DOMAIN Selected(run) = {} THEN text ELSE text \cup {run}
    /\ Idle
    /\ UNCHANGED <<telegram, rows, lease, waiting, outcome, history, restarts>>

\* The process stops anywhere in the walk; the executor walks again.
Restart ==
    /\ pc # "idle" /\ restarts < MaxRestarts
    /\ restarts' = restarts + 1
    /\ outcome' = [outcome EXCEPT ![run] = None]
    /\ Idle
    /\ UNCHANGED <<telegram, database, evidence, history>>

\* Another channel of the run answers with a flood wait: the whole run is
\* deferred and this channel, whatever came of it, is executed again.
OtherChannelDefers ==
    /\ pc = "select"
    /\ outcome' = [outcome EXCEPT ![run] = None]
    /\ Idle
    /\ UNCHANGED <<telegram, database, evidence, history, restarts>>

\* A refused statement gives the channel up for this tick.
StorageFails ==
    /\ pc \notin {"idle", "select"} /\ restarts < MaxRestarts
    /\ restarts' = restarts + 1
    /\ Return("unavailable")
    /\ UNCHANGED <<run, before, pages, page, rest, reached, telegram, database,
                   evidence, history>>

-----------------------------------------------------------------------------
Provider ==
    \/ \E c \in Content : Publish(c)
    \/ \E m \in Message, c \in Content : Change(m, c)
    \/ FloodWait \/ ProviderUnavailable \/ FetchFails
    \/ \E r \in Run : FloodWaitEnds(r)
    \/ OtherChannelDefers
Walk ==
    \/ \E r \in Run : Resume(r)
    \/ Resolve \/ Fetch \/ StorePost \/ WithdrawAbsent \/ CommitPage \/ Finish
    \/ SelectSources

Next == Provider \/ Walk \/ Restart \/ StorageFails

Spec == Init /\ [][Next]_vars

-----------------------------------------------------------------------------
(***************************************************************************)
(* Properties.                                                             *)
(***************************************************************************)
\* Every variable holds a value of its kind; the walk holds a run exactly while
\* it works on one, its cursor is a message and its pages stay below the limit.
TypeOK ==
    /\ channel \in [Message -> Content]
    /\ clock \in 1 .. MaxMessage + 1
    /\ \A m \in Message : m >= clock => channel[m] = Gone
    /\ rows \in [Message -> [Body -> Row \cup {None}]]
    /\ lease \in [Run -> Checkpoint \cup {None}]
    /\ waiting \subseteq Run /\ text \subseteq Run
    /\ pc \in {"idle", "resolve", "fetch", "store", "commit", "finish", "select"}
    /\ run \in Run \cup {None} /\ (pc = "idle" <=> run = None)
    /\ before \in Message \cup {None} /\ pages \in 0 .. MaxPages
    /\ DOMAIN page \subseteq Message
    /\ \A m \in DOMAIN page : page[m] \in Body \cup NoText
    /\ rest \subseteq DOMAIN page
    /\ reached \in BOOLEAN
    /\ outcome \in [Run -> Outcome \cup {None}]
    /\ DOMAIN evidence = Run
    /\ touched \in [Run -> SUBSET Message] /\ sawOlder \subseteq Run
    /\ fetched \in [Run -> Nat] /\ changes \in Nat /\ restarts \in Nat

Selection(r) == evidence[r] # None /\ outcome[r] = "complete"

\* acquisition.rs execute: a walk reported complete has read the whole window.
\* Every post with text that was in the channel, unchanged, from the beginning
\* of the walk is among the sources, across restarts, flood waits and deferrals
\* between any two of its steps.
CompleteMeansRead ==
    \A r \in Run : Selection(r) =>
        \A m \in Message \ touched[r] :
            InWindow(m, r) /\ channel[m] \in Body => m \in DOMAIN evidence[r]

\* acquisition.rs withdraw_absent: only a post that has left the channel is
\* withdrawn, although absence is inferred from pages that were read at
\* different times.
WithdrawnIsGone ==
    \A m \in Message, b \in Body :
        rows[m][b] # None /\ ~rows[m][b].live => channel[m] = Gone

\* acquisition.rs withdraw_absent, README.md: a post deleted upstream is
\* withdrawn from later digests. A complete walk that began after the deletion
\* selects no revision of it, whoever stored it.
DeletedIsNotSelected ==
    \A r \in Run : Selection(r) =>
        \A m \in DOMAIN evidence[r] : channel[m] # Gone \/ m \in touched[r]

\* revisions.rs withdraw_missing: a withdrawn post is in the text of no manifest,
\* whichever run committed it and whichever run found the post gone.
WithdrawnLeavesNoText ==
    \A r \in text : \A m \in DOMAIN evidence[r] : \A b \in Body :
        rows[m][b] # None => rows[m][b].live

\* acquisition.rs resume and checkpoint: provider calls stay finite. A restart
\* or a storage error repeats at most the page it interrupted; flood waits and
\* deferrals repeat none.
CallsAreFinite == \A r \in Run : fetched[r] <= MaxPages + restarts

\* schema.sql append_revision, revisions.rs: revisions are immutable. A stored
\* row keeps its observation and its place, and once withdrawn stays so.
RevisionsAreImmutable ==
    [][\A m \in Message, b \in Body : rows[m][b] # None =>
          /\ rows'[m][b] # None
          /\ rows'[m][b].at = rows[m][b].at /\ rows'[m][b].nth = rows[m][b].nth
          /\ ~rows[m][b].live => ~rows'[m][b].live]_vars

(***************************************************************************)
(* What the documents say and the code does not do.                        *)
(***************************************************************************)

\* spec.md: the walk ends after the page that holds a post published before
\* the window start, and is partial by the page limit only if no page did.
WalkEndsAtWindowStart ==
    \A r \in Run : lease[r] # None /\ lease[r].state = "page_limit" => r \notin sawOlder

\* spec.md: later run evidence selects the observed revision. A complete walk
\* that found a post with the same text all along selects that text.
SelectsObserved ==
    \A r \in Run : Selection(r) =>
        \A m \in DOMAIN evidence[r] \ touched[r] :
            channel[m] \in Body => evidence[r][m] = channel[m]
=============================================================================
