# Verification of ratatoskr-channel-digests

This directory holds TLA+ specifications of the channel digest service, TLC
configurations that check them on small instances, and TLAPS proofs. Every
definition that models code is listed with its source lines in `PROJECT.json`
("map"). Paths below are relative to the repository; `schema.sql` is at its root.

## 1. The system

The service turns the posts of public Telegram channels into digests. One worker
process runs five tasks that share a PostgreSQL schema, two readiness flags and a drain
signal:

* the **bus task** (`bus.rs`) pulls commands of Platform and facts of Knowledge
  from durable JetStream consumers, one message at a time, and publishes the
  transactional outbox;
* the **executor task** (`runtime.rs` `supervise_provider`, `executor.rs`) takes
  one pending run per tick, walks the owner's channels through the MTProto
  provider (`acquisition.rs`), selects the sources and commits a manifest;
* the **reaper task** (`reaper.rs`) fails runs that are past their deadline;
* the **retention task** (`retention.rs`) drops expired bodies and manifest texts;
* the **operator server** (`runtime.rs` `serve`) answers `/live`, `/ready` and `/metrics`.

A separate API role only reads.

### Components

| Component | State it keeps | Operations | Interacts with |
| --- | --- | --- | --- |
| run life cycle (`executor.rs`, `coordinator.rs`, `reports.rs`) | `digest_runs`, `digest_manifests`, `digest_results`, report rows | begin, acquire, record, commit, complete empty, fail | reaper and bus task through the run row; Knowledge through the outbox |
| Knowledge exchange (`coordinator.rs`, `bus.rs`) | inbox rows for facts, `digest_results` | settle completion, settle failure | redelivered, late and contradicting facts |
| deadline reaper (`reaper.rs`) | none of its own | fail overdue runs in a batch | races executor and facts |
| acquisition (`acquisition.rs`) | checkpoint rows in `leases` | resume, resolve, fetch, store, withdraw, checkpoint | provider, revisions, restarts |
| revisions (`revisions.rs`) | `post_revisions`, manifest text | append, withdraw missing | acquisition of several runs |
| command intake (`intake.rs`, `coordinator.rs` `accept_occurrence`) | `subscriptions`, inbox, new runs | set subscription, accept run, accept occurrence, reject | bus task; executor reads the subscriptions |
| bus (`bus.rs`) | outbox publication state | deliver, publish, back off | JetStream |
| schedule registration (`registration.rs`) | one outbox row per configuration | enqueue, requeue | outbox, Platform's schedule |
| source selection, manifest builder (`executor.rs`, `manifest.rs`) | none | cap, order, canonical text | run life cycle |
| retention (`retention.rs`, `maintenance.rs`) | minimized bodies and texts | sweep | API reads, Knowledge |
| API reads (`api.rs`, `result_reader.rs`) | none | read | all tables |
| runtime (`runtime.rs`) | bus and provider flag, readiness, drain signal | set, refresh, drain, join | all tasks |
| provider adapter (`provider.rs`), session, config, envelopes, telemetry, database | none of the protocol | | |

What makes them correct:

* run life cycle: an on-demand operation hears queued, running and exactly one
  terminal status, which always comes; nothing settled is revised; a digest that
  misses posts never reads as whole;
* Knowledge exchange: a fact settles a run once, against its own manifest; the
  verdict on a redelivered fact agrees with what is stored;
* acquisition: complete means the whole window was read; provider calls stay
  finite across restarts; only posts that left the channel are withdrawn;
* revisions: stored observations never change; a withdrawn post is in no
  selection and in no manifest text;
* intake: a decided command has no second effect; an acknowledged one has been
  answered; limits and windows hold;
* outbox and registration: a row marked published is on the stream; the reports of an
  operation keep their order; a row that is refused for ever holds up nothing else;
  Platform ends up with the configured schedule;
* retention and selection: a run that waits for its recap keeps its text; what is dropped
  stays dropped, and all that expired is dropped; a run that does not say so has missed
  nothing, and no sweep decides which text of a message is selected;
* runtime: `/ready` says what the dependencies are; a drain ends.

What is hard to test is listed under "hazards" in `PROJECT.json`, each at its line:
the race of reaper, executor and facts; reads made outside the transaction that uses
them; lost acknowledgements; restarts between storing, withdrawing and checkpointing
a page; runs executed in another order than their windows end; commands that come
again after younger ones; a refused outbox row overtaken by younger ones; a sweep between
the statements of a run; two threads computing one readiness.

## 2. Modules

| Module | Models |
| --- | --- |
| `DigestRuns` | life of a run: executor, bus task settling facts, reaper, outbox, restarts |
| `OperationContract` | abstract: what Platform is promised about an operation |
| `DigestRuns_proofs` | the invariants of `DigestRuns`, proved |
| `DigestRuns_refinement` | action property and refinement of `OperationContract`, proved |
| `Acquisition` | walk of a living channel for one or more runs |
| `Acquisition_proofs` | what a walk reads, withdraws, selects and costs, proved |
| `CommandIntake` | commands, inbox, subscriptions, occurrences, refusals; the executor's reads of the subscriptions |
| `CommandIntake_proofs` | limit, answers, scheduled windows, decisions for good, proved |
| `Outbox` | the outbox between database, bus task and broker; schedule registration |
| `Outbox_proofs` | delivery of marked rows, order of reports, identities, convergence of the schedule, proved |
| `Retention` | the sweep beside walk, selection, commit, withdrawal, settlement; the manifest endpoint |
| `Retention_proofs` | open runs keep their text, dropped text stays dropped, what a run selects, proved |
| `Readiness` | the worker process: flags, readiness, sessions, drain, joining |
| `Readiness_proofs` | type and readiness after the drain, proved |
| `NumberSets` | lemmas about sets of numbers that several proofs use |
| `MCDigestRuns`, `MCAcquisition`, `MCCommandIntake`, `MCOutbox`, `MCRetention`, `MCReadiness` | instances for TLC |

Definitions introduced as a "mistaken variant" or as "a mutant" are plausible wrong
versions of the definition that follows. No specification uses them; they are what the
properties are tested against (`PROJECT.json` "mutants").

### DigestRuns

A transaction of the code is one action, because every one is guarded by the state of
the row it updates (`where ... state in (...)`, `rows_affected() != 1`). Each read
outside a transaction is an action too, and what it returned is kept in a variable
(`exPc`/`exRun`/`exIncomplete`/`exSelection` for `execute_one`; `busPc`/`fact`/
`flag`/`verdict` for `process_delivery` and `settle_*`). Tables become functions on
runs; the outbox is `requested`, `reports` and what was sent of them (`requestSent`,
`reportSent`).

Abstractions: manifest content, its hash and the counts a fact must match are one
`Digest`; `omitted` stands for the coverage counts; walking the channels is one step
with the outcomes deferred, unavailable, complete and incomplete (the walk itself is
`Acquisition`); the deadline is a set of overdue runs which any open run may join;
Knowledge may send any fact about a requested run, several of them, at any time. A
`run.requested` command with the trigger "scheduled" creates a run as `FanOut` does: no
report. `manifest[r].whole` is a history value no action reads. Event identities are
assumed fresh per fact, and one worker runs at a time, as deployed.

### Acquisition

One channel, message ids that rise with time and serve as publication instants, and
runs with windows. `channel` changes at any moment (`Publish`, `Change`); a page is
read in one step (`Fetch`) and stored post by post, withdrawn and checkpointed in
steps of their own, as the code awaits between them. `Resume` reads the checkpoint
as `resume` does, including the completed walk that has no page left. The order in which runs are
taken is free: they are executed by creation, which need not follow the end of the
window. `OtherChannelDefers` is the deferral of the run by another of its channels.
Not modelled: the provider's deletion marker, which the real adapter never sets; the
cap on sources (in `Retention`); the counters of seen posts and revisions, which only
report.

### CommandIntake

The inbox decides by envelope identity or by subject and key. A refusal is two
transactions (`RefuseLimit`/`RefuseRun`/`RefuseInvalid`, then `Reject`), with an
`Interrupt` possible between them. Platform is assumed to give an operation one key
and a key one operation, to publish under a key only the same request again, perhaps in
another envelope, and to send occurrences of a schedule whose intervals do not
overlap (`PlatformAssumption`). `SubscribedChannels` and `SelectSources` are the two
reads the executor makes of the subscriptions. What Platform sends is one of the sets of
commands in `Traffic`, in any order.

### Outbox

`row` is the table by semantic key: the reports of the operations, a running and a final
one each, the registrations, one per configuration, and rows on subjects the broker denies
(`Denied`). A row's id is its `outbox_id` and `created_at` at once, which rise together,
and the id of its message. `publish_outbox` is split where it awaits: the read of the batch
(`BeginPass`), the broker's answer (`Accept`, `Refuse`), the mark (`Mark`), the end
(`EndPass`); a lost acknowledgement is a `Refuse` of a message that was stored. A session ends
with an error (`Break`), with a refused row, or with the process (`Stop`), and a process
starts with any configuration (`Start`, which is `enqueue_schedule_registration`). A
delivery is reduced to the report its handler queues. The broker drops a message
whose id it stored within its duplicate window (`recent`, `Forget`); Platform's schedule
is the last registration on the stream. Back-off is a state of the row; its length appears
only in the fairness. `everRefused` is history.

### Retention

One channel, days as time, message *m* published on day *m*, edited at most once and perhaps
deleted. The walk of a run is one step that reads its window whole (its steps are
`Acquisition`'s; a walk that left something unread only sets `partly`); selection,
commit and both statements of the sweep are steps of their own, so a sweep falls between
any two statements of a run. `accepted` stands for `accepted` and `acquiring`, `completed`
for `completed` and `partial`. A revision is stamped with the window end of the run that stored
it (`observed`), and the latest text is the one with the greatest stamp, then the one inserted
last. A manifest is the revisions it holds and whether its text
is there. `Answer` is `get_manifest`.

### Readiness

`set_bus` and `set_provider` are split at each atomic operation, because the worker is
built with `#[tokio::main]` and its tasks run on several threads: store the own flag, load
the bus flag, load the provider flag only if the first was set, store the result.
`supervise_bus` and `supervise_provider` share their actions where they agree; they differ in
what ends a session and in the look at the drain before the sleep. The other tasks work,
and return on the drain. `changed()` returns once per task (`seen`). The API role, which has
no flags, is not modelled.

## 3. What is checked

Deadlock is checked for `outbox` and `retention`, whose timers never stop. The other
instances disable it: their runs, messages and commands are used up in the end and the
service rightly waits, and the process of `Readiness` ends.

| Run | Instance | Properties |
| --- | --- | --- |
| `digest_runs` | one on-demand and one scheduled run, two digests, one result identity, one fact in flight, batch 1; 1 million states | `TypeOK`, `ReportsMatchState`, `EvidenceChain`, `HonestCompletion`, `VerdictMatchesRecord`, `NothingIsRevised`, `ContractSteps` |
| `digest_runs_live` | one run, two digests, two result identities, two facts in flight; 90,000 states | `IInv`, `EventuallySettled`, `EventuallyReported`, `ImplementsContract` |
| `acquisition` | two runs with overlapping windows, 3 messages with and without text, pages of 1, at most 2 pages, one change, one restart or storage error; 5.9 million states | `TypeOK`, `CompleteMeansRead`, `CallsAreFinite`, `WithdrawnIsGone`, `DeletedIsNotSelected`, `WithdrawnLeavesNoText`, `RevisionsAreImmutable` |
| `intake` | one owner, three channels, limit 2, cap 2, four instants, six sets of four to six commands, one fault; 570,000 states | `TypeOK`, `LimitHolds`, `AckedIsAnswered`, `ScheduledWindows`, `DecidedOnce`, `EventuallyDecided` |
| `outbox` | one operation, two configurations, one of them registered before, one denied row, batch 2, one restart, one fault; 200,000 states | `TypeOK`, `PublishedIsDelivered`, `ReportsInOrder`, `ScheduleConverges`, `EverythingGoesOut` |
| `retention` | two runs with overlapping windows, 3 messages, one changed, cap 1, sweep batch 1, 6 days, retention 3, one fault; 560,000 states | `TypeOK`, `OpenRunKeepsText`, `NothingMissedInTime`, `SweepHidesNoNewerText`, `GoneStaysGone`, `TextExpires` |
| `readiness` | all five tasks; 44,000 states | `TypeOK`, `JoinedIsNotReady`, `DownIsSeen`, `DrainEnds` |

Why the bounds are enough: a race in `DigestRuns` involves the three tasks and one
row, and a second run is needed only for the clash of result identities and for the
executor's queue; two digests, and two identities in `digest_runs_live`, give facts
that agree and disagree with the evidence; one identity shared by two runs is the
clash. A backlog larger than a reaper's batch needs two overdue runs, for which the
instance of `digest_runs_live` is too small: `EventuallySettled` also holds with two runs,
one digest, one result identity, no fact in flight and batch 1 (53,000 states). In `Acquisition` two pages of one post give a full and a short page, a first and a
last one, the windows leave messages before, inside and after them, and a second run sees
what the first one stored and withdrew. In `CommandIntake` the limit is reached, left and
reached again, every refusal, replay and clash occurs in one of the six sets, and of two
occurrences one is longer than the cap and one shorter. In
`Outbox` a batch of two out of up to five rows leaves rows behind, and one restart
changes the configuration or returns to the earlier one. In `Retention` a cap and a
batch of one cut off wherever two messages or two revisions meet, and the days go on
until every window has expired; the run with the earlier window end may walk last. `Readiness` has no bound.

Five runs are expected to violate their property. Each is a statement of the
repository's documents that the code does not keep ("findings" in `PROJECT.json`):

* `acquisition_textless`: older posts without text do not end the walk;
* `acquisition_stale`: an edited text observed by a run whose window ends earlier is
  not the one that is selected. `SweepHidesNoNewerText` shows that this order is the only
  reason: the sweep adds no other;
* `intake_overlap`: a channel subscribed during a run contributes posts the run never
  acquired, and the run does not count as incomplete;
* `outbox_overtaken`: a registration still unpublished at a restart with another
  configuration, and refused before or after it, goes out after the newer one. Platform keeps the older schedule, and
  further starts change nothing, because the newer row is the latest. `ScheduleConverges`
  shows that this is the only way: as long as no registration is refused the schedule
  converges;
* `readiness_lost`: bus and provider come up together and the older of the two
  computations of readiness is stored last. The worker answers 503 with both
  dependencies up, until the bus session ends or the process does. The other
  direction is safe (`DownIsSeen`).

Four more observations are stated here and not as runs:

* a run command whose run identity belongs to another natural key fails in
  `create_digest_run` on the primary key; `accept_run` reports a storage error, so the command
  is redelivered every two seconds for ever, without an inbox row or a report, although
  `openspec/specs/channel-digest-service/spec.md:321` wants a failed row and one `failed`
  report. `EventuallyDecided` shows it to be the only command with that fate, and to keep no other
  command waiting;
* a run that selects later than the retention after the start of its window misses the
  posts that were swept meanwhile, and nothing records it (`executor.rs:313-345`). This is
  why `NothingMissedInTime` is about selections made in time; the deadline of a run,
  hours against days, makes a late one unlikely;
* the checkpoint of the page that reached the window start and the completed one are two
  statements (`acquisition.rs:148`). After a restart between them the walk starts over with
  fewer pages left and can end partial, against `spec.md:70-71` ("An acquisition SHALL be
  partial only when the page limit is reached while every page so far still reached into the
  window"). TLC shows it as a violation of `WalkEndsAtWindowStart` in the instance of
  `acquisition_textless` with `NoText = {}`, `MaxPages = 3` and `MaxRestarts = 1`: two pages, the
  restart, one more page;
* after the signal a task that is just coming up, or that computed readiness before it, sets
  the worker ready again (`runtime.rs:234`), against `docs/OPERATIONS.md:191-192` ("`SIGTERM`
  immediately removes readiness"). TLC shows it as a violation of the invariant
  `main \in {"send", "join"} => ~ready`, in ten steps without other tasks. `JoinedIsNotReady`
  shows that it does not outlast the two tasks.

### Fairness

`DigestRuns`: weak fairness of the clock passing a deadline, of the reaper (its own
task, a tick every 30 seconds, independent of provider and bus) and of the bus task;
strong fairness of publishing a terminal report, because every due row is attempted
again with a back-off of at most 256 seconds. Nothing is assumed of the executor, of
Knowledge or of restarts: liveness comes from the deadline alone.

`CommandIntake`: weak fairness of the bus task as a whole; strong fairness of taking some
command that is not under a taken run identity, because such a one comes back only two seconds
after its negative acknowledgement (`bus.rs:515`) and the consumer gives what else waits in
between. Which of the others it takes is left open: every one it takes is done with. Faults are bounded (`MaxFaults`): storage works
in the end.

`Outbox`: weak fairness of the bus task (the process is started again, `supervise_bus`
reconnects after a second); strong fairness of the end of a back-off of a row that is not
denied, of a connection and of each delivery made while the denied rows are backed off:
the back-off of such a row grows to 256 seconds, a session is tried every second and an
unacknowledged delivery comes back within thirty. Nothing is assumed of restarts and
faults but their bound.

`Retention`: weak fairness of both statements of the sweep, which has its own task and timer.
Nothing is assumed of executor, settlements or days.

`Readiness`: weak fairness of each task inside its calls, connection attempts, work and
sleeps, all of which have timeouts; strong fairness of taking the drain, because
every `select!` is `biased` with the drain first. That a connection ever succeeds is not assumed.

## 4. What is proved

For every value of the constants, from the assumptions named in the modules. Every safety
invariant and every action property that a passing run checks is also a theorem. The run life
cycle (any finite set of runs, any digests, identities and bounds):

* `TypeCorrect`, `Invariance`, `OneTerminalReport`, `EvidenceIsLinked`,
  `CompletionIsHonest`, `VerdictIsRight` (`DigestRuns_proofs`);
* `SettledIsFinal` and `KeepsContract` (`DigestRuns_refinement`).

None of the properties is inductive by itself. `IInv` adds what the tasks rely on
between their reads and their transactions: `ExecutorHolds` (only the reaper can take
a run from the executor, and at the commit the stored flag is its own), `BusHolds`
(what the bus task has read still holds when its transaction begins: the flag is
written only before the manifest exists, and results are written only by the bus task
itself), `AnswersRequests` (facts concern requested runs), `ReportHistory` and
`Provenance` (the flag of a committed run says what its manifest was built from, and
the inbox remembers only applied facts). The proof that a step preserves it has one
lemma per action. `KeepsContract` maps the queued reports of a run to the status of its
operation (`OperationStatus`) and shows every step to be a step of
`OperationContract` or a stutter.

`Acquisition_proofs` (any messages, texts, windows, pages, and numbers of edits and restarts):
`TypeCorrect`, `CompleteWalksRead`, `CallsBounded`, `OnlyGoneIsWithdrawn`, `DeletedStaysOut`,
`WithdrawalTakesTexts`, `Immutable`. The channel changes between any two steps, so the
invariant says what is still known of it. `PageInv`: a message of the page in hand is still
as the page says or was touched since every run began, and one that the page proves absent
is gone and has, when the page is committed, no live row. `CoverInv`: everything not below
the cursor of a checkpoint, or of the walk, is `Done`, that is, untouched posts are stored
and gone ones withdrawn. With the completed walk the cursor is gone and all of the window is
done, which is `CompleteMeansRead` and `DeletedIsNotSelected`. `CallsInv` accounts for pages:
each one fetched is in the checkpoint, in hand, or lost to a restart. `RowsInv`: the rows of a
message are withdrawn together. That a page of the newest posts covers an interval is a fact about
cardinalities and greatest elements.

`CommandIntake_proofs` (any owners, channels, limit, traffic and faults): `TypeCorrect`,
`LimitNeverExceeded`, `AcknowledgedIsAnswered`, `WindowsAreDisjoint`, `DecidedForGood`. The
invariant is about the set of commands that Platform chose to send. `InboxInv`: every inbox row
stems from one of them, one row per subject and key, so that knowing an envelope and having
decided its request are the same. `HeardRight`: what an operation has heard is what its inbox
row says, with the one exception of an unreadable command under two envelopes, which may be reported
failed before its second row exists. `RunsInv`: every run stems from a decided command, and a scheduled one has
a window inside its occurrence's interval. `BusInv`: what is about to be acknowledged is decided.

`Outbox_proofs` (any finite sets of operations, configurations and denied rows, any batch,
any number of faults and restarts): `MarkedIsDelivered`, `ReportsKeepOrder`, `TypeCorrect`,
`Converges`. The inductive invariant `IInv` has these parts. `Identified`: row ids are distinct and below the next
one, so a message id on the stream stands for one row. `Passing`: between the broker's
answer and the mark, the row to be marked is on the stream, and a row that waits was refused.
`Ordered`: the final report is queued after the running one, and a pass that holds the final
one holds the running one too, unless that is on the stream or was refused. That a batch of
the oldest due rows has this shape is a fact about cardinalities of finite sets (`BeginPassInv`).
`TypeCorrect` adds `Counted`: the identities given out, the rows still to be queued and the starts
to come together stay within `MaxId`. `Converges` adds `SInv`: the worker runs with the
configuration queued last (`Current`), and as long as no registration was refused
(`InSequence`), a registration that is due has no younger one on the stream nor in a pass
without it, so that the last one queued is the schedule from the moment it is stored, even when
the broker drops it as a duplicate.

`Retention_proofs` (any windows, retention, cap, batch, days): `OpenRunsKeepText`,
`GoneForGood`, `TypeCorrect`, `NoNewerTextHidden`, `NothingMissed`. `IInv` adds that an accepted
run has no manifest and that only a manifest has a text: without the first, a second commit
could bring back a text that was dropped. `RInv` is about the texts (`BodiesKept`): a message
that has the body of its first text has that of its second, if one is stored, because a
sweep takes the older first and its batch is a set of smallest elements; and a body that has
not expired is there unless the message was withdrawn. So the second text takes part in every
selection in which the first one does, and loses only by its stamp. `NothingMissed` also counts: if as many
sources were chosen as messages were eligible, the cap cut none off.

`Readiness_proofs` (any set of other tasks): `TypeCorrect` and `ReturnedIsNotReady`. The
invariant says, for a task that is down, what is left of its last call: its flag is lowered
or about to be, its computation can only end in "not ready", and when both are down and
have finished theirs, the worker is not ready.

The assumptions on constants, beside types and bounds: `None` is no value of a column, a run or a
command (it stands for SQL's NULL and Rust's `None`); the texts of posts differ from what is no
text (`ContentAssumption`); a window is shorter than the retention (`RetentionAssumption`: at most 7 days in
`normalized_window`, at least 8 in `config.rs`); an idempotency key identifies a request, and the occurrences of a schedule do not
overlap (`PlatformAssumption`, what Platform's contract promises and the inbox relies on); the run
identities in commands are not those `fan_out` draws (`CommandAssumption`: it draws a new UUID
for each run). TLC evaluates all of them on the instances.

Only model-checked, because the prover has no reasoning about fairness: the liveness properties
`EventuallySettled`, `EventuallyReported`, `EventuallyDecided`, `EverythingGoesOut`, `TextExpires`,
`DownIsSeen`, `DrainEnds`, and the liveness half of `ImplementsContract`. Every inductive
invariant was checked by TLC on the instances of section 3 before it was proved.

## 5. Plan

Done: `DigestRuns` with its contract and proofs; `Acquisition`, `CommandIntake`, `Outbox` with
registration, `Retention` with the cap and the manifest endpoint, and `Readiness`, each with the
proofs of its safety properties.

Left:

1. the safety core of the liveness properties as theorems: what each waiting state is waiting
   for (in `Readiness`, that a lowered flag is followed by a computation that sees it);
2. the conditions under which the statements of the violated runs do hold, as theorems: a
   walk in which no post without text is older than the window; runs executed in the order
   of their windows;
3. a composition of intake and life cycle: occurrences, commands and runs with one inbox.

## 6. Not modelled

Configuration parsing, session files, telemetry and connection set-up; the bytes of wire
envelopes and manifests: conversions and input/output without protocol state. The lists of
subscriptions, runs and results in `api.rs` and the read-through of `result_reader.rs` are
single reads that change nothing. `run_api` joins two listeners as `run_worker` joins its
tasks and has no flags. An outbox row that cannot be wrapped ends a pass with an error
(`bus.rs:561`); the code calls it a programming error, and no writer of the outbox queues
one. `runs.rs` and `subscriptions.rs` wrap functions of `schema.sql` for tests and are used
by no role (only their vocabulary of triggers and states is mapped); `acquire_lease` and
`transition_run` are called by none.
