# cct-qa-framework: a verification development

`cct-qa-framework` seeds airline bookings into a test environment, lets simulated customers chat with the
airline's bot about them, judges the chats and files the defects found. This directory holds TLA+ modules
translated from its source, TLC configurations that model-check them on small instances, and TLAPS proofs of
what matters most for every value of the constants. `PROJECT.json` maps every definition to the lines it
models.

## Contents

1. The system
2. The modules and how they correspond to the code
3. The runs: bounds, fairness, results
4. What is proved
5. Where the code and its documents disagree
6. What is only model-checked, and what is not modelled
7. Plan

## 1. The system

The code is a pipeline; its stages talk through files and through the environment under test.

    gap documents -> catalog -> seed -> runner -> evidence, metrics, analysis, quality -> ui, jira
                                  |        |
                          Kafka, rule   chatbot, mailbox,
                          engine, S3    Bedrock

| part (src/) | state it keeps | operations | what is hard | what makes it correct |
|---|---|---|---|---|
| core | descriptors (YAML), run folder names | resolve, validate, list, CLI | folders named by the second | one folder per run |
| catalog | cases and checkpoints of a feed, their hashes | parse, join dataset, diff two catalogs, load fixtures | ids shared by documents, changes in three places of a case | every changed case is re-seeded or re-run |
| seed | clone directory (fixtures, checkpoint files, ledger), bookings and pins in the environment | mint, render or clone, publish in five stages, check the trip, pin, read back, audit, record | worker pool, late or missing rows, two-statement pin with a fall-back, lapsing credentials, re-runs | one pin per booking, a ledger that is whole and true |
| runner: orchestrator | run folder (results, pages, index), semaphores, locks | submit, chat, judge, write result, rebuild reports | coroutines and threads interleave, abort while threads go on, a pool narrower than the sessions | bounds hold, no result lost, the batch ends |
| runner: chat engine | transcript, pending widget, OTP progress, frames read so far | start, converse, ask, click, collect, drain, await code, close | late and unasked-for frames, failures between reads, three OTP branches | faithful transcript, one code at the right time, current widget |
| runner: OTP inbox | shared mailbox, JSONL feed, ids seen by the broker | poll, filter, extract, append | several sessions on one mailbox, delay, failing requests, broker restart | own code, the newest of its own, in time |
| runner: build, cli, bedrock | none; a semaphore in bedrock | persona, run_case, judge, converse with retries | retries under a shared semaphore | a schema-valid Result for every case |
| evidence | HTML pages of the run folder | render chat, evidence, index | written while other sessions run | the index shows every finished case |
| metrics, analysis, quality | scores, grades, clusters of a finished run | evaluate, gate, grade, diff runs | taxonomies that have to agree across modules | harness noise is told from product defects |
| jira | ledger of filed keys, issues in the tracker | select, build payload, file, attach, record | interruptions, lost answers, two commands over one ledger | nothing skipped that was not filed, few duplicates |
| ui | job registry, subprocesses | start run, poll job, list and serve runs | threads and subprocesses, folders named by the second | a job shows its own run |

How they interact:

- `seed` publishes a booking and pins its determination; the bot reads both when the runner's customer asks
  about the booking. Seeder and runner agree on names only through the files of the clone directory.
- `orchestrator.run_batch` hands `run_case` to a thread pool; `run_case` calls `run_flow`, which drives the
  chat and calls `wait_for_otp` on a provider that the orchestrator has wrapped with the OTP gate.
- All sessions share one mailbox; a session tells its code by the passenger's first name, minted by `seed`.
- `analysis.grade` reads each result, `jira` files those graded Valid FAIL and remembers their keys.

`PROJECT.json` lists every component with what is modelled of it, and under `hazards` each place in this code
that is hard to test, with the properties that watch it.

## 2. The modules and how they correspond to the code

| module | models | extended by |
|---|---|---|
| `ResultFeed` | abstract: what readers of a run folder may rely on while a batch runs | |
| `Orchestrator` | `runner/orchestrator.py` | `MCOrchestrator`, `OrchestratorProofs` |
| `ChatSession` | `runner/engine/flow.py`, `capture_client.py`, the collecting part of `amazon_connect_client.py` | `MCChatSession`, `ChatSessionProofs` |
| `OtpInbox` | `qa_framework/otp_provider.py`, `feed_otp.py`, `otp_broker.py`, names of `seed/identity.py` | `MCOtpInbox`, `OtpInboxProofs` |
| `SeedCampaign` | `seed/cli.py`, `seed/kafka_seed.py`, pinning in `seed/dds_pin.py` | `MCSeedCampaign`, `SeedCampaignProofs` |
| `DdsVerdict` | functions: what `seed/dds_pin.py` pins and reads back, what `seed/verify.py` audits, what `catalog/fixtures.py` expects | `QaLoop` |
| `QaLoop` | the stages in a row: seed, run, `analysis/` (grade, rollup, diff), selection of defects | `MCQaLoop`, `QaLoopProofs` |
| `GapCatalog` | functions: `catalog/parser.py`, the dataset join, `catalog/diff.py`, `catalog/model.py`, the reading of fixtures, the delay and route of `seed/scenario.py` and `seed/render.py` | `WorkOrder` |
| `WorkOrder` | documents under edit, `catalog --diff`, the seeding and running of the ChangeSet | `MCWorkOrder`, `AroundBatchProofs` |
| `Trajectory` | functions: `metrics/evalkit/taxonomy.py`, `trajectory.py`, the dialect of a run | `Evaluation` |
| `Evaluation` | `metrics/run.py`, `adapter.py`, `evalkit/metrics.py`, `gate.py`, `coverage.py` | `MCEvaluation`, `EvaluationProofs` |
| `UiJobs` | `ui/server.py`: jobs, worker threads, subprocesses, the page's polls, run folders | `MCUiJobs`, `UiJobsProofs` |
| `JiraFiling` | `jira/file.py`, with the choices of `cli.py`, `payload.py`, `select.py` as constants | `MCJiraFiling`, `AroundBatchProofs` |

The `MC` modules only give values to constants. Operators introduced by "Faulty variant" are plausible bugs; no
specification uses them, they are there to show that each property would notice.

**Orchestrator.** `task` is where each coroutine `one(uc)` is between two awaits, `thread` where its work item
is in the pool; they are separate because an aborted batch cancels tasks while running threads go on. `sem`,
`starter`, `gate`, `idle` and `reporter` are the session semaphore, the stagger lock, the OTP gate, the
executor's free threads and `report_lock`; `width` is how many threads that executor has, which the code leaves to
the machine. `files`, `pages`, `listed`, `index` are the run folder: a result is
absent, partial (`write_text` has truncated it) or full, and a rebuild of the index globs first, then parses.
An action is a stretch of code between two points where another coroutine or thread can run. Every session may
raise; `gather` then cancels the rest.

**ResultFeed.** The abstract specification: results land, the shown index grows within what has landed, the
outcome is announced once, when everything is shown if it is "returned", and nothing changes after it.
`ImplementsFeed` says that `Orchestrator` implements it with `landed` the complete files and `shown` the index.

**ChatSession.** `bot` is the sequence of frames the bot ever sent, of which the first `read` have been read; a
frame is what the heuristics see in it (an OTP ask, a placeholder, an outage, ...) and the widget it shows. The
bot sends when it likes, so a frame may miss the quiet window of the reply it belongs to. `pc` walks through
`run_flow`: opening, driving (the customer model), awaiting the OTP prompt, asking or selecting, draining,
closing. Where the code calls `rec` or `flush_frames`, the action appends to `transcript`. The OTP code and
the mail are outcomes here; they are `OtpInbox`.

**OtpInbox.** One tick is a poll interval. Mails are in flight, in the box or lost; a poll takes the newest
matching mail after `since` minus the skew buffer. `mode` says whether sessions poll the mailbox or read the
broker's feed: the broker lists, marks a message seen, fetches it and appends it, and may be restarted, when it
takes its seen set from the feed. Matching is equality of first names: the code asks for a substring of the
body, and no first name of the pools in `seed/identity.py` is part of another name there. `MaxMails` bounds the mails
of all sessions together, so that one of them may be sent its code again.

**SeedCampaign.** A campaign is `run_seed_all` (`cmd.all`) or `run_seed`. `step` is where each case is in
`_pin_and_verify_one` or in the loop of `run_seed`; `traces` are the rows of `execution_traces` per booking,
each named after the run that wrote it; `rows` what the environment's consumers have written. `pin_trace` is
two autocommitted statements, so a delete stands alone when the insert fails, and an insert may take effect and
raise; `pin_trace_ecs` is one transaction and may take effect and time out. A minted locator is the run and a
draw: that two runs never draw the same one (24 * 32^5 locators) is taken for granted, that one run does not is
what the `used` set is for.

**DdsVerdict and QaLoop.** A system code is its regime and its class; a use case has the code of its document and
that of its data set, a verdict for each, and an amount. A determination has the three legs of the templates.
`Pin` and `PinFamily` are `pin_case` as `run_seed_all` and `run_seed` call it, `ExtractVerdict` is what audit and
bot read, `CodeArea`, `AmountArea`, `ReasonArea` are the three areas of `verify_case` that look at it; the areas
that look at the trip tables are one outcome, `rows`. `QaLoop` takes minted and cloned cases through a clone
directory: `det` is in the rule engine, `expected` is the fixture read again, `sidecar` what the runner finds of
the audit, `result` the run folder, `doc` the analysis. A stage is one step for a case, as its interleavings are
in the other modules; the bot tells what it likes, and the judge, which is a language model, is taken to compare
decision and amount as it is told to.

**GapCatalog and WorkOrder.** `docs` and `rows` are the gap documents and the dataset as their authors have them
now; `Edit` and the edits of the dataset change one field of a card or a cell, drop or add one. `LoadCatalog` is
what `parser.py` makes of them: cards read, codes and verdicts taken over, dataset rows joined in their place,
tagged with their document and merged. `RunCatalog` compares the kept version with the present one as
`run_catalog` does: one document and today's dataset on both sides. Its ChangeSet is `order`; `SeedAll` reads the
documents again, as the seeder does, `RunRun` judges by the fixtures there are. `visit` is the case as the seeder
last saw it, `fixture` the meta.json it wrote, `ran` the case the runner made of it. A re-seed replaces a case's fixture
in the model. In the code it mints a new locator (`seed/cli.py:271`) and leaves the folder of the earlier one where it
is: the model supposes that each seeding has a clone directory of its own, as the default has, or that the run is given
the locators the seeder printed (`--only`); a run of a whole directory that was seeded twice would judge by both. Definitions that would have
the name of one of `JiraFiling` start with `WO`, as the proofs about both share a module.

**Trajectory and Evaluation.** A transcript is a sequence of turns, a turn a role and the phrases in it, a phrase
one alternative of a detector's pattern; the tables of `taxonomy.py` are kept whole, for both dialects. Rates are
in ten-thousandths, as `round(x, 4)` leaves them. `folder` is the run folder under evaluation, `metrics` and
`baseline` are the files, each absent, broken (a write was cut off) or whole; `history` is a ghost that remembers
the first baseline of a schema version and the promotions since, `known` one that remembers the last baseline that was
whole, which the file no longer tells once writing it was cut off. The gate is always given `--baseline`. `Wording` is the dialect a conversation is worded
in: the one it shows more stages of (`WordingAssumption`), or none, when it shows no stage of either.

**UiJobs.** `jobs` is `_JOBS`, `lock` the poll whose answer is being sent under `_JOBS_LOCK`, `worker` where a job's
thread is in `_run_job`, `proc` and its pipe the subprocess, `poll` and `page` the page's questions and what it
shows; answers may overtake each other, and `overtaken` tells that an older log was shown after the final one. A restart
of the server loses registry and threads, and leaves subprocesses and run folders: an orphan goes on with its Results or
its report, which it writes before it prints. Run folders are named by cell and second.

**JiraFiling.** A command loads its ledger, walks through the defects whose key it does not know, posts each,
records it in memory and rewrites the ledger in place. `torn` are ledgers caught half-written, which
`_load_ledger` reads as empty. `overlap` says whether the users' habit is to run commands at the same time.

## 3. The runs: bounds, fairness, results

| run | instance | shows |
|---|---|---|
| `batch` | 4 cases, 3 sessions, 1 OTP slot, a pool of 2 or 3 threads, stagger of one tick | sessions and OTP windows stay within their width; a returned batch is complete; the index never loses a case; starts stay apart if each session has a thread; `ResultFeed` is implemented; every batch ends, also when sessions and reports queue for a thread |
| `filing` | 2 commands, one ledger, one with `--limit 1`, 3 defects, 2 keys, 2 faults | skipped means filed; a re-filing needs a lapse; finished means complete; re-running files all |
| `filing_interrupted` | 2 defects, 1 fault | violation: a defect is filed twice |
| `inbox` | 2 sessions, 3 first names of which one is also a last name, 2 mails in all, 1 failing request, 1 restart | own code, the newest the session can have once its own mail is there, in time |
| `inbox_shared` | 2 sessions, 1 first name | violation: a session submits the other's code |
| `chat` | 3 turns, any 4 of 8 kinds of frame, 2 at most unread | faithful transcript, one code on cause, current widget, telling error; only a placeholder makes the customer guess a code; no deadlock |
| `seed` | 2 campaigns, 4 cases of which 2 can be seeded, 2 workers | one pin per booking, whole and true ledger, telling exit code, every campaign ends |
| `seed_sidecar` | a cloned and a minted booking | violation: checkpoints that are not found |
| `loop` | a minted case with 5 cards, a cloned one with 3, 2 runs, 3 things a bot may tell, 3 harness errors, a failing judge | what is pinned is read back, and expected where the code's letter agrees with the catalog; one eligible leg, of the right currency; Strong PASSes are earned; no noise in tickets and rate; regressions are reported |
| `work_order` | 3 kinds of feed (one document with and without dataset, two documents), up to 3 edits, 3 cases and 2 that can be added | no case falls between the buckets; a change is seeded, run and judged as read, with the exceptions the properties name; cosmetic edits cause no work |
| `evaluation` | 19 run folders of up to 8 cases, 9 conversations, 2 schema versions, 2 promotions in a row | a run that passes clears the floors and is not worse than the last promotion, also after a gate that was killed; baselines drift by a tolerance each; the outputs agree; re-scores and scores are those earned; `done` in the matrix means the floor is met |
| `ui` | 2 jobs of one cell, 1 case, one page with a question under way, 1 restart, 2 seconds | status, log, folder and reports of a job are its own and final; an open page sees the end, as long as the lock comes free again and again |

**Bounds.** Four cases against three slots make a queue behind the semaphore, the stagger lock, the OTP gate
and `report_lock` at once; a fifth only makes a queue longer. The pool has a thread for each session, or one too few,
so that a coroutine that keeps its slot and `report_lock` queues for a thread behind sessions that wait at the OTP
gate; what is said of spacing is for the wide pool only (section 4). With two commands over three defects,
two of one key, every order of load, post, record and save occurs, and with two faults a fault also hits the
recovery from one. Two sessions and two mails, one for each or both for one, give every order of arrival, poll and
re-sent code; longer waits repeat the same tick. Three turns are enough for e-mail choice, code and one turn more, four frames for an ask, a
placeholder, a widget and a late frame. Two campaigns give a re-seed of a booking and a ledger that must stay
true after another campaign; two workers every interleaving of pins. The cards of `loop` have each way to come by
a code, a verdict and a currency: a plain case, one without a verdict and with an amount of 0, two of several
regimes that are eligible on another leg, a label for a code, and notes with the family's amount, another one and
none; two runs give each case a before and an after. Three edits of `work_order` are one that
is ordered, one between diff and seeding, and one that takes either back; its documents change from the first order
on, as the first finds every case added. The folders of `evaluation` have each kind of failure once, alone and in
the company that moves a rate over a floor or a tolerance; two promotions tell a drift from a step. Two jobs of `ui`
in two seconds meet in one folder or not, and the one page contends with both workers for the lock. An
answer that overtakes another needs two questions of a page under way, which this run does not have: that case is
covered by the proof of `EndedSawAll` only. `MaxIssues`, `MaxFaults`, `MaxRestarts`, `MaxRounds`,
`MaxTime`, `MaxMails`, `MaxEdits`, `MaxVersion`, `MaxPromotions`, `MaxPolls`, `LastSecond`, `MaxFrames`, `MaxWire`, `MaxRuns` and `Pool` are bounds of the models and are marked so
where they are declared; `MaxTurns` is the code's `max_turns` (22) made small.

**Fairness.** `Orchestrator`: weak fairness of each step of a coroutine and of a pool thread, which asyncio and
the operating system give, and of the clock; a chat ends because every call in it has a timeout and turns are
counted. `JiraFiling`: each command that has started takes its next step, and users run a command again until
it ends undisturbed, which faults, being bounded, allow. `SeedCampaign`: the program takes some step when it
can, as all its calls have timeouts and the pool has a thread; no fairness for the consumers of the environment
(a row may never land), for the lapse of credentials, for the death of the process or for the next command.
`OtpInbox` needs none: that a code is found in time is a safety property there, because polls and clock are tied
to each other. `ChatSession` has no liveness property; deadlock is checked instead, and `Over` lets finished
sessions stutter. `QaLoop`, `WorkOrder` and `Evaluation` have none either: their stages are commands that users give or not.
`UiJobs`: strong fairness for the acquisition of `_JOBS_LOCK` by a worker or a request, as the page asks every 1.5 s
only and threads queue for the lock; weak fairness for subprocesses, which end, for the page's interval and for the
arrival of what was sent. None for the end of a send: `server.py` sets no socket timeout, and a tab may stay connected
without reading. That the lock comes free again and again is a premise of `PageSeesEnd` (`[]<>(lock = Null)`) and not an
assumption of the model; without it the property is false, as TLC shows when the premise is dropped.

**Deadlock.** It is not checked where the system really stops: an orchestrator whose batch is over, filing
commands when `MaxIssues` or the users stop them, an inbox whose clock has reached its bound, a seeder after
its last campaign, a clone directory after its last run, a
settled feed with no edits left, tabs that are closed. What these must not do before is stated by the liveness and in-time properties.

## 4. What is proved

All proofs are for every value of the constants the assumptions admit.

**OrchestratorProofs** (assumption `SizesAssumption`: sizes are positive, the stagger may be 0). The session
bound is not inductive: that a slot is free when its holder ends depends on where the other tasks are. The
inductive invariant is `TypeOK /\ Inv`, whose parts are `Accounts` (free slots plus holders make the width, for
the semaphore, the gate and the pool), `Phases` (which point of a thread goes with which point of its
coroutine), `OneReporter`, `OrphansBounded` (threads that outlive an abort) and `Folder` (what is on disk at
each point). `BalancedSum` and the lemmas after it move one case between disjoint sets; each part has one lemma
over the actions. From it follow `SessionsBounded`, `OtpWindowsBounded` (together `WidthsHold`), `ReturnsComplete`, `IndexMonotone`, and
`Refinement`: each step of `Orchestrator` is a step of `ResultFeed` or leaves its variables alone. `StaggerHolds`
proves that, whenever the pool has a thread for each session, sessions start `Stagger` ticks apart. With a narrower
pool (the default `--conc` is 14, Python's default executor has `min(32, cores + 4)` threads) sessions that
queued for a thread may start together: the stagger spaces the hand-over to the pool, not the starts.

**AroundBatchProofs**, for the two modules around the batch.

*JiraFiling* (assumption `CommandsAssumption`). `SkipsAreFiled` and `FinishesComplete` hold with
overlapping commands and torn ledgers; their invariant `Truth` says that a key in a file or in a command's
memory has an issue, and that what a command no longer has to do is recorded or filed. `BookkeepingHolds` and
`RefilesBounded` need `Shared`: one ledger and no overlap. There issues, lapses, memory and disk are accounted
for at every step, and a defect has at most one issue more than there were lapses.

*WorkOrder* (assumptions `FeedsAssumption`, `BaseAssumption`, `EditsAssumption`: documents are lists of cards with ids
of their own, only a feed of one document has a dataset, an edit leaves the id of a card). First come the functions:
what a card is parsed, joined, tagged and hashed to (`CardParsed`, `CaseJoined`, `PlainCase`), which cases a
catalog has (`CatalogCases`) and which buckets an id of two catalogs falls in. A catalog is a flattened list of lists, a recursive
definition; what it holds is proved from the least length at which it would fail (`LeastOf`, `FlattenStep`,
`FlattenHolds`), which needs no induction theorem. The inductive invariant `WOInv` is `Shape` and `Versions` (documents and versions stay
well formed through any edits), `Sorted` (every case of the ordered version is in one bucket), `Faithful` (a
fixture is that of the case the seeder last saw), `Unrun` (what has not been run as it was seeded is in the order's
run), and for `NoChangeLost` three parts that hand one claim on: the seeder has seen the data of the
kept version while no order is run (`KeptTrusted`), of the ordered version where the order does not seed
(`RestTrusted`), and of all of it once the order is seeded (`OrderTrusted`). `NoChangeLost` alone is not inductive, as it speaks only of moments
when nothing is under edit. From `WOInv` follow `OrdersTyped`, `NothingChangedIsLost`,
`NothingIdleIsDone`, `RunsAreAsRead` and `FixturesFit`. TLC checked `WOInv` on the instance of `work_order` before it was proved.

**OtpInboxProofs** (assumption `InboxAssumption`). `FeedHoldsOnce` (the broker appends a mail once, restarts
included: what it will not look at again contains the feed), `NamesKeepApart` and `OwnIsTaken` (a session
takes no mail that is older than one of its own it could see; through the feed this rests on what the broker has passed
over: a mail it has not come round to arrived an interval ago at most, and one more for each restart).
`CodesComeInTime` needs `Patient == Timeout > MaxFaults + 1`: a session that gives up has polled, or the feed had
the mail, after the mail arrived; the invariant bounds how far each poll is behind the clock.

**QaLoopProofs** (assumptions `VerdictAssumption`, `LoopAssumption`). `ReadBackIsPinned`: for every use case with a
code, `ExtractVerdict` of its pin is the pinned status, the case's code, and the amount if eligible. The argument
is that the target leg weighs 1 or 2 whatever the status, as its class is not NA, and the others weigh nothing
(`BestIsTheOnlyOne`). `AuditTellsHolds` and `EligibleOnOneLegHolds` (together `DeterminationTellsHolds`) follow with the invariant `PinInv`, that a
determination is the one its card gives. No assumption on verdict, amount or currency is needed beyond their
sets: the catalog's verdict may contradict the letter of the code.

`StagesHold` is the second invariant, for what comes after the pin: an expectation is the fixture's, a checkpoint
file that says "pass" belongs to a cloned case whose pin passed the amount area, a Result's verdict is one its
chat may have got, and an analysis is that of the folder. It is inductive because a case is seeded once (`Seed` needs
an absent expectation) and `doc` stands in the way of further Results. With the lemmas on grades (`GradesMean`,
`StatusOfGrade`) it gives `StrongPassIsEarned`, `DefectsOfProductHolds`, `RegressionsReported`, and with `PinInv`
`ExpectedIsPinned` and `TypeCorrect`. The proofs are for every `Told` and `Errors`.

**SeedCampaignProofs** (`SeedAssumption`). The inductive invariant is `TypeOK`; `Shape` (workers are nowhere before
the pool, and only over chosen cases); `Locs` (the locators `run_seed_all` mints are the run's own and distinct, while
`run_seed` may be given one twice but works on one case at a time); `Pins` (no booking has two determinations, and
what each step of a worker finds in its booking); `Trips` and `Gates` (what a worker saw is still so); `Books` and
`Mails` (ledgers are of finished runs, the broker accepted only their bookings); and the properties. `OneTrace`
needs `Locs` and `Pins` together: an insert may take effect and raise, and the fall-back replaces the row, which is
safe only while no other worker has the booking. From it follow `OneTraceHolds`, `LedgersTruthful` and
`ReturnTellsHolds`, for any number of workers, cases and campaigns.

**ChatSessionProofs** (`ChatAssumption`). The inductive invariant is `TypeOK`, `Control` (what each point
of a turn may rely on), `Faithful` (the transcript's frames are 1 to `flushed` in order, and each message of the
customer follows those read before it), `Asked` (a code has its cause among the frames read, and `released` goes
with it), `Clicked` (clicks so far hit the newest widget; a pending one has not been clicked) and `Ended` (messages per
turn, the last entry at each point), and `Noticed`: an ask for the code among the frames read since the customer's
last message (`Unanswered`) is in what is being heard, in `last`, or came with a placeholder. With `Faithful` those
frames are the ones the transcript shows since that message (`ShownSince`). From it follow `TranscriptIsFaithful`,
`OtpGoesOutOnce`, `ClicksAreCurrent`, `ErrorsTell` and `GuessNeedsHoldAlways`, for every repertoire of frames, any lateness and any number of turns.

**EvaluationProofs**. `PassNotWorseAlways` and `DriftBoundedAlways` rest on `BInv`, which ties the baseline to
the last one known and to the first of its history (`BaselineHolds`: it clears the floors): after n promotions of one schema version each watched metric is at most n tolerances below.
`TypeCorrect` is by cases on the actions. What is made of one run rests on `MInv`: a `metrics.json` that can be read
is the metrics of the folder it is in. From it follow `OutputsAlwaysAgree`, `CasesAreKeptApart` and `ScoreIsEarned`, for any number of
runs (`RunAssumption`: a run is finitely many of the cases, each with a conversation there is), any transcripts, any
tolerance and sample minimum; only `CasesAreKeptApart` uses `WordingAssumption`. The lemmas under them are about sums
and folds over sets of unknown size, whose definitions choose a recursive table. `SumsExist` and `TableExists` show that
there is one, and `SumSplits` (what is counted at its key is counted once), `SumBound`, `SumLess`, `ShareOfAll` (parts
that have nine good in ten have so together) and `LisBound` (of n places at most n are in order) are proved from the
smallest set for which they would fail, which needs no induction theorem. On them rest `ScoreIsRate` (a score is a
rate, whatever was said), `HeadlineRates`, `ConfusionSums`, `SliceSums`, `DoneFloor` and `DialectRight`.

`ScoreIsEarned` is about any transcripts (`TranscriptAssumption`: turns with fewer than ten phrases each). That saying it
again earns nothing follows from `GoesOn`: the places of a phrase, of a line's start, of the intent and so of a stage in
the longer text are the earlier ones and later ones, and there are none if there were none, so that the first is the
same (`HitAgain`). That a flow in order counts its places takes the designed places of the fourteen stages in both
dialects (`AlphaPlaced`, `BravoPlaced`; only alpha's choice of an OTP channel and found booking share one, and then the
first is heard no later, `HitsAre`), that the sort is the order of the ranks (`NthIs`), and that the longest increasing
part of a sequence that never falls, and does not rise at its end, is as long as it has values (`LisOfFlow`).

**UiJobsProofs** (`UiAssumption`; folders of different cells or seconds have different names). The inductive invariant
is `Types`; for each job `Control`, which says what goes with each point of its thread: whether its subprocess lives,
which exit codes there are (`Thread`), whether the line that names the folder is still to be read (`Heard`), what the
job says of itself (`Status`); `Folders` (results and reports are those of runs that named this folder, and a report
was made when its run had written every case); `Pages` (an answer under way that says the job has ended carries its
last log). A subprocess for the reports has the folder its run named, also when the server is gone. A page may stop on
the log it was shown because the thread is gone by then, and the folder it lists is whole
because "done" goes with an exit code of 0. From it follow `TypeCorrect`, `DoneWhole`, `EndedSawAll` and `OwnReports`,
for any number of jobs, open questions and restarts.

The module `ResultFeed` has no theorem of its own.

## 5. Where the code and its documents disagree

Each is a run that TLC ends with a counterexample; `PROJECT.json` quotes the lines under `findings`.

- `filing_interrupted`: between the answer of a POST and the saved ledger there is room for an interruption that
  orphans the issue and re-files the defect.
- `inbox_shared`: first names may be shared within a run; two such sessions can take each other's codes.
- `seed_sidecar`: the seeder names a checkpoint file after the locator, the runner looks for the case id.

Disagreements that a passing property states exactly, by naming the only way there is:

- `OwnSupersedes`: `otp_provider.py:19` says of `since` that it "is what prevents picking up a stale code from an
  earlier run/turn", but it reaches back before the session by the skew, and a namesake's code that came in just before
  is taken while the session's own is under way. What holds: not once its own could be seen.
- `GuessNeedsHold`: an ask for the code that shares a reply with a placeholder, or is heard while one is drained, is
  not noticed (`flow.py:196`), and the simulated customer guesses a code, against `flow.py:18`.
- `ExpectsWhatIsPinned`: the pin follows the catalog's verdict ("authoritative", `seed/cli.py:195`), the fixture's
  expectation the letter of the code (`fixtures.py:94`); for a case of several regimes, or a code without a letter,
  they may be opposite, and a bot that is right fails.
- `FlowCounted` (in `ScoreEarned`): `trajectory.py:8` promises 1.0 for the whole flow in order, but the intent's place is 999
  (`trajectory.py:34`) and stages heard in one sentence share a place: the full eligible flow scores 12/14. Only an
  intent that is heard after everything else counts, which is why `FlowCounted` asks for some stage that is not earlier.
- `RestartEarnsNothing` (in `ScoreEarned`): the intent is looked for from the customer's first words on
  (`trajectory.py:69`). A bot that speaks of the claim before them, and never again, earns the intent when the same
  conversation starts over, although nothing new was said; `IntentInScope` excepts it.
- `EveryChangeSeen` (in `NoChangeLost`): `--diff` joins the dataset of today to both versions, so that no edit of the dataset is seen.
- `JudgedAsRead` (in `RunAsRead`): `catalog/README.md:43` says "EXPECTED_CHANGED -> re-run (existing seed OK)", but the run is judged by
  the system code in the old fixture's meta.json.
- `DelayFitsAmount` (in `FixtureFits`): `content_hash` leaves the title out as cosmetic (`diff.py:36`), yet `scenario.py` takes delay and
  date from it: an edited title leaves a stale delay in the fixture.
- `FliesItsRoute` (in `FixtureFits`): a route that starts at the base booking's destination is rewritten twice, although
  `render.py:110` calls the order of the replacements safe.
- `ReturnComplete` of `Orchestrator`, which is proved, is about batches that return: one `start_session` that raises aborts the batch
  (`orchestrator.py:125`), though `runner/README.md:5` has every case land.
- `ReportsOfOwnRun`: two runs of a cell that start in one second share a folder and its reports.

Met while modelling, and not the subject of a run:

- The broker marks a message seen before it has fetched it; one failing fetch loses the code for the sessions behind
  it, which a polling session would survive (`NoFalseTimeout` of `OtpInbox` says this, `CodeInTime` excepts it).
- Cases of `run_seed_all` never find their checkpoints (`seed_sidecar`), so that all their passes are Weak, and
  `run_diff`, which ignores WARN, reports no regression for them. `RegressionReported` holds where it can apply.
- A cloned fixture that expects no compensation is pinned as APPR CAD 400 and passes the audit: without a code to
  compare, `verify.py` asks for an eligible determination. `StrongPassEarned` is therefore about payments.
  It compares amounts without their currency, as the audit does.
- A failing judge makes a ticket: its verdict does not match, and `harness.error` stays empty.
- No harness error is ever graded Environment ERROR: `_error_bucket` of the runner produces none of the buckets that
  `analysis/grade.py` looks for, not even for the OTP. Only an outage the bot talks about is.
- An ineligible case whose data set row has an amount of 0 fails the amount area of its audit. In the metrics, 0 is
  not normalised away either (`metrics/adapter.py:19`): a right refusal of such a case never passes the re-score,
  and a quote divides by zero, which costs the whole run its metrics (`metrics.py:37`, in `BuildRaises`).
- The gate does not look at the number of cases: an aborted batch may pass and become the baseline, and a slice that
  shrinks below `--min-n` is not compared, so that slices drift without bound where the headline cannot.
- The detector of alpha's `otp_entered` needs the note `mailinator-otp`, which `flow.py` does not write.
- Whether a PENDING case passes depends on the dialect of the majority of its run (`RescoreLocal`, in `CasesKeptApart`, excepts it).
- In a feed of two documents an untouched case is unchanged only because its hash is taken before it is tagged; cases
  of the document that is not compared come out as added, and one that moves between documents keeps its old tag.
  The join drops the tag for data sets. Of two cards with one id, `by_id` takes the first, the diff the last.
- Of two fixtures of one case in one clone directory `load_fixture_catalog` loads both (`fixtures.py:162`).
- A case whose only seedable code is that of its badge is run after a change, although it was never seeded.
- A case that is missing from the documents when the seeder comes to it, and is back unchanged afterwards, is not
  ordered again (`Seen` excepts it); one that no longer can be seeded is still run on its old fixture.
- An amount without a number falls back to the note of the base booking, CAD 400.
- Overlapping polls may arrive out of order: the final log is then replaced by an older one for good (`EndedPageSawAll`
  excepts such a page). The lock is held while an answer is sent, without a timeout: one tab that stays connected and
  does not read stops every job (the premise of `PageSeesEnd`). After a restart of the server the
  page throws on the unknown job and polls for ever; a failing metrics or analyze leaves a job `done`.
- The key of a ticket follows the locator, which a new seeding mints afresh: the same scenario is filed again.
- After exit 2 the user is told to run again as "republish is deduped", but the second run mints new locators.
- A re-seed that finds no trip leaves the checkpoint file of the earlier seed behind.
- `converse` keeps its slot of the shared Bedrock semaphore while it backs off.

## 6. What is only model-checked, and what is not modelled

Only TLC: everything that must eventually happen (`BatchEnds`, `EveryKeyFiled`, `CampaignEnds`, `PageSeesEnd`), as
liveness under fairness is out of the prover's reach. Every safety property of a passing run is proved, and all type
invariants; of these those of `UiJobs` and `WorkOrder` are also in a run. `ScoreIsEarned` is proved of the taxonomy's
tables as they are: a detector with a new place needs `AlphaPlaces` or `BravoPlaces` proved again.

Not modelled: HTML and prompt wording, MIME and JSON parsing, the retries inside one HTTP or Bedrock call, the
websocket below a frame of text, and the parts listed in `PROJECT.json` as `not_modelled` with their reasons.
The chatbot, the mailbox, Kafka's consumers, the rule engine's database and the tracker are environment: they
do whatever the code in `src/` has to be ready for.

## 7. Plan

Done, in this order: `ResultFeed` and `Orchestrator`, `JiraFiling`, `OtpInbox`, `ChatSession`, `SeedCampaign`,
`DdsVerdict` and `QaLoop`, `Trajectory` and `Evaluation`, `UiJobs`, `GapCatalog` and `WorkOrder`, with the proofs of section 4.

To come, in this order:

1. A composition of `ChatSession` with `OtpInbox`: a session's code is its own and current when it is spoken.
2. `QaLoop`: re-seeding a directory between runs, with the checkpoint files that stay behind.
3. The Bedrock semaphore with its retries; the quality rubric.
