# A verification project for factory-dashboard

TLA+ modules, TLC configurations and TLAPS proofs about the dashboard: a *board* (FastAPI
web process) and a *feed* (projector process) that copies the factory's own record ("Forge's
ledger", an SQLite file outside this repository) into `readmodel.db` every 15 seconds. The
board shows the copy, keeps open pages current, and lets an operator answer the factory's
cards by publishing on a message bus. Nothing the dashboard does is true until Forge has
recorded it and the feed has copied it back, so nearly everything hard in this code is about
**deciding from data that may be old**.

Contents: 1 inventory · 2 what is hard · 3 modules and their correspondence with the code ·
4 runs · 5 bounds · 6 fairness · 7 proofs · 8 disagreements between code and documents ·
9 what is not modelled · 10 plan.

## 1. Inventory

| component (source) | state it keeps | operations | talks to | correct when |
|---|---|---|---|---|
| answering a card (`backend/answers.py`, routes in `app.py`) | nothing between requests; a coroutine per press | `submit`: `_check`, `decide`, claim or `ask_rebuild`, `_send`, `release` or `drop_rebuild`, `_read_count`, `set_read_count` | claim store, read model, NATS | one answer per card is on its way; what the person is told is true |
| claim store (`backend/claims.py`, `answers.db`) | `answer_claims`, `rebuild_marks` | `claim`, `set_read_count`, `release`, `ask_rebuild`, `drop_rebuild`, `settle`, `token` | read model (freshness, cards) | a claim goes only when its send failed or the record closed the card; "not recorded" only after two passes that began after the send |
| copy of Forge's record (`projector/forge_mirror.py`) | `forge_*` tables, `mirror_status` | `mirror_once` = `_local_max_ids`, `_read_forge`, `_write`, `_stamp`, `record_change`; `prune_change_log` | Forge's SQLite file (read only) | the copy is the whole ledger at one instant |
| feed process (`projector/__main__.py`, `projector/store.py`) | heartbeat | boot pass, six loops | all tables of `readmodel.db` | an error in one loop stops no other; freshness is honest |
| freshness and data version (`readmodel/dbread.py`) | none (read) | `Freshness`, `answer_copy_is_fresh`, `data_version` | `mirror_status`, `change_log` | equal versions mean equal content |
| live-update channel (`backend/sse.py`, `/events` in `app.py`) | `change_log`, a stream per page | `record_change`, `replay_or_refetch`, `_sse_stream` | feed, browser `EventSource` | a page is told of every change, or told to refetch |
| open page (`static/freshness.js`, `static/sse.js`, htmx) | shown content and version, `refreshing`, `pending`, htmx's request queue | poll, `refreshContent`, `refetch` | board routes | the page comes to show the record; a confirmed version is the content's |
| cards (`readmodel/cards.py`) | none | `all_cards`, `find`, `current` | copied tables | the open question is the one shown |
| waits, stages, missions (`readmodel/factory.py`, `missionwords.py`) | none | pairing waits with ends, standing, endings, mission states | copied tables | every wait is paired with its own end; a delivery stays one |
| feature times (`readmodel/timing.py`) | none | spans, clean-up rules, sweep over intervals | `factory.py` | each moment is counted once; parts sum to the whole |
| norms, issues (`readmodel/norms.py`, `issues.py`) | none | signals, bands, stalls, issues with opening and closing | `factory.py` | colours, issues, standing and cards tell one story |
| cost import and views (`projector/cost_import.py`, `readmodel/costs.py`, `prices.py`) | `spend_calls`, `cost_feed_status` | pass over the log from an overlap, daily reconcile, totals, slots | LiteLLM's database | every promised call is in the figure; a figure that may be incomplete says so |
| suggestions (`backend/suggestions.py`) | `suggestions.db` | save under an hourly limit, list, change status | board routes | parallel posts never pass the limit |
| sign-in (`backend/accounts.py`, `auth.py`) | attempts and lockouts in memory, cache of `accounts.yaml` | `try_attempt`, `record_success`, `_refresh`, `get`, `authenticate` | routes | parallel guesses never overrun the limit; a request is served as what the file said during it |
| chat and model calls (`backend/chat/*`) | one lock, the hour's questions, a worker and its sockets per call | ask, model call, one tool, answer | model service, read model | every request ends, whatever the model does; an answer is of one moment |
| voice (`backend/voice.py`, `static/mic.js`) | one lock, notes of the hour; recorder, timer and stream in the page | record, upload, transcribe, ask, speak | speech services, chat | one recording at a time; the microphone is never open unseen |
| plan mirror, summaries (`projector/plan_mirror.py`, `summary.py`) | `plan_milestones`, `project-summaries.json` | upsert and delete, snapshot and atomic rewrite | file system | the plan is the file's; a summary is of one moment |
| service checks (`projector/health_polls.py`) | one row per service | poll | network | none between passes |
| views, reports, exports (`dbread.py`, `viewmodels.py`, `linear.py`) | none | counts, sums and lists per project, period and client | copied tables | pages that count the same work agree; a client sees its projects only |
| store bootstrap, configuration (`db.py`, `config_loader.py`) | schema | `apply_schema`, YAML reading | start-up | idempotent |

`readmodel.db` is written by the feed only; `answers.db` and `suggestions.db` by the board only.
The runbook calls `readmodel.db` disposable: it may be deleted at any time and is rebuilt by the feed.
SQLite transactions are the only atomic steps shared between processes.

## 2. What is hard here

* A press **checks** a card in one snapshot, **claims** it in a later transaction, **publishes**
  later still; other presses, Forge, the feed and settlements act in between. A send can
  fail after the broker took the message; the board can stop anywhere.
* A claim is declared unrecorded by **counting the feed's passes**; a pass already under way when
  the answer went out must not count, nor a pass that never finished.
* `settle` reads claims, then a snapshot, then writes, in three connections, while every page
  request may be doing the same.
* A pass is five separate steps; Forge writes, is **restored from a backup**, or the feed stops,
  between any two.
* A connection breaks with updates sent but not received; the log is **pruned** and can be
  **recreated**, and the browser's last event id decides what is replayed.
* On the page two scripts and a poll share **one** htmx request slot with **one** waiting
  place, and answers come back to elements that may be gone.
* Standing, waits, cards, issues, colours and times are **derived apart** from the same rows, by five
  modules of the read model; rows of pauses, work, decisions, re-offers and parallel attempts come in orders
  no test lists, and what is derived must tell one story.
* Threads of the board **count and act in two steps**: sign-ins hash between the count and the verdict,
  posts wait for a write lock after reading the clock, model calls time out while their worker still connects.
* LiteLLM writes its spend log **late and out of order**, also while a pass is reading it.
* A feed pass **commits between the reads** of which a page, an answer or a summary is made.

PROJECT.json lists each hazard at its line with the properties that guard it.

## 3. Modules

Three groups. The first is a protocol between processes, composed through `FeedPasses`; the second
derives everything the pages say of one feature from its record; the third is the services
beside the record.

| module | models | abstraction |
|---|---|---|
| `FeedPasses` | a pass of the feed as the board sees it: begin, read, write, stamp, failures, stop, start, age, deletion | Forge's record is one opaque value; time is one bit, `recent` |
| `ForgeMirror` | `mirror_once` table by table: newest ids, replaced tables behind a hash, added tables read from an id, rewinds | shown to implement `FeedPasses` |
| `OneAnswer` | *abstract:* what the claim store promises: a lease on a card | six actions, no databases |
| `AnswerClaims` | `submit` for answers, the claim store, `settle`, Forge, on `FeedPasses` | a card is absent, open or closed; answers differ by press only |
| `RebuildMarks` | `submit` for "Rebuild the preview", its marks and their settlement, on `FeedPasses` | an offer is its rebuild count and "waits for room" |
| `EventChannel` | change log, pruning, reconnect decision, stream, `EventSource` | an update is its id and section |
| `LivePage` | poll, version, refetches, htmx's queue, against the order in which the store changes | content is how often it has changed |
| `Factory` | `factory.py`: waits, merge decisions, endings, standing, missions' states; pure | a row's *kind* stands for the label, target, status and detail blocks that the code tells rows apart by |
| `Cards` | `cards.py`: every card, open or closed, its answer and its rebuild offer; pure | a request id is a stage and a number |
| `Timing` | `timing.py`: spans, clean-ups, the sweep, a feature's parts; pure | times are integers |
| `Norms` | `norms.py`, `issues.py`: signals, bands, stalls, issues; pure | one threshold pair per signal, no sentences |
| `FactoryRecord` | Forge writing the rows of one feature and its mission, and what the four modules above make of them after every row | Forge is external: one action per kind of row |
| `Clock` | the clock of the services | |
| `SignIn` | the throttle, the cache of `accounts.yaml`, the guard of a page | one username; a hash is named by its password |
| `Suggestions` | a post: clock, write lock, count, insert; status changes | a text is fine or not |
| `CostImport` | the pass over the spend log, the daily check, figures and their slots | prices per token are given |
| `Ask` | a typed or spoken question, a note: locks, limits, model calls with worker, socket and budget | what a model says is any of the replies the code tells apart; a call's budget runs out at any moment |
| `Pages` | views, reports, exports and costs as operators of one moment of the store | times are days; a name matches in tiers |
| `Reading` | one question read while passes commit: its snapshot, its reads, its answer | on `Pages` |
| `Microphone` | `mic.js`: button, requests for the microphone, recorder, timer | |
| `FeedFiles` | the copy of `plans.yaml`, the rewrite of `project-summaries.json`, stops of the feed | a summary's figures are the moments they are of |
| `AnswerClaimsProofs`, `RebuildMarksProofs`, `ForgeMirrorProofs`, `EventChannelProofs`, `LivePageProofs`, `ServicesProofs`, `FactoryRecordProofs` | theorems | section 7 |
| `DataInduction` | induction over numbers, recursive functions, least and greatest elements, sums over sets: the lemmas `ServicesProofs` and `FactoryRecordProofs` share | no specification |

`MC*` modules give the constants their values for TLC. Definitions marked *mutant* in a module
are plausible mistakes in the definition that follows them: PROJECT.json names, for every
property, one that TLC must catch. They are part of no specification. Every stateful module of the first
group, and `FactoryRecord`, documents its state in `TypeOK`: `AnswerClaims`' is also run, and each of them is proved.

### AnswerClaims

`press[p].phase` is where the coroutine of one press stands in `submit`; each `await` (a thread
or the bus) ends a step.

| action | code |
|---|---|
| `Check` | `_check` and `decide`: freshness, open card, answerable here; else the code says why (`stale`, also for a read that failed, `moved`, `already`, `gone`, `slack`, `refused`) |
| `ClaimCard` | `claims.claim`, one `BEGIN IMMEDIATE` transaction: `taken`, claimed or `cant_save` |
| `Publish`, `FlushDone`, `FlushFails`, `ConnectFails` | `NatsBus.publish` and its timeout: the broker may have the message whatever the flush says |
| `Release` | `claims.release` by generation, or its failure |
| `CountRead`, `SetReadCount` | the read count just after the send, and its update, either of which may fail |
| `SettleRead`, `SettleDecide`, `SettleWrite`, `SettleFails` | `claims.settle`'s three connections |
| `BoardCrash` | the process ends: coroutines and page requests are lost, databases stay |
| `PassBegin`, `PassStamp`, `FeedOther`, `StoreRebuilt` | the feed, from `FeedPasses` |
| `Forge*`, `ClosedElsewhere` | Forge and its other doors (external) |

`published`, `since`, `eligible` and `overlap` are history: no action's guard reads them, except
that `PassBegin` reads `overlap` for the timing assumption of section 5.

### ForgeMirror and FeedPasses

`Begin`, `ReadForge` and `Write` follow the three calls of `mirror_once` in order; the second
`_local_max_ids`, at the write, sees the same rows as the first because only the feed writes.
`Rewound` and `Applied` are the rule "Forge's newest id is lower than ours: start again".
`taken` is history: the ledger at the instant it was read. A pass can be cut off at any point (`Abandon`, also by a failure stamp
that fails itself, and `Stop`). `told` is history too: the copy the pages were last told of by `Announce`, which records a
change only `if changed`; so `EveryChangeIsTold` relates what the pages know, over any number of passes, to the flag that the last
write computed. What a cut-off pass wrote and never told of is taken into `told` by `CutOff`, and section 8 says what becomes of it. Under the mapping
`record <- ledger`, `snap <- taken`, every step is a step of `FeedPasses` or leaves its
variables alone: the copy assembled from replaced and added rows is the whole ledger at one
instant. `Tellable` is an assumption about restores: a restored table that grew back past our
newest id before a pass looked at it cannot be told from one that was only added to, by this or
any rule on newest ids; it is listed as a hazard without a property.

### EventChannel

The server's `replay_or_refetch` is two reads (`ReadWindow`, `Replay`) with no transaction
round them. `Disconnect` loses what was yielded and not received. `Prune` removes rows by their age, in the feed's process, whatever the
streams are doing; time is in which rows may be that old (`MayBeOld`). An open stream looks at the log once a second, so it has read a row long before it is an
hour old, and the row is sent or in its list; a page that has been away longer, or has just come back, has heard of none of them.
Four constants say what is assumed of the outside: `PruneInReplay`, that rows such a page missed may be pruned between the two reads of its replay, `QuietHour`, that an hour may pass without one
change (so that every row is pruned), `OldPages`, that a page may outlive the
`readmodel.db` it was opened on, and `BrokenRefetch`, that a connection may break between two
updates of one refetch (which all carry the same id).

### LivePage

`slot` and `queued` are htmx's one request in flight and one waiting for an element; both
scripts use the body's, because `htmx.ajax` is given no source. `attached` says whether the
element a waiting request will replace is still in the page. `ReadRecord`, `ReadAnswers` and
`ReadToken` are the three reads that make one page's response. htmx is vendored and external: `After`
and `Sent` follow how 2.0.4 treats a finished request, and the scripts' use of it.

The feed's change count `seq` is named by the content it was recorded for: it only has to tell
one notification from another, and `seq # content` says that a change is not told yet, or was
held back by a stop of the feed.

### FactoryRecord, Factory, Cards, Timing, Norms

`f` is a feature as the copied tables give it: its queue item, its planning run with events, its builds with
stage rows, its mission with the mission's own merge build. Each action of `FactoryRecord` writes one row or
moves one status the way `tests/forge_fake.py`, `test_feature_time.py` and `test_approvals.py` have Forge do
it: a pause is in a build's status before its row is in the log, a start may be written only when the build ends,
a part of a mission is decided without a card, a stopped planning run has a second row at its door.
All of them are external. What is checked are the pure modules, translated function by function:
`Factory!Walk` is `_walk`, `Standing` is `_where` with the assembly's dates, `Timing!Spans` and
`Sweep` are `_spans` and `_sweep`, `Norms!Signals` and `FeatureIssues` are `on_track` and `find_issues`.
The properties relate what two of them make of the same rows, or what one makes before and after a row.

### The services

| module | steps that are apart because other threads come between |
|---|---|
| `SignIn` | the throttle counts (`Receive`, under its lock) · the file is looked at (`StatFile`) and read (`Load`, the store's lock held) · the account is got after the lock is gone (`Get`) · the hash is checked (`Authenticate`) |
| `Suggestions` | the clock is read (`Submit`) · the write lock is got and the rows counted (`Take`) · `Commit` or `Fail` |
| `CostImport` | `Begin` · `ReadPage`, a page of the log and its transaction, again and again · `Reconcile`, the days read again · `Reconciled` · `Finish`; `Write` (LiteLLM) and `GiveUpPass` anywhere |
| `Ask` | a worker connects, is noticed to be late, ends (`Connect`, `ShutLate`, `WorkerEnds`) against the asker's budget (`BudgetSpent`, then `GiveUp` in two steps: mark, then shut) · a reply in time (`ReplyInTime`) is read and phrased under the lock with no limit of its own (`Answered`) · locks and limits at `AskChat`, `RecordQuestion`, `RecordNote` |
| `Reading` | `OpenSnapshot` · each `Read` · `Pass`, a commit of the feed |
| `Microphone` | the browser answers a request (`Given`, `Denied`) · the recorder, timer, upload and sound call back |
| `FeedFiles` | `plans.yaml` is looked at, read, written row by row, the rest deleted; the summary is read, written aside, renamed; `Stop` between any two |

`guesses` and `past` in `SignIn` are history: the attempts admitted since the last success, and what the file said
since each request began.

## 4. Runs

| run | instance | shows |
|---|---|---|
| `answers` | two presses of one card, one settling page, the real threshold of 3, 4 passes | types; not-recorded is earned; a sent answer keeps its claim; the count keeps up; one sender at a time; claims cleared only by the record; the whole protocol implements the lease `OneAnswer` |
| `answers_attempts` | one press, two attempts at one question (one answerable only elsewhere), the store deleted once, fair | "already answered" is true of Forge's record; no answer waits for ever |
| `answers_one` (violation) | as `answers` | 8.1 |
| `rebuilds` | two asks, one settling page, threshold 2, 3 passes | one rebuild at a time; "rebuilt" is proved by the record; "can't confirm" is earned |
| `rebuilds_live` | one ask, two settling pages, fair | a finished rebuild is noticed, though settlements overwrite each other's verdicts |
| `mirror` | two added tables, two kinds of row, up to 2 rows, restores, stops, deletions | the copy fits; `FeedPasses` is implemented; what the copy gained or lost is told to the pages, or is about to be |
| `events` | two sections of the three the feed tells of, 3 notifications, a deletion, fair | nothing is missed, and why (`StaleIsOnItsWay`); every change is heard |
| `page` | two sections, two changes, a stop of the feed, a tick, a changing answer | a confirmed version is the content's; no section goes back in time |
| `page_live` | two sections, two changes, a stop of the feed, fair | the page comes to show the record |
| `record` | one feature from seven beginnings, up to two attempts, three rows, two ticks | waits follow the stated rule; each moment is counted once and parts add up; an open wait is shown everywhere with its card; failures have issues and only they; on track means no issue; deliveries and answers stay |
| `record_stalled` (violation) | a planning run whose doors reopen | 8.2 |
| `services` | each service of the third group, one at a time (section 5) | what each promises: `GuessesAreLimited` and `AccountsAreCurrent`, `SuggestionsAreLimited`, `FigureIsComplete`, `OneAtATime`, `SocketsAreShut` and `EveryRequestEnds`, `AnswersAddUp`, `PagesAgree`, `MicrophoneIsShown`, `FilesAreWhole` |

`record`, `mirror` and `services` take two to three and a half minutes each with two workers, the others under half a minute to a minute.
What the passing runs assume of the outside is a constant each; section 8 says what happens
without it.

## 5. Bounds

Every bound is a conjunct commented "bound" in its guard, or a constant of `MCFactoryRecord` and `MCServices`.

* `MaxReads`: in `answers` 4 with the threshold of 3, one pass more than the threshold, so an
  answer can be declared unrecorded and one pass can still overlap; a claim's base is at least 1,
  because a copy is fresh only after a counted pass. `rebuilds` scales both down by two (2 and 3):
  the argument is about threshold minus overlap, not its size. In the two fair runs, where the
  threshold is not the question, 2 with thresholds of 1 and 0. In `mirror` 2; passes that write and are
  then abandoned or stopped are not counted, so the copy is rewritten any number of times.
* Two presses: every conflict in the claim store is between the holder and one other. Two settling
  pages only where they can overwrite each other's verdict (`rebuilds_live`): claims are
  only ever marked or deleted by generation, so one settlement with arbitrary delay between its
  three steps already meets every state of the claim.
* `OverlapLimit`: `PassBegin` lets at most this many passes overlap one submission. A submission's
  waits are bounded by its timeouts (3 s busy wait, 5 s connect, 5 s flush), and the feed
  sleeps 15 s after each pass, so one pass; across a start of the feed two (section 8). The
  theorem keeps it a parameter.
* `MaxRows` 2 and two kinds of row in `mirror`: a table can be restored shorter, refilled with different
  rows, and read from an id in the middle. Two tables, so that one is rewound while the other grows.
* `MaxSeq` 3: an update received or pruned, one in flight and one unsent; two subscribed sections, so that a refetch is several updates
  and an update of one follows one of the other.
* `MaxChanges` 2: a request may hold content one or two changes old, and a change held back by
  a stop of the feed is told by the next. One tick, one answer and one stop: each only makes two versions
  differ, or once not differ.
* `record`: `Starts` lets each behaviour begin where its kind of story does (queued, planning, building, two attempts
  under way at once, two merges approved, a mission proposed, a mission whose part is joined), so three rows (`FewRows`, fewer where
  two builds or a mission multiply) reach every pair of rules that can meet: pause, work and decision; offer,
  decision, step and re-offer; door, verdict and second door. `MaxClock` 2 with thresholds of 1 and 2: a wait
  can be green, amber and, after the clean-up rule's `UnbackedEnd`, unmeasured.
* `services`: the services share no variable but the clock, which none of them resets, and no operator reads another's state;
  so a behaviour of all of them is one of each, and every property, being about one
  service, holds of the composition when it holds with the others at rest. `focus` is which one runs: the state spaces add up instead of
  multiplying. `Horizon` is how long the clock runs for each. Sign-ins, and posts of one account, differ by their names only, so `InTurn` begins them in the order of
  their names.
  * sign-in: three requests against a limit of two, one edit, window and lockout of one tick; an account renewed, moved
    to a client, taken out or made unusable.
  * suggestions: four posts of two people against two in an hour of two ticks.
  * costs: three calls (priced by LiteLLM, by the list, not at all) of one tag, pages of one row, an overlap of two ticks; one may be
    written later than the overlap covers, which only the daily check finds.
  * questions: two requests are enough for every conflict over a lock, as a lock has one holder and one who finds it taken; one question
    and one note an hour of one tick, so the second meets the limit or comes when the hour is over. A call's budget is no number of ticks: it
    runs out at any instant, before or after the reply.
  * pages: two projects and a client, a feature without a code, one sent before tagging, a mission, an issue of each
    kind, eleven questions, one pass during a question.
  * microphone: three requests, answered in any order. Files: two edits, two changes of the store, five texts,
    one of them broken, one with a repeated id.

Presses, asks, tables and kinds of row are symmetric where no liveness is checked.

### Assumptions about the outside

* `Tellable` (mirror), `OverlapLimit`, `PruneInReplay`, `QuietHour`, `OldPages`, `BrokenRefetch`, `SlowPage`: as above and in section 8.
* An open stream reads a row of the change log before it is an hour old (`MayBeOld`; `CHANGE_LOG_KEEP` against a look every second).
* Freshness, once lost, comes back with the next stamp of a pass. A heartbeat that comes back earlier can restore it too (`dbread.py:100-118`); a press
  that falls in the gap is told "stale", which `Check` allows at any time, and a settlement there declares nothing, as one that failed.
* LiteLLM only adds to its log: rows pruned there while a pass reads or a day is checked are not modelled.
* A mission's merges complete: a mission merge that fails (`tests/test_norms_and_issues.py:423`) is not among the histories of `record`. Nor are an open product-docs
  door or a checkpoint's card, which the operators have and `Starts` does not reach.
* `Lockout >= Window` (sign-in): both are 15 minutes in the code. The throttle is memory of one process: a restart of the board
  clears it, and each property is about one run of it. Each edit of `accounts.yaml` and `plans.yaml` has a time of its own.
* `Late + PassTime <= Overlap` (costs): a call written at most `Late` after it started, by a pass that takes at most
  `PassTime`, is within the overlap of the next pass. Later ones are left to the daily check, which the property says.
* `CallsAssumption` (costs): finitely many calls; times, tokens, spend and prices are no less than 0, and ids are positive, as a cursor starts below each of them.
* `PagesAssumption` (pages): a key is one feature's or one issue's, and so is a code that is not empty (`load_factory` groups builds by code); tags and clients' projects are not empty strings (`_tenant_projects` keeps no others), "operator" is
  no client; nothing is recorded in the future; a call has a tag only since tagging started (`costs.py:216`: calls before it "were not tagged by feature").
* A request is made once. A recorder's stop, a sound's end and a refused `play()` call back before the next press of a person; one that comes after it is not covered.
* Days are the London calendar's; the change to summer time is abstracted.

## 6. Fairness

* `WaitingEnds`: coroutines go on (the event loop runs them); pages poll every 30 s, so a settlement
  always follows, and each of its two uses of a database succeeds again and again (strong fairness: a
  locked database is tried again by the next poll). Nothing is assumed of the feed, Forge or the bus:
  that the passes went by and the copy stays fresh is the premise of the property, and the design's own
  condition, for while the copy is not fresh nothing is declared.
* `FinishedIsNoticed`: the settlements of one page that stays open (`Polling`); others may stop anywhere.
* `ChangeIsHeard`: the browser reconnects, and a connection may break for ever but not each time
  before one update got through.
* `PageCatchesUp`: the feed tells what it wrote; polls go on; requests get through again and again.
  Failing requests (`RequestFails`) need no fairness and may go on for ever.

* `EveryRequestEnds` (`AskFairness`): the thread of a request goes on, and a bounded join comes back. Nothing is assumed of a call's
  worker, which may never connect, never answer and never end; nor is the clock needed, since a budget is not counted on it. How long a
  request takes is therefore not claimed: the model's part is bounded by its budget, and what comes after the reply, a query and its phrasing under the chat's
  lock, has no limit in the code.

No fairness is stated for Forge, LiteLLM or a person.

## 7. Proofs

Seven modules hold the theorems, one per component or group, and an eighth, `DataInduction`, lemmas two of them share. Each theorem is about every value of the
constants that satisfies the module's assumption; a further condition stands in its `ASSUME`, and a last
column below says why the code meets it, or what was seen to fail without it. Each proof is one induction: the invariant holds at first,
every action keeps it, and it implies the property.

| theorem | states | conditions beyond the module's assumption |
|---|---|---|
| `TypeCorrect`, `AlreadyIsNeverWrong` | `TypeOK`, `AlreadyIsTrue` of `AnswerClaims` | none |
| `NotRecordedOnlyWhenEarned` | `NotRecordedIsEarned` | the threshold |
| `CountsNeverFallBehind`, `SentAnswerStaysHeld`, `OneSenderAtATime` | `CountKeepsUp`, `SentAnswerIsHeld`, `OneSenderPerOpenCard`, while `rebuilds = 0` | the threshold |
| `OnlyTheRecordClears`, `ClaimsAreALease` | `ClearedOnlyByTheRecord`, `ImplementsLease` | the threshold, `MaxRebuilds = 0` |
| `MarksTypeCorrect`, `DoneIsAlwaysProved` | `TypeOK`, `DoneIsProved` of `RebuildMarks` | none |
| `UnconfirmedOnlyWhenEarned`, `AskStaysHeld` | `UnconfirmedIsEarned`, `AskIsHeld` | `OverlapLimit = 1` |
| `MirrorTypeCorrect`, `CopyAlwaysFits`, `CopyIsAlwaysTold`, `MirrorIsOneRead` | `TypeOK`, `CopyFits`, `EveryChangeIsTold`, `ImplementsFeedPasses` of `ForgeMirror` | none (`Tellable` is in the model) |
| `ChannelTypeCorrect`, `StaleStaysOnItsWay`, `NothingIsMissed` | `TypeOK`, `StaleIsOnItsWay`, `NothingMissed` of `EventChannel` | `~PruneInReplay`, `~QuietHour`, `~OldPages`, `~BrokenRefetch` |
| `PageTypeCorrect`, `ShownNeverGoesBack` | `TypeOK`, `NothingGoesBack` of `LivePage` | none |
| `RecordStaysHonest` | `RecordIsHonest` | `~SlowPage` |
| `GuessesStayLimited`, `AccountsStayCurrent` | `GuessesAreLimited`, `AccountsAreCurrent` of `SignIn` | none |
| `MicrophoneStaysShown`, `SuggestionsStayLimited`, `FilesStayWhole` | the property each of `Microphone`, `Suggestions`, `FeedFiles` is run for | none |
| `QuestionsStayOneAtATime`, `SocketsAreAlwaysShut` | `OneAtATime`, `SocketsAreShut` of `Ask` | none |
| `FiguresStayComplete` | `FigureIsComplete` of `CostImport` | none |
| `AnswersAlwaysAddUp`, `PagesAlwaysAgree` | `AnswersAddUp`, `PagesAgree` of `Reading` | none |
| `RecordType`, `WaitsAlwaysFollowTheRule`, `DeliveryIsKept`, `AnswersAreKept` | `TypeOK`, `WaitsFollowTheRule`, `DeliveredStays`, `AnswersStay` of `FactoryRecord` | none |
| `FailuresHaveIssues`, `OnTrackIsClean`, `OpenWaitsAreShown`, `MomentsAreCountedOnce` | `FailureHasIssue`, `OnTrackHasNoIssue`, `OpenWaitIsShown`, `EachMomentOnce` of `FactoryRecord` | none |
| `WalkFollowsTheRule` | for every sequence of rows, `Walk` gives the waits of `WaitsByRule` | the rows' times are recorded |

*The threshold* is `NotRecordedAfter >= OverlapLimit + 2`: with the code's 3 it covers one overlapping pass, which is what the feed's pause of
15 s between passes leaves room for (section 5). It is needed: with `OverlapLimit = 2` in `MCAnswerClaims.cfg` TLC finds an answer declared
unrecorded after one pass (section 8). *`rebuilds = 0`, `MaxRebuilds = 0`*: when `readmodel.db` is deleted, the empty copy shows no card, so a
settlement removes claims the record never closed and counting starts again; these properties are false afterwards (section 8). The action property and the refinement
speak of whole behaviours, so their condition is on the constant. `OverlapLimit = 1` in `RebuildMarks` is the same
timing assumption, its design promising one pass fewer. The other conditions are the circumstances of section 8, each with the trace TLC finds without it.

### Answers (`AnswerClaimsProofs`)

`NotRecordedIsEarned` alone is not inductive: nothing in it links a claim's count to the passes
since its answer. The invariant is `IInv == TypeOK /\ PassesCounted`, where `PassesCounted` says
of every count in existence (in a coroutine, in a stored claim, in a claim a settlement has
read) that it is *covered*: the feed has counted since then no more passes than began after the
answer was published plus those that overlapped the submission, one under way included. A count
that has grown by the threshold then leaves two of the first kind, so every mark decided or
written is earned. There is one lemma per group of actions; steps that start no
submission and move no count share the lemmas `StillCounted`, `StillCovered` and `LaterInv`.
A deletion of the store lowers `reads` and so keeps every count covered: the theorem
needs no assumption about it.

`AlreadyInv` says that the copy, and the snapshot a pass or a settlement holds, never show a card further than the record has gone. `CountInv` bounds counts
from the other side (`Up`): no count is ahead of the passes by more than can overlap a submission. `LeaseInv` adds, while the store is kept, that what was claimed
or read by a settlement was a card in the copy (`Shown`), that a press between its claim and the end of its send has its claim or the copy shows the card closed (`Holding`), and that a sent answer has its claim
until the record or its passes end it (`Kept`); what a settlement is about to delete is the claim of a card its snapshot showed closed, and a closed card stays closed. From it the refinement maps each step of a press, a settlement, the feed or Forge to a step of `OneAnswer` or to none.

### Rebuilds (`RebuildMarksProofs`)

`IInv == TypeOK /\ PassesCounted /\ CopyBehind /\ MarksAreTrue /\ OffersAreShown /\ AsksWait`: counts are covered as above, the copy counts no more rebuilds than the record,
every mark that is stored, read or about to be written says what the record and the passes allow, a press submits a count the copy has shown, and an ask that was sent still has its mark.

### The copy of the record (`ForgeMirrorProofs`)

`IInv == TypeOK /\ CopyFits /\ AllTellable /\ TakenInPass /\ ToTell /\ EveryChangeIsTold`: the snapshot of a pass, put after the rows we hold, gives back the ledger as it was when it was taken; and only between a write and its
notification may the pages know of another copy (`ToTell`), so a write that finds nothing to change leaves them right (`SilentWrite`). Every step then is
a step of `FeedPasses` under the mapping of section 3, so what is proved of `AnswerClaims` and `RebuildMarks`, which take a pass as one read, is about the passes the code makes.

### The live-update channel and the page (`EventChannelProofs`, `LivePageProofs`)

The invariant of the channel has four parts beside `StaleIsOnItsWay`: `Order` (types; the log's rows are a run of consecutive ids ending at `head`; every cursor and last
id is behind it), `SentInTurn` (ids in the pipe and the list never decrease, and one that is later than the one before tells of a row, not of a refetch), `QueueCovers` (no row is passed over: one behind an id about to be sent
is sent too), `StaleOutlives` (a change the page has not heard of would be sent again were the connection to break now, or is in a refetch that is half received; this is where `BrokenRefetch` is needed). `EventsSince` is written with `InOrder`, the rows of
a set in order of their ids: ids are distinct, so that is the order of the log.

For the page, `RecordInv == TypeOK /\ ToldAfterWritten /\ ReadIsNewest` is enough for sections never to go back: a response is as new as all that is shown, because all
share one slot. `PageInv` adds `OneMain` (one request for the page at a time, none while a poll is out, which is what `SlowPage = FALSE` buys) and `VersionIsShown` (no section is older than the version the page compares).

### Services (`ServicesProofs`)

* Sign-in. `ThrottleInv` says of every attempt since the last
  success that the throttle no longer counts that it is *forgotten*: out of the window, or from before a lockout that still runs. Reaching the limit
  clears the count, and without the second half those attempts would be unaccounted for while a new
  count begins; because the lockout is no shorter than the window, they are out of the window when it
  ends, and the attempts in the window are at most the counted ones. `AccountsInv` orders the stamps (the
  cache's never runs ahead of the file's), says that a cache with the file's stamp holds what the file
  says, and that what a request finds in the cache after its look is among what the file said since it began,
  also when another request has read the file again between.
* Microphone. `MicInv`: what is live was given to the latest request, which waits no longer, and recorder, timer and button move together.
* Suggestions. `SuggestInv`: the lock is held by the one post that is inserting, rows are saved posts, and that post found room in the hour before its stamp (`RoomIsLeft`).
  A post saved late with an early stamp counts the rows stamped after it too, so it cannot overfill an hour that ends at one of those: that is what makes stamps taken before the wait for the lock safe.
* Files. `FilesInv`: the summary's temporary file is the writer's, and while a text of `plans.yaml` is being copied the rows so far are the last of each id among its first lines, as long as
  its stamp is still the file's (`HalfMirrored`).
* Questions. `AskInv`: a call that was given up has its socket shut, or a worker or asker that is about to shut it (`SocketsShut`); a lock is held by exactly the request that is at a place that holds it (`LocksInv`).
* Costs. `CostInv` says what is read at each stage of a pass. `NoneSkipped`: a prompt call that started more than the overlap before a stored one is stored, so the next pass, which starts that much
  before the newest, finds the rest. `PassReads`: a prompt call in the log when the pass began is stored or still ahead of the cursor (`Awaits`), in whatever order its row came; once the pages are over all such are stored (`AllRead`), and once
  the days that differed are, so is every call of the days it checked, however late its row (`DaysRead`). A prompt call written while a pass runs cannot be behind it by more than the overlap, because `Late + PassTime <= Overlap`
  and a pass is in time (`PassInTime`). A page that comes short is the last of its range (`ShortPage`); a day whose counts agree holds the same calls, as what is stored of a day is always part of what the log has of it. The figure then
  sums over a set that includes the promised calls, and every price is at least 0 (`SumBelow`).
* Answers. `ReadInv`: a store only goes on, an issue in it is about something on record, and every read of a question saw the store its snapshot fixed (`SawSnapshot`). `OneStoreAddsUp` is then about one
  store, query by query: a list and what it leaves out are all of it (`ListedAndMore`, `RecentIs`), the measured and the unmeasured are all of a project (`InTwoParts`), what was found has a page (`AboutIs`).
* Pages. `PagesAgree` follows from the same `ReadInv`. A day up to today is in exactly one of the weeks, unless it is before them all (`OneWeek`), so the weeks' deliveries and calls share nothing and add up (`WeeksDeliver`, `WeeksSpend`).
  The second needs that no call was tagged before tagging started: `tagged_spend` answers a week that ended before then without looking at the log, and the whole page by the log. The issues page adds up because an open issue is about something on
  record (`IssuesPageIs`). A client's cut of a plan tracks no code of another's, as a code is one feature's (`TrackedIsMine`), and its spend is part of the operator's whatever the projects' states of measurement (`SpendIsMine`).

### The record (`FactoryRecordProofs`)

What the dashboard derives from a log is computed row by row, so these proofs need an induction over the log's length. The library's induction theorems take the
hypothesis as an operator, which none of the provers instantiates; `DataInduction` has its own, about *sets* of numbers, and proves it from the ordering of `Nat` being
well founded: a set that holds 0 and with n its successor holds every number (`UpTo`). The hypothesis of an induction is then a set, `{n \in Nat : ...}`, and a recursive function is what its steps
say it is (`Recursion`). A sum over a set is taken the same way, one element at a time (`SumIs`); the sizes of finite sets that share no element add up to the size of their union (`SumOfApart`). `Factory` is written for this: `RowsAt` (the rows at given places) and `Walking` (`_walk` after each row) are recursive functions.

* The waits. `WalkedTo` relates the walk after n rows to the rule for the first n rows: the waits it has closed are those of the runs of openings that are over, and
  its open one, with the moments it was first and last seen, is the run that is not, with `worked` saying whether work came after. Each row then extends the rule by one (`WalkFollowsTheRule`, for any rows
  at all, whether or not Forge could write them). That the rows of builds and runs have a recorded time each is `TypeOK`'s.
* The delivery. `RecordInv` adds to the types that a mission's parts are marked as its features, without which a part would count as delivered by its own join.
  `Grows` says what a step may do to what the delivery is read from: a build keeps its role and its log, which gets at most one row, at its end and at the present time; builds are added after the others, without rows;
  a mission's merge build stays and its log only grows. So the earliest row that says merged stays where it was and no later row has an earlier time, and with it the standing and its date. Each action has a lemma; `RecordStep` puts them together.
* The answers. `RecordInv` also says what each request is asked under: offers of build n under the merge request n, pauses under a gate or a budget, the openings of a door
  under the numbers below the count of its rounds, the plan under its own (`BuildsAsked`, `RunAsked`, `PlanAsked`). So a request is shown as one card, wherever it is shown (`CardsAreAsked`), and a card with
  an answered card's request is of the same build, door or plan. `Grows` then says what that may be given next: no offer and no decision once a merge is decided, a door's openings under a new request or the
  open one, and a plan's answer once. The proof needs the code's reading of a door, that the verdict is the first row after the latest opening: a row that follows a verdict (the move to CANCELLED after a Stop)
  would otherwise replace it. That Forge decides a merge once and numbers its requests is modelled, not read off this repository.

* The issues. `FailuresHaveIssues` follows the last attempt on both sides: what `_where` makes of it (`OutcomeIs`) and what `_build_issues` makes of each attempt (`BuildIssueIs`). The two read
  different rows, an end that is not backed by a row and a merge decision among them, so each outcome is worked out once and compared. For a mission `RecordInv` adds `MergeDone`, that the build of its own merge
  is complete: its issue is about that merge's rows only.
* On track. `OnTrackIsClean` takes each signal to the issue that goes with it: the longest wait is no shorter than the open one (`LongestIs`), the quiet spell is one value for both (`QuietSpell`),
  and a feature with an outcome that has a colour of its own is never green (`OnTrackIs`). The thresholds may be any numbers, the amber one below the green one too (`NormAssumption`).
* Open waits. A wait that has no end began with an opening after which no row closes (`OpenWalk`), so at a door the last row is an opening and its card is open (`DoorWaitHasCard`); a paused build has its
  gate's card (`GateWaitHasCard`); and an offer that nobody decided is the last offer of a build whose merge is neither decided nor retired (`MergeWaitHasCard`). The last needs
  what `RecordInv` says of the order of rows: a build's offers all come before its decision and its retirement. `NeedsYou` hands all the
  cards to one wait, the latest, or, where none is open, to an item each: so every open card is shown once (`EachCardOnce`).
* Times. The spans, cut to a feature's time, cover of its moments what the spans cover (`ClippedAre`); each moment lies in exactly one piece between neighbouring cuts (`OnePiece`), and a piece is one period's from end to end.
  So the seconds the sweep gives a period are as many as its moments (`SweepCounts`), whatever the spans are, and the periods' moments are together those between sending and end (`TimeAddsUp`). That the spans of a
  record have times or none at their ends is read off `TypeOK` (`SpansAre`, `EndedIs`).

`NoneAssumption` says that the value for "nothing recorded" is no build, no mission, no planning run, no row of a build, and no request of a door, a gate or a budget, `RecordAssumption` that it is no number and that the parameters are
among the kinds the code knows, `NormAssumption` that each signal has two thresholds. `CallsAssumption` and `PagesAssumption` are explained in section 5.

### Only model-checked

* All liveness (`WaitingEnds`, `FinishedIsNoticed`, `ChangeIsHeard`, `PageCatchesUp`, `EveryRequestEnds`): the prover has no `ENABLED`.
* The two violations of section 8: a theorem cannot state them.
* That an action of the model is ever taken, and that the bounds above let the interesting cases happen: the runs show it.

## 8. Where the code and its documents disagree

Two runs TLC must find violated; PROJECT.json quotes the lines.

1. `answers_one`: a press that checked before Forge recorded another answer can claim after a
   settlement removed that answer's claim; a second answer is sent, though "only one answer is ever sent".
2. `record_stalled`: `planning_waits` knows the spec and product-docs doors only, and takes any later row but an opening or a pause as
   an answer; so with a sign-in card open, or a spec door reopened after a restart, the feature has no open wait
   and is reported stalled, though a stall is the silence of a feature that "is not waiting for a person".

Met while modelling, and described here only. The first four can be seen by changing a constant:

* with `readmodel.db` deleted and the feed not back, `settle` finds no card and removes every claim (`claims.py:301`),
  though "a stopped feed never clears a claim" (`claims.py:13`): `MaxRebuilds = 1` in `MCAnswerClaims.cfg`, `ClearedOnlyByTheRecord`;
* `replay_or_refetch` reads `min_seq` and then `events_since`, with no transaction round the two (`sse.py:73-76`), while the feed's
  process prunes by age alone (`forge_mirror.py:253-254`). A page whose last id is 1 comes back after an hour; the lowest kept row is 1, so a replay is chosen; rows
  1 and 2 are pruned, and row 3 alone is replayed. The section of row 2 is never told of, though `sse.py:69-70` promises "the exact missed notifications": `PruneInReplay = TRUE`
  in `MCEventChannel.cfg`, `NothingMissed`. The page's poll of its version may still bring the change;
* after an hour without a change every row is pruned, `min_seq` of the empty log is 0 (`sse.py:74`), and a page that missed the last of them is replayed
  nothing instead of being told to refetch: `QuietHour = TRUE`, `NothingMissed`;
* a refetch of all sections gives each the newest id (`sse.py:61`): broken off after the first, the
  rest are not replayed: `BrokenRefetch = TRUE` in `MCEventChannel.cfg`, `NothingMissed`;
* a pass stopped after its write and before its notification leaves a change that no later pass tells of, because each tells only of what it changed
  itself (`forge_mirror.py:246-249`): a page keeps the old section until the next change that is told, or the version's five-minute tick. `EveryChangeIsTold` says that
  this is the only way;
* of a burst of updates only the first and the last waiting are fetched (`sse.js:77` against its line 4), because all share the body's slot. The poll
  repairs it, 30 s later: `PageCatchesUp` holds nevertheless;
* an approved merge that a clean-up retired leaves the "merge check" part open on a feature that ended as not merged (`timing.py`, `_spans`;
  the clean-up is that of `tests/test_factory_model.py:102`);
* an issue of an attempt that ends after the next was queued closes before it opened (`issues.py`, `_build_issues`);
* calls stored by a cost pass that then fails are told to no page until a later pass stores another: `import_once` records the change at its end
  (`cost_import.py:238-249` against the comment at 48). `shown` in `CostImport` keeps the difference;
* `accounts.yaml` made unreadable by its permissions alone keeps its time and size, and so its accounts;
* a YAML error in `plans.yaml` ends the plan loop and with it the feed, though "the loop never crashes" (`plan_mirror.py:82`): `LoadPlans`
  goes down. The plan's rows are committed one by one, so a report in between shows part of the old plan and part of the new, and
  no change is recorded for it;
* the chat lists projects from features only (`tools.py:189`), the Projects page also from missions;
* a mission begun before tagging counts in the operator's report, while its project's page says "not measured".

Circumstances the passing runs leave out, each a constant to change to see the trace
(checking the named property alone):

| circumstance | constant | what then fails |
|---|---|---|
| the feed starts inside a submission: its boot pass and first pass follow each other without the pause | `OverlapLimit = 2` | `NotRecordedIsEarned`: one pass too soon |
| `readmodel.db` is deleted, so `read_count` starts again | `MaxRebuilds = 1` | `CountKeepsUp`: a claim waits for as many passes as the old store had counted |
| rows a page missed are pruned between the two reads of its replay | `PruneInReplay = TRUE` | `NothingMissed` |
| no change for an hour: every row is pruned and there is no window to be outside of | `QuietHour = TRUE` | `NothingMissed` |
| a page outlives the deletion of `readmodel.db`: its last id is ahead of the new log | `OldPages = TRUE` | `NothingMissed` |
| a connection breaks between two updates of one refetch, after the first gave the browser the newest id | `BrokenRefetch = TRUE` | `NothingMissed` |
| a page request still loads when the next poll comes: the second, queued, finds `#main` replaced and swaps in its version only | `SlowPage = TRUE` | `RecordIsHonest` |

More belong to the shape of the code and bound what a property may say. A send whose flush failed after the
broker took the message is treated as not sent, so its card can be answered twice: `SentWell` leaves
such answers out. The count kept with a rebuild mark is the copy's, which lags, so `DoneIsProved` is about
the count the person was shown. The answers a page shows and the token in its version are two reads,
so nothing is claimed of the answers shown. Suggestions are stamped before the wait for the lock, so the limit is one of
hours that end at a row's own time. `FailureHasIssue` is claimed until the same request is sent again, which closes an issue and not a failure.

## 9. Not modelled

* wording, layout, templates, the envelope's fields, log lines, stage names and captions: no state;
* service checks (`health_polls.py`): each pass overwrites one row per service and keeps nothing;
* store bootstrap and configuration, other than `plans.yaml`: idempotent, at start-up, behind SQLite's own lock;
* the changes list, the command line of suggestions, health panels, the summary's wording;
* bcrypt, cookies' signatures, audio decoding, the phrases of a period, SQLite and NATS themselves: a transaction is one step,
  a published message may be taken or not, a recording is a length;
* the cost part of the data version, the connection dot and the drifting chips of the page.

## 10. Plan

1. *Done:* answering and claims with the feed's passes; the lease; rebuild marks; the mirror and
   its refinement; the event channel; the open page; the record of a feature with its waits, cards, times, norms and issues; sign-in,
   suggestions, costs, questions, pages and answers, microphone and files; the theorems of section 7.
2. *Done:* a theorem for every invariant, safety action property and refinement the passing runs check.
3. *Later, models:* an abstract specification of the cost import (each call imported, eventually) with liveness under a log that stops
   growing.
