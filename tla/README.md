# Formal models of Code-Reviewer

TLA+ modules, TLC configurations and TLAPS proofs about the reviewer in
`src/reviewer/`: a FastAPI application and an arq worker that review GitLab merge
requests (and Confluence pages) with a language model behind a token budget, post
their findings as comments and set a commit status. PostgreSQL keeps the state, Redis
the queue; nothing else survives a crash. Paths below are relative to
`src/reviewer/` unless they start with `src/`.

## 1. Inventory

| Component | State it keeps | Operations | Talks to |
|---|---|---|---|
| States (`orchestrator/states.py`) | none: adjacency map, order, stop rule | `check_transition` | store |
| Store (`store/repositories.py`, `store/models.py`) | review rows, triggers, units, findings, intents, chat, events | `accept`, `transition`, `cancel`, `mark_status`, `pending`, `save_unit`, `claim_*`, chat and run markers | everyone; transactions and advisory locks |
| Webhooks, dashboard API (`api/`) | durable manual triggers | receive, request, stop, comment, ask | queue, store |
| Worker (`worker.py`) | jobs in Redis, the advisory lock of each merge request | `_receive_event`, `run_review`, `recover`, the stop poll | store, pipelines |
| Pipeline (`orchestrator/pipeline.py`) | local outcome of a run | `run`, `advance`, `finish`, the stale handler | GitLab, store, stages, publisher |
| Decision (`decision/engine.py`) | none | `decide`, `status` | pipeline |
| Budget (`orchestrator/budget.py`) and gateway (`services/llm/client.py`) | tokens used and reserved, slots | `reserve`, `settle`, `complete` | every stage, audit table |
| Stages (`orchestrator/stages.py`, `streaming.py`) | queue of units, coverage, checkpoints | `execute`, `FileStream` | gateway, store |
| Verification (`orchestrator/verification.py`) | verdicts | `verify_findings` | gateway, store |
| Publisher (`publish/publisher.py`, `rereview.py`) | published comments, summary marker | `publish` | GitLab, store |
| Comments (`publish/comments.py`) | drafts and intents | `sync`, `act` | GitLab, store |
| Recheck (`publish/recheck.py`) | verdicts on open threads | `evaluate`, `publish` | GitLab, gateway |
| Accounts (`accounts/service.py`) | users, sessions, throttle | `activate`, `login`, `manage` | API |
| Credentials (`accounts/credentials.py`, `execution.py`) | pinned versions | `load`, `PersonalForge` | worker, GitLab |
| Chat (`accounts/chat.py`) | conversations, chat budget | `answer_chat`, `recover_chat` | gateway |
| Findings (`findings/`) | none: pure | validate, deduplicate, suppress, policy | pipeline |
| Documents (`orchestrator/document_pipeline.py`, `publish/document_*.py`) | the same rows, page versions | `run`, footer comments | Confluence, store |
| Activity (`telemetry/activity.py`, `api/events.py`) | numbered events | append, stream | dashboard |
| Git (`services/git/service.py`) | mirrors, worktrees | fetch, diff, clean up | pipeline |
| Sandbox, static checks | containers | bounded builds | pipeline |
| First-milestone machine (`orchestrator/machine.py`) | the same rows | `run` | store |
| Context, configuration, prompts, clients, redaction, frontend, scripts | none that outlives a call | text and HTTP | |

What is hard, and what has to hold:

- **Admission and supersession.** Hooks, commands, manual triggers and a stale run's
  own readmission race. One unfinished review per merge request, one per event, and
  no command displaces another account's review.
- **A row written by several actors.** The run, a stop, a close webhook and
  supersession all write the state, and `advance()` and `finish()` look at it in one
  transaction and write it in another. Final rows must stay, and what is published
  and set on the commit must agree with the row.
- **Crashes and lost jobs.** A job dies at any await; the 30-second sweep starts the
  review again from the row it left. Every review must end and have its status
  delivered, with no report twice.
- **Stale reads.** The head, the open flag and the credentials are read before awaits
  and used after them.
- **Budget.** Concurrent units reserve from one ceiling, wait on a condition and
  settle also when cancelled; nothing may leak, and verification keeps its reserve.
- **Publication.** A crash between a POST and its record; the same finding must not
  be posted twice. A thread is closed only for a verdict that allows it.
- **Accounts and chat.** The last administrator, concurrent questions under one
  ceiling, ambiguous outcomes of comment writes.

`PROJECT.json` lists the hazards at their lines with the properties that cover them; those no
property covers are at the end of section 4.

## 2. Plan

In order of how much depends on them. Each module keeps its parameters as CONSTANTS
with named assumptions, has one action per step between awaits and no RECURSIVE
operator, so that it can be proved about.

Done, checked and proved about: 1. `ReviewStates`, `ReviewLedger`, `ReviewLifecycle`;
2. `TokenBudget`; 3. `UnitStage`; 4. `FindingFlow` (verification, policy, merging, triage,
decision and selection in one module, since a finding passes through all of them);
5. `Publication`; 6. `Recheck`; 7. `Accounts`; 8. `DocumentReview`; 9. `ActivityStream`.

Left:

10. `Chat`: questions answered at the same time under one token ceiling, the hourly
    limit, recovery of unanswered ones.
11. `GitWorkspace`: mirrors, worktrees, their cleanup under concurrent runs.
12. The first-milestone machine, sandbox limits, partitioning of context.
13. Snapshots and the pipeline webhook in `ReviewLifecycle`.

Every invariant and action property that a run checks has its theorem in section 6. Left to
state and prove: the ledger refined by document reviews.

## 3. Modules

| Module | Models | Role |
|---|---|---|
| `ReviewStates` | `orchestrator/states.py`, `decision/engine.py` `status()` | states, adjacency, the status code |
| `ReviewLedger` | what the store promises | abstract specification: rows opened in order, one open, closed rows stay, closed ones settle |
| `ReviewLifecycle` | store, worker, webhooks, pipeline, personal client | one merge request, all its reviews and their runs; implements `ReviewLedger` |
| `TokenBudget` | `orchestrator/budget.py`, `services/llm/client.py`, `store/audit.py` | the model calls of the reviews in one worker process |
| `UnitStage` | `orchestrator/stages.py`, `streaming.py`, `unit_plan.py`, `agents/base.py` | one stage: its units, workers, checkpoints and the files prepared early |
| `FindingFlow` | `findings/`, `orchestrator/verification.py`, `agents/severity_triage.py`, `publish/rereview.py`, `decision/engine.py` | what becomes of the findings of one review |
| `Publication` | `publish/publisher.py`, `publish/comments.py`, `api/comments.py`, personal client | the comments of one review, the worker's and the owner's |
| `Recheck` | `publish/recheck.py`, `publish/commands.py`, `recheck` of the pipeline | the answers in threads left open |
| `Accounts` | `accounts/service.py`, `accounts/credentials.py`, `api/accounts.py`, `api/profile.py` | accounts, sessions, credentials |
| `DocumentReview` | `orchestrator/document_pipeline.py`, `publish/document_*.py`, `api/document_reviews.py` | the reviews of one page and their comments |
| `ActivityStream` | `telemetry/activity.py`, `api/events.py` | the live view of one review |
| `MC<module>` | | the instance for TLC |
| `ReviewLifecycleProofs`, `TokenBudgetProofs`, `UnitStageProofs`, `FindingFlowProofs`, `PublicationProofs`, `RecheckProofs`, `DocumentReviewProofs` | | theorems about the module they are named after |
| `DashboardProofs` | | theorems about `ActivityStream` and about `Accounts`, whose specification is `AccountsSpec` so that both can be extended |

The modules meet where one component calls another, and each shows the other as the
choice it makes: `ReviewLifecycle` has one choice of decision where `UnitStage` and
`FindingFlow` have the analysis, and one step `Publish` where `Publication` has the
comments and `Recheck` the answers; `TokenBudget` ends a call in one of the ways
`UnitStage` asks about (`Answered`, `Refused`, `TimeOut`, `Break`).

### ReviewLifecycle

*State.* GitLab is `head`, `open` (open and not a draft), `commitStatus` and
`report`. A review row is `state`, `headSha`, `owner`, `eventId`, `decision`,
`delivered` (the row's `status_delivered_at`), `stopped` and `supersededBy`;
`admitted` counts them. `trigger` is the durable row of a manual trigger, `event` the
progress of each handler, `jobs` the queued `run_review` jobs, `run` the job holding
the merge request's advisory lock (a job waiting for it has done nothing, and is the
same as one still queued). `posted` is history: the last code a review's runs set.

*Actions.*

| Actions | Code |
|---|---|
| `Push`, `Toggle`, `Deliver`, `Redeliver`, `Revoke` | GitLab, its users and an account's settings; a webhook may arrive late and again |
| `Request`, `Stop` | manual trigger with or without its job; the stop endpoint |
| `ReadHead`, `Admit`, `Enqueue` | `_receive_event` and the manual job: head read, `accept()`, queue |
| `ReadActive`, `CancelReview` | `cancel()` of a merge or close hook, over two transactions |
| `Recover` | the sweep over pending triggers and rows |
| `StartRun`, `Load`, `ReadMergeRequest` | `run_review`, and the top of `run()` |
| `Check`, `Move` | `advance()`: one transaction looks, another writes |
| `Decide`, `HeadCheck`, `Publish` | analysis as a choice of its decision; the head again; threads and report |
| `Finish`, `PostStatus`, `MarkStatus` | `finish()` and `mark_status()` |
| `ReadNewHead`, `SupersedeStale`, `Readmit` | the stale handler |
| `Fail`, `Refused`, `Raise`, `Crash`, `LoseEvent`, `SeeStop` | exception handlers, a call refused for want of credentials, failures, the stop poll |

*Abstractions.* The analysis between two moves is left out but for its outcome, one
choice of decision: the states it visits are kept, since a crash or a stop may fall in
any of them. The personal client's check of a write and the write are one step. The
recheck of open threads changes no state of this module and is `Recheck`'s.
`Request` may come after the merge request or the credentials changed, since the API
looks at them earlier. A commit is a model value; a job queue is a set, since arq
identifies jobs by review and may retry or drop them.

### TokenBudget

*State.* For each review its `BudgetTracker` (`used`, `reserved`), `late` once its
deadline for model work passed, and `audited`, the tokens of its rows in the audit
table, by kind of stage. For each logical call `call`, where it is and on which attempt
and reparse, and `granted`, its reservation. `excess` (settled beyond a
reservation) is history.

*Actions.*

| Actions | Code |
|---|---|
| `Begin`, `Acquire`, `SlotTimeout`, `Reject` | `complete()` and `slot()`, client.py: deadline, the shared semaphore, calls refused before a reservation |
| `Reserve`, `WaitTimeout` | `reserve()`, budget.py: refuse, take or wait on the condition; its deadline |
| `Answer`, `AnswerUnmeasured`, `TransportFails`, `Backoff` | one attempt of `_complete()` with `settle()` in its `finally` |
| `WriteAudit`, `AuditFails` | the attempt's row, then the end, a reparse or a retry |
| `Cancel`, `Deadline` | timeouts of units, stages and jobs, an owner's stop |
| `Crash` | a job run again, `used` counted anew from the audit table (pipeline.py:320-350) |

*Abstractions.* The condition's lock is held over no await but `wait()`'s own, so
`reserve()` and `settle()` are one step each. Token amounts are small naturals with the
order that matters: a call wants `Want`, makes do with `Need`, and `Context` is charged
for what the gateway does not measure. The semaphore gives its slots in any order,
which allows more than asyncio's. A cancellation that strikes the audit may find it
committed or not. After a crash any finished call may be made again, since whether its
result was checkpointed is the stage's affair.

### Publication

*State.* One personal review and its merge request. GitLab is `mr` (as reviewed,
closed, or pushed to) and `notes`: by identifier, what each says (`key`: a finding's
fingerprint or the overall message) and whether it is a draft, open, resolved, a plain
note or gone. `late` marks a post that was not answered and is not to be seen yet.
`rows` are the `ReviewComment` rows with their status, receipts (`note`, `draft`),
saved `intent` and `conflict`. `job` is whoever holds `mr_lock`: the worker publishing,
a refresh, or a request of the owner, with what it read: the notes `seen`, the `drafts`, the
`slots` left below the ceiling. `drift` and `job.hidden` are history: what users brought to
life, or GitLab let appear late, behind the job at work, and the posted notes that the receipt
of an earlier one hid from the row of a request when it was reconciled (comments.py:124).

*Actions.*

| Actions | Code |
|---|---|
| `StartPublish`, `ReadPending` | `publish()` up to its loop: head, `existing()`, `pending()`, the room below the ceiling |
| `Skip`, `Prepare`, `Post`, `PostUnpositionable`, `PostFails`, `PrepareSummary` | the loop over findings, `remember()` before and after each post, the overall message |
| `Finish` | report saved, review published |
| `Inspect`, `Request`, `SyncDrafts`, `SyncRows` | the comments endpoints, `seed()` and `sync()`, which a request runs three times |
| `Decline`, `Undertake`, `Send`, `SendRejected`, `SendRefused`, `SendUnanswered` | `act()`: its conflicts and skips, the intent saved first, the write and what may become of it |
| `Crash`, `Land` | a job dies, its write perhaps done; a late post appears or never does |
| `HandResolve`, `HandReopen`, `HandDelete`, `HandPublish`, `HandChange` | users in GitLab |

*Abstractions.* Every finding is in a file of its own and on a line of the diff.
Findings are taken in any order, since a run taken up again may rank them otherwise. A
bulk request is its single ones in turn. Editing changes text only and is left out.
The personal client's look before a write and the write are one step. A draft published
in GitLab becomes a note with another identifier. What counts against the ceiling is counted
on what was read (`Threads`, `Slots`, `Counted`), so it is as old as the reading.

### UnitStage

*State.* What the store keeps: `checkpoint` by unit and identity of the stage (prompts,
models, configuration) and the merged `stage`. What the job has: its `step` and
`hash`, the shared `queue`, each `worker`'s unit, attempt and answers so far, the results
`completed`, and the file stream (`finished`, `early`, `outcome`). `exhausted` and `late`
are the refused budget and the passed deadline, `progress` the dashboard's counters.

*Actions.*

| Actions | Code |
|---|---|
| `Begin`, `Merge`, `Raise` | `execute()` before and after its task group; a save that fails cancels the rest |
| `Take` | a worker's loop: the checkpoint first, then the reasons to skip, then the model |
| `Answered`, `Refused`, `TimeOut`, `Break` | the ends of a call: context round, coverage retry, exhausted budget, unit timeout, exception |
| `Save` | `save_unit()`, which keeps what is there, and the word to the stream |
| `Prepared`, `FinishFile`, `Settle` | `FileStream`: early work, used if its findings are the stage's |
| `DeadlinePasses`, `Crash` | |

*Abstractions.* An answer is what it says of its unit, whether it asks for new context,
the file of its finding and whether findings were cut; a finding is its file. The stream's
comparison of findings is that of counts per unit and file.

### FindingFlow

*State.* What a review starts from (`proposals`, `diagnostics`, `attributed`; `earlier`, the
findings of the review before as they were saved, and `again`, those whose lines an incremental
review finds again and carries over), the list on its way (`fresh`, then `findings`) with those
that await a verdict (`todo`), what was lost (`lost`, a verdict to the budget or the deadline;
`scopes`, a claim of absence held back), whether a required static check or build command
`failed`, the `decision` and what is `shown`. `confirmed` is history.

*Actions.* `Prepare` (validate, set aside, deduplicate), `Judge` and `Unavailable` (one
verdict, or none to be had), `Join` (what a build established), `Settle` (policy), `Finish`
(triage, adopted identities, the final merge, the decision and the selection). The
algorithms are operators of their own: `Validated`, `Fingerprint`, `Related`, `Combine`,
`Deduplicate`, `Normalize`, `Demoted`, `Adopt`, `Triaged`, `Decide`, `Select`.

*Abstractions.* A claim's text is the set of its words, its similarity the share they have
in common; where its lines are (added, in the diff, elsewhere in the file, in another file,
nowhere) is part of the claim, as validation finds it. A required check that failed requests
changes before any finding is looked at; which one, and what it printed, are left out, as are
the findings of the secret scan, which head the final list, are graded as suggestions and never
block; no property is about them. A carried finding keeps its lines,
which is what it is carried for. `Triaged` gives each candidate any
of the `Judgements`. `EarlierAssumption` says of earlier findings what a review may leave: a
finding that stands was not refuted, is graded, requires changes only on a confirmed grave
claim of its change, and claims an absence only when that was established. The theorem
`LeavesSound` shows that every review leaves such findings.

### Recheck

*State.* GitLab is `mr`, `open` threads, `replies` in the order they appeared and `drafts`;
`outcomes` are recorded feedback, `published` the latest published review. `queue` and `job`
are the jobs and the one under the lock, with what it read; `recorded` the requests that
have a result, `dropped` (history) those whose job ended without one.

*Actions.* `StartReview`, `StartAlone`, `StartDismissal`, `NotOurs` (three ways in);
`ReadDiscussions`, `ReadDrafts`, `Evaluate`, `CheckHead` (collect, triage by the diff, judge,
merge; the head again); `Draft`, `Reply`, `Resolve`, `Record` (the answer, call by call);
`PublishReview`, `DropReview`, `RecordAnswer`, `Dismissed` (the ends); `TurnedAway` (a
dashboard request that ends before `recheck_now()`: worker.py:403-414, execution.py:205-212),
`TimeOut`, `CallFails`, `Crash`; people push, close, toggle threads, publish drafts and ask again.

*Abstractions.* What a push did to a thread's lines and what a judge says are choices made when
they are looked at. `sound` in an answer is history: whether diff or judge bore it out. `Commands`
are the requests that name no review: what they answered is recorded, and nothing of one that
failed, found nothing or was dropped for a stale head. An operator who waits on the dashboard gets
no result in two cases, which `RequestEnds` names: the request was turned away before its recheck
began (no valid credentials, or the owner's identity or the merge request could not be read), or
its job timed out. It may be made again.

### Accounts

*State.* Each login's `account` (state, role, number of its password), `tokens` of
activation, open `sessions` with the password and role they were opened with, accounts with
`saved` credentials; and what is under way: requests of administrators (`requests`,
`managing`), activations, logins, password changes and credentials to be saved, each between
what let it in and its transaction.

*Actions.* One for each part of a request: `Ask`, `BeginManage`, `CommitManage` (let in, locked and
checked, done); `StartActivation`, `Activate`, `GiveUp`; `VerifyLogin`, `Login`; `AskChange`,
`ChangePassword`; `AskSave`, `Save`, `Revoke`; `Bootstrap`, `Create`; and tokens and sessions that
end.

*Abstractions.* A password is the number of the time it was set. Versions of a credential are
revoked together, and so are one. Clocks only make tokens and sessions vanish. The throttle
of failed logins is left out.

### DocumentReview

*State.* The `version` of the page, whether it is `hidden`, and the comments on `page` by owner
and marker (none, open, resolved, or two of them); the durable `trigger` and the `review` it
became, `rows` of its comments, `queue`, and `job`, the holder of the page's lock. History are
`missed`, the comments that the reading before a post did not list, and `reopened`, those people
opened again.

*Actions.*

| Actions | Code |
|---|---|
| `Ask`, `RunAgain`, `Receive`, `Reject`, `Conflict`, `Accept`, `Recover` | triggers, their admission, the sweep |
| `StartRun`, `Analyse`, `Decide` | `run_review` and the run up to its decision |
| `ReadPage`, `NextItem`, `Post`, `RecordPost` | `DocumentPublisher.publish()`: one reading of the comments, then post by post |
| `Report`, `Finish`, `Deliver`, `Stop`, `StopSeen`, `Crash` | the ends of a run |
| `Refresh`, `StartPublish`, `PublishNow`, `RecordPublish`, `StartRemove`, `RemoveNow`, `RecordRemove` | the owner's dashboard: `sync()` and `act()`, the write and what may become of it; what Confluence refused for good may be published again |
| `EditPage`, `HidePage`, `Touch` | people edit, hide and bring back the page, resolve, reopen and delete comments |

*What a reading lists.* `Confluence.comments()` asks for two hundred comments and follows no
link to more, and takes 403 and 404 for a page without comments (confluence.py:320-337). So
`Listings` are all parts of what is on the page, and `Reads` gives the whole of it, or any part
at the price of a trouble; of a hidden page it gives nothing. The publisher, the refresh and
the dashboard's actions all decide from such a list. The personal client's look before a
deletion reads the same way, and a comment it does not find is not deleted.

*Abstractions.* A finding is its fingerprint, the report a choice. Inline anchors, with their
retry as a footer comment when Confluence refuses the place, and edits of a text are left out. The
personal client's look at the page and the write are one step. Two comments with one marker stay
as they are until one of them is deleted: whether one was resolved is not kept. A row whose
comment is on the page is in conflict only over its marker; that the comment found is another than
the row remembers is left out.

### ActivityStream

*State.* The `log` of one review's events, whether it is `terminal`, the merge request's
`status`, where `run` and recheck (`asked`) are, the grace periods that ran out (`ripe`), and
the `reader`: a dashboard with its cursor. `promised` is history: the recheck was marked when
nothing of the review was left to run or deliver, and was not cut short since.

*Actions.* `OpenRun`, `TakeLock`, `Finish`, `Deliver`, `CloseRun` (worker and its bracket);
`CutShort`, `LeaveRun` (a shutdown, a timeout or an error ends the job anywhere, and the
`finally` of `run_review` writes the closing bracket all the same, worker.py:343; the queue may
try the job again); `RunDies` (a death, without the bracket); `Sweep` (recovery runs a review
again that has not ended or whose status is owed, worker.py:467-473, with brackets of its own);
`Request`, `Enqueue`, `TakeRecheck`, `Beat`, `EndRecheck`, `RecheckDies` (a recheck and its
lease); `Connect`, `Look`, `Drain`, `Check`, `Complete`, `Break` (the stream, read by read);
`Stop`, and marks that are lost, since writing them is best effort.

*Abstractions.* An event's number is its place in the log. Time passes by a grace that runs
out. The closing mark of a run that was cut short (`run_left`) is told from that of one that
came to its end (`run_closed`) only in the properties; the stream takes them for the same.

## 4. Runs

`lifecycle_*` runs use `MCReviewLifecycle` with two heads, one account and gating, where a
wrong status shows; the others the `MC` module of their component.

| Run | Instance | Shows |
|---|---|---|
| `lifecycle_crash` | two hooks, a push, a fault, four rows, milestone 7 | one unfinished review, published and failed reviews' statuses, refinement of the ledger |
| `lifecycle_owners` | a manual trigger, a command and a close hook, a push, a toggle, a redelivery | one review per event, final rows stay, who may displace a personal review |
| `lifecycle_liveness` | a manual trigger, a push, two faults, milestone 3 | reviews end, system statuses are delivered, triggers are answered |
| `budget` | three calls, one of them verification, two slots, ceiling 5, a cancellation, crash or failing audit | ceiling and protected allowance hold, every call ends without a deadline |
| `stages` | two units that share a file, two workers, two identities, two rounds and attempts, a crash | coverage is exact and survives, the counters add up, early files agree with the result, the stage ends |
| `findings` | up to two of eight proposals, a diagnostic, a blamed failure, an earlier finding, gating or not, a required check that failed or none | nothing twice, nothing unsound shown, nothing unproved blocks unless a required check failed, no gate lowered away |
| `publication` | two findings and the overall message, ceiling 1, all report modes, an earlier thread or none, a crash, two requests, one thing done by hand | nothing is said twice, the ceiling holds, removals are true and final |
| `recheck` | two threads, a review, a dashboard request, a command and a dismissal, two heads, one trouble, two things asked for or done by hand | one answer per head, none settled without reason, outcomes stand for answers, a dashboard request is recorded, unless turned away before its recheck or timed out |
| `activity` | one dashboard, batches of two, one trouble | `complete` is true of its picture and comes, whether or not a run ends; a recheck of a settled review is waited for |
| `accounts` | two logins, three passwords, two requests under way | an admin remains, sessions and credentials are current |
| `documents` | two owners, two requests, two findings, cap 1, two versions, one trouble, one thing done by hand and undone | a comment is on the page twice only if a reading left it out, the cap holds beside such comments and reopened ones, a published report reached the page, requests end |
| `says_nothing_left` | `documents` without troubles | a superseded document review is never delivered |

*Bounds.* The properties relate two rows, a row and its run, two notes, or two actors. Three rows
suffice for an active one, one it replaced and one that replaces it; the crash run takes a fourth
for the readmission of a stale run after both hooks. One push makes a read head stale; two heads
are enough to tell a row's head from the current one. One fault reaches every crash point once,
two let a recovered run crash again. `MaxReviews` stops admission: an event that would need
another row stays queued, so liveness runs take few events for it not to matter. For the budget,
three calls make a holder, a waiter and one that comes between, those that want one or two tokens
make both a fitting and a starving waiter, and a ceiling of 5 leaves room for a third attempt;
reviews of one process share nothing but the slots, so one review whose calls outnumber them
stands for several. Two units of which one shares a file with the other let an early file be
outdated, two identities let a checkpoint be another's. Two proposals and what joins them
(`MaxOthers`, one of each kind) make lists of five, longer than a chain of related findings that
are not all related; the earlier finding is a confirmed one, a refuted one, or one that bears an
older identity and an older blocker. For publication and pages, two findings under a ceiling of
one make one of them overflow or wait for the other; the posts of a publishing worker that died
have been taken or lost when the run starts again, 30 seconds later, while those of the dashboard
may appear at any time (`LatePosts`). What people undo costs no hand on a page, so that one
suffices for a page hidden when it is read and back when it is written, and for a comment resolved
and opened again around a post. A reading that lists too little is one of the troubles. Two things
asked for or done in a recheck let two requests meet, or one and a person; a third multiplies the
states by six. Milestone 3 has the short path, which keeps the liveness graph small. All runs but
the lifecycle's may stop, when everything is done or every bound is spent.

`TypeOK` of each module states its types. Section 6 proves each of them, so no run repeats it.

### Disagreements with the documentation

| Definition | The text | The code |
|---|---|---|
| `EndedIsDelivered` (`DocumentReview`, run `says_nothing_left`) | document_pipeline.py:380: nothing is left to deliver of a page | a superseded review, or one whose tokens are gone, is never marked, and every sweep queues it again |
| `NeverTwice` (`DocumentReview`) | publish/document_publisher.py:7: a rerun never posts the same finding twice | the reading it relies on lists 200 comments, and none when the page may not be read (confluence.py:320-337) |
| `DelayedHooksHarmless` (`ReviewLifecycle`) | worker.py:158: a delayed hook cannot supersede a newer run | the head is read, then admitted later, in another transaction |
| `StopHoldsReport` (`ReviewLifecycle`) | states.py:93: a stop is refused once the report is past taking back | a stop between `advance()`'s look and write is accepted, and the report posted |
| `LastReviewRules` (`ReviewLifecycle`) | README:271: a review with blocking findings sets a failed status | a superseded review's passing status may be posted after it |
| `RepeatPostsNothing` (`Publication`) | PRD:967, README:504: repeating a run posts no duplicate | a drafted run looks for its overall message among drafts only, although it lists the discussions |
| `RejectionFreesIntent` (`Publication`) | comments.py:295: a definitive rejection did not create a note | a rejected position and a refusal by the personal client keep the intent, and the row stays in conflict |
| `LeaseHolds` (`ActivityStream`) | activity.py:212: a stream stays open while a recheck's lease is fresh | the bracket of a run that is still to end, is tried again or is swept, written later, hides the recheck's mark |
| `StatusIsSettled` (`ActivityStream`) | frontend/README.md:179-185: the stream waits for the run's bracket, so as not to freeze on an undelivered status | a run cut short closes its bracket with the status undelivered (worker.py:343), and the sweep delivers it later |
| `BlockingSetsFailed` (`ReviewLifecycle`) | README:271, as above | a personal review is published while its merge request is closed; the client refuses the failed status (execution.py:56), the handler of the stale review (pipeline.py:718) ends it as superseded and, once the merge request is open again, posts success and settles it |
| `EstablishedStands` (`FindingFlow`) | pipeline.py:535: what a build established outranks a judge | the final merge lets a rejected claim of the same lines absorb it |

Only the first has a run of its own. The others are stated in their modules, at the end, and are
violated when added to the configuration of a run of their module: `NeverTwice`, the two of
publication, `LeaseHolds`, `StatusIsSettled` and `EstablishedStands` to those above;
`DelayedHooksHarmless`, `StopHoldsReport` and `LastReviewRules` to `lifecycle_crash` with,
respectively, two hooks and a push, a personal review that is stopped, and two reviews of one
commit of which the first passes; `BlockingSetsFailed` to a run of `MCReviewLifecycle` with one
manual trigger, one head, one row, two toggles, milestone 7 and gating.

Known, and covered by no property: a draft published between the publisher's two reads is
drafted again (publisher.py:116-117; `sync()` reads the other way round); the receipt of an
earlier thread hides a comment posted anew after a crash, which is called removed or posted
again while it is there (comments.py:124); a post that was not answered and appears between a
request's count and its own post passes the ceiling (comments.py:272); a post of a run that
was given up may appear after the next run looked (publisher.py:184); a worker that dies
between superseding a stale review and readmitting it leaves the new head to its own hook
(pipeline.py:722); a close hook delayed past the reopening cancels the review admitted after it
(worker.py:154); a personal review without credentials stays undelivered (worker.py:334), and
so does one whose merge request closed (execution.py:56); a pipeline hook and a run overwrite
each other's snapshot (worker.py:150); two activations of one account can deadlock in the
database, which aborts one (service.py:130); threads of reviews before the last published one are
left unanswered (pipeline.py:811); a dismissal cut off between resolution and record is lost
(commands.py:90); a publication from a page's dashboard that got no answer stays announced
(document_comments.py:159); comments people reopen, or a reading leaves out, are on a page
beside the cap (document_publisher.py:143).

## 5. Fairness

`FairSpec` asks for weak fairness of the run's own steps and of the sweep (a cron of
the worker, every 30 seconds and at startup), and strong fairness of starting a queued
job and of handling a queued event: the lock is contended, so a job is only enabled
now and then, and arq polls every queued job. Users, GitLab and faults owe nothing, and
faults are finite: a worker that always crashes ends no review. Nothing is
assumed of credentials; the liveness of delivery is therefore stated for system
reviews only.

`TokenBudget` asks for weak fairness of each call's own steps: the event loop runs what
can run, a request ends by its own timeout and the audit store answers. Deadlines and
cancellations owe nothing, so `EveryCallEnds` shows that calls do not depend on them.

`UnitStage` asks for weak fairness of each worker, of the stage's start and end and of early work:
a call is answered, refused or cut off by its timeout. `Recheck` and `DocumentReview` ask for the
same of the worker's steps, `DocumentReview` of the sweep as well; a job that died is taken again.
`ActivityStream` asks for weak fairness of the recheck, of the stream and its client that comes
back, and of time that passes, and for none of the run: the stream must not depend on it. People,
GitLab, Confluence and troubles owe nothing anywhere.

## 6. Proofs

`ReviewLifecycleProofs` proves, for every number of rows, events, heads, accounts,
any milestone from 1 and any bound:

| Theorem | States |
|---|---|
| `TypeCorrect` | `Spec => []TypeOK` |
| `OneActiveAlways` | at most one unfinished review |
| `FinalRowsStayAlways` | a final row, its decision and its delivery stay |
| `OneReviewPerEventAlways` | one row per event |
| `LedgerImplemented` | `Spec => Ledger!Spec` |
| `OwnersIsolatedAlways` | no system event and no other account displaces a personal review |
| `PublishedStatusAgreesAlways` | a published review's delivered status is its decision's |
| `FailedReviewPassesAlways` | a failed review never set a failing status |

They use the assumptions `ReviewLifecycle` names: events of different kinds differ and none
is a readmission, system reviews have no account, the first head is a head, the milestone is
at least 1, bounds are naturals. The argument is one inductive invariant,

    IInv == TypeOK /\ RowsInv /\ RunInv /\ QueueInv /\ SettledInv

None of the conjuncts is inductive alone. `OneActive` holds over `accept()` because
the one active row is superseded by the insertion, which needs rows past `admitted` to
be unused (`RowsInv`). It holds over `Move` and `CancelReview` because a target is
never an unfinished state of an unused row: the run and the handlers name admitted
rows (`RunInv`, `QueueInv`), and a job is queued only for a row, never for a conflict
(`accept()` answering 0). `SettledInv` needs the run past `finish()` to have a final
row, which is what `RunInv` says of `post` and `mark`. The refinement then reads each
step off: admission opens, every write of the state closes or stays, `MarkStatus`
settles. TLC checked `IInv` on the instances above before it was proved.

The two theorems on statuses need more, `IInv /\ StatusInv`:

    StatusInv == FailedRun /\ PublishedRun /\ OutcomeRun /\ PostedInv

`FailedRun` and `PublishedRun` follow the run of a row that failed or was published to its
last write, `OutcomeRun` says that the status it is about to post is that of the recorded
decision, whether it recorded the decision itself or was recovered after the worker that did
died, and `PostedInv` carries this to the row once the run is gone. The proof showed that a
personal review is an exception: its status is refused while its merge request is closed or
has moved on, the review still ends, and a passing status may be posted for it later.
`PublishedStatusAgrees` says so, and `BlockingSetsFailed` above is what remains false of the
code. `OwnersIsolated` needs `IInv` alone: only `accept()` supersedes another row, and it
asks whose row it is in the same transaction.

`PublicationProofs` proves, for any finite set of findings, any ceiling and modes and
any bounds:

| Theorem | States |
|---|---|
| `TypeCorrect` | `Spec => []TypeOK` |
| `RemovedStaysRemovedAlways` | no comment is posted that was removed or is to be |
| `NoDuplicateAlways` | no comment is posted while another that says the same is there or on its way |
| `CeilingKeptAlways` | an inline comment is posted only below the ceiling, other runs' threads and drafts counted |
| `RemovedMeansGoneAlways` | a row is called removed only when its comment is gone |

They use `PublicationAssumption`: the overall message is no finding, findings are
finitely many, bounds are naturals. The last three also suppose `"publish" \notin LatePosts`:
what a worker was posting when it died is on the merge request or lost by the time the next
run looks, at the earliest a sweep of 30 seconds later. Nothing in the code waits for that;
TLC refutes all three when `publication` is given `LatePosts = {"publish", "act"}`. A late
answer to the dashboard needs no such supposition, since its row keeps the saved intent. The
first two rest on

    IInv == TypeOK /\ NotesInv /\ StepInv /\ RoomInv /\ WantedInv

`WantedInv` says what `RemovedStaysRemoved` needs of the moment before: the row about to be
posted is not removed. It is inductive because only the job under the lock writes rows
(`StepInv`: who is at which step), because the row checked is the row saved, and
because a write that is not a post only touches notes that exist (`WantedInv` on
resolving; the personal client's look). `TypeOK` needs an unused identifier at each
post (`RoomInv`), which draws on the well-ordering of the naturals, and that a thread
is never a plain note (`NotesInv`), for what reconciliation copies into a row.

The other three need what the job read to be true still, `IInv /\ OnceInv`:

    OnceInv == KindsInv /\ ReceiptsInv /\ PhaseInv /\ LateInv
               /\ DraftingInv /\ PublishInv /\ ActInv /\ SendInv

`KindsInv` and `ReceiptsInv` say what kinds of notes there are and that a receipt is of a note of
its own finding, `PhaseInv` which rows can exist before the review is published. `LateInv` is the
retry: a post on its way belongs to a row not yet published that keeps its intent, and nothing
else says the finding, so the row stays in conflict until the note is seen. `DraftingInv` and
`PublishInv` hold for a run between its reading and each post: what lives was seen, or was drafted
since, or drifted, and what counts and the slots left are together at most the ceiling. `ActInv`
and `SendInv` are the same for a request, from the reconciliation it acts on. Each step's effect
on notes and rows is put in one form (`Made`, `Marked`, `ReconciledWhat`) before the invariant is
considered. The proofs corrected the two properties: the ceiling is passed when an earlier
unanswered post appears between the count and the post, and the same is said twice when an earlier
note's receipt hides a comment that is there. Both take more notes than the run has; both are
exempted by name and listed in section 4.

`DashboardProofs` proves of `Accounts`, for any logins, passwords and number of
requests under way:

| Theorem | States |
|---|---|
| `AccountsTypeCorrect` | `AccountsSpec => []AccountsTypeOK` |
| `AdminRemains` | once there are accounts, one of them is an active admin |
| `SessionsStayCurrent` | no session outlives the password, role or standing it was opened with |
| `CredentialsStayOwned` | removal and recovery leave no saved credential |

from `AccountsAssumption` (bounds are naturals) and the invariant

    AccountsInv == AccountsTypeOK /\ ManagedInv /\ LastAdmin /\ SessionsAreCurrent
                   /\ CredentialsNeedOwner

`ManagedInv` is what the check under the lock was for: one management transaction at a time,
and while it is under way withdrawing its account's role would still leave an admin, since
nobody else can withdraw one and every other step keeps roles and states (`SameStanding`).

`TokenBudgetProofs` proves, for any reviews, finite set of calls, wants, ceilings, slots and
faults:

| Theorem | States |
|---|---|
| `TypeCorrect` | `Spec => []TypeOK` |
| `CeilingKeptAlways` | what is charged and reserved stays within the ceiling, but for what calls used beyond their reservation |
| `ProtectedKeptAlways` | what other calls used leaves verification its allowance |

The invariant is `TypeOK /\ CallInv /\ ReservedInv /\ AuditInv /\ CeilingKept /\ OtherInv`.
Nothing less is inductive: a reservation returned twice or kept after the end breaks the
ceiling only in a later step, so `ReservedInv` has the tracker's counter equal the sum of what
the calls hold, and `CallInv` says which calls hold anything; a crash counts `used` anew, so
`AuditInv` and `OtherInv` say that the audit table and what is on its way to it never know
more than was charged. The sums are folds, and that changing one value changes the
sum by the difference (`SumChanged`) is proved from well-founded induction on cardinality.

`UnitStageProofs` proves, for any plan, workers, answers, identities and bounds:

| Theorem | States |
|---|---|
| `TypeCorrect` | `Spec => []TypeOK` |
| `CoverageExactAlways` | the merged stage lists each unit once, as examined only if a model said so |
| `CoverageSurvivesAlways` | a unit checkpointed as examined never becomes one that was not |
| `ProgressAddsAlways` | the dashboard's counters are those of the work |
| `StreamAgreesAlways` | a file settled early has the findings of the stage |

from `UnitsAssumption`, `AnswersAssumption` and
`TypeOK /\ StoredInv /\ WorkInv /\ ResultInv /\ StreamInv /\ CountInv`: what the database holds
is finished and agrees with itself, workers at work have different units that nobody saved,
results are open only while their unit is asked about. A crash keeps `StoredInv` and empties
the rest.

`RecheckProofs` proves, for any threads, requests, modes and bounds:

| Theorem | States |
|---|---|
| `TypeCorrect` | `Spec => []TypeOK` |
| `AnsweredOnceAlways` | one answer of the reviewer per thread and head |
| `SettledForAReasonAlways` | no answer settles a thread without diff, judge or person to bear it out |
| `ActionedIsAnsweredAlways` | no outcome is recorded without an answer in its thread |

The three and `TypeOK` are inductive with `PlanInv`: what the job under the lock is about to
say is one sound answer for each of several threads, none answered for its head yet. It holds
over the reads because the lock keeps every other writer of answers away, and over a crash
because the next job reads the threads again.

`DocumentReviewProofs` proves, for any owners, finite set of findings, modes, cap and bounds:

| Theorem | States |
|---|---|
| `TypeCorrect` | `Spec => []TypeOK` |
| `OnceOnPageAlways` | two comments of a marker are on the page only if the reading before a post left one out |
| `CommentCapAlways` | beside those and the reopened ones, no more open findings of an owner than the cap |
| `ReportReachesPageAlways` | a review published by its run has each finding on the page, or a reason |

    IInv == TypeOK /\ AdmittedInv /\ ModeInv /\ OnceOnPage /\ CommentCap /\ PostInv /\ ActInv

A run looks at the page once and then posts from what it saw, while people resolve, delete and
reopen and the lock keeps other writers out. `PostInv` relates the picture it carries to the page
(`Agrees`): what it did not see is not there and was not made since, or is one of the `missed`;
what it saw is there or was taken off; and the room it has left, with the comments that count
(`Charged`: open, neither missed nor reopened), stays within the cap. It errs on one side only:
what people took away makes it too small, and what they reopened or the reading left out is spared
by name. It is stated over the job, the page and the rows as values, so that what each step does
to it is a lemma without primes (`PictureTaken` to `PictureOfTouched`); `ListingSound` and
`ListingCounts` say what any list a reading may give has to do with the page. `ActInv` is the same
for an owner's publication, from `sync()` having shown the comment away (`DraftIsAway`). The
exemptions are those of the code: TLC refutes the properties without `missed` and without
`reopened`.

`DashboardProofs` proves of `ActivityStream`, for every size of a batch and number of troubles:

| Theorem | States |
|---|---|
| `TypeCorrect` | `Spec => []TypeOK` |
| `CompleteIsTrueAlways` | `complete` comes after all events up to the review's end, with a settled status if the run was open then and was not cut short since, or the grace gone |
| `RecheckIsSeenAlways` | no stream ends over a recheck, asked for when nothing was left to run or deliver, whose lease is good |

from `TypeOK /\ LogInv /\ PromiseInv /\ StreamInv`: what the log holds says where its writers are,
and a stream that saw the end drains it before it looks again. `PromiseInv` has the mark of a
promised recheck newest in the log, for nothing is left that could write over it. That a newest
mark exists is well-founded induction on the length of the log.

`FindingFlowProofs` proves, for any claims, judgements, limits and earlier findings, and lists
of any length:

| Theorem | States |
|---|---|
| `TypeCorrect` | `Spec => []TypeOK` |
| `NoFindingTwice` | no two findings of a review share an identity or say the same of one place |
| `ShowsOnlySound` | what is shown was not refuted, and is established where it has to be |
| `BlocksOnlyOnProof` | a review short of a verdict by its budget or deadline never blocks; one that blocks though no required check failed rests on a confirmed grave claim |
| `TriageCannotUngate` | in gating mode the decision is that of the severities before triage |
| `LeavesSound` | the findings a review leaves are what the next one may assume |

They use `LimitsAssumption`, `ClaimsAssumption` (lines in order, known severities and places) and
`EarlierAssumption`, which `LeavesSound` justifies: the first review has no earlier findings, and
each later one those that the review before left. The invariant is

    IInv == TypeOK /\ FreshInv /\ ResultInv /\ NoneTwice

`FreshInv` follows each finding: refuted means gone and confirmed means that somebody
confirmed its claim (`Honest`), and from the policy on it is sound, no blocker, and gates by its
severity exactly when it did before triage (`Graded`). `ResultInv` says the same of the merged
list and that decision and selection were taken from it. The weight is in the operators, which
are folds over lists of any length. tlapm cannot instantiate the library's induction theorems,
but well-foundedness of the naturals is a theorem about sets, and gives that a set of numbers
closed under successor is all of them (`Counting`) and that what holds of no elements and grows
by one holds of a finite set (`Growing`). With these, `FoldExists` shows that the folds of the
community modules are functions on the sets of positions taken, and `FoldGood` that what one
step keeps, the fold keeps; each operator then has one lemma about its step and one about its
fold: `Absorbed` and `Deduplicated` (merging leaves no two that match, and every one of them
is like one of the list), `Lending` and `Adopted` (a lent identity is lent once), `Placing`
and `Selected` (each finding that stands is in one part), `StandingUnjudged`, `TriagedStays`,
`DemotedIs`. `NoneTwice` needs that the second pass of deduplication, by place and words, cannot
undo the first, by identity: a merged finding keeps its own identity, lines and words. TLC checked
`IInv` on the instance of `findings` before it was proved. The proof asked for what the model
did not say: that earlier findings are those some review left, with the severities and
identities they were saved with.

*Beyond the prover*: the liveness properties (`StreamEnds`, `EveryCallEnds`, `EveryReviewEnds`,
`SystemStatusDelivered`, `TriggersAnswered`, `RequestSettles`, `RequestEnds`, `StageEnds`),
since they need ENABLED and fairness. TLC checks them on their instances; every other property
of the runs is proved. The claims of section 4 that the code does not keep are
refuted by TLC only.

## 7. Not modelled

Parts 10 to 13 of the plan, not yet. Within the modelled parts: the throttle of logins,
encryption of credentials, edits of comments, inline anchors on pages, snapshots, verification
of documents and the findings algorithms of pages. Not planned: prompt assembly and parsing,
symbol indexing, redaction and secret matching, rendering, HTTP clients (they are the
environment of the models), configuration, the dashboard's static files, schema migrations and
offline scripts. They keep no state between calls, or text is all they compute.
`PROJECT.json` says so of each component.

## 8. Use

`tlc -config <run>.cfg <module>` checks a run (`PROJECT.json` names its module),
`tlapm` the modules named `...Proofs`.
