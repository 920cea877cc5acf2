# Verification of the avi2api task gateway

The repository is a gateway that sells image, video and audio generations: it
admits a request against a pool of provider accounts, reserves the credits it
will cost, queues it, lets a worker run it at the provider, and charges or gives
back the credits. A generation costs money, the provider's submit call is not
idempotent, and the process may stop between any two statements; the store
(PostgreSQL), the queue (asynq on Redis) and the provider fail independently.
Around it stands an admin web application (`admin-web/`), whose pages order,
watch and settle generations and administer accounts, keys and capacity; there
answers arrive late or never, lists change between two pages, and what is on
screen is as old as the last answer. This directory models the core and the
pages, checks them with TLC and proves the central properties with TLAPS.

Source paths below are relative to `src/`.

## Inventory

| Component | State | Operations | Modelled in |
|---|---|---|---|
| Admission and reservation (`internal/store/routing.go`) | `tasks`, `account_reservations`, `task_outbox`, `accounts`, `api_keys` | `createReservedTaskForProvider`: advisory lock, candidate, recheck, key and system capacity, inserts | `Admission` statement by statement, `TaskExecution` as one step |
| Claim, lease, rerouting (`internal/store/execution.go`) | lease and attempt of the task row | `ClaimTask`, `rerouteQueuedTaskTx`, `RenewTaskLease`, `YieldTaskLease`, `wakeQueuedTasksTx` | `Admission`, `TaskExecution` |
| Settlement (`internal/store/execution.go`, `internal/httpapi/admin_tasks.go`) | task status, reservation state | `CompleteTaskOwned`, `FailTaskOwned`, `FailSubmittedTaskOwned`, `RecordTaskSubmissionOwned`, cancellation, administrator's decisions | `TaskExecution` |
| Recovery pass (`internal/store/task_queries.go`) | all task rows | `RecoverStaleTasks` every 15 s | `TaskExecution` |
| Dispatch and queue (`internal/jobs/scheduler.go`, `queue.go`) | outbox rows, asynq messages | `ClaimDispatchableOutbox`, `dispatchItem`, `enqueue`, `EnqueueRecovery` | `TaskExecution` |
| Leonardo workers (`internal/jobs/image_worker.go`, `video_worker.go`, `audio_worker.go`, `jobs.go`, `worker_runtime.go`) | local variables of a handler | resume, checks, upload, fence, prepare, submit, record, poll | `TaskExecution` |
| System capacity (`internal/store/system_capacity.go`) | `system_capacity_config` | `lockSystemAdmission`, `lockSystemExecution`, `UpdateSystemCapacity` | `Admission` |
| Adobe and Creative Fabrica workers | as above | the same store calls around other clients | planned |
| Session refresh (`internal/store/session_refresh.go`, `internal/sessionrefresh`) | refresh jobs with leases | claim, heartbeat, complete, quarantine | planned |
| Balances and reconciliation (`internal/store/reconciliation.go`, `accounts`) | balances and their version | begin/update refresh, reconcile terminal reservations | an environment action of `Admission`; planned |
| Circuit breaker, proxy control, submit pacing | Redis keys | allow, record, reserve a turn | free choices of the worker; planned |
| Pricing | price rules | pure lookups | planned as operators |
| Video request rules (`internal/videospec`, `internal/httpapi/video_handlers.go`, `admin-web/src/pages/media-specs.ts`) | two tables, kept separately | `GetForProvider`, `normalizeVideoOptions`, the checks of `createVideoTask`; the limits the forms apply | `VideoRules`, `VideoRequest` |
| Test page (`playground-page.tsx`, `shared/cache.ts`, `components/playground-result.tsx`) | task id, last answer, mutation, API key, IndexedDB | create, poll, cancel, clear, tabs, reload | `Playground` |
| Generation forms (same file, `shared/providers.ts`) | platform, model, sizes, files | selections, links, files, route of the request | `MediaForm` |
| Documentation (`docs-page.tsx`, `pricing-components.tsx`) | section, model, mode, calculators | pickers, templates, estimates | `DocsPage` |
| Account pool (`account-pages.tsx`) | selection, scan, dialog, batches | select, scan for invalid accounts, archive | `AccountPool` |
| Bulk import (same file) | files, items, worker pool | add, parse, import, retry | `CookieImport` |
| Account dialog (same file) | one object of fields | fields, file, submit | `AccountForm` |
| Task page (`task-pages.tsx`) | list, detail, decision | poll, open, release, confirm | `TaskPage` |
| Clean-up of uncertain tasks (same file) | scan, dialog, batches | scan, confirm, batches | `TaskCleanup` |
| API keys (`api-key-page.tsx`, the notice in `main.tsx`) | list, dialogs, notice | create, switch, delete | `KeyPage` |
| Capacity (`system-capacity-page.tsx`) | loaded policy, form, save | poll, edit, save | `CapacityPage` |
| Sale pricing, overview, observability, security, model catalogue | forms, charts | | not modelled (see the end) |
| HTTP API, provider clients, assets, history cleanup, configuration | | I/O, rendering, wiring | not modelled (see the end) |

Paths of pages are relative to `admin-web/src/pages`, shared files to
`admin-web/src`.

How they interact. A request becomes a *queued* task with a *held* reservation
and a *due* outbox row, in one transaction. The scheduler turns due outbox rows
into asynq messages. A worker that takes a message claims the task: the claim
gives it an execution lease (a fresh UUID) and moves the task to *reserving*, or
defers it when the account, the key or the system has no slot. Every later write
of the worker is conditional on its lease. Before the paid call the worker
commits the status *submitted*; after it, the generation id. Then it polls until
the provider has finished, and settles task and reservation together. The
recovery pass takes back tasks whose lease ended: before the record to the
queue, after the generation id to polling, and in between to
*submission_uncertain*, which only an administrator resolves.

What is hard here:

- a crash, a stall or a lost lease at any point around the paid call, with a
  second worker that takes over while the first one may still wake up;
- two kinds of message for one task (the task id, and unique recovery ids), and
  an asynq id that stays taken while a message is active or archived;
- many exits of a worker that must each leave the outbox row so that the task is
  found again;
- deadlines that end a task while its worker is at work;
- `SELECT ... FOR UPDATE` at READ COMMITTED: counts that are older than the lock
  they were selected with;
- capacity shared by accounts, keys and the system, with slots kept for video
  and an aging rule, where waiting tasks may block each other;
- in the browser: query data that outlives its key as a placeholder, mutations
  that outlive their dialog, handlers that write back a copy of the form from
  before an `await`, polling that stops on the wrong status, lists read by offset
  while they change, and two tables of the same rules.

`PROJECT.json` lists each hazard at its line with the property that covers it.

## Modules

`TaskTables` holds the rows that scheduling reads (`task`, `res`, `outbox`, the
health of accounts, the price rule, the age of tasks, the pause flag) and the
counts and predicates of the scheduling queries: the account's capacity, the
slots of keys and system, the order among queued tasks (`GoesBefore`,
`earlierQueued`), the lease test `Owns`, the wake-up `Wake`. Tasks are numbered
in the order of their admission, so `u < t` is the order `(created_at, id)`. A
lease id is the number of the claim that created it: the code's UUIDs are fresh,
and so are those numbers. Comparisons with the clock are flags of the row that
an action of the environment raises.

`TaskExecution` adds the asynq messages (`msg` for the task's own id, `recov` for
recovery ids), the dispatcher goroutines (`worker`) and the provider (`up`).
Every store transaction is one action; the worker's local state between two of
them is its `pc`:

    claim -> owned -> (uploading ->) fenced -> prepared -> accepted -> polling
                                                        -> rejected / unknown
    claim -> resume -> polling
    polling -> ticked -> sawPending -> polling
                      -> sawComplete, sawFailed -> settled

| Action | Code |
|---|---|
| `CreateReservedTask`, `CancelQueuedTaskAndRelease` | the transactions of the same names |
| `Dispatch`, `DispatchFails` | claim of the outbox row, then `dispatchItem`; the scheduler stops or Redis refuses in between |
| `TakeMessage`, `Return`, `ArchiveOrphan`, `QueueLeaseLost` | asynq as `queue.go` configures it (`MaxRetry(0)`, unique ids); external |
| `ClaimTask` | `ClaimTask` with its rerouting, deferral and rule check |
| `StartUpload`, `SubmissionFence`, `PrepareSubmission` | the worker up to the committed record |
| `SubmitGeneration` | the paid call: created or not, answered or not, independently |
| `RecordTaskSubmissionOwned`, `SubmissionRejected`, `SubmissionUnknown` | the three ways to take the answer |
| `Resume`, `PollTick`, `PollStatus`, `PollPending`, `PollComplete`, `PollFailed`, `PollDeadline`, `PollInterrupted` | the poll loop, statement by statement |
| `FailEarly`, `HandlerError`, `Crash` | validation and upload errors; database and Redis errors; the end of the process |
| `RecoverStaleTasks` | all statements of the recovery transaction at once |
| `ConfirmSubmissionNotCreated`, `adminReleaseTaskReservation` | the administrator |
| `LeaseExpires`, `DeadlinePasses`, ... | the clock and the environment |

A poll is several steps, as in the code: the deadline is looked at when the ticker
fires, the status is read and recorded under the lease, and the status update or the
settlement is a transaction of its own. Between any two of them the lease may be lost,
the deadline may pass, the recovery pass or an administrator may end the task, and a
second worker may take it over; so a worker may complete a task after its deadline and
before the recovery pass, or come to its settlement too late.

`Admission` opens the two transactions that decide who may run. Each statement
is an action, row locks and advisory locks are in `lock`, the progress of each
transaction in `tx`, the answer to each request in `answer`. A
`SELECT ... FOR UPDATE` is two steps, the snapshot and the lock, because
PostgreSQL computes the result before it waits; only a changed row is
evaluated again. Such a row that no longer matches stays locked while the admission's
statement goes on to the next one (`PassCandidate`); a row that still matches by the
old counts, on an account that has filled up, is excluded and the savepoint's rollback
releases what was locked since (`ExcludeCandidate`). So an admission may hold one
account and wait for another; PostgreSQL ends one of a circle of transactions and the
store begins it again (`AdmissionDeadlocked`). A transaction writes in its last action,
which is when others see it.

`PaidTask` is the abstract specification: what a customer may rely on, without
queues, leases and workers. A task's `life` is its state (an ended-by-decision
task is `writtenOff`), its credits and what was bought; `Moves` lists the few
ways in which they change, always together. `TaskExecution` instantiates it with
`life <- LifeOf(t)`; `ImplementsPaidTask` says that every step of the gateway is
one of those moves, for each task, or a stutter. It contains that a task ends
once, is charged only for a complete generation, and gets credits back only if
nothing was bought, the generation failed or an administrator decided so.

The pages. Each page of the admin web application is a module: its React state
and query data are variables, each handler, effect and answer is an action, and
the service's part of a call is a step of its own wherever something may happen
in between. A mutation keeps running when its dialog is closed, since its
`onSuccess` belongs to the mutation; a query keeps its previous data as a
placeholder.

- `Playground`: a form submits, its task is polled, the last success of each
  kind is kept in IndexedDB. `seen` is the query's data, placeholder included;
  `OwnStatus` is what `query.state.data` says of the current task.
- `VideoRules` holds both tables of video models, row by row, with the functions
  that read them; `VideoRequest` takes each model, composes every request the
  form lets pass at the limits, and lets the service decode its body
  (`videoGeneration`) and answer with the set of its refusals (`createVideoTask`). A
  request has a kind of body and the names of its fields besides its values.
  `MediaForm` is the life of the forms' fields; `DocsPage` uses the
  same rules for templates and calculators.
- `AccountPool` and `TaskCleanup`: scans over pages of a list that changes, and
  batches. The service answers a page with two statements, the count and the rows, and
  the list may change in between (`ScanCount`, `ScanPage`). `CookieImport`: files parsed in the background, a pool of workers.
  `AccountForm`: the dialog, with the handler that waits for a file holding a
  copy of the fields.
- `TaskPage`: a list and a detail, polled by their own status; the decisions.
- `KeyPage`, `CapacityPage`: the creation, switch and deletion of keys and the
  notice that shows a key once; the policy form that starts again with every new
  revision, where a save is a request, the service's write and an answer.

`MCGeneration` and `MCAccounts` put the pages together for TLC: one page is open
per behaviour, as in the browser, where they share nothing but the service.
`MCTaskExecution`, `MCAdmission` and `MCMediaForm` name the functions that the
configurations give to the constants. `Slices` is what the two scans share: a
list read by offset and a list cut into batches. The theorems are in
`TaskExecution_proofs`, `TaskSettlement_proofs`, `Admission_proofs`,
`Playground_proofs`, `FormPages_proofs`, `Slices_proofs`, `AdminPages_proofs`
(which extends `MCAccounts`) and `Generation_proofs` (which extends `MCGeneration`).

Definitions named `Mutant_...` are deliberately wrong variants of the definition
that follows them; no specification uses them. Each one breaks the property it
is listed with, which shows that the property depends on that piece of code.

## Runs

| Run | Instance | Shows |
|---|---|---|
| `faults` | 1 task, 2 goroutines, 2 accounts, every fault, failing accounts, both deadlines | `AtMostOneSubmission`, `CreditsFollowGeneration`, `SettledWithTask`, `NoLostTask`, `OnlyLeaseHolderWrites`, and the refinement `ImplementsPaidTask` |
| `progress` | an image and a video task, 1 `video_reserved` account with 2 slots, 1 execution at a time, no deadlines, faults on the first attempt | `IdleAccountServesQueue`: while some slots are open to ordinary work, an idle account always has a task it may start; `EventuallySettled` without the help of deadlines |
| `deadlines` | 1 task, every fault, pauses, a disabled price rule and failing accounts, both deadlines | `EventuallySettled` whatever else happens |
| `admission` | 2 requests and a retry, 2 accounts, changing balances | `RetriesGetTheirTask`, `AdmissionFits` |
| `api_keys` | 3 requests of 1 key, 2 failing accounts | `KeyWithinLimits`, `DeadlockFree` |
| `system_limits` | 3 requests of 2 keys, changing settings | `SystemWithinLimits` |
| `generation` | 2 tasks on the test page and the task page, 3 in the clean-up, all 3 platforms, every video model of the tables | see below |
| `accounts` | 2 accounts in batches of 1, 3 files, 3 platforms, 1 key and 2 dialogs, 2 revisions and 2 saves | see below |
| `standoff` | 1 slot, kept for video | violates `IdleAccountServesQueue` |
| `claim_race` | 2 claims on 1 slot | violates `ExecutingWithinConcurrency` |
| `overload` | 3 requests, watermark 2 | violates `OverloadLasts` |
| `text_request` | as `generation` | violates `TextRequestsAccepted` |

`generation` checks, page by page:

- test page: `CancelsOnlyShownTask`, `ShowsStoredResult`, `StoredResultNewest`
  and `EventuallyShowsOutcome`;
- forms: `RoutedToSelection` (a public name that two platforms share reaches the
  selected one), `ValuesOffered` and `ReferencesFit` after any sequence of
  choices; `FormAgreesWithService`: of what the form sends for any model of the
  tables the service has a field for all but `reference_strength`, and accepts every
  value, apart from the named exceptions (what that field does to a request is
  `TextRequestsAccepted`, see the findings);
- documentation: `TemplatesAccepted`, `EstimateMatchesInputs`;
- task page: `DetailFollowsTask`, `SettledIsShown`; clean-up: `CleansOnlyListed`.

`accounts` checks:

- pool: `ArchivesOnlyConfirmed`, and `ScanMissesFew`: of the accounts that were
  invalid throughout a scan it misses at most as many as failed between the count and
  the rows of its last page, as long as none recovers; and `ScanEnds`;
- import: `ImportsOnce`, `ImportEnds`; dialog: `CookieForItsPlatform`, `SendsOnlyShown`;
- keys: `EveryKeyShown`; capacity: `SavesOnlyEdits`.

`OnlyLeaseHolderWrites` is about everything the lease protects (`Written`: status,
lease, generation, account of the task and its reservation). While the lease is live,
a step that changes any of it is a step of the goroutine that holds the lease; neither
a second delivery of the message, nor a worker with an older lease and an upload, a
record, a status or a result in hand, nor the recovery pass, the client or an
administrator writes. The one exception is the recovery pass after the upstream
deadline.

Deadlock checking is on in `generation` and `accounts`: a page always accepts
something. It is off in the others: a system whose tasks have all ended,
or whose bound on attempts is used up, may stop. `DeadlockFree` states
separately that no transactions wait for each other in a circle, but for admissions
that choose their candidates, which are begun again.

### Bounds

- `MaxAttempts` bounds the claims of one task. Two suffice for the races that
  the lease exists for: the first owner crashes or stalls, the second takes
  over, the first wakes up. The theorems need no bound.
- `MaxRecovery` (1) bounds the recovery messages that wait for a task; one
  more may be in a handler's hands, so with two goroutines two of them do meet.
- `FaultAttempts` limits the faults marked with `Strikes` (crash, error, stall,
  lost lease) to attempts below it. In the safety runs it lies above
  `MaxAttempts`, so it limits nothing; in `progress` the last attempt is free
  of faults, since a task that fails for ever is not promised to end.
- `Events` selects the environment's events of an instance; `faults` has all of
  a single task's, except the pause and the price rule (`deadlines` has them) and
  aging, which needs a second task (`progress`). `progress` has the faults that
  leave a task unfinished and its message archived.
- The pages: two tasks or dialogs are needed for an answer that arrives after
  the next one was begun, two accounts in batches of one, or three tasks in batches of two, for a second
  page and a second batch, two revisions for a form that is overtaken.
  `MaxFiles` (2) exceeds the smaller limits of the forms, `MaxReads` (1) is one
  file under way, `MaxSaves` (2) one save of a page that was left and one of the
  page on display, `MaxCreated` (2) a file imported twice. The batch size and the
  limit of files are scaled down and stay smaller than what can be selected; the
  limits of `MediaForm` are scaled to at most 2 in their order, those of
  `VideoRules` are the real ones. `KeyIDs` has one key; the theorem covers more.
- Sets are small: one task per run when the question is about one task's
  workers (tasks interact only through counts), two or three when it is about
  capacity. `SYMMETRY` is used for the goroutines in `faults`, where no liveness
  is checked.

### Fairness

`FairSpec` of `TaskExecution` assumes that what runs on a ticker or by itself
keeps running: the recovery pass, asynq's recovery of orphaned messages, the end
of a lease nobody renews, the passing of deadlines and outbox delays, the
provider finishing a generation, and a worker's next step (weak fairness). Strong
fairness is assumed for the dispatch, the delivery and the claim of each task: a
dispatch may be refused and a delivered message lost, but not every time, and
the claim of a task that may repeatedly start is not passed over for ever by
claims that come while the slot is taken. No fault, no client and no
administrator is assumed to act.

For the pages it is assumed that a poll that is due is sent and the service goes
on with its tasks (weak fairness of `Poll`, `PollDetail`, `ServerStep`,
`TaskStep`), that not every answer is lost (strong fairness of `FetchSucceeds`
and `DetailAnswered`: the interval timer repeats them), and that a call of a
running scan or import is answered, if only with an error (weak fairness of
`ScanCount`, `ScanPage`, of each file's answer and of `ImportDone`; `fetch` always settles).
No administrator is assumed to act.

## Findings

- `standoff`. With `video_reserved_slots` equal to the account's concurrency
  (allowed by the CHECK in `migrations/00026_cost_aware_account_routing.sql:13`,
  and set by it for accounts of concurrency 1), an ordinary task older than ten
  minutes goes before a later video, and the slots kept for that video leave no
  slot for the ordinary task. The idle account starts neither, until a queue
  deadline fails one of them.
- `claim_race`. `claimTaskOnce` counts the executing tasks in the statement
  that locks the account. Two claims count before either has the lock and both
  start.
- `overload`. `lockSystemAdmission` sets the overload flag and returns an error;
  the rollback undoes it. The hysteresis between the two watermarks exists only
  after `UpdateSystemCapacity` has set the flag.
- `text_request`. The page verifies the video API "directly" (`main.tsx:375`), and
  text-to-video is what the README announces first of video (`README.md:18`). Without
  reference files the form posts JSON that always contains `reference_strength`
  (`playground-page.tsx:690`); `publicVideoJSONRequest` lacks the field
  (`video_handlers.go:18-25`) and `decodeJSON` refuses unknown ones
  (`response.go:27`). Every text-to-video request of the test page is answered 400; the
  templates of the documentation, which leave the field out, are accepted.

Observations without a run of their own:

- A rerouting selects its target with counts from before the target's lock and,
  unlike admission, does not look again (`execution.go:151`): an account may hold
  one task more than its concurrency and queue allow. The cause is that of
  `claim_race`.
- Protected credits are deducted only while they are covered (`routing.go:238`);
  below that, ordinary work may spend all that is left, although the README says
  that it "cannot spend protected credits" (`README.md:208`).
- The dialog of a scan says that all invalid accounts were found
  (`account-pages.tsx:845`). The service counts and reads a page in two statements
  outside a transaction (`accounts_store.go:77` and `:80`), and the scan ends when it
  has as many accounts as were counted: an older account that fails in between takes a
  place on the last page, and one that was invalid all along is missed.
  `ScanMissesFew` says how many. Pages are read by offset, so if an account recovers
  or is archived between two pages, those behind it move up and are missed as well.
  The clean-up of uncertain tasks scans the same
  way, but only its dialog depends on it.
- `hailuo-2.3` cannot be ordered: the form, the template and the calculator offer
  the standard sizes, which map to 720p, and the service wants 768p or 1080p.
  `veo-3.1` of Adobe is held to Leonardo's rule for reference images, because
  `video_handlers.go:375` matches by name. The form leaves a few more checks to
  the service; `LeftToService` lists them. Rows of models that a migration
  switched off (`00049`) are kept in both tables.
- The image form can be submitted while an unfinished task is shown, and its
  cancel button may then cancel the new task; `CancelsOnlyShownTask` leaves it
  out. A stored result that is read while it is cleared returns to the screen.
- Every submission of the test page has a fresh idempotency key, so one repeated
  after a lost answer is a second task. An import repeated after a lost answer is
  a second account; a key whose answer is lost is never shown; a second key's
  notice takes the place of the first.
- A key dialog opened before the platforms are loaded keeps the built-in model
  names: the service refuses them (`admin_management.go:321`) and they cannot be
  unticked.
- Capacity and sale pricing are written back whole without a revision: what
  another administrator saved since the last load is reverted.
- A reference video chosen for a model that takes more is not cut; a provider
  switched while cookie files are parsed; two additions at once exceed the limit
  of 50 files; a late success closes the dialog that is open by then. The service
  refuses or the page shows the rest; no property is broken.

One comment is out of date and has no run: `RecoverStaleTasks` is said to touch
"only expired execution leases" (`internal/store/task_queries.go:205`), but its
upstream deadline is absolute, as a test expects
(`internal/store/routing_integration_test.go:193`). `OnlyLeaseHolderWrites` names
that exception.

## Proofs

Each proof goes by an inductive invariant that its module defines under *Why
they hold*. TLC checked every one of them before it was proved, on the instances
of the runs and on a few larger ones:

| Invariant | Distinct states of the instances |
|---|---|
| `SettlementInv` | 2,574,232 (`faults`, with the price rule) |
| `AdmissionInv`, `RoomInv` | 182,746, 1,104,336 and 465,918 (the three admission runs) |
| `PlayInv` | 239,865 (`generation`); 1,728,654 (3 tasks, 3 kinds) |
| `MediaInv`, `DocsInv`, `TaskPageInv`, `CleanupInv` | 239,865 (`generation`) |
| `PoolInv`, `ImportInv`, `FormInv`, `KeyInv`, `CapacityInv` | 284,551 (`accounts`); 906,471 (3 accounts in batches of 2) |
| `IdleAccountServesQueue` | 88,615 (`progress`); 615,525 (3 tasks, one of them video) |

Every invariant and every action property that a passing run checks is stated by
a theorem; what is left to TLC alone is liveness. The theorems hold for all values
of the constants that satisfy the `ASSUME`s of the modules; TLC evaluates those on
every run.

### Execution and settlement

`TaskExecution_proofs` proves, for every set of tasks, accounts, keys, workers
and events and every bound, from `TableAssumptions` and `ExecutionAssumptions`
alone:

- `TypeCorrect`: `Spec => []TypeOK`;
- `SubmitsAtMostOnce`: `Spec => []AtMostOneSubmission`;
- `SubmissionInvariant`: `Spec => []SubmissionInv`, from which both follow.

`AtMostOneSubmission` is not inductive: nothing in it says that a worker about
to call has not been preceded by another. `SubmissionInv` adds

- `WorkersHaveTasks`: a busy goroutine has a task, and one past the answer has
  its generation;
- `LeasesFresh`: a lease number never exceeds the number of claims, a queued or
  ended task has none, and no two workers hold the same lease of one task;
- `RecordedBeforeCall`: a task that is not recorded as submitted was never sent;
  a worker before the record that still has the task's lease finds the task
  unrecorded; a worker between record and call finds it recorded and not sent;
  at most one worker per task is there.

The argument: a worker gets to *prepared* only if it owns the current lease and
the task is unrecorded, hence not sent; it is then the only one there, because
the status *submitted* never goes back to the queue without a generation (the
recovery pass makes it uncertain, a yield refuses it). A late worker with an old
lease fails `CanUpdate`.

The proof has one lemma per action. Most actions move one row in one of a few
ways, so `RowMove` and `WorkerMove` state once which changes of a task row and
of a worker preserve the invariant, and the lemma of an action shows that its
changes are of that kind.

`TaskSettlement_proofs` goes on to money and lost work:

- `CreditsAreRight`, `SettledTogether`, `LosesNoTask`: `[]` of
  `CreditsFollowGeneration`, `SettledWithTask`, `NoLostTask`;
- `LeaseHolderWrites`: `Spec => OnlyLeaseHolderWrites`, for every field of `Written`:
  a goroutine that writes passes the lease's guard, `LeasesFresh` makes it the only one
  with that lease, and every such statement moves it on;
- `RefinesPaidTask`: `Spec => ImplementsPaidTask`;
- `SettlementInvariant`: `Spec => []SettlementInv`, from which they follow.

None of the three invariants is inductive. A worker settles a task by what it
carries in its local variables, so `SettlementInv` adds that this is true:
`WorkerInformed` says that a worker with an answer, or with a status it has read,
knows what the provider did, that one about to call finds its task recorded or
decided by an administrator, and that a worker with the current lease has the task's account; `RowSettled`
says the same of the row. Steps are described per task: `Settled` is what the
invariant says of one task's row, reservation, outbox row and the provider's
record, and `Moved` how they change together. The lemma of an action shows
that each task moves so or stays; the same lemmas give the rule of the lease
holder and, through `LifeOf`, the step of `PaidTask`.

`IdleAccountsServe` proves `IdleAccountServesQueue` under `OrdinarySlots`: no
`video_reserved` account keeps all of its slots. The hypothesis is needed: the run
`standoff` is its counterexample. The invariant behind it is that tasks age in the
order of their admission (`AgedInOrder`); then one of the waiting tasks has none
before it: the oldest if no video waits, the oldest video unless an older ordinary
task has aged, else the oldest ordinary task, which has then aged as well.

### Admission

`Admission_proofs` proves `AdmissionTypes`, `KeysStayWithinLimits`,
`SystemStaysWithinLimits`, `RetriesAgree` and `NoDeadlock` for any number of
concurrent requests, claims and reroutings, from `AdmissionInvariant`. Limits are
checked in one statement and used in a later one. `AdmissionInv` says why that is
safe: a transaction past a check holds the lock under which it checked (`Checked`),
and whoever could spoil the check needs that lock. `LocksInOrder` says how far a
transaction is when it holds a lock: the order is account, key, system, and only an
admission that passes candidates over waits for an account while it holds one. In a
circle nobody waits for the system row, whose holder waits for nothing; so nobody waits
for a key, and whoever holds an account that is waited for is an admission with a
candidate it passed over. Those admissions are a circle of their own, which is what
`NoDeadlock` says; PostgreSQL and the retry resolve it. Two assumptions: tasks are
finite in number (a count of rows is a number), and a lock is of one kind
(`LocksApart`: rows of three tables and two kinds of advisory locks).

`AdmissionsFit` proves `Spec => AdmissionFits` from `RoomInvariant`. An admission
looks at slots and credits under the account's lock (`LockCandidate`) and commits
three statements later. `RoomKept` says that until then the lock, the slot and the
credits are still there. The proof sorts the steps of others by what they do to an
account: those that only let go of tasks or credits (`SparedKeepsRoom`), those that
add to the account and therefore hold its lock, and charges and snapshots, which the
model, like the code, writes only under that lock. The credits an account has
reserved are a sum over its tasks. Since the provers cannot use the induction
theorems, what a sum does when a task is added is shown by a smallest
counterexample instead: numbers, and so finite sets of tasks by their size, have
smallest members (`SmallestNumber`, `SmallestSet`), a sum of costs exists on all
sets of tasks (`SumExists`), the library's operator computes it (`LibrarySumIs`) and
it grows by the cost of the task that is added (`CostSumGrows`).

### Pages

`Playground_proofs` (`StoredResultIsShown`, `StoredResultsAdvance`,
`CancelsWhatIsShown`): `PlayInv` says that the page follows its newest submission or
none, that a video or audio form shows no unfinished task but its own, and that
what was read of IndexedDB is what it holds until an answer is seen. Answers to
earlier polls may still arrive at any time.

`AdminPages_proofs`:

- `ArchivesTheConfirmed`, `ScanMissesTheLateOnes` for any number of accounts and any
  page size. `ScanMissesNone` compares ranks: while accounts only fail, an invalid
  account's rank among the invalid ones only grows, so none slips to a page that
  was read, and a scan that ends with an empty page has found all. One that ends on
  the count has found as many invalid accounts as were counted, and there are no more
  others than failed since.
- `ImportsEachFileOnce`: a file is in one place (`OnePlace`), workers take from the
  waiting items only, and a file whose account is known to exist never waits
  again (`CreatedIsDone`).
- `CookiesReachTheirPlatform`, `OnlyShownCredentialsSent`: `Coherent` holds of the
  fields on screen and of each copy that a handler waiting for a file will write
  back.
- `EveryKeyIsShown` for every set of keys and every number of dialogs, from
  `KeyInvariant`: a creation leaves *created* only into `seen` or `unanswered`, the
  switch and the deletion make no key, and an answer under way names a key.
- `PageSavesOnlyEdits` for all limits and any number of revisions and saves.
  `CapacityInv` says that the form differs from the loaded policy only in edited
  fields (`FormFollowsRevision`); a poll that brings a known revision does not start
  the form again, so it needs that a revision number names one policy among the
  service's, the loaded and the one under way (`RevisionNamesPolicy`), and that
  none of them is newer than the service's (`KnownPolicies`). A save that the service
  has written and one whose answer is still to come are both covered.
- `AccountsImplementPages`: `AccountsSpec` implies the specification of each of its
  pages, so that what is proved of a page alone holds of the composition that the
  run checks; `AccountsTypes` follows.

`Slices_proofs` holds what the scans of `AdminPages_proofs` and `Generation_proofs`
share: ranks in a list, and the sizes of its slices.

`FormPages_proofs`:

- `EstimatesMatch`: whatever changes an input of a calculator forgets its estimate,
  so a pending or shown one belongs to the inputs on screen.
- `OffersItsValues`, `RoutesToSelection`, `ReferencesAlwaysFit` from `MediaInvariant`.
  `MediaInv` adds to `ValuesOffered` that the model is one the platform lists and
  that frames and audio files, which no check before sending counts, are within
  the limits of the model (`UncheckedFilesFit`). The assumptions say what the
  tables must satisfy: internal ids carry their platform's prefix, which is how
  a shared public name finds its platform (`RegistryAssumption`); a row's default
  is among what it offers, and a size has one resolution (`Offerable`, which
  `TablesOfferable` states of all real rows of `videoModelDocs`); the values the
  forms open with belong to the model they open with (`RowsAssumption`).

`Generation_proofs`:

- `CleansTheListed`: the batches left are parts of the list that was confirmed.
- `FormsAgreeWithService` names the only field that the JSON body lacks, and compares
  the two tables of video models for every request
  the form can send. The tables themselves are compared row by row:
  `TablesAgree` states what the page's row of a model and the service's must have in
  common, and TLC evaluates it for all of them. The proof does the rest: that the
  files which the form lets pass are within the limits of the page's row
  (`SubmissionsFit`), and that a request within one row passes each check of the
  other (`FilesAgree`, `OptionsAgree`, `PromptFits`), but for those `LeftToService`
  names.
- `DocsInvariant`: the section, model and kind of reference on display are ones the
  platform and the model have, whichever platforms are reported, none included.
  `TemplatesAreAccepted` follows with `TemplateRows`, the facts about the rows that
  the templates take for granted, and the lemmas about the two tables.
- `TaskPageInvariant`: the types of the task page, and that details are fetched of
  a task and only while its dialog may be open.
- `GenerationImplementsPages` and `GenerationTypes`, as for the administration
  pages.

The real tables are fixed, so `TablesOfferable`, `TablesAgree` and `TemplateRows` are
facts and not parameters; they are `ASSUME`s because a proof would only enumerate
rows, which TLC does. They depend on `CreativeFabricaModels`, of which the runs name
one per kind of row.

### Only model-checked

- Liveness under fairness: `EventuallySettled`, `EventuallyShowsOutcome`,
  `DetailFollowsTask`, `SettledIsShown`, `ScanEnds`, `ImportEnds`.
- The facts about the rows of the two video tables named above.

Liveness, `ENABLED`, recursive operators and the library's induction theorems are
out of the prover's reach. Where a fact needs induction (the sums of admission),
it is proved by a smallest counterexample.

## What is left out

- In admission: the comparison of the request hash on a retry (a mismatch is
  refused without effect), the uncertain limit per proxy, and the candidate
  statement's order of preference (any eligible account may be chosen). A
  row is passed over or excluded by what is true when the lock is granted: a row that
  changed and is dropped by counts from before the wait, though the account fits, is
  left out, as are the attempts with `SKIP LOCKED` before the waiting statement.
- In the claim: tasks of disabled or expired keys in `earlierQueued`; locks on
  task and outbox rows other than the effect of SKIP LOCKED; the limit of 32
  rows per wake-up.
- In the worker: the interval between submissions and the classification of
  account failures, which are free choices between continuing, failing,
  yielding and retrying. Reference images, results and messages are not data of
  the model. A generation id is the number of the lease that submitted it.
- In the pages: filters, search and paging of lists (a scan reads all
  pages of one filter), what is only text or layout, prompts and other fields
  that are sent as they are, the freshness of the query cache beyond the last
  answer, and more than one cached detail. Clearing the stored results and
  reloading the page are one step, as the code waits for the first.
- The sale pricing page, and the pages that only render queries: overview,
  observability, security, model catalogue, navigation and login.
- HTTP parsing, authentication and rendering, the provider clients, files of tasks, configuration and migrations: I/O without
  scheduling state. History cleanup deletes rows nothing reads any more.
- Balance snapshots are an arbitrary balance up to the initial one; the version
  that fences refreshes is not modelled yet.

## Plan

1. `SessionRefresh`: the second lease protocol (HTTP stage, browser stage,
   quarantined cookies), with fencing and liveness properties.
2. `CreditLedger`: balance refreshes with their version, settlements and
   `ReconcileTerminalReservationsForAccount`; a snapshot read before a
   settlement and written after it.
3. The sale pricing page: one settings object, edits while a save is under way.
4. The Adobe and Creative Fabrica workers as variants of the worker's steps.
5. The circuit breaker and proxy control with their Redis windows.
6. The price rule lookup and the image options as operators, checked against
   reference definitions.
