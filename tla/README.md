# Refloom in TLA+

Refloom keeps visual references: projects own References, References own Assets
(screenshots, images, videos) and the Targets and Moments found on them, and
Selections of these are placed on boards. A browser application, an HTTP server
and one MCP process per agent session share one workspace in PostgreSQL and one
bucket of media objects in S3. Browser captures and an external analyzer add to
that workspace while people edit it.

This directory models the parts of that system whose correctness depends on
what happens *between* two steps, checks them with TLC on small instances, and
proves the most important results for every instance with TLAPS. File names
below are relative to the repository; `PROJECT.json` gives the lines each
definition translates.

## 1. Inventory

### Components, state, operations

| Component (source) | State | Operations that change it |
|---|---|---|
| Persistence (`src/postgres-workspace-repository.js`, `src/s3-media-store.js`) | `workspace_state.revision`, the domain tables, `media_objects`; the objects of the bucket | `commit`, `importBackup` (a commit), `openMedia`/`exportBackup` (readers), `cleanupMedia` |
| Rows and domain (`src/domain.js`, `src/postgres-workspace-mapper.js`, the edits of `src/app.js` and `mcp-server.mjs`, `migrations/0001_persistence.sql`) | the workspace: projects, references, assets, targets, moments, selections, boards, signals | each create/update/delete a user, agent or capture can make; write as rows, read back |
| Capture scheduler (`src/capture-scheduler.js`) | Map of jobs, queue, `active` count, history | `enqueue`, `cancel`, `#drain`, job settlement, `close` |
| Website capture (`src/website-capture-service.js`) driven by `src/chrome-capture.js` | per call: loaded workspace, digest map, captured list, attempt | load, screenshot checkpoint with retries, abort, overall timeout, answer |
| Analysis (`src/analysis-service.js`, `src/reference-analysis.js`, `src/visparse-runner.js`) | `reference.analyses` entries with leases (shared), jobs (per process) | request, claim, register, poll, run, settle, cancel, close |
| Ephemeral previews (`src/ephemeral-preview-service.js`) | jobs, resources, `usedBytes`, timers | request, start, complete, fail, cancel, cleanup, timer, close |
| Browser client (`src/storage.js`, `src/app.js`) | `this.revision` and the workspace shown, per page | edit, edit with files, reset, restore, load |
| Server lifecycle (`server.mjs`) | initialization state, cleanup interval and its guard, what close waits for | initialize, serve, clean up, close |
| MCP server (`mcp-server.mjs`) | a memoised initialization; it owns a scheduler, a preview and an analysis service | tools that edit the workspace or start jobs, the stdio loop, close |
| Browser driver (`src/chrome-capture.js`) | profile, proxy, browser, CDP socket, abort and timer of one capture | the work, `cleanup` up to three times, the answer |
| Capture proxy (`src/capture-proxy.js`) | sockets, pending connects, byte budget | CONNECT tunnels, HTTP relays, close |
| Guided interaction (`src/guided-executor.js`) | last snapshot of the page, records, navigation count | snapshot, click, record |
| Interactive observation (`src/interactive-auto.js`, `src/webgl-*.js`, `src/perceptual-image.js`) | samples of a live page | sample, compare, choose |
| Media preview (`src/media-preview.js`, the library view of `src/app.js`) | per card: remaining assets, object URLs, timer, load; per page: the active controller | start, stop, manual, timer, load, failure, destroy; render, claim, reset |
| Migrations (`src/postgres-migrations.js`) | ledger of applied files | lock, apply, record |
| Pure helpers (`src/reference-library.js`, `src/reference-tags.js`, `src/ui-format.js`, `src/capture-request.js`, `src/persistence-config.js`) | none | – |
| Scripts (`scripts/`) | none of the running system | – |

### How they interact

* Everything durable goes through `commit(expectedRevision, workspace,
  additions)`. The callers (HTTP handlers, MCP tools, capture checkpoints,
  analysis changes) load a workspace and its revision, compute a new workspace
  and submit it; a stale revision is refused with a conflict and the caller
  decides whether to retry. There is no other lock between processes.
* A commit uploads new media *before* the transaction; cleanup deletes objects
  that no row names, from an earlier SELECT. Only ages keep the two apart.
* The scheduler calls the capture service, which calls the driver with an
  `onScreenshot` callback; the driver races the callback with its own overall
  timeout, so the callback may outlive the call.
* The analysis service registers work *in the workspace* so that other
  processes see it, and learns from the workspace (by polling) that it was
  cancelled, deleted or restored.
* A driver makes a profile, a proxy, a browser and a socket one await after the
  other; an abort or the overall timer may end the call at any of them while the
  work goes on. The browser reaches the network only through the proxy, whose
  handlers await name resolution.
* Every process runs the migrations under one advisory lock before it serves,
  and closes its services before its repository.
* A page holds two things that must be of the same commit, the revision it will
  send and the workspace its edits start from; they are kept in two modules of
  the page and change at different moments.

### What is hard here, and what makes each part correct

| Component | Hard | Correct means |
|---|---|---|
| Persistence | uploads outside the transaction; cleanup from a stale SELECT; lost COMMIT answers; two writers of one id | rows = media of the workspace; every row has its object, unless it rests on an adopted object that had outlived the grace period; no acknowledged update lost; reads fail only for what was removed or so adopted; the whole is an atomic compare-and-set |
| Domain and rows | cascading deletions, ids shared by several collections, positions of boards | every reachable workspace validates, is accepted by the database unless it names an empty id, comes back the same; a deletion takes what is owned and nothing else |
| Scheduler | hand-counted slots over microtasks, cancellation and late callbacks | slots bounded, none idle while jobs wait, active jobs findable, close complete |
| Website capture | retries on conflict against users; checkpoint after the timeout; reuse of an Asset that went away | checkpoints only add; a Moment has its Asset; the answer tells the truth; always answered |
| Analysis | leases, crashes, five retries of a claim, late completion | capacity, one entry per key, run within the lease, late results inert |
| Previews | jobs that live on after cancellation; two expiry paths | bytes add up, abandoned jobs store nothing, previews expire exactly when due |
| Server lifecycle, migrations | close during initialization; several releases start at once; a process dies with the lock | migrations once and in order; work only on a migrated store, and on an open one but for handlers whose client left; starts end, and so do stops if the work they wait for does |
| Driver, proxy, observation | cleanup races what it has to clean; handlers that outlive close; a page that moves between two evaluations | nothing is left of an answered call; a cancelled one starts nothing new; limits hold; clicks and Moments are as recorded |
| Library and its previews | late loads, stopped shows, overlapping renders | one active preview; no URL outlives its controller; no card of the last render shows a revoked one; shows go on |
| Browser client | awaits between revision and workspace; lost answers; failed reloads | an accepted edit was made from what it replaces |

`PROJECT.json` lists every hazard at its line with the properties that watch it.

## 2. Modules

| Module | Models | Proofs |
|---|---|---|
| `WorkspaceStore` | abstract: what a caller of the persistence layer sees | – |
| `Persistence` | commit, read, export and cleanup, await by await; refines `WorkspaceStore` | `PersistenceProofs` |
| `CaptureScheduler` | the scheduler class, callback by callback | `CaptureSchedulerProofs` |
| `WebsiteCapture` | `captureReference`, its checkpoints, driver and users | `CaptureProofs` |
| `AnalysisService` | requests of several processes over the shared entries | `AnalysisServiceProofs` |
| `Domain` | workspace, edits, validation, rows, keys, export | `DomainProofs` |
| `PreviewService` | the preview class, callback by callback | `CaptureProofs` |
| `BrowserClient` | pages over `/api/workspace` | `BrowserProofs` |
| `Migrations`, `ServerLifecycle` | the runners of all processes; the processes around them | `ServerLifecycleProofs` |
| `CaptureProxy`, `InteractiveObservation`, `ChromeCapture` | the proxy; guided clicks, samples and Moments; the capture that owns both | `ChromeCaptureProofs` |
| `MediaPreview`, `LibraryView` | a preview controller as a value; the page that keeps one per card | `BrowserProofs` |
| `MC*` | constants, symmetry and inputs of the TLC instances | – |

Composition. `WorkspaceStore` is the seam. `Persistence` implements it
(`ImplementsStore`, a refinement mapping that hides uploads, lock and phases and
shows each call as idle, open or answered). `WebsiteCapture`, `AnalysisService`
and `BrowserClient` use the promise it makes: their commits are one atomic
compare-and-set of a whole workspace, with the "answered with an error but
committed" outcome as an action of its own (`CommitUnacknowledged`,
`Unacknowledged`, and an accepted call whose answer is `Failed`). `Domain` says
what the workspaces are that such a store holds: `Checkpoint` and
`SaveSelection` of `Domain` are the edits that `WebsiteCapture` and the page make.

Three compositions are one state machine. `ServerLifecycle` extends `Migrations`
and adds the process to each runner; `ChromeCapture` extends `CaptureProxy` and
`InteractiveObservation` and interleaves its work and cleanups with the
connections of the browser and the moves of the page; `LibraryView` keeps a value
of `MediaPreview` per card and interleaves the calls and callbacks of all. The
lower modules state their actions and invariants over their own variables, the
upper ones name the run.

### `WorkspaceStore`
`revision`, `workspace`, `rows` and per caller `call`. `Request` submits;
`Accept` is the compare-and-set with the list of created References,
`AcceptUnacknowledged` the same with a failure as the answer, `Refuse` changes
nothing, and reports a conflict only to a stale caller.

### `Persistence`
State is split as in the deployment: PostgreSQL (`revision`, `workspace`,
`rows`, `lock`), S3 (`stored`, `modified`), processes (`writer`, `reader`,
`cleaner`), environment (`born`, `now`, `faults`). A commit runs `Begin`,
`CheckRetained` (ids retained must have rows; additions must be named), for each
addition `PutHead`/`PutObject`/`PutVerify` (HEAD, conditional PUT, HEAD again
with the digest check), `Lock` (`SELECT … FOR UPDATE` and the revision check),
`WriteRows` (created References and missing media from locked state),
`Commit`. Each await is a step boundary and may fail (`Fail`,
`CommitUnacknowledged`). A reader takes digests from one snapshot and then
fetches (`OpenMedia`, `OpenExport`, `Fetch`, `FinishRead`). A cleanup run is
`CleanupSnapshot`, `CleanupCutoff`, `CleanupList` page by page,
`CleanupDelete`/`CleanupSkip`, `CleanupFinish`.

Ids may be added at any age: new, retried, deleted and added again, restored from
a backup. Two waits are given a length because the code bounds neither: a commit
lasts at most `CommitBound`, the SELECT of cleanup answers within `QueryBound`.
There is one cleanup at a time, that of the one server process. A HEAD may find an
object that no row names, or only a row that rests on such an object, and that may
outlive the grace period before the call ends (`Aged`): the call adopts it.
`writer.aged` and `agedRows` remember those adoptions; they are history for the
properties and guard nothing.

Left out: sizes and their limits, content types, the readiness probe, the
configuration; a key is one medium, its bytes one digest.

### `CaptureScheduler`
Each action is one uninterrupted run of JavaScript: `Enqueue`, `CancelQueued`,
`CancelCapturing`, `Close`, `DrainMicrotask`, `Settle` (result stored, waiters
resumed) and `Finish` (slot freed, drain). A waiter runs between the last two,
which is why `settling` exists. Jobs are numbered in order of creation; Map and
queue iterate in that order, so both are sets.

### `WebsiteCapture`
One record per call of `captureReference` with the code position in `step` and
what its caller was told in `answer`; the two differ after `Timeout`, when the
call has been answered and its checkpoint goes on. `Load`, `Shoot`, `Read`,
`AppendCheckpoint`, `CommitCheckpoint`/`Conflict` (bounded retries),
`CommitUnacknowledged`, `Fail`, `Return`, `StopAborted`, and the users' `Abort`,
`EditUrl`, `DeleteReference`, `ExportBackup`, `ImportBackup`. `installed`
(Moments ever committed) and `met` (calls that ran at the same time) are history
for the properties. The driver is the sequence of its callbacks, abort checks
and its overall timeout.

### `AnalysisService`
Entries live in the workspace, requests in processes. `Ask`, `Load`, `Prepare`,
`Claim` (reuse, capacity, limit), `CommitClaim`/`ClaimConflict`, `Register`,
`Check`, `Poll`, `Analyze`, `Settle`, `Save`/`SaveConflict`; `Fail`,
`Unacknowledged`, `Crash`, `Close`; the users' `Cancel`, `ReplaceAsset`,
`DeleteReference`, `ExportBackup`, `ImportBackup` (running entries of a backup
become interrupted); `Tick`. The key of a request is the asset's locator and
`Intent`; inspection evidence is part of the asset. `RunsInTime` is the kill
timer of the analyzer. `SlackCoversStore` (`StoreBound < Slack`) is the
assumption under which a lease suffices; the code has 15 s of slack
(`src/analysis-service.js:120`) and no bound on the store.

### `Domain`
The workspace is a record of partial functions from ids to entities. The
operators (`CreateReference`, `DeleteReference`, `RemoveFromBoard`, …) are those
of `src/domain.js`; the actions are the edits that call them, several for one
operation where the browser and the MCP tools guard it differently.
`Validates` is `validateWorkspace`; `Rows`, `ForeignKeys`, `InsertOrder`,
`EntriesUnique` are the tables and their constraints, `FromRows` the reader of
`postgres-workspace-mapper.js`; `Exported` is the package of a board.

The MCP tools accept `''` for an optional id. `EmptyId` is that string: the domain
functions and `validateWorkspace` take it for absent (`Falsy`), but store it, and the
mapper writes it as it is, so that it is a foreign key to nothing. `BlankTargets` and
`BlankSelections` are the entities that name it.

Left out: texts, titles, tags, kinds, times, settings, analyses (see
`AnalysisService`), signals about other subjects than References, and the order
of collections other than that of board entries, which is kept. Several files
captured in one edit are several steps. Restore is not an action: it installs a
workspace that passed the same validation.

### `PreviewService`
A job has what the Map says of it (`status`) and what its capture does (`run`),
which end apart. Times are what is left until expiry; a capture id may be drawn
again once nothing of its job remains. `Request`, `Cancel`, `Close`, `Look`
(status, read and refused calls: each runs the cleanup), `Start`, `Completes`,
`CaptureFails`, `Discard`, `Timer`, `Tick`, `CloseFinish`. An oversized screenshot
is a `CaptureFails`.

### `BrowserClient`
A workspace is known by the revision whose content it is, so a page is two
numbers: the revision it will send and the revision its content is of. Open
calls sit in slots: `Edit`, `EditWithFiles` (which encodes first), `Reset`,
`Restore`, `Load`, then the service's `Accept`/`Refuse`/`ServeLoad`/`LoseLoad`,
then `Accepted`, `Conflict`, `Reloaded`, `Loaded`, `Failed`. `Careful` pages open
one call at a time, do not reset and have their loads answered: an assumption
about their users and network, not something the code enforces.

### `Migrations`
`lock` is the advisory lock, `ledger` the rows of `schema_migrations`, `schema`
the SQL that is committed, in order. A runner is `Connect`, `TakeLock`,
`ReadLedger`, then per file `Decide` and `Commit`, then `AllDone`, `Unlock`.
A query may fail (`Fail`), a commit may be done and not acknowledged
(`CommitUnacknowledged`), a session may be lost (`LoseSession`), a process may
die (`Die`); the last two free the lock. Files are known by their checksum, and
the releases of two processes may disagree.

### `ServerLifecycle`
Per process: `state`, the cleanups that run, whether initialization awaits the
first, the interval, the `door` (listening or reading stdin), a request, a handler
whose client has `left`, jobs left behind, jobs begun too `late`, and the `chain` of
close. `Launch`, `Migrate`, `Ready`, `NotReady`, `CleanupEnds`, `Tick`, `Request`,
`Respond`, `ClientLeaves`, `LeftEnds`, `JobEnds`, `LateEnds`, `CloseServer`, `Closed`,
`CloseAnalysis`, `CloseScheduler`, `EndPool`, `Crash`. node emits the server's
`'close'` when connections have ended (`ConnectionsOver`), not when the async handlers
have: a handler whose client disconnected runs on while the chain closes the services
and the pool, and the job it starts at a service that has already closed
(`ClosedServices`, `HandlerEnds`) is a late one. One request, one handler without a
client and one job per service stand for many. Routes, static files and headers are
left out.

### `CaptureProxy`
Per connection its handler's stage, client and upstream; per proxy the set of
admitted sockets, which `close()` destroys, and the bytes used. `Accept`,
`Refuse`, `Forward`, `Tunnel`, `HalfTunnel` (only one of the two sockets found
room), `Chunk`, `ClientLeaves`, `UpstreamEnds`, `CloseProxy`. `early` marks a
client that left while its host was resolved: its slot stays taken. A plain request
that finds no room ends the process (`Unhandled`, `died`): `admit()` destroys the
`ClientRequest` before its `'error'` listener is attached
(`src/capture-proxy.js:62` and 74). Address
rules are the choice to refuse; bytes are chunks; a `CONNECT` head, which is not
counted, is no chunk.

### `InteractiveObservation`
A page is an origin, a document and a fragment, and may move between any two evaluations
to any of its `Places`, and back (`PageMoves`). The actions are the run of the guided
actions: `FirstSnapshot`, `SendAction`, `Replied`, `ActionFails`, `NextSnapshot`; and
`Evaluated`, in which the page runs what it was sent, at any time after, whether
somebody still awaits the reply (`flight`) or not. `home` (the origin of the first
snapshot), `clicks`, `strays` (clicks made elsewhere) and `returns` (moves back to
`home`) are history. Then the sampling loop: `Sample` takes an image or finds no canvas,
`SampleFails` ends it. An image is a number and visual change a distance; `Initial` is
`findStableInitial`, `Chosen[n]` what the representative loop has chosen after `n`
turns. How a control is matched, how a canvas is selected and how pixels are compared
are left to choice.

### `ChromeCapture`
`work` is what the work awaits: URL, executable, profile, proxy, browser,
socket, setup, load, reading, then the loop of the mode. `IfActive` is
`active()`: a cancelled work throws at its next check, and the model keeps apart
the awaits after which the code asks and those after which it does not. `cleaner`
holds the three cleanups (on abort, before the answer, after a work that outlived
its call), each of which closes the socket and kills the browser at once, then
closes the proxy, then removes the profile. CDP messages are replies that come or
fail. Once the work is over the page goes on until the browser is gone
(`PageActs`): a click in flight may still be made. When the proxy has ended the process
(`died`), no further step is taken. Plans, diagnostics and metadata are left out.

### `MediaPreview` and `LibraryView`
A controller is a value with the assets left, index, timer, load of the present
generation, loads of older ones, object URLs and what its card shows; `Started`,
`Stopped`, `Clicked`, `TimerFired`, `LoadEnded`, `StaleEnded`, `AssetFailed`,
`Destroyed` are what a call or callback makes of it. `LibraryView` has renders
that await card after card (`Render`, `CardReady`) and may overlap,
`ResetPreviews`, `Claims`, and the events of pointer, control, timer, load and media
element. `away` says that another view, or none, has taken the page over (`Elsewhere`);
with a later render it is what makes a render `Overtaken`, whose cards are destroyed and
may be listed all the same. What a destroyed controller left in the page still fails with
its URL. The media of a card are read and its controller is made in one step: what lies
between in the code is the continuation of one await. Cards with one image only, which
own a URL and no controller, are left out, and so are layout and the dialogs.

## 3. Runs

| Run | Asks | Instance |
|---|---|---|
| `persistence_safe` | do rows and objects stay consistent under ids of any age, does the protocol implement the atomic store | 2 commit calls, no reader, 1 medium, 2 contents, grace 1, commit bound 1, instants 0..2, 2 revisions, 1 fault; symmetry on callers and contents |
| `persistence_live` | is every commit answered, are failed reads explained, does an expired orphan go that cleanup examines | 1 commit call, 1 reader, 2 media of which a cleanup examines 1 (`CleanupLimit`), 1 content, instants 0..2, 1 fault, fairness |
| `scheduler_safe` | slots, tracking, wake-ups, close, settlement | 3 References, 2 slots, queue 1, history 1, 4 jobs, fairness |
| `capture_safe` | what checkpoints do to the workspace and what callers are told | 2 captures in 2 processes, 2 screenshots each of one digest, 1 retry, timeouts, 1 edit, 1 restore, 1 fault, fairness |
| `analysis_safe` | capacity, leases, reuse, late results | 2 requests with one key in 2 processes, capacity 1, 2 attempts, run 1, slack 2, store bound 1, instants 0..3, 1 edit, 1 restore, 1 fault |
| `domain_edits` | what every sequence of edits leaves | two ids of every kind and the empty one, symmetry on each kind |
| `preview_safe` | accounting, expiry, abandoned captures | 4 ids, 2 active, 3 retained, 3 resources, 4 bytes, TTL 2; time and number of requests unbounded |
| `browser_careful` | what a careful page may overwrite | 1 careful and 1 hasty page, 2 calls each, 3 revisions |
| `browser_overwrite` | *(violation)* can a page replace what it has not seen | 1 hasty page, 2 calls, 3 revisions |
| `startup` | do migrations, readiness, cleanup and shutdown of several processes fit | 1 HTTP and 1 MCP process, releases that agree on the first of two migrations, 1 fault (`MaxFaults`), 1 crash (`MaxCrashes`), fairness |
| `driver` | what is left of a capture, who it reaches, what it records | the three modes; scroll with 2 plans and 2 connections over 2 sockets and 1 chunk (`Traffic`); guided with 2 actions, 1 navigation, 3 moves (`MaxMoves`); auto with 3 samples of 3 images (`Watched`; the others take 1), 2 representatives; fairness |
| `library` | what cards show and what URLs they hold over overlapping renders | cards of 3 and 2 assets, 2 renders (`MaxRenders`), 2 user events or failing nodes (`MaxEvents`), reduced motion or not |

Why these bounds are enough to meet the cases:

* *Persistence.* Two callers with two contents for one id meet in HEAD, in the
  conditional PUT (412) and at the lock; two revisions let a second commit drop
  or keep what the first added; grace 1 with three instants puts an object just
  inside and just outside the grace period, and `ExpiredInclusive` (off by one
  there) breaks the run. One fault can be any failing call, a lost COMMIT
  answer, a failed key or listing of cleanup. A failed call leaves an orphan at
  instant 0; at instant 2 it has aged, and another call may adopt it around a
  cleanup. Two media under a limit of one are a bucket larger than what a run
  examines: the second key is behind the limit while the first is stored, and within it
  otherwise. In the run with one medium, a limit of two and pages of one end the
  listing by its answer instead.
* *Scheduler.* Three References for two slots and one place in the queue reach
  a full queue, a Reference enqueued again by a waiter, and trimming with
  history 1. Four jobs bound the behaviour, not the state at a time.
* *Capture.* One digest makes every second screenshot a reuse; one retry is
  both "may retry" and "gives up"; one edit and one restore allow the
  delete-and-restore of the Asset a checkpoint wants to reuse.
* *Analysis.* A lease of 3 within 3 instants expires in a running behaviour; one
  crash leaves its entry to the lease. The claims of two processes race for
  capacity 1.
* *Domain.* A second entity of each kind is what a relation can wrongly point
  to; boards of two entries have an order. An empty id may be given wherever the MCP
  tools accept one; the commit is then refused and rolled back (`Refused`), so that one
  such entity at a time is all there can be.
* *Previews.* Every limit can be reached and exceeded, and a job may be
  cancelled, expire and leave its capture running while two others start.
* *Browser.* Three revisions: the loaded one, one by somebody else, one to
  overwrite it with.
* *Startup.* Whoever migrates second skips one version and meets another
  checksum at the next, or applies it if the first stopped there. One fault is
  any failing query, lost session or lost commit; one crash leaves lock and
  ledger to the other or to its own restart.
* *Driver.* Two connections and two sockets reach a tunnel that finds one place
  only, and the limit; one chunk is the budget and the next exceeds it. Traffic
  is confined to one mode because a connection does not look at the mode. Three
  moves take a page out of its origin, where it is clicked, back before the next
  snapshot, and out again under the second click. Three samples
  with a window of two have a stable pair, none, and a later change.
* *Library.* Two renders overlap in every way two can, and each card is made by
  both. Two events start one show and stop, fail or take over the other; the
  same run with three events holds as well, in some eight million states, and is
  left out for its length.

`CHECK_DEADLOCK FALSE` is set where the instance may stop for good: all jobs of
the bounded scheduler used up and settled, both captures over and the users'
edits spent, all requests over at the last instant, all processes closed, the
capture answered and cleaned, the renders and events used up. The other runs
check deadlock: their systems always have something to do.

### What each property says

One type invariant per module; where it is not listed it is a conjunct of the
first property of its run.

* `persistence_*`: `RowsMatchWorkspace`, `media_objects` names exactly the media
  of the committed workspace. `UploadsStayStored`, every row has an object
  with its digest, unless the commit that added the row adopted an object about to
  outlive its grace period: that one a running cleanup may still delete.
  `ImplementsStore`, the refinement. `FailedReadWasRemoved`, a read that failed on an
  object read a row that is gone, or one over an adopted object. `CallsAnswered`, liveness;
  `OrphansCollected`, an expired orphan does not stay for ever among the keys a run
  examines (`Examined`).
* `scheduler_safe`: `ConcurrencyBounded`, `ActiveJobsTracked`, `NoIdleSlot`,
  `CloseDrains` (close awaits every active job, leaves none queued),
  `JobsSettle`.
* `capture_safe`: `CheckpointsOnlyAdd`, `MomentsHaveAssets`, `AnswersTruthful`,
  `FailureLeavesNothing`, `DuplicatesMet` (two Assets with the same bytes only
  from captures that ran at the same time), `CapturesAnswered`.
* `analysis_safe`: `CapacityRespected`, `LeaseCoversRun`, `ClaimedOnce`,
  `LateCompletionInert`.
* `domain_edits`: `Valid`, `RowsFaithful` (every insert finds its keys, no key is
  used twice and the rows read back are the workspace, exactly if no entity names the
  empty id), `ExportsStayInProject`,
  `OnlyOwnedRemoved` (a step removes an entity only with its owner, and more than
  one Reference only with their project).
* `preview_safe`: `StoreSound` (bytes add up, an abandoned job stores nothing,
  what runs is in the Map), `RemovedOnlyWhenDue`, `PreviewsExpire`.
* `browser_careful`: `CarefulOverwritesNothing`.
* `startup`: `MigrationsSound` (each migration ran once and in order, the ledger
  says so, a runner that succeeded has its schema), `WorkMeetsReadyStore` (no
  handler or job meets a schema that is behind; none meets a repository that is closing
  but a handler whose client left and a job it started at a closed service),
  `CleanupOrderly` (one cleanup at a time; an interval outlives its server only
  if the server closed before its first cleanup was over), `ProcessesSettle`
  (what starts becomes ready or fails; what is told to close closes, unless a handler, a
  job or a cleanup, which have no timeout, never ends).
* `driver`: `AnswerReleases` (nothing is left of an answered call, after the late
  cleanup if it timed out; a killed browser that has not exited and a profile that
  `rm` could not remove count as released), `ProxyContained` (a closed proxy reaches nobody,
  slots are accounted for, the budget is kept), `QuietAfterCancel` (a cancelled
  capture starts no browser, delivers nothing and sends no action; the page may still run
  the one that was in flight, and no other), `ObservationTruthful` (every click outside
  the first origin but one took a return of the page to it; what is recorded as executed
  was clicked, and at most one click is not recorded as executed; Moments differ, and
  stand for every later sample when there are fewer than asked), `EndsClean` (a capture is
  answered, its browser exits and what it made is released, unless the process dies of a
  refused plain request).
* `library`: `PreviewsAccounted` (at most one preview is active, and it is the
  registered one; URLs are held for living controllers and remaining assets),
  `CardsShowLiveMedia` (no card that lives shows a revoked URL, a card at rest shows its
  poster, an active show goes on; and only cards of an overtaken render are destroyed).

Each property of a passing run has a mutant in `PROJECT.json`: a variant of one
definition of the model, with a plausible mistake, that breaks it. The variants
are the definitions marked as mutants, next to what they replace.

### Fairness

* `Persistence`: weak fairness of every step of a call and of cleanup, strong
  fairness of `Lock`: service calls return, the row lock is granted in turn (a
  waiter is not overtaken for ever), the interval of `server.mjs` keeps firing.
  A call may instead end in `Fail`; none has to.
* `CaptureScheduler`: weak fairness of microtasks and callbacks, and of `Settle`:
  the driver bounds a whole capture.
* `WebsiteCapture`: weak fairness of the steps of a call; the users, faults and
  the timeout are not fair.
* `PreviewService`: weak fairness of `Tick`, `Timer`, `Start`, `CaptureEnds` and
  `CloseFinish`: time passes, timers fire, captures end.
* `ServerLifecycle`: weak fairness of the steps of a migration (PostgreSQL answers, and
  hands the advisory lock on), of the steps of a process that wait for nothing outside
  it, of `EndPool` while no handler, late job or cleanup is out, and of closing a
  server whose initialization failed, which `startRefloomServer` does. Nothing is assumed
  of requests, jobs and cleanups: the pool has a timeout for connecting only
  (`src/create-persistence-repository.js:10-14`), its queries and the calls of the media
  store have none, so that one of them may keep a stop waiting for ever (`Busy`).
* `ChromeCapture`: weak fairness of the overall timer, the cleanups and the
  answer; of the exit of a killed browser and the end of its connections; and of
  the work while its await has a timer of its own, or once its socket is
  closed. The awaits of setup and reading have none: there the overall timer ends the
  call and closes the socket, which ends the await. Nothing is
  assumed of `onScreenshot`, which waits for the database: the call is answered
  and everything is released all the same, by the overall timer. A process that has died
  promises nothing.
* Requests, edits, cancellations, crashes and faults are never assumed to happen.

## 4. Proofs

TLAPS proves each of these for all values of the constants that meet the named
assumptions of the module; the run named in section 3 shows the property on an
instance.

**`PersistenceProofs`.** Three layers. `Types` is inductive by itself
(`TypesCorrect`). `TransactionInv` says that a call past its revision check
holds the row lock, that its base is still the current revision and its created
References and rows are those of locked state; it is what makes a commit a
compare-and-set (`TransactionCorrect`), and gives `RowsMatch` and
`NoLostUpdate`. `StorageInv` relates ages: `UploadInv` (a
running call is on time, and what it has verified, but for what it adopted `Aged`, is
there and either `Young`, so that no cleanup can come to select it while the call runs,
or `Protected` by a row that rests on no such adoption), `CleanupInv` (what is
`Protected` and the snapshot of cleanup did not name is younger than the cutoff can reach;
a candidate is not `Protected` and has outlived the grace period). It is inductive
for any ids, of any age, and gives `ObjectsStored` and `FailedReadsExplained`.
It has to speak of time: a candidate of a running cleanup can be adopted by a
commit (section 6), and only ages tell that object from one the call has just written.
`UploadsNotAged` says that the exception is no wider than that: if the grace period
covers a call and the SELECT, then nothing that was uploaded while the call ran
is ever `Aged`.
`StoreImplemented` is the refinement: `WriterRefines` maps `Begin` to
`Request`, `Commit` to `Accept`, `CommitUnacknowledged` to
`AcceptUnacknowledged`, every refusal to `Refuse`, all else to a stutter.

**`CaptureSchedulerProofs`.** `Inv` strengthens the properties with
`SlotsCounted` (`active` is the number of captures running or settling),
`QueueSound` (the queue holds exactly the queued jobs, in the Map) and
`MapSound` (one job per Reference). `SlotsCounted` is needed because the code
counts by hand and frees a slot one microtask after the result. Lemmas on finite
sets of job numbers (`Oldest`, `ShiftedBounds`, `TrimKeepsActive`) say what a
drain takes and what a trim drops.

**`DomainProofs`.** `WorkspaceSound` is `Sound` (`IsWorkspace`, `Validates` and
`SignalsLive`) and `BlankLast` (whoever names the empty id owns nothing yet). One lemma
per operation of `domain.js` (`ReferenceDeleted` is the long one) shows that it keeps
`Sound`; `EditSound` splits `Next`. `TypeCorrect`, `EditsValid`, `SignalsFollow`,
`ExportsOwned` follow, for any ids and any number of entities. `RemovedWithOwner`: every
operation either only adds (`Larger`, which is transitive, so that an edit made of
several operations adds too) or is one of the two deletions, and what those remove
belonged to what they remove (`RemovesOwned`). `BlankLast` holds because an edit that
adds such an entity is refused before the next one (`EditBlankLast`, `RefusedSound`).
`RowsKeepWorkspace` is an equivalence. A workspace with an empty id has a row whose
foreign key finds nothing (`BlankFails`, `AcceptedUnblanked`). One without goes table by
table: a row is made from one entity (`EntityRow`), so that keys are unique; the foreign
keys of a table are met by tables inserted before it because the workspace validates
(`ProjectKeys`, `OwnerKeys`, `EntryKeys`); and `ReadBack` reassembles each collection,
the entries of a board by their positions.

**`BrowserProofs`.** Of `BrowserClient`: `PageInv` of a careful page: its two numbers
agree unless a load is under way, it has one call open, and an edit that was sent was
made from the workspace of the revision it carries. A page that reloads after a conflict
holds a newer revision than its workspace for a while, which is why the invariant speaks
of the phases of a call. `NothingOverwritten` follows among arbitrarily many other
pages, careful or not.

Of `LibraryView`: a call of a controller is a chain of steps (drop an item, show one,
cancel what is awaited, restore the poster), and between two of them the show may for a
moment await nothing. So there are two invariants of a controller: `Kept`, which every
step keeps (`DroppedKept`, `ShownKept`, `ScheduledKept`, …), and `Sound`, which adds
that an active show awaits something, and holds again when the call returns
(`StoppedSound`, `MissedSound`, `LoadEndedSound`, `ErredSound`, …). `Kept` strengthens
the properties with: a load is of an asset that has no URL yet and is still an item (so
that a failing node, which has one, never drops what is awaited); a revoked asset is no
item any more; after a failure the load that follows knows that an item is gone, which
is what makes "unless two assets failed" true. `LibraryInv` adds the page: a controller
is made once, because each is of a card its render has already counted; it is active
exactly if it is the registered one; and it is destroyed only if its render is overtaken
(`OvertakenOK`). The last follows from the order in which renders begin, and from
`SameLife`: whatever a call or callback makes of a controller, only `destroy()` destroys
it.

**`CaptureProofs`.** Of `WebsiteCapture`: `Inv` has five parts. `Store`: the workspace
and the backup hold Moments with their Assets. `RecordOK` of each call: what it reports
is installed, and the checkpoint it is about to commit was computed from the workspace
it loaded (`Pending`). `Names`: an id of an Asset has one digest for good, wherever it
is remembered, which is why an Asset that was deleted and restored may be reused.
`Companions` (calls at work together have met) and `Acquainted` (a call knows the digest
of every Asset whose maker it has not met) give `DuplicatesMet`. `CheckpointsOnlyAdd`
and `FailureLeavesNothing` follow step by step: a commit is a compare-and-set, so what
was loaded is what is replaced.

Of `PreviewService`: `JobOK` ties what the Map says of a job to where its capture
is (a capture at work has no timer, and its job stays in the Map until the service
has closed), `StoreOK` says that the jobs that hold resources are those that
completed and that `usedBytes` is the sum over them, `MapOK` counts. `Bytes` is a
fold, so the sum needs a lemma for what a store gains and loses (`BytesOfBoth`,
from `SumGrows`). `PreviewsHold` follows; `RemovalsAreDue` is then a matter of each
step.

**`AnalysisServiceProofs`.** The workspace has its leased work within the capacity
(`Small`), one entry per key (`Keyed`), and every entry was made by a request that
has claimed and still has its locator and lease (`Traced`). A request bounds, by
where it is, how much of its lease is left (`RecordOK`), and what it is about to
commit is right if nobody wrote since it loaded (`PendingOK`). A claim that commits
replaces the revision it counted, so the count is still true: this gives
`CapacityKept` and `KeysShared` across processes and crashes. `LeaseHolds` needs
`SlackCoversStore`.

**`ServerLifecycleProofs`.** Whoever is past `pg_advisory_lock` holds the lock
(`RunnerOK`), and then what it read of the ledger, with the versions it has passed, is
the ledger (`Reads`), so that a migration it runs is missing (`RunsMissing`). A runner
that is done found or committed every version, and stays right because the ledger only
grows. Above it, a process that is ready has such a runner; requests, handlers without a
client and jobs, timely or late, belong to ready processes; there is no request once the
connections are over and the door has closed, and a service has no timely job once the
chain has passed it (`LifecycleInvariant`). `WorkIsServed` needs no more: what is left
to meet a closing repository is what the property names.

**`ChromeCaptureProofs`.** `ProxyInv` relates each connection to its slots
(`Slotted`), which is what makes `close()` reach every upstream. `CleanupInv`: a
cleanup that began when the work was over has released what lies before the
place where it is (`Releases`); the final one did unless the timer was first, the
late one always did; a proxy is about to listen just while the work waits for it.
`Quiet`: the socket of a cancelled capture is open only when nobody is left to use
it. A killed browser may still answer a connection, so that a socket may open
after the abort; the invariant holds because the work throws in that very step.

`CancelledIsQuiet` rests on `SendsNothing`: every step but that of the work leaves
what is in flight, or ends it.

`ObservationHolds` has two parts. Clicks: `GuidedCounts` relates the clicks to the
records and to what is in flight, and `GuidedPlaces` the strays to the returns: there
are no more strays than returns whenever an action may be sent or is in flight, and
while the run goes on in a page that is at home; one more click is all that can follow
(`GuidedInv`). Nothing bounds how often a page returns, so nothing else bounds the
strays. Moments: `Chosen` is a recursive function, which exists because a table of its
first *m* values exists for every *m* (`TurnsTaken`). A turn adds a sample that differs
from all chosen, or finds no candidate and changes nothing (`TurnKeeps`); so the Moments
differ, and if there are fewer than asked then the last turn found no candidate, which
is to say that every later sample looks like one of them (`MomentsChosen`).

### Only model-checked

* Liveness (`CallsAnswered`, `OrphansCollected`, `JobsSettle`,
  `CapturesAnswered`, `PreviewsExpire`, `ProcessesSettle`, `EndsClean`): the
  prover handles neither ENABLED nor fairness here.

Every invariant and every action property of the passing runs is stated by a
theorem. Where a proof needs induction over numbers (the byte sum of the previews,
the turns of the choice of Moments) it goes by the least counterexample: the
order of the naturals is well founded (`NatLessThanWellFounded`, `WFMin`), stated
for sets as `AllNaturals`, because the induction theorems that take a predicate
cannot be instantiated by the installed provers. No module declares a RECURSIVE
operator.

What the proofs do not cover is what the models leave out, and that a fair
scheduler makes something happen.

## 5. Findings (runs that must fail)

* `browser_overwrite` (`src/storage.js:215`): the revision an edit sends is read
  after files were encoded, the workspace it sends was made before; an edit of
  the same page committed in between is overwritten.

## 6. Observed, not runs

Persistence

* `put` adopts an existing object whatever its age (`src/s3-media-store.js:191`);
  a cleanup that works from an older SELECT deletes it after the commit, though
  `docs/ISSUE_5_PERSISTENCE_DESIGN.md:208-209` says referenced objects are never
  deleted. Without `agedRows` in `UploadsStayStored` the run shows it in 18 steps: a call
  uploads at instant 0 and fails; another adopts the object at instant 1; at instant 2 a
  cleanup takes its snapshot and its listing, the call commits, and the batch delete
  follows.
* The grace period runs from S3's `LastModified`
  (`src/s3-media-store.js:277`); the design (lines 209-211) speaks of the time since
  an object became unreferenced. `Persistence` models the code.
* The same design (line 208) says that a cleanup which reaches its limit resumes
  from the next run; every run lists from the first key again
  (`src/s3-media-store.js:262-264`), so in a bucket with more objects than the limit the
  later keys are never examined. `persistence_live` has such a bucket, and
  `OrphansCollected` fails in it without `Examined`.
* A `pg_advisory_unlock` that fails on a session that lives would keep the
  migration lock until its connection is dropped; the model takes a failing unlock
  for a lost session.

Captures and analyses

* A retried checkpoint looks for the Reference, not for its URL
  (`src/website-capture-service.js:149`); the design at 175-176 says both are
  revalidated.
* A checkpoint that lands after the timeout is unknown to the next capture of
  the Reference, which then adds the same bytes as a second Asset;
  `DuplicatesMet` states when that may happen.
* A service closed while a claim commits starts the analyzer afterwards
  (`src/analysis-service.js:135`); `docs/REFERENCE_ANALYSIS.md:192` says a
  graceful shutdown aborts its own jobs. `ServerLifecycle` has it as a late job.
* A cancelled preview whose browser still runs is not counted by
  `maxActiveJobs`, and when it was cancelled before `close()` it is not awaited.

Driver

* A client that left while its host was resolved is admitted all the same and
  keeps its slot until `close()`; the head of a `CONNECT` is not counted against
  the budget; when only the upstream of a `CONNECT` finds room, it is left to its
  idle timeout.
* A plain `http` request for which there is no socket left destroys its `ClientRequest`
  (`src/capture-proxy.js:62`) before the `'error'` listener of line 74 exists; node then
  raises an unhandled `'error'`, and the process ends with every capture it runs.
* A guided click is compared with its origin after it was made
  (`src/guided-executor.js:193-212`), and the comparison is with the last snapshot only: a
  page that moves in time is clicked once outside the first origin, and then the run
  ends, unless it comes back to where it was before the next snapshot. Then the click
  is recorded as executed and the next action may stray again; `ObservationTruthful`
  states the bound by the returns.
* An action that was sent before an abort runs in the page until SIGKILL takes effect
  (`src/guided-executor.js:160-162`): a cancelled capture may still click once.
*   `docs/PRIVACY_SECURITY.md:93-98` says that there is no input-action executor and
  that guided actions are rejected by validation; `src/guided-executor.js` clicks.
* After SIGKILL `exitCode` stays null, so a second cleanup waits its full second;
  a socket that connects after its own timeout is left to the killed browser.

Server and page

* A server closed during its first cleanup sets its interval afterwards, on a
  closed store (`CleanupOrderly` says so; each turn then fails at its query).
* A handler whose client disconnected is not waited for: it meets a pool that is ending
  (`server.mjs:326-331`); `WorkMeetsReadyStore` names it.
* A slide show stalls when the asset that follows a failed one fails to load too;
  `GoesOn` therefore speaks of at most one failure. Of two overlapping renders the
  older may finish last and list cards whose controllers the newer destroyed and whose
  URLs it revoked (`src/app.js:554-563`, 828); those of the newer stay alive, out of the
  page, until the next reset. `CardsShowLiveMedia` is about the cards of the last render.
* The MCP tools accept `''` for an optional asset or Moment id (`mcp-server.mjs:54`, 56,
  442-453); the domain functions and `validateWorkspace` take it for absent and keep it,
  the mapper's `?? null` keeps it too, and the insert breaks a foreign key. The commit
  is rolled back, so nothing is lost but the edit (`RowsFaithful`).

## 7. Not modelled, and why

* *Routes, static files, headers, MCP schemas*: translation of one call into one
  of the operations above, without state.
* *CDP messages, fixed plans, waits for network and animations, diagnostics*:
  sequences of replies of one browser; the driver's replies stand for them.
* *Image metrics, canvas selection, WebGL expression* (`src/perceptual-image.js`,
  `src/webgl-*.js`): numeric heuristics over bitmaps and boxes; the choice over
  their results is modelled.
* *Pure helpers* (`src/capture-request.js`, `src/reference-library.js`,
  `src/reference-tags.js`, `src/ui-format.js`, `src/persistence-config.js`):
  parsing, filtering and formatting without state.
* *Scripts*: outside the running system.

## 8. Plan

1. Done: the modules of section 2, each of them with its safety properties
   proved.
2. Left to TLC: the liveness properties of section 4.
3. `WebsiteCapture` and `AnalysisService` as clients of `WorkspaceStore` by
   INSTANCE, so that the composition stated in section 2 is checked.
4. The board and inspector views of `src/app.js`, whose dialogs keep a selection
   over a reload.

## 9. Running

    tlc -workers 2 -config MCPersistence_safe.cfg MCPersistence
    tlapm PersistenceProofs.tla

Each run of section 3 takes the `.cfg` and the MC module `PROJECT.json` names;
the longest take about three minutes.
