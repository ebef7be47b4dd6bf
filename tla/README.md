# Verification of tdl-web

`tdl-web` is a Telegram download toolkit: the command line of `tdl` (download,
upload, forward, chat export, backup, extensions) and `tdl web`, a server that
shows the media of a chat or an export in the browser, streams it and downloads
it in the background.  This directory holds TLA+ models of the parts of the
program in which something can go wrong that a test would hardly reach, the TLC
runs that check them, and proofs checked by TLAPS.

## 1. Inventory

| component | source | state | operations | hard because |
|---|---|---|---|---|
| Download scheduler | `app/web/download.go` | two wait queues, `dlPending`, slot counters, `downloading`, `cancels`, `preempted`, cover reservation | enqueue, play now, pause, preempt, loop, run, requeue | two locks never held together, a pop that drops its lock, one-token wake-ups, polling |
| Cover scheduler | `app/web/cover.go` | two cover queues, `coverPending`, `coverActive`, `coverCancels`, `coverFailed` | enqueue, set visible, playback preemption, loop, wait | cancellation of running jobs, reservation of download bandwidth |
| Item life cycle | `app/web/download.go`, `handlers.go`, `import.go` | item status, temporary and final file | download, promote, pause, stream promotion, error | the download and the stream handler both rename the temporary file; status written by several goroutines |
| Import and meta cache | `app/web/import.go`, `meta.go` | items, order, finished set, cache files | import, reset, apply cache, save | state read, files written outside the lock; a second import while downloads run |
| Chat paging | `app/web/chats.go`, `saved.go`, `takeout_chat.go` | per chat cursor, done flag, order, pending messages per saved dialog | load page, merge, live message | page and live update interleave; merge of many sources |
| Media serving | `app/web/handlers.go`, `thumb_cache.go`, `media.go` | two semaphores, thumb cache, ranges | acquire, stream, range arithmetic | capacity, cancellation, boundaries |
| Web authentication | `app/web/auth.go`, `server.go` | login state, QR code, restart signal | check, start, QR, password, switch | goroutines of an old attempt answer late |
| Session switching | `cmd/web.go` | active and previous namespace in the key-value store | choose, switch back, discard | a crash between two writes |
| Downloader, download command | `core/downloader`, `app/dl` | iterator position, finished set, resume record, temporary files | next, download, done, resume, save | worker pool, interruption, resume at logical positions |
| Uploader, upload command | `core/uploader`, `app/up` | iterator, files | upload, remove source | error of one file, removal |
| Forwarder, forward command | `core/forwarder`, `app/forward` | iterator, grouped messages, clone | forward, clone, fall back | partial failure inside a group |
| Connection pool | `core/dcpool` | pools per data centre | get, close | lazily opened under a lock |
| Middlewares | `core/middlewares`, `core/tclient` | retry counters, back-off | retry, recover, takeout | bounds, shared back-off |
| Key-value store | `pkg/kv`, `core/storage` | namespaces of a file or bolt database | get, set, delete, migrate | whole-file rewrite, crash while writing |
| Extension manager | `pkg/extensions` | installed extensions on disk | install, upgrade, remove | failure between remove and install |
| Parsing and formatting | `pkg/tmessage`, `pkg/tplfunc`, `pkg/texpr`, `core/tmedia`, `core/util` | none | | string work |
| Migration, backup | `app/migrate`, `cmd/root.go` | archive, storages | backup, recover, migrate, migration at the start | a kill between two namespaces, newer data at the destination |
| Login, chat listing, export | `app/login`, `app/chat` | files | | one pass of I/O |
| Front end | `web/src` | LRU of covers, scroll state | | rendering |

What makes each modelled component correct is listed with its module in
section 2; what would make the others correct is in the plan, section 6.

## 2. Modules

### DownloadScheduler

Models `app/web/download.go` at the granularity of its critical sections.  The
code guards the items and the running downloads with `s.mu` and the queues and
slots with `s.dlMu`, and no section holds both; so an operation that needs both
is a sequence of actions with everything else interleaved:

| goroutine | actions |
|---|---|
| a request or an import (`Clients`) | `QueuePush`, `QueuePushInsert`, `PreemptBackgroundDownload`, `CancelOneBackgroundDownload`; `PauseDownload`, `PauseMark`; `AppendItem` |
| `downloadSchedulerLoop` (`sched`) | `TryStartDownload`, `PopCheck`, `PopSkip`, `TakeSlot`, `SchedulerWake` |
| the goroutine of a slot (`SlotRuns`) | `StartDownload` or `StartDownloadSkip`, `WaitDownload`, `ReleaseSlot` |
| the goroutine of a download (`Workers`) | `MarkCompleted`, `FinishDownload`, `Requeue`, `RequeueInsert` |
| a priority cover job (`CoverJobs`) | `BeginCoverBandwidth`, `CoverCancel`, `CoverCheck`, `CoverDone`, `EndCoverBandwidth` |

The code's names are kept.  A pop is three actions because
`popPriorityLocked` and `popBackgroundLocked` release `dlMu` in the middle;
`sched.limit` is the limit read before, which the code goes on with.  A
`cancel()` that follows an unlock is made part of the section before it: the
function cancels the context of one worker, and once that worker has ended it
does nothing.  The wake-up that follows an unlock is part of the section too: a
token that is there a little earlier costs the loop one more look.  The
abstraction of an item is what the scheduler reads of it: whether it exists, is
completed, is paused by the user.  Its display status, the temporary file and
the progress are the subject of `ItemFile` and `WebImport`.

`DownloadSlots` is the abstract specification: a set of running items, at most
`Limit`, each downloaded once.  `ImplementsSlots` says that the scheduler
implements it with `running <- downloading`.  `DownloadReimport` adds the reset
of a second import, which forgets `s.downloading` without stopping anything.
`DownloadLive` adds a budget of requests and fairness.

What makes it correct:

- `SlotAccounting`: `dlActive` and `dlActivePri` are exactly the slots held; the
  clamps at zero in the code never hide a double release.
- `DownloadsWithinLimit`: at most `--limit` downloads run, although the limit is
  looked at in one section and the slot counted in another, and a slot is given
  back by a poll.
- `RegisteredDownloads`: `s.downloading` and `s.cancels` name exactly the
  goroutines that download, one for each id.
- `QueueConsistent`: `dlPending` and the two queues agree, and an id waits once.
- `PreemptionIsLive`: a preemption mark belongs to a running, cancelled download.
- `NoLostWakeup`: when the loop sleeps without a token there is nothing to start.
- `Settles`, `PreemptedReturns` (under fairness): all is worked off; a preempted
  download is queued again.

### CoverScheduler

Models `app/web/cover.go`.  `s.coverMu` guards everything but the items and the
cache files, so most functions are one action; those that take `s.mu` first or
cancel jobs after they have unlocked are several.

| code | actions |
|---|---|
| `handleThumb`, `tryServeTelegramCover`, `enqueueCoverBuild`, `waitCoverBuild` | `CoverRequestPolicy`, `LookAtCache`, `EnqueueCoverBuild`, `WaitCoverBuild`, `WaitTimeout` |
| `setCoverState` | `ReadCoverState`, `SetCoverState`, `CancelCovers` |
| `preemptCoversForPlayback` | `PreemptForPlayback`, `CancelCovers` |
| `coverSchedulerLoop`, `popCoverJobLocked` | `PopPriority`, `PopBackground`, `PopNothing`, `SchedulerWake` |
| the goroutine of a job | `BandwidthReady`, `CheckContext`, `BuildCover`, `FinishCover` |
| imports, downloads, the clock | `Import`, `ResetImport`, `Download`, `LocalCover`, `CooldownEnds` |

What the builder fetches is its outcome: a cover, a failure, or a cancellation.
`thumbGroup` lets several builders of one cover share a result, so that a job
may end with any of the three whatever became of its own context.  A cool-down
that is over and one that was deleted are not told apart, as the code deletes
the entry when it next looks.

What makes it correct: `JobsRegistered` (`coverActive` and `coverCancels` name
the job that runs), `PendingIsReal` (no mark keeps a cover from being queued),
`PauseStops`, `NoLostWakeup`, and, under fairness, `CoversSettle`.

### DownloadCommand

Models `tdl download`: the iterator (`app/dl/iter.go`), the worker pool
(`core/downloader/downloader.go`), the callbacks (`app/dl/progress.go`) and the
resume record (`app/dl/dl.go`), over several runs of the command.

| code | actions |
|---|---|
| `Run`, `resume` | `Continue`, `Decline`, `Restart` |
| `iter.Next`, `iter.process`, `processSingle`, `processGrouped` | `Next`, `Process`, `ProcessError`, `ProcessEnd` |
| `Downloader.Download` | `Spawn`, `Wait` |
| the goroutine of an element, `OnAdd`, `OnDownload`, `OnDone` | `OnAdd`, `DownloadDone`, `DownloadFails`, `DownloadCanceled`, `CloseFails`, `Finish`, `Rename`, `RenameFails`, `RemoveTmp` |
| the end of `Run`, `saveProgress` | `ProgressWait`, `Save`, `Exit`, `MapRace` |
| the user, the system, the chat | `UserCancel`, `Kill`, `Delete` |

`main` is the position of the main goroutine, `work` those of the errgroup.
`process` is one action because it runs under `i.mu` and nothing else writes
what it reads, the finished set apart, which is written between two calls only
from positions that `process` has passed.  What a process holds in memory is
reset by `NoProcess` when it ends; `record`, `final`, `tmp` and the chat stay.
A file is its state: none, partial or full; a message stands for its file, as
the default template names a file after dialog and message.  `MayFail` lets
downloads fail, `FilesFail` lets files be impossible to close or to rename; the
history variable `unclosed` has the positions of a run whose file could not be
closed, after which `OnDone` neither finishes them nor tells anybody.

`MapRace` is the one place of undefined behaviour: `saveProgress` marshals
`i.finished` without `i.mu`, and a goroutine of the errgroup that is still
running, because `Download` does not wait after an error, may write the map.
The runtime may then end the process; the model takes that choice or goes on.

What makes it correct: `NothingLost` (a run without an error leaves every wanted
message on disk, whatever happened to the runs before), `RecordedIsReady` (what
the record says is finished is complete on disk), `PositionsStable` (a logical
position means the same message in every run), `OneWriter` (no file has two
writers), `CompleteFilesKept`, `AllVisited` (a run without an error leaves no due
message that is not finished, recorded, skipped because it is there, or `unclosed`)
and, under fairness, `CommandEnds`.

### WebAuth and WebSession

`WebAuth` models the login of the server (`app/web/auth.go`): the fields behind
`a.mu`, goroutines of QR logins, requests that enter a password or switch the
account.  Each call of Telegram lies between two actions, so that an answer may
arrive after anything else.  `WebSession` extends it with the loop of
`cmd/web.go` that serves one session after the other and records the key in use
and the one before, each write an action.

| code | actions |
|---|---|
| `check`, `start`, `runQR` | `Check`, `Start`, `ShowToken`, `TokenExpires`, `TokenAccepted`, `PasswordNeeded`, `QRFails`, `QRSelf` |
| `handlePassword` | `Password`, `PasswordAccepted`, `PasswordFails`, `PasswordSelf` |
| `handleSwitch` | `Switch`, `SwitchSet`, `CloseRestart` |
| `runWeb`, `currentWebSession`, `previousWebSession` | `Launch`, `Boot`, `Shutdown`, `SwitchToPrevious` |
| `newWebSession`, `usePreviousWebSession`, `cancelWebSession` | `NewSession`, `UsePrevious`, `SetActive`; `CancelActive`, `CancelPrevious`, `CancelData` |
| `client.Run` ends, `auth.IsUnauthorized` | `ClientEnds` |
| outside | `Crash`, `Revoke` |

What Telegram knows of a session and what the store keeps under its key are one
variable, `data`.  A new client starts without goroutines and requests of the
one before (`NewWebAuth`): they hold the `webAuth` and the context of the old
client, which ends with it.  Telegram may end any session at any time (`Revoke`).
Nothing tells `webAuth`: the status stays, the API is open and switches are
taken until `client.Run` ends, which is a step of its own that may come late or
never (`ClientEnds`).  The variable `revoked` is history: it says that the session
in use was ended under its client, and is only read by `ClientEnds` and by the
two properties.

What makes it correct: `ServedIsAuthorized` (the API is open only while the
session in use is authorized, or was until Telegram ended it under this client,
whatever answers arrive late), `AccountReachable` (no step of a switch from a live
session and no crash between two writes leaves the user without a key of an
account that is logged in).  What a switch from a dead session does is told in
section 5.

### WebImport

Models what `tdl web` keeps of a list of messages: `app/web/import.go`,
`meta.go` and the record keeping of `download.go` and `server.go`.

| code | actions |
|---|---|
| `Run`, `handleImport`, `setImporting` | `Launch`, `HandleImport`, `ImportFails`, `ImportEnds` |
| `handleSelectChat`, `handleMoreChat`, `loadChatPage` | `LoadChat`, `ChatPageLoaded` |
| `importFromJSONFiles` | `Parse`, `Reset`, `TakeCache`, `Build`, `ImportFinRead`, `ImportFinWrite`, `EnqueueImported` |
| `applyCachedItems` | `Scan`, `Publish` |
| `importFromURLs` | `ImportUrl`, `FetchMessage`, `EnqueueImported` |
| `startDownload`, `downloadItem`, `markCompleted` | `StartDownload`, `Promote`, `MarkCompleted`, `DownloadStops`, `FinishDownload` |
| `saveFinishedOrClear`, `saveMetaCache` | `FinRead`, `FinWrite`, `RequestSaves`, `MetaWrite`, `ImportMetaWrite` |
| `pauseDownload`, `markItemError`, `resetItemError`, `enqueueDownload` | `Pause`, `ItemError`, `Enqueue` |
| users, the end of the process | `MoveFile`, `Crash` |

A message is a number, a fingerprint the list itself, an item id what the code
hashes: list, place, position.  Writes to the store and to the cache file are
actions of their own because the code makes them after it has unlocked `s.mu`.
Which download gets a slot is `DownloadScheduler`'s subject.

`Importers` are goroutines that import.  A request (`HandleImport`, `LoadChat`) is
refused while `s.importing` is set; `Run` sets it without looking (`Launch`), so
that its import may go on beside one that a request began, and the first of the
two to end resets the flag for both.  The history variable `mixed` says that two
imports have met, in one process or in one before it, whose records stay.

What makes it correct: `FinishedWasDownloaded` (what a record, `s.finished` or a
status calls finished has been downloaded, although records are written after
the list may have been replaced), `RestoredIsWhole` (a list restored from the
cache is the list asked for), `ScanUndisturbed` (downloads of the list before do
not write to `s.finished` while `applyCachedItems` uses it without the lock).
They are stated of one import after another, and claim nothing once `mixed` is
set, because the code does not keep them then (section 5); the types are claimed
always.

### ChatPaging

Models one chat of `tdl web` that is a history, a takeout or the saved messages:
`app/web/chats.go`, `takeout_chat.go`, `saved.go`.

| code | actions |
|---|---|
| `handleSelectChat`, `handleMoreChat` | `SelectChat`, `Deselect`, `MoreChat` |
| `loadChatPage`, `advanceChatPage`, `appendChatItem` | `LoadChatPage`, `NextMessage`, `EndPage`, `LoadFails` |
| `loadTakeoutChatPage` | `TakeoutFetch`, `TakeoutMessage`, `TakeoutBatchDone`, `TakeoutEnd` |
| `ensureSavedSources`, `loadSavedChatPage`, `fetchSavedSource`, `popSavedMessage` | `LoadChatPage`, `FetchSavedSource`, `PopSavedMessage`, `SavedEnd` |
| `appendLiveMessage`, `resetImportState`, the senders | `AppendLiveMessage`, `ImportList`, `Post` |

Messages are numbered in the order they were sent, so a batch is the set of the
newest below an offset and the code's loop over it takes its greatest.  Three
variables are not the code's: `known`, the messages there were when the first
page was asked for (again, if that page failed); `live`, the messages shown because
of their update; `cut` (section 5).

What makes it correct: `HistoryComplete` (a chat that says it has no older
messages shows all there were when its first page was asked for, each once, in
every state and not only between two requests), `SavedNewestFirst`.  The latter is
about the messages pages have shown: an update is appended where it comes, and
two updates in the wrong order would otherwise count against the pages.

### ItemFile

Models the files of one item: `<target>.tmp`, the target, and who writes,
renames and reads them (`app/web/download.go`, the stream handler of
`handlers.go`).  A file is its length and the units that were written; an open
descriptor goes on naming a file that has been renamed.

| code | actions |
|---|---|
| `startDownload`, `downloadItem` | `StartDownload`, `CheckTarget`, `StartOffset`, `OpenTmp`, `Truncate`, `WriteUnit`, `CloseTmp`, `DownloadStops`, `MarkCompleted`, `FinishDownload` |
| `promoteTmp` | `PromoteTmp`, `Rename`, `RenameBusy` |
| `handleStream`, `serveTmpRange`, `promoteCompletedTmp` | `PlayTarget`, `PlayTmp`, `ReadUnit`, `EndOfRange` |
| imports, the end of the process | `Reimport`, `Restart` |

What makes it correct: `CompletedIsWhole` and `ServedWasWritten`
(`FilesAreRight`), `WholeStays`.  `shared` and `stray` mark the two ways in which
the code does break them (section 5); the model stops there, and the properties
are about all other behaviours.

### ThumbCache and RangeTransfer

`ThumbCache` models the thumbnail of one item: `handleThumb`, `handlePreview`,
`ensureThumbCache` with its singleflight group, the three builders
(`cacheMediaFile`, `writeInlineThumb`, `extractVideoPosterContext`: `BuildStart`,
`BuildFill`, `BuildFails`, `BuildRename`), cover jobs, and the slots of
`tryAcquireTGShared` and `acquireTGStream` (`Serve`, `Stream`,
`AcquireTGStream`, `StreamWait`, `Release`).  `SentIsWhole` and `SlotsAreHeld`
(`ThumbsAreRight`): what is sent is one builder's whole file; a slot is counted
as long as it is used, and playing has one that previews cannot take.

`RangeTransfer` models the arithmetic of ranges (`boundedStreamRange`,
`boundedTmpRange`, `remotePosterPlan`, `boundedRemotePosterBytes`,
`sparsePosterRanges`) together with the writers that cut a stream of pieces to a
range.  `TransferIsExact` and `PosterIsCheap` (`TransfersAreRight`): each unit is
written in its place, none is missing, and a poster never reads the whole file.

### Forward, Upload, KeyValue

`Forward` models `tdl forward`: iterator (`Next`), `Forward` (`Skip`,
`GetGrouped`) and `forwardMessage` (`Begin`, `ForwardDirect`, `Convert`,
`SendCopy`, `Done`).  A request may fail, or be done although its answer is lost.
`ForwardedOnce`, `AllHandled`, `DryRunSendsNothing` (`ForwardIsRight`).

`Upload` models `tdl upload`: walk, iterator (`IterNext`), errgroup (`Go`,
`Wait`, `Return`), the goroutine of a file (`Begin`, `PartsSent`, `Sent`,
`Refused`, `Canceled`) and `prog.Wait`.  `FewAreOpen`, `OnlyTriedIsRemoved`,
`AllTried` (`UploadIsRight`).

`KeyValue` models the three storage drivers (`pkg/kv`), `tdl backup`, `recover`
and `migrate`, and the migration a command begins with (`cmd/root.go`), with a
kill between any two steps.  `promised` is the abstract map of what was set,
migrated or recovered; `KeyValuesKept` says the storage has just that.

### WebData and Commands

Components that share no state are checked in one run: `WebData` has the five
modules of the web server's data, `Commands` the four of the commands.  In a
behaviour one of them (`turn`) takes steps and the others stay where they begin,
so that the states are the sum and not the product.  The one with assumptions or
the most properties is extended, the others are instantiated.  Both are stated
for any constants, because theorems are about them; `MCWebData` and `MCCommands`
add the small values and narrow `Init` to them, so that a component that takes no
steps begins in one state.

### SeqKeep and SequenceLemmas

`Keep(q, S)` copies the wanted entries of a slice in their order, as the loops of
the code do.  It is a recursive function and not `SelectSeq`, of which nothing can
be proved: that operator takes a predicate.  `SequenceLemmas` has the facts about
`Keep`, `FlattenSeq`, `ToSet`, `Remove` and the like that the proofs cite.

## 3. Runs

| run | instance | shows |
|---|---|---|
| `scheduler_core` | one id, two callers, two slots and download goroutines, a cover job, limit 2 | one download per id under competing requests; slots, queues, preemptions and wake-ups are accounted for |
| `scheduler_live` | two ids, a caller, limit 1, two download goroutines, a cover job, three requests | the limit holds and `DownloadSlots` is implemented; everything settles |
| `cover_scheduler` | a video and an image, two handlers, three requests, imports, downloads and failures at any time | jobs, marks, pauses and wake-ups of covers; everything settles |
| `commands` | download: four messages in two dialogs, an album of two, two workers, three runs, kill at any point, a deleted message; forward: an album of three, text, a place, three inputs; upload: four files, one twice, limit 2; storage: two namespaces, three commands | the resume record and the files agree over interruptions; messages are forwarded once; files that were not tried stay; a storage has what was put into it |
| `dlcmd_live` | four messages, failing requests and downloads, files that cannot be closed or renamed, a filter, `--skip-same`, `--restart`, kills, a deleted message, two runs | a run without an error leaves no due message unvisited, but one whose file could not be closed; the command ends |
| `web_session` | three keys, two QR goroutines, two requests, three of them at a time, failures, crashes, revocation | the API is open only for a session that is authorized or was until it was ended under its client; a switch from a live session leaves an account reachable |
| `web_data` | import: `Run`'s import goroutine and that of a request, an export and a link, a filter, two jobs, two imports, `--continue` and `--skip-same`; chat: three messages and two that come, two sources, pages of 2, batches of 3; file: four units, two downloads, two promoters, a player; thumbnail: two requests, a job, one shared slot; ranges: five sizes | records, caches, pages, files, thumbnails and ranges are right whatever comes in between |

and five runs in which TLC finds what a comment or a test says violated; the
traces are short and each was followed in the source:

| run | statement | what happens |
|---|---|---|
| `pause_lost` | a paused item is not started from the background queue | a pause between the pop of an id and `startDownload` finds it neither queued nor running; it starts |
| `reimport_limit` | no more than `--limit` downloads at once | `resetImportState` empties `s.downloading`; the slots of the old downloads are released while these go on |
| `dlcmd_failed` | "if finished, we should clear resume key" | an error other than a cancellation is logged and swallowed: the position is finished, the partial file renamed, the key cleared |
| `web_session_discarded` | a *pending* session is marked for cancellation | the test in the code is "not authorized", which includes the status `error` of an account that is logged in |
| `upload_removed` | "Delete the uploaded file after uploading successfully" | errors other than a cancellation do not reach `OnDone`, which removes the file that was not sent |

### Bounds

A download started twice needs two slots for one id, an id popped while another
slot begins with it; a limit exceeded and a preemption for another need two ids
and one slot.  `scheduler_core` is the one, `scheduler_live` the other, and every
hazard listed is a race of at most two goroutines with the loop.  Both together
would be beyond TLC; the theorems cover the combinations.  The download of `commands` has a dialog boundary, an
album that makes one call of `process` yield two elements, more elements than
workers, and enough runs for a record to be made, used and used again.
`web_session` needs three keys so that a switch can be followed by another;
`KeyLeft` keeps a switch from being asked for when no key is left for it, and the
constraint `AtOnce` lets three of the four goroutines of a login go on at a time:
a race of two with a third, which is one more than any hazard listed has.
Symmetry is used only in runs without liveness properties and only over
constants that no definition names.  `MaxRequests` bounds requests in
`DownloadLive` (without it nothing settles), `MaxCalls` requests and resets in
`CoverScheduler`, `MaxRuns` the runs of the command.  Three requests are enough
to queue a cover twice, and to pause, resume and pause again.

In `web_data` two imports and two jobs let a saver of the first list write
during and after the second.  `Followed` is its constraint: once two imports have
met, states in which a job works are not followed further, because only the types
are claimed of them; what the importers do to one another is followed.  `MaxActs`
allows one pause, error, request, page of a chat, moved file or crash besides.  Batches of three over pages of two make pages end inside
batches, also inside the short last one of a takeout range (`cut`: a range of one
message and then one of two); the two sources of saved messages are
interchangeable, so the first message is always of the same one; two messages that come let two updates race each
other and a page.  Four units, two of them a block, make a
resumption that has to go back; two promoters and a busy rename make every
branch of `promoteTmp`; three thumbnail works are a request, a builder and one
that comes while it builds.  The sizes of `RangeTransfer` lie below, at and above
each limit; its constants keep the order of the code's.  Albums of three are
reached by their first, middle and last message.  Three storage commands are a
write between two migrations.

`SlotRuns` and `Workers` bound the goroutines alive at once.  A slot is taken
only while `dlActive < limit`, so `Limit` of them suffice in `Spec`.

### Deadlock

It is checked everywhere but in the three liveness runs and `web_data`, whose
bounds on requests and plays leave nothing to do in the end.  In `commands` a
command that has ended stutters (`Stopped`), so that a command that hangs before
would be found.  `scheduler_live` and
`cover_scheduler` stop when the requests are used up and all is worked off; `dlcmd_live` stops in
`prog.Wait` when a download failed (below).

### Fairness

A goroutine that can go on does: weak fairness for each caller, the loop, each
slot, each download, each cover job (`DownloadLive`) and for the main goroutine
and each worker (`DownloadCommand`), and for each handler, the loop and each job
(`CoverScheduler`, whose handlers need not time out).  They wait for nothing but locks, the
clock, channels and the network, and a request of the network is answered or
fails.  Nothing is assumed of users and imports.  A cover job has two strong
conditions: its deadline of three seconds passes although it looks again and
again, and its loop over `cancelOneBackgroundDownload`, which does not wait,
finds no background download now and then.  That the second is needed is itself
worth knowing: nothing in the code bounds that loop by the deadline.

## 4. Proofs

Every theorem below is for every value of the constants that the named
assumptions allow; TLC evaluates those assumptions in each run.  A proof module
extends the module it is about, states the inductive invariant in named parts,
and has a lemma for each action, or group of actions, of the next-state relation.

### Download scheduler (`DownloadSchedulerProofs`)

For every set of ids, callers, cover jobs and download goroutines, every finite
set of slot goroutines and every limit:

| theorem | statement |
|---|---|
| `TypeCorrect` | `Spec => []TypeOK` |
| `SlotsAccounted` | `Spec => []SlotAccounting` |
| `DownloadsRegistered` | `Spec => []RegisteredDownloads` |
| `LimitKept` | `Spec => []DownloadsWithinLimit` |
| `SlotsImplemented` | `Spec => ImplementsSlots` |
| `PreemptionsLive` | `Spec => []PreemptionIsLive` |
| `QueuesConsistent` | `Spec => []QueueConsistent` |
| `WakeupsKept` | `Spec => []NoLostWakeup` |

from `LimitAssumption` (`downloadLimit` returns a positive number),
`NoIdAssumption`, `NoWorkerAssumption` and `FiniteAssumption` alone.

The first three are proved one after the other, each using the ones before.
`DownloadsWithinLimit` is not inductive: it says nothing of the pop that has
looked at the limit and not yet counted.  `LimitInv` adds

- `CountedBelowLimit`: a slot is free from the look at the limit until it is
  taken.  Only the loop takes slots, and the limit it looks at, reduced by a
  cover reservation or not, is at most `Limit`;
- `SlotHeld`: each running download has a slot whose goroutine waits for it,
  because `waitDownload` returns only when the id is no longer registered.

Running downloads are then mapped one to one to slots (no id has two, by
`RegisteredDownloads`), slots are counted by `dlActive` and that is at most
`Limit`.  For `SlotsImplemented` each step is a start, a stop or a stutter of
`DownloadSlots`; a start needs room, and the goroutine that starts a download
holds a slot that waits for none yet.  `SlotHeld` is what a second import
breaks, which is why `reimport_limit` has a counterexample.

`PreemptionIsLive` rests on `RegisteredDownloads`: the mark that is set is that of
the goroutine whose context the same section cancels.  `QueueConsistent` is
inductive with `TypeOK`; its steps are what a push, a removal and a pop do to a
sequence without repetitions (`SequenceLemmas`).  `NoLostWakeup` needs
`LimitFresh`: unless a token is there, what the loop has read before its pop still
holds, the limit at worst having fallen since.

### Web session (`WebSessionProofs`)

`SessionTypes`, `OnlyAuthorizedServed` (`ServedIsAuthorized`) and
`AccountsReachable` (`AccountReachable`), for any number of keys, QR goroutines and
requests, with failures, revocation and crashes.  `SessionInv` adds to the types

- `AnswersOfSession`: a goroutine or a request that is about to set the status to
  `authorized` has its answer for the session in use, which is logged in or was
  until it was ended under this client;
- `SwitchRequests`, `SwitchAsked`: a switch that is asked for comes from an
  account that is logged in, or goes to one that was; a session is discarded only
  in exchange for a previous one;
- `SwitchUnderWay`: what `runWeb` knows between two writes of a switch.

### Cover scheduler (`CoverSchedulerProofs`)

`CoverTypes`, `OneJobPerCover` (`JobsRegistered`), `MarksStandForJobs`
(`PendingIsReal`), `PauseIsObeyed` (`PauseStops`) and `WakeupsKept`
(`NoLostWakeup`), for any finite set of items and any number of handlers and
goroutines.  `CoverInv` adds `Registered` (`coverCancels` names the goroutine of
each active cover), `OneActive`, `PausedIsTold` (while covers are paused none is
queued, and a job that runs is canceled or among those a handler is about to
cancel) and `SleepsOnNothing`.

### Download command (`DownloadCommandProofs`)

| theorem | property | hypotheses beside `CommandAssumption` |
|---|---|---|
| `CommandTypes` | `TypeOK` | |
| `PositionsKept` | `PositionsStable` | `DeletableAlone` |
| `OneWriterPerFile` | `OneWriter` | `DeletableAlone`, `DistinctFiles` |
| `CompleteStaysComplete` | `CompleteFilesKept` | `DeletableAlone`, `DistinctFiles`, `~MayFail \/ SkipSame` |
| `RecordedHasItsFile` | `RecordedIsReady` | `DeletableAlone`, `DistinctFiles`, `~MayFail`, `~MayRestart` |
| `EverythingVisited` | `AllVisited` | `DeletableAlone`, `DistinctFiles`, `NoEmptyDialog` |
| `NothingIsLost` | `NothingLost` | all of these, `~MayFail`, `~FilesFail`, `~MayRestart` |

for all dialogs, albums, pools and runs.  The hypotheses say where the code keeps
the property, and each is needed: an album whose member is deleted shifts the
positions behind it, a file with two positions has two writers, an empty dialog
ends the iteration, a failure finishes a partial file (`dlcmd_failed`), a file
that cannot be closed is left out of a run without an error, and a
killed run with `--restart` leaves the old record (section 5).
`MCDownloadCommand` has TLC confirm that the instances satisfy the first three.

The invariant has six parts.  `Types` adds to the types where the main goroutine
is and that its position is a listed message.  `Placed` says that each element, in
the iterator or the pool, has the position of its message in `Expanded`, the
dialogs with their albums expanded, and that no two have one position.  `Files`
follows a file through its goroutine: with `--skip-same` it was not there, what is
renamed was written to its end, and the position is finished just before the
renaming.  `Remembered` says that the resume record is a part of what the running
process has in `i.finished`, `Covered` that each position that the iterator has passed is finished, is
under way, or was skipped for a reason, and `EndsClean` that a run that ends
without an error has come to the end with nothing under way.

### Upload, forward and the storage (`CommandsProofs`)

| theorem | statement | from |
|---|---|---|
| `UploadsAreRight` | `CommandsSpec => []UploadIsRight` | `UploadAssumption`: the limit is not negative |
| `ForwardsAreRight` | `CommandsSpec => []ForwardIsRight` | `ForwardAssumption`: no list of an input is empty, a message is in one album at most |
| `KeyValuesAreKept` | `CommandsSpec => []KeyValuesKept` | `KeyValueAssumption`: `None` is told apart from what is stored |
| `CommandsTypes` | `CommandsSpec => []CommandsTypeOK` | the three, `CommandAssumption` and `TurnsAssumption` |

`UploadInv`: the files before the cursor are out of the iterator and those behind
it are not (`UpCursor`), the errgroup holds no more goroutines than its limit and
an iterator that failed has left one file open at most (`UpOpen`), and a goroutine
that ended without a cancellation has sent its file or had it refused (`UpEnded`).

`ForwardInv`: what is under way was not sent before, as a whole (`FwAlbum`); the
copy of an album has lost no member but those dropped (`FwCopy`); a copy that was
made belongs to a message in `f.sent` or under way, and a member is sent without
its album only when that could not be read (`FwOnce`); what is in `f.sent` was
copied, has failed or was dropped (`FwHandled`); the iterator has passed only such
messages, or the one under way (`FwReached`).  `FwBound` counts the requests that
may have acted on a message, which is what `copies` of `TypeOK` needs.

`KeyValueInv`: a storage that is used was made (`KvOpened`); while the directory of
bolt is not there, and during the migration that makes it, nothing is promised of
it (`KvFresh`), so that the migration cannot take back a newer value; the
goroutine that writes the file has read what is there and is alone (`KvWriters`);
and of a copy under way, the namespaces that are done have its values besides what
the storage had, and the others only the latter (`KvCopy`).

### Imports (`WebImportProofs`)

`FinishedInvariant` (`ImportSpec => []FinishedWasDownloaded`), `RestoredInvariant`
(`[]RestoredIsWhole`), `ScanInvariant` (`ScanUndisturbed`) and
`ImportTypeInvariant` (`[]TypeOK`), for all lists, filters, options, goroutines and
imports, with crashes.  `ImportAssumption` says that a message is a number, no
list is `None` and `Run` is one of the importers.

The types hold however many imports go on at once, the rest as long as one follows
another, so the invariant is `Inv == Typed /\ (mixed \/ (Alone /\ ImportInv))`.
`Alone` says that at most one importer is at work; `imp` is that one, and
`ImportInv` speaks of it.  A step that does not set `mixed` is one of `imp`, of an
importer that begins, or of a job (`Focus`, `AloneStep`); `mixed` is never taken
back (`MixedStays`).  `ImportInv` has the three properties and

- `ListShape`: the ids in memory are those of the list the fingerprint names, a
  part of it or all of it and what a link added, and each position is that of its
  message.  It follows the importer from the reset to the last item;
- `CacheShape`: the same of each cache that is there or about to be written, none
  of whose items is completed.  A cache of the right number of items is then the
  whole list, which is `RestoredIsWhole`;
- `ClaimsHeld`: what a goroutine holds while the lock is open (a snapshot of
  `s.finished`, the positions an import has loaded, an item it is about to mark)
  was downloaded, of the list *it* belongs to.

`ScanUndisturbed` is about steps: between `Scan` and `Publish` the list is empty
(`ListShape`), so that a download that ends finds no item to mark.

`WebDataProofs` transfers them to the composition the run checks
(`ImportsInvariant`, through `WebSpec => ImportSpec`).

### The other data of the web server (`WebDataProofs`)

| theorem | statement | from |
|---|---|---|
| `ThumbsInvariant` | `WebSpec => []ThumbsAreRight` | `ThumbAssumption`: requests are not builders, `None` is neither |
| `TransfersInvariant` | `WebSpec => []TransfersAreRight` | `TransferAssumption`: sizes and limits are positive, the prefix of a poster is within its budget |
| `FilesInvariant` | `WebSpec => []FilesAreRight` | `FileAssumption`: a file has a unit at least, blocks have some |
| `WholeInvariant` | `WebSpec => WholeStays` | `FileAssumption` |
| `HistoryInvariant` | `WebSpec => []HistoryComplete` | `ChatAssumption`: pages and batches hold messages, the lengths of histories have a largest, `None` is told apart |
| `SavedInvariant` | `WebSpec => []SavedNewestFirst` | `ChatAssumption` |
| `WebTypeInvariant` | `WebSpec => []WebTypeOK` | all of these, `ImportAssumption` and `TurnsAssumption` |

`ThumbInv`: the one actor that builds is the one in flight, so that a temporary
file is its own until it is renamed; a thumbnail with a name is whole; an actor
that holds a slot is one of those the counters count, at most `SharedLimit` of
them shared and one reserved.  A restart empties both sides at once.

`TransferInv`: of the stream position, what is to be skipped and what remains,
against the range that was asked for: what has been written is its beginning, in
order, and what is still to come is the rest.  Of a poster it says which attempts
are left, that what they may still fetch is within the budget, and that a unit
of the file is in none of them, which is `PosterIsCheap` at every step.

`FileInv`: each file is written from its beginning without a hole.  One goroutine
downloads, and what it has read of the `.tmp` still holds when it writes, because
nobody renames one that is not complete (`Fetches`); who is about to rename has a
complete file which is still the `.tmp`, with no target, or has become the target
already (`Promotes`); a target is complete and not the `.tmp`, and a completed item
has one (`FileTarget`).  All but the types is said as long as `Alone` holds, that
is, up to the two accidents of section 5.

`ChatInv` has a part for each way a chat is read, about what is *not* shown yet.
A history is shown from the cursor up, and while a page loads from its offset up
(`HistoryShown`): when there is nothing below the offset, nothing is missing.  Of a
takeout, what is not shown is below the position in its range or in the range that
follows (`TakeoutShown`); a batch that fell short of the limit had all that was
left, so the range is done.  Of a source of saved messages, what is not shown is
pending or below its cursor (`SourceShown`); what pages have shown is newer than all
that is pending or below a cursor (`Newer`), which is why no message may be popped
while a source has nothing pending and is not at its end.  Two properties were
wrong in an earlier form and not found by TLC with one message that comes: the
attempt to prove them inductive showed it.

### Only model-checked

- liveness under fairness (`Settles`, `PreemptedReturns`, `CoversSettle`,
  `CommandEnds`), which is out of the prover's reach, as is anything with ENABLED;
- the five statements that a run finds violated.

## 5. Seen on the way

Behaviours found while translating the code for which there is no run:

- Between the pop of a background download and its registration a play request
  queues the id again; its slot then waits for a download registered as
  background, which a cover job preempts although "Priority (play) downloads are
  kept" (`app/web/download.go:202`).
- A priority request for a cover that is queued takes its mark out of
  `coverPending` and does not put it back (`app/web/cover.go:75`): the handler is
  told "cover build failed" at once, and the next request queues the cover
  twice, against `TestEnqueueCoverBuildDedupesPending`.
- `setCoverState` queues visible videos whatever `coverFailed` says: a cover in
  its cool-down is built again when the user scrolls.
- `setCoverState` leaves out a visible video whose job is active, although it
  may have been canceled by a pause just before: that cover is not built until
  the browser asks again.

- `endCoverBandwidth` is deferred and runs after the job has left
  `s.coverActive`; it sets the hold to zero, which may be the next job's
  (`app/web/download.go:238`).
- The pop of a background download goes on with the limit it read: it may start
  beside a cover job that has been granted the bandwidth since, and a play
  request that arrives between may wait without a preemption.
- `cancelOneBackgroundDownload` in `beginCoverBandwidth` is called in a loop
  that the deadline does not bound.
- When a file cannot be closed `OnDone` returns (`app/dl/progress.go:65`): its
  position is not finished, nothing is renamed, and the goroutine returns no
  error.  The run ends without one and deletes the resume key, so a later run
  with `--continue` knows of none of its positions (`unclosed` in `AllVisited`).
- When `donePost` cannot rename, the position is finished and its complete file
  stays a `.tmp` that no resumed run renames.
- A failed download keeps its progress tracker: `prog.Wait` returns only when
  the user interrupts (`Abandoned` in `CommandEnds`).
- `donePost` renames after `Finish` records the position: a process killed
  between the two leaves a complete `.tmp` that the resumed run never renames.
  `Ready` counts it as there.
- `--restart` does not delete the record; a run that is killed leaves the old one.
- An empty dialog ends the iteration.
- A QR goroutine started while a password is being checked takes the status
  back from `authorized` to `waiting_scan`.
- Nothing sets the status back when Telegram ends the session in use.  Until
  `client.Run` returns the API stays open, and a switch is taken for one from an
  account that is logged in: `newWebSession` and `usePreviousWebSession` write the
  dead key over the key of the account before (`cmd/web.go:171`, `cmd/web.go:185`).
  After `newWebSession` no stored key names an account that is still logged in;
  after `usePreviousWebSession` the second write brings it back, unless the
  process dies before it.  `AccountReachable` excepts this switch (`revoked`) and
  no other.

Of the download command:

- When the listed message of an album is deleted between two runs, it counts one
  position where the album counted its members (`app/dl/iter.go:193`): the
  positions behind it shift, and the resumed run takes messages for finished that
  were never downloaded.  `commands` deletes other messages only.

Of the list and its records (`WebImport`):

- The import of an export ends with `saveMetaCache`, which does nothing because
  `s.importing` is still set; the cache is first written after a download.
- Two savers write one `<path>.tmp`; a torn file is rejected when it is loaded.
  The older of two snapshots may be the last to be written, and an item that is
  complete be restored with the error it had.
- `loadChatPage` sets `importTotal` to the number of the chat's messages:
  `saveMetaCache` then finds the list incomplete and no longer saves it.
- `Run` sets `importing` without looking whether a request has set it
  (`app/web/server.go:130`).  A user who logs in and imports before the goroutine
  of `Run` wakes has two imports at once.  The list that is in memory is then named
  by the fingerprint of the one that was reset last and holds items of both;
  `applyCachedItems` may publish the items of one list under the fingerprint of the
  other, and with `--skip-same` the import of one list marks its positions in the
  other's finished set, from which they go into its record: a later import of that
  list with `--continue` takes messages for finished that were never downloaded.
  The first import to end resets `importing`, so that `saveMetaCache` stores the
  mixture.  `mixed` excludes this, and nothing else, from the three properties.
- With `--skip-same` `applyCachedItems` writes to the map in `s.finished` without
  the lock, while a saver may be copying it (`app/web/import.go:515` and `653`);
  `Scan` is one step and does not show it.
- Items of a link are not downloaded by themselves; restored from the cache they
  are.

Of chats:

- A takeout page that fills up inside the short last batch of a range goes on
  with the next range (`takeout_chat.go:67-75`): the rest of the batch is lost
  (`cut`).
- More messages than a page that arrive while the chat is not open are never
  loaded.

Of files and thumbnails:

- Two downloads of one path, of two imports, may truncate the file that the
  first has promoted (`shared`).
- A promoter that found the `.tmp` complete may rename a new, incomplete one,
  when another has renamed the first and a download begins again (`stray`).
- A promotion between `sameFileExists` and `tmpProgress` makes the download begin
  again; if that is paused, the item is shown as paused although it is complete.
- `validThumbCacheFile` looks and removes in two steps: it may remove a thumbnail
  just put there.
- A stream that has begun to wait for a shared slot does not look again whether
  the reserved one is free.

Of forward and upload:

- With `--edit` the error of a destination that is not found is overwritten
  (`app/forward/iter.go:148`), and a nil peer is dereferenced (`crashed`).  An
  empty dialog is indexed.
- `GetGroupedMessages` does not look at the error of its iterator: the album is
  then sent message by message (`split`).  An album with a member that has no
  file is skipped as a whole; a copied album drops members it cannot convert.
- A failed upload keeps its tracker active: `prog.Wait` returns only on Ctrl-C.
  When the iterator fails, `Upload` returns without waiting for the uploads that
  run, and the file that was opened stays open.

Of the storage:

- The file driver reads and writes in two sections of its lock: two updates may
  undo each other.  `os.WriteFile` truncates first; a file cut short is not
  repaired, and every command fails on it.
- `file.MigrateFrom` erases all other namespaces; the other drivers keep pairs
  the copy does not have.
- `migrateLegacyToBolt` makes the directory by which a migration is recognised
  before it copies; a migration that fails, or an earlier `--storage` with bolt,
  keeps the legacy data from ever being migrated.
- Migrating a bolt storage to itself waits for its own file lock.
- `legacyKV.Get` and both `MigrateTo` return slices of bolt used after the
  transaction.

## 6. Plan

Every invariant and action property of a passing run is stated by a theorem.  Next
come refinements: abstract specifications of the resume record, of a chat (the
messages to come, those shown) and of the file of an item (absent, partial,
whole), each implemented by the module that has the detail.

Then, to model: the connection pool and the middlewares (retries and their
bounds), the extension manager (a failure between removal and installation), the
list of chats, the LRU of the front end.

## 7. Not modelled

Parsing of links, templates and expressions, media conversion, the login
commands, chat listing and export and the React components are sequential or one
pass of I/O, and unit tests reach what can go wrong in them.  The connection
pool, the middlewares, the update state and the extension manager are left out
so far.  Within modelled components: items of unknown size, the loss of written
data by a power failure, ffmpeg (a step that may fail), MIME types, captions and
routing expressions (a choice of what they may return), and the list of chats.
`gotd/td`, bolt, and the HTTP server are libraries: they appear as what the code
expects of them (an answer, an error, or a cancellation).
