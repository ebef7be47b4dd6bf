------------------------- MODULE DownloadScheduler -------------------------
(***************************************************************************)
(* The global download scheduler of app/web/download.go, at the            *)
(* granularity of its critical sections.  Two locks guard its state: s.mu  *)
(* (the items and the running downloads) and s.dlMu (the wait queues and   *)
(* the slots).  No section holds both, so every operation that needs both  *)
(* is a sequence of actions, and any other goroutine may run in between.   *)
(*                                                                         *)
(* Goroutines:                                                             *)
(*   Clients     HTTP handlers and imports calling queuePush/pauseDownload *)
(*   the loop    downloadSchedulerLoop, one goroutine (sched)              *)
(*   SlotRuns    the goroutine the loop spawns per job: it holds the slot  *)
(*               from dlActive++ to dlActive--                             *)
(*   Workers     the goroutine startDownload spawns: runs downloadItem     *)
(*   CoverJobs   priority cover jobs of coverSchedulerLoop                 *)
(***************************************************************************)
EXTENDS Integers, Sequences, FiniteSets

CONSTANTS
    Ids,         \* item ids
    NoId,        \* no item
    Clients,     \* concurrent callers of the queue operations
    SlotRuns,    \* goroutines that hold a download slot
    Workers,     \* goroutines that run downloadItem
    NoWorker,    \* no entry in s.cancels
    CoverJobs,   \* priority cover jobs
    Limit        \* downloadLimit(): --limit, 2 when it is not positive

ASSUME LimitAssumption == Limit \in Nat \ {0}
ASSUME NoIdAssumption == NoId \notin Ids
ASSUME NoWorkerAssumption == NoWorker \notin Workers
ASSUME FiniteAssumption == IsFiniteSet(SlotRuns)

VARIABLES
    \* under s.mu
    items,         \* ids with an entry in s.items
    completed,     \* ids whose Item.Status is statusCompleted
    manualPaused,  \* ids with Item.ManualPaused
    downloading,   \* s.downloading
    dlPriority,    \* ids with s.dlPriority[id] = true
    preempted,     \* s.preempted
    cancels,       \* s.cancels: the worker whose context the entry cancels
    \* under s.dlMu
    dlPriQueue, dlQueue, dlPending, dlActive, dlActivePri,
    coverBandwidthHold,
    dlWake,        \* a token in the dlWake channel (capacity 1)
    \* program counters and locals of the goroutines
    sched, slot, worker, client, cover

muVars == <<items, completed, manualPaused, downloading, dlPriority, preempted, cancels>>
queueVars == <<dlPriQueue, dlQueue, dlPending>>
slotVars == <<dlActive, dlActivePri, coverBandwidthHold>>
vars == <<items, completed, manualPaused, downloading, dlPriority, preempted,
          cancels, dlPriQueue, dlQueue, dlPending, dlActive, dlActivePri,
          coverBandwidthHold, dlWake, sched, slot, worker, client, cover>>

At(pc) == [pc |-> pc, id |-> NoId, pri |-> FALSE]
IdleClient == At("idle")
IdleSlot == [pc |-> "idle", id |-> NoId, pri |-> FALSE]
SchedTop == [pc |-> "top", id |-> NoId, pri |-> FALSE, limit |-> 0]
SchedWait == [pc |-> "wait", id |-> NoId, pri |-> FALSE, limit |-> 0]
IdleWorker == [pc |-> "idle", id |-> NoId, canceled |-> FALSE]

Init ==
    /\ items = {}
    /\ completed = {}
    /\ manualPaused = {}
    /\ downloading = {}
    /\ dlPriority = {}
    /\ preempted = {}
    /\ cancels = [i \in Ids |-> NoWorker]
    /\ dlPriQueue = <<>>
    /\ dlQueue = <<>>
    /\ dlPending = {}
    /\ dlActive = 0
    /\ dlActivePri = 0
    /\ coverBandwidthHold = 0
    /\ dlWake = FALSE
    /\ sched = SchedTop
    /\ slot = [g \in SlotRuns |-> IdleSlot]
    /\ worker = [w \in Workers |-> IdleWorker]
    /\ client = [c \in Clients |-> IdleClient]
    /\ cover = [j \in CoverJobs |-> "idle"]

-----------------------------------------------------------------------------
(* Helpers.                                                                *)

QueueIds(q) == {q[i] : i \in DOMAIN q}

\* wakeDownloader: leave a token for the loop.  The send follows the unlock; a
\* token a little earlier only costs the loop one more look.
\* Mutation: the token is not sent.
wakeDownloader_Mute == UNCHANGED dlWake

wakeDownloader == dlWake' = TRUE

\* downloadReservedSlots: one slot is kept for play downloads
downloadReservedSlots(limit) == IF limit > 0 THEN 1 ELSE 0

\* downloadLimitWithCoverHoldLocked: the limit less the cover reservation
downloadLimitWithCoverHoldLocked ==
    IF coverBandwidthHold < Limit THEN Limit - coverBandwidthHold ELSE 0

\* Mutation: the entry is left in its queue.
filterID_Keep(q, id) == q

\* filterID: a queue holds an id at most once (QueueConsistent), so dropping
\* every occurrence of id is dropping the one at its position
filterID(q, id) ==
    IF id \in QueueIds(q)
    THEN LET p == CHOOSE i \in DOMAIN q : q[i] = id
         IN  SubSeq(q, 1, p - 1) \o SubSeq(q, p + 1, Len(q))
    ELSE q

\* Mutation: an id that is being downloaded is not refused.
NotStartable_Running(id) == id \notin items \/ id \in completed

\* what pops and startDownload refuse, under s.mu
NotStartable(id) ==
    id \notin items \/ id \in completed \/ id \in downloading

\* the section of queuePush under s.dlMu, with the wake-up that follows it
PushInsert(id, pri) ==
    IF id \in dlPending
    THEN IF pri
         THEN /\ dlPriQueue' = <<id>> \o filterID(dlPriQueue, id)
              /\ dlQueue' = filterID(dlQueue, id)
              /\ wakeDownloader
              /\ UNCHANGED dlPending
         ELSE UNCHANGED <<dlPriQueue, dlQueue, dlPending, dlWake>>
    ELSE /\ dlPending' = dlPending \cup {id}
         /\ wakeDownloader
         /\ IF pri
            THEN dlPriQueue' = <<id>> \o dlPriQueue /\ UNCHANGED dlQueue
            ELSE dlQueue' = Append(dlQueue, id) /\ UNCHANGED dlPriQueue

\* the downloads cancelOneBackgroundDownload may pick
Preemptable ==
    {id \in downloading : id \notin dlPriority /\ cancels[id] # NoWorker}

\* Mutation: the download is marked but its context is not canceled.
Preempt_Unheard(id) ==
    /\ preempted' = preempted \cup {id}
    /\ UNCHANGED <<items, completed, manualPaused, downloading, dlPriority, cancels, worker>>

\* its section: mark one of them preempted and cancel its context
Preempt(id) ==
    /\ preempted' = preempted \cup {id}
    /\ worker' = [worker EXCEPT ![cancels[id]].canceled = TRUE]
    /\ UNCHANGED <<items, completed, manualPaused, downloading, dlPriority, cancels>>

-----------------------------------------------------------------------------
(* Callers.                                                                *)

\* appendItem: an import adds an item, with the state its files and the meta
\* cache gave it
AppendItem(id, done, manual) ==
    /\ id \notin items
    /\ ~(done /\ manual)
    /\ items' = items \cup {id}
    /\ completed' = IF done THEN completed \cup {id} ELSE completed
    /\ manualPaused' = IF manual THEN manualPaused \cup {id} ELSE manualPaused
    /\ UNCHANGED <<downloading, dlPriority, preempted, cancels, queueVars,
                   slotVars, dlWake, sched, slot, worker, client, cover>>

\* queuePush, first section (s.mu).  pri: startDownloadNow; otherwise clear
\* tells enqueueDownload from enqueueDownloadBackground.  The manual pause is
\* cleared even when the push is then skipped.
QueuePush(c, id, pri, clear) ==
    /\ client[c].pc = "idle"
    /\ pri => clear
    /\ LET skip == \/ id \notin items
                   \/ id \in completed
                   \/ id \in manualPaused /\ ~clear
       IN  client' = IF skip \/ id \in downloading THEN client
                     ELSE [client EXCEPT ![c] = [pc |-> "insert", id |-> id, pri |-> pri]]
    /\ manualPaused' = IF clear /\ id \in items THEN manualPaused \ {id}
                       ELSE manualPaused
    /\ UNCHANGED <<items, completed, downloading, dlPriority, preempted, cancels,
                   queueVars, slotVars, dlWake, sched, slot, worker, cover>>

\* queuePush, second section (s.dlMu); a play push goes on to preempt
QueuePushInsert(c) ==
    /\ client[c].pc = "insert"
    /\ PushInsert(client[c].id, client[c].pri)
    /\ client' = [client EXCEPT ![c] =
                    IF client[c].pri THEN At("preempt")
                    ELSE IdleClient]
    /\ UNCHANGED <<muVars, slotVars, sched, slot, worker, cover>>

\* preemptBackgroundDownload: all slots taken, one of them by background
PreemptBackgroundDownload(c) ==
    /\ client[c].pc = "preempt"
    /\ client' = [client EXCEPT ![c] =
                    IF dlActive >= Limit /\ dlActive > dlActivePri
                    THEN At("cancel") ELSE IdleClient]
    /\ UNCHANGED <<muVars, queueVars, slotVars, dlWake, sched, slot, worker, cover>>

\* cancelOneBackgroundDownload called by preemptBackgroundDownload
CancelOneBackgroundDownload(c) ==
    /\ client[c].pc = "cancel"
    /\ client' = [client EXCEPT ![c] = IdleClient]
    /\ \/ /\ Preemptable = {}
          /\ UNCHANGED <<muVars, worker>>
       \/ \E id \in Preemptable : Preempt(id)
    /\ UNCHANGED <<queueVars, slotVars, dlWake, sched, slot, cover>>

\* pauseDownload: removeFromQueue under s.dlMu
PauseDownload(c, id) ==
    /\ client[c].pc = "idle"
    /\ client' = [client EXCEPT ![c] = [pc |-> "pause", id |-> id, pri |-> FALSE]]
    /\ dlPending' = dlPending \ {id}
    /\ dlPriQueue' = IF id \in dlPending THEN filterID(dlPriQueue, id) ELSE dlPriQueue
    /\ dlQueue' = IF id \in dlPending THEN filterID(dlQueue, id) ELSE dlQueue
    /\ UNCHANGED <<muVars, slotVars, dlWake, sched, slot, worker, cover>>

\* pauseDownload: the section under s.mu
PauseMark(c) ==
    /\ client[c].pc = "pause"
    /\ client' = [client EXCEPT ![c] = IdleClient]
    /\ LET id == client[c].id IN
       /\ manualPaused' = IF id \in items THEN manualPaused \cup {id} ELSE manualPaused
       /\ preempted' = preempted \ {id}
       /\ worker' = IF cancels[id] = NoWorker THEN worker
                    ELSE [worker EXCEPT ![cancels[id]].canceled = TRUE]
    /\ UNCHANGED <<items, completed, downloading, dlPriority, cancels, queueVars,
                   slotVars, dlWake, sched, slot, cover>>

-----------------------------------------------------------------------------
(* downloadSchedulerLoop.  A pop drops s.dlMu to look at the item and takes  *)
(* it again to go on, with the limit read before: sched.limit.               *)

PopPriority(limit) ==
    /\ sched' = [pc |-> "check", id |-> Head(dlPriQueue), pri |-> TRUE, limit |-> limit]
    /\ dlPriQueue' = Tail(dlPriQueue)
    /\ dlPending' = dlPending \ {Head(dlPriQueue)}
    /\ UNCHANGED dlQueue

PopBackground(limit) ==
    /\ sched' = [pc |-> "check", id |-> Head(dlQueue), pri |-> FALSE, limit |-> limit]
    /\ dlQueue' = Tail(dlQueue)
    /\ dlPending' = dlPending \ {Head(dlQueue)}
    /\ UNCHANGED dlPriQueue

Sleep == sched' = SchedWait /\ UNCHANGED queueVars

\* background slots: all of them when no play waits or runs, else all but the
\* reserved one
BackgroundCap(limit) ==
    IF dlPriQueue = <<>> /\ dlActivePri = 0 THEN limit
    ELSE limit - downloadReservedSlots(limit)

\* the background half of tryStartDownloadLocked
TryBackground(limit) ==
    IF \/ dlActive - dlActivePri >= BackgroundCap(limit)
       \/ dlActive >= limit
       \/ dlQueue = <<>>
    THEN Sleep
    ELSE PopBackground(limit)

\* tryStartDownloadLocked up to the first pop
TryStartDownload ==
    /\ sched.pc = "top"
    /\ LET limit == downloadLimitWithCoverHoldLocked
       IN  IF dlActive >= limit THEN Sleep
           ELSE IF dlPriQueue # <<>> THEN PopPriority(limit)
           ELSE TryBackground(limit)
    /\ UNCHANGED <<muVars, slotVars, dlWake, slot, worker, client, cover>>

\* the section of a pop under s.mu
PopCheck ==
    /\ sched.pc = "check"
    /\ sched' = [sched EXCEPT !.pc = IF NotStartable(sched.id) THEN "skip" ELSE "take"]
    /\ UNCHANGED <<muVars, queueVars, slotVars, dlWake, slot, worker, client, cover>>

\* a refused pop goes on to the next id; an exhausted priority queue falls
\* through to the background half
PopSkip ==
    /\ sched.pc = "skip"
    /\ IF sched.pri
       THEN IF dlPriQueue # <<>> THEN PopPriority(sched.limit)
            ELSE TryBackground(sched.limit)
       ELSE IF dlQueue # <<>> THEN PopBackground(sched.limit) ELSE Sleep
    /\ UNCHANGED <<muVars, slotVars, dlWake, slot, worker, client, cover>>

\* a job is taken: its slot is counted and its goroutine spawned
TakeSlot(g) ==
    /\ sched.pc = "take"
    /\ slot[g].pc = "idle"
    /\ dlActive' = dlActive + 1
    /\ dlActivePri' = IF sched.pri THEN dlActivePri + 1 ELSE dlActivePri
    /\ slot' = [slot EXCEPT ![g] = [pc |-> "start", id |-> sched.id, pri |-> sched.pri]]
    /\ sched' = SchedTop
    /\ UNCHANGED <<muVars, queueVars, coverBandwidthHold, dlWake, worker, client, cover>>

\* the loop sleeps on dlWake
SchedulerWake ==
    /\ sched.pc = "wait"
    /\ dlWake
    /\ dlWake' = FALSE
    /\ sched' = SchedTop
    /\ UNCHANGED <<muVars, queueVars, slotVars, slot, worker, client, cover>>

-----------------------------------------------------------------------------
(* The goroutine that holds a slot.                                        *)

\* startDownload refuses the id
StartDownloadSkip(g) ==
    /\ slot[g].pc = "start"
    /\ NotStartable(slot[g].id)
    /\ slot' = [slot EXCEPT ![g].pc = "wait"]
    /\ UNCHANGED <<muVars, queueVars, slotVars, dlWake, sched, worker, client, cover>>

\* startDownload registers the download and spawns its worker
StartDownload(g, w) ==
    /\ slot[g].pc = "start"
    /\ ~NotStartable(slot[g].id)
    /\ worker[w].pc = "idle"
    /\ LET id == slot[g].id IN
       /\ cancels' = [cancels EXCEPT ![id] = w]
       /\ downloading' = downloading \cup {id}
       /\ dlPriority' = IF slot[g].pri THEN dlPriority \cup {id} ELSE dlPriority \ {id}
       /\ worker' = [worker EXCEPT ![w] = [pc |-> "run", id |-> id, canceled |-> FALSE]]
    /\ slot' = [slot EXCEPT ![g].pc = "wait"]
    /\ UNCHANGED <<items, completed, manualPaused, preempted, queueVars, slotVars,
                   dlWake, sched, client, cover>>

\* Mutation: the slot is given back without waiting for the download.
WaitDownload_NoWait(g) ==
    /\ slot[g].pc = "wait"
    /\ slot' = [slot EXCEPT ![g].pc = "release"]
    /\ UNCHANGED <<muVars, queueVars, slotVars, dlWake, sched, worker, client, cover>>

\* waitDownload: a poll finds the id no longer downloading
WaitDownload(g) ==
    /\ slot[g].pc = "wait"
    /\ slot[g].id \notin downloading
    /\ slot' = [slot EXCEPT ![g].pc = "release"]
    /\ UNCHANGED <<muVars, queueVars, slotVars, dlWake, sched, worker, client, cover>>

\* Mutation: the play slot of a play download is never given back.
ReleasePri_Leak(pri, n) == n

\* Mutation: every download gives a play slot back, without the clamp.
ReleasePri_Always(pri, n) == n - 1

\* the play slots once a slot is released, clamped at zero
ReleasePri(pri, n) == IF ~pri THEN n ELSE IF n > 0 THEN n - 1 ELSE 0

\* the deferred release, with its clamps at zero
ReleaseSlot(g) ==
    /\ slot[g].pc = "release"
    /\ dlActive' = IF dlActive > 0 THEN dlActive - 1 ELSE 0
    /\ dlActivePri' = ReleasePri(slot[g].pri, dlActivePri)
    /\ wakeDownloader
    /\ slot' = [slot EXCEPT ![g] = IdleSlot]
    /\ UNCHANGED <<muVars, queueVars, coverBandwidthHold, sched, worker, client, cover>>

-----------------------------------------------------------------------------
(* The goroutine of a download.                                            *)

\* downloadItem ends well: markCompleted
MarkCompleted(w) ==
    /\ worker[w].pc = "run"
    /\ worker' = [worker EXCEPT ![w].pc = "marked"]
    /\ completed' = IF worker[w].id \in items THEN completed \cup {worker[w].id}
                    ELSE completed
    /\ UNCHANGED <<items, manualPaused, downloading, dlPriority, preempted, cancels,
                   queueVars, slotVars, dlWake, sched, slot, client, cover>>

\* downloadItem returned, well (marked) or with an error (run): unregister it.
\* A context canceled by a pause or a preemption ends it with an error, if it
\* is not past noticing.
FinishDownload(w) ==
    /\ worker[w].pc \in {"run", "marked"}
    /\ LET id == worker[w].id IN
       /\ downloading' = downloading \ {id}
       /\ cancels' = [cancels EXCEPT ![id] = NoWorker]
       /\ dlPriority' = dlPriority \ {id}
       /\ preempted' = preempted \ {id}
       /\ worker' = [worker EXCEPT ![w] =
                       IF id \in preempted
                       THEN [pc |-> "requeue", id |-> id, canceled |-> FALSE]
                       ELSE IdleWorker]
    /\ UNCHANGED <<items, completed, manualPaused, queueVars, slotVars, dlWake,
                   sched, slot, client, cover>>

\* Mutation: a preempted download is forgotten.
Requeue_Forget(w) ==
    /\ worker[w].pc = "requeue"
    /\ worker' = [worker EXCEPT ![w] = IdleWorker]
    /\ UNCHANGED <<muVars, queueVars, slotVars, dlWake, sched, slot, client, cover>>

\* enqueueDownloadBackground of a preempted download: section under s.mu
Requeue(w) ==
    /\ worker[w].pc = "requeue"
    /\ worker' = [worker EXCEPT ![w] =
                    IF NotStartable(worker[w].id) \/ worker[w].id \in manualPaused
                    THEN IdleWorker ELSE [worker[w] EXCEPT !.pc = "insert"]]
    /\ UNCHANGED <<muVars, queueVars, slotVars, dlWake, sched, slot, client, cover>>

\* ... and section under s.dlMu
RequeueInsert(w) ==
    /\ worker[w].pc = "insert"
    /\ PushInsert(worker[w].id, FALSE)
    /\ worker' = [worker EXCEPT ![w] = IdleWorker]
    /\ UNCHANGED <<muVars, slotVars, sched, slot, client, cover>>

-----------------------------------------------------------------------------
(* Priority cover jobs: beginCoverBandwidth .. endCoverBandwidth.          *)

\* jobs in s.coverActive; coverLimit() allows one
CoverActive == {j \in CoverJobs : cover[j] \in {"cancel", "check", "granted", "expired"}}

\* coverSchedulerLoop starts a job, which reserves what play does not use
BeginCoverBandwidth(j) ==
    /\ cover[j] = "idle"
    /\ CoverActive = {}
    /\ coverBandwidthHold' = coverBandwidthHold +
           (IF Limit - dlActivePri < 1 THEN 1 ELSE Limit - dlActivePri)
    /\ cover' = [cover EXCEPT ![j] = "cancel"]
    /\ UNCHANGED <<muVars, queueVars, dlActive, dlActivePri, dlWake, sched, slot,
                   worker, client>>

\* for s.cancelOneBackgroundDownload() {}: one more call, until one finds nothing
CoverCancel(j) ==
    /\ cover[j] = "cancel"
    /\ \/ /\ Preemptable = {}
          /\ cover' = [cover EXCEPT ![j] = "check"]
          /\ UNCHANGED <<muVars, worker>>
       \/ /\ \E id \in Preemptable : Preempt(id)
          /\ UNCHANGED cover
    /\ UNCHANGED <<queueVars, slotVars, dlWake, sched, slot, client>>

\* the check under s.dlMu; when it fails the job tries again, or gives up: its
\* three seconds are over or its context is canceled
CoverCheck(j) ==
    /\ cover[j] = "check"
    /\ IF dlActive - dlActivePri <= 0 /\ dlActive <= downloadLimitWithCoverHoldLocked
       THEN cover' = [cover EXCEPT ![j] = "granted"]
       ELSE \E next \in {"cancel", "expired"} : cover' = [cover EXCEPT ![j] = next]
    /\ UNCHANGED <<muVars, queueVars, slotVars, dlWake, sched, slot, worker, client>>

\* the cover is built and the job leaves s.coverActive
CoverDone(j) ==
    /\ cover[j] \in {"granted", "expired"}
    /\ cover' = [cover EXCEPT ![j] = "ending"]
    /\ UNCHANGED <<muVars, queueVars, slotVars, dlWake, sched, slot, worker, client>>

\* the deferred endCoverBandwidth, which runs after that
EndCoverBandwidth(j) ==
    /\ cover[j] = "ending"
    /\ cover' = [cover EXCEPT ![j] = "idle"]
    /\ coverBandwidthHold' = 0
    /\ wakeDownloader
    /\ UNCHANGED <<muVars, queueVars, dlActive, dlActivePri, sched, slot, worker, client>>

-----------------------------------------------------------------------------
(* The specification.                                                      *)

\* a new request, of a user or an import
Request ==
    \/ \E c \in Clients, id \in Ids, pri, clear \in BOOLEAN : QueuePush(c, id, pri, clear)
    \/ \E c \in Clients, id \in Ids : PauseDownload(c, id)
    \/ \E id \in Ids, done, manual \in BOOLEAN : AppendItem(id, done, manual)
    \/ \E j \in CoverJobs : BeginCoverBandwidth(j)

\* a caller goes on with the request it began
ClientStep(c) ==
    \/ QueuePushInsert(c)
    \/ PreemptBackgroundDownload(c)
    \/ CancelOneBackgroundDownload(c)
    \/ PauseMark(c)

SchedulerStep ==
    \/ TryStartDownload
    \/ PopCheck
    \/ PopSkip
    \/ \E g \in SlotRuns : TakeSlot(g)
    \/ SchedulerWake

SlotStep(g) ==
    \/ StartDownloadSkip(g)
    \/ \E w \in Workers : StartDownload(g, w)
    \/ WaitDownload(g)
    \/ ReleaseSlot(g)

WorkerStep(w) ==
    \/ MarkCompleted(w)
    \/ FinishDownload(w)
    \/ Requeue(w)
    \/ RequeueInsert(w)

CoverStep(j) ==
    \/ CoverCancel(j)
    \/ CoverCheck(j)
    \/ CoverDone(j)
    \/ EndCoverBandwidth(j)

Next ==
    \/ Request
    \/ \E c \in Clients : ClientStep(c)
    \/ SchedulerStep
    \/ \E g \in SlotRuns : SlotStep(g)
    \/ \E w \in Workers : WorkerStep(w)
    \/ \E j \in CoverJobs : CoverStep(j)

Spec == Init /\ [][Next]_vars

-----------------------------------------------------------------------------
(* Properties.                                                             *)

SlotHolders == {g \in SlotRuns : slot[g].pc # "idle"}
PlayHolders == {g \in SlotHolders : slot[g].pri}
Running == {w \in Workers : worker[w].pc \in {"run", "marked"}}

\* What the program counters and locals of each goroutine may be; one that is
\* at work knows its item.
SchedState ==
    {r \in [pc : {"top", "wait", "check", "skip", "take"}, id : Ids \cup {NoId},
            pri : BOOLEAN, limit : 0..Limit] : r.pc \in {"top", "wait"} \/ r.id \in Ids}
SlotState ==
    {r \in [pc : {"idle", "start", "wait", "release"}, id : Ids \cup {NoId}, pri : BOOLEAN] :
        r.pc = "idle" \/ r.id \in Ids}
WorkerState ==
    {r \in [pc : {"idle", "run", "marked", "requeue", "insert"}, id : Ids \cup {NoId},
            canceled : BOOLEAN] : r.pc = "idle" \/ r.id \in Ids}
ClientState ==
    {r \in [pc : {"idle", "insert", "preempt", "cancel", "pause"}, id : Ids \cup {NoId},
            pri : BOOLEAN] : r.pc \in {"idle", "preempt", "cancel"} \/ r.id \in Ids}
CoverState == {"idle", "cancel", "check", "granted", "expired", "ending"}

\* The type of every variable.
TypeOK ==
    /\ items \subseteq Ids /\ completed \subseteq Ids /\ manualPaused \subseteq Ids
    /\ downloading \subseteq Ids /\ dlPriority \subseteq Ids /\ preempted \subseteq Ids
    /\ cancels \in [Ids -> Workers \cup {NoWorker}]
    /\ dlPriQueue \in Seq(Ids) /\ dlQueue \in Seq(Ids) /\ dlPending \subseteq Ids
    /\ dlActive \in Nat /\ dlActivePri \in Nat /\ coverBandwidthHold \in Nat
    /\ dlWake \in BOOLEAN
    /\ sched \in SchedState
    /\ slot \in [SlotRuns -> SlotState]
    /\ worker \in [Workers -> WorkerState]
    /\ client \in [Clients -> ClientState]
    /\ cover \in [CoverJobs -> CoverState]

\* The two counters of the scheduler are exactly the slots its goroutines hold
\* and those of them held for play, in every interleaving of takes and
\* releases: no slot leaks and the clamps at zero never hide a double release.
SlotAccounting ==
    /\ dlActive = Cardinality(SlotHolders)
    /\ dlActivePri = Cardinality(PlayHolders)

\* No more than --limit downloads run at once (TestGlobalDownloadLimit), although
\* the pops release the lock between the check of the limit and the count, and
\* a slot is released by a poll that may come late.
DownloadsWithinLimit == Cardinality(Running) <= Limit

\* An id is downloaded by one goroutine at a time, and s.downloading and
\* s.cancels name exactly the goroutines that run: a pause reaches the download
\* and two downloads never write the same temporary file.
RegisteredDownloads ==
    /\ \A v, w \in Running : worker[v].id = worker[w].id => v = w
    /\ downloading = {worker[w].id : w \in Running}
    /\ \A id \in Ids : IF id \in downloading
                       THEN cancels[id] \in Running /\ worker[cancels[id]].id = id
                       ELSE cancels[id] = NoWorker

\* Every wait queue entry is in s.dlPending and the converse, and an id waits
\* once, in one queue: a second request neither duplicates a job nor loses the
\* mark that keeps a third from doing so.
QueueConsistent ==
    /\ dlPending = QueueIds(dlPriQueue) \cup QueueIds(dlQueue)
    /\ QueueIds(dlPriQueue) \cap QueueIds(dlQueue) = {}
    /\ \A q \in {dlPriQueue, dlQueue} :
          \A i, j \in DOMAIN q : q[i] = q[j] => i = j

\* A preemption mark belongs to a running download whose context is canceled:
\* it cannot outlive the download it stopped and requeue a later one.
PreemptionIsLive ==
    \A id \in preempted : id \in downloading /\ worker[cancels[id]].canceled

\* When the loop sleeps and no token waits for it, nothing it could start is
\* queued: every operation that makes a job startable (a push, a released slot,
\* the end of a cover reservation) leaves a token that the loop, which may be
\* between two sections with an old limit, cannot miss.
NoLostWakeup ==
    LET limit == downloadLimitWithCoverHoldLocked
    IN  sched.pc = "wait" /\ ~dlWake /\ dlActive < limit
        => /\ dlPriQueue = <<>>
           /\ dlQueue = <<>> \/ dlActive - dlActivePri >= BackgroundCap(limit)

\* The scheduler gives what it is for: it implements the plain slots of
\* DownloadSlots, where an id starts only when it is not running and a slot is
\* free.
Slots == INSTANCE DownloadSlots WITH running <- downloading
ImplementsSlots == Slots!Spec

-----------------------------------------------------------------------------
(* A statement of the code's tests that its interleavings do not keep.     *)

\* A download the user paused starts only when asked for explicitly, which
\* clears the pause: "background queue should skip manual paused item".
PausedStaysPaused ==
    [][\A id \in downloading' \ downloading : id \notin manualPaused]_vars
=============================================================================
