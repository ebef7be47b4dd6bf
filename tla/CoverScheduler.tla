--------------------------- MODULE CoverScheduler ---------------------------
(* The cover scheduler of `tdl web` (app/web/cover.go): requests for covers,   *)
(* the state the browser sends (which videos are visible, whether covers are   *)
(* paused), the playback that preempts them, the loop and its jobs.            *)
(*                                                                             *)
(* s.coverMu guards everything but the items and the cache; a caller cancels   *)
(* the jobs it has picked after it has unlocked.  The bandwidth a job reserves *)
(* is in DownloadScheduler.                                                    *)
EXTENDS Integers, FiniteSets, SequencesExt, SeqKeep

CONSTANTS
    Ids,        \* items
    Videos,     \* the videos among them
    Posters,    \* videos without a thumb, whose cover is extracted
    Calls,      \* concurrent HTTP handlers
    Jobs,       \* goroutines of covers
    NoJob,      \* no entry in s.coverCancels
    MaxCalls    \* bound: how many requests are made

ASSUME CoverAssumption ==
    /\ Posters \subseteq Videos /\ Videos \subseteq Ids
    /\ IsFiniteSet(Ids) /\ NoJob \notin Jobs /\ MaxCalls \in Nat

VARIABLES
    items,       \* ids in s.items
    cached,      \* ids whose thumb cache file is valid
    local,       \* videos of which enough is on disk
    paused, visible, pending, priQueue, queue,   \* s.coverPaused and so on
    active,      \* s.coverActive: "no", "bg", or "pri" for true
    cancels,     \* s.coverCancels: the job whose context is cancelled
    failed,      \* s.coverFailed, the times that are not over
    wake,        \* a token in s.coverWake
    sched,       \* the loop: at its "top" or in its "wait"
    job, call,   \* the goroutines
    calls        \* requests made so far

files == <<items, cached, local>>
queues == <<pending, priQueue, queue>>
running == <<active, cancels>>
vars == <<files, paused, visible, queues, running, failed, wake, sched, job, call, calls>>

coverLimit == 1
coverRetryQueueDepth == 3

IdleJob == [at |-> "idle"]
IdleCall == [at |-> "idle"]
Orders == {q \in UNION {[1..n -> Ids] : n \in 0..Cardinality(Ids)} : IsInjective(q)}

JobStates == [at : {"begin", "check", "build", "finish"}, id : Ids, pri : BOOLEAN,
              canceled : BOOLEAN, err : {"none", "fail", "canceled"}]
CallStates == [at : {"look", "enqueue", "wait"}, id : Ids, pri : BOOLEAN, retry : BOOLEAN]
              \cup [at : {"state"}, paused : BOOLEAN, visible : SUBSET Videos, ordered : Seq(Ids)]
              \cup [at : {"cancel"}, jobs : SUBSET Jobs]

TypeOK ==
    /\ items \subseteq Ids /\ cached \subseteq Ids /\ local \subseteq Videos
    /\ paused \in BOOLEAN /\ visible \subseteq Videos /\ pending \subseteq Ids
    /\ priQueue \in Seq(Ids) /\ queue \in Seq(Ids)
    /\ active \in [Ids -> {"no", "bg", "pri"}]
    /\ cancels \in [Ids -> Jobs \cup {NoJob}]
    /\ failed \subseteq Posters /\ wake \in BOOLEAN /\ sched \in {"top", "wait"}
    /\ job \in [Jobs -> {IdleJob} \cup JobStates]
    /\ call \in [Calls -> {IdleCall} \cup CallStates]
    /\ calls \in 0..MaxCalls

Init ==
    /\ items = {} /\ cached = {} /\ local = {}
    /\ paused = FALSE /\ visible = {} /\ pending = {}
    /\ priQueue = <<>> /\ queue = <<>>
    /\ active = [id \in Ids |-> "no"] /\ cancels = [id \in Ids |-> NoJob]
    /\ failed = {} /\ wake = FALSE /\ sched = "top"
    /\ job = [j \in Jobs |-> IdleJob] /\ call = [r \in Calls |-> IdleCall]
    /\ calls = 0

Without(q, id) == Keep(q, Ids \ {id})
Queued == ToSet(priQueue) \cup ToSet(queue)

isActive(id) == active[id] # "no"

\* A request begins: bounded.
Begin(r, state) ==
    /\ call[r] = IdleCall /\ calls < MaxCalls
    /\ calls' = calls + 1
    /\ call' = [call EXCEPT ![r] = state]

Goes(r, state) == call' = [call EXCEPT ![r] = state] /\ UNCHANGED calls

-----------------------------------------------------------------------------
(* A request for a cover: handleThumb. *)

\* coverRequestPolicy; asked is the priority the browser asked for.
CoverRequestPolicy(r, id, asked, retry) ==
    /\ id \in items \ cached /\ ~paused
    /\ id \in Videos => id \in visible \/ asked
    /\ Begin(r, [at |-> "look", id |-> id, pri |-> id \in Videos, retry |-> retry])
    /\ UNCHANGED <<files, paused, visible, queues, running, failed, wake, sched, job>>

\* enqueueCoverBuild, the look at the cache before the lock
LookAtCache(r) ==
    /\ call[r].at = "look"
    /\ Goes(r, [call[r] EXCEPT !.at = IF call[r].id \in cached THEN "wait" ELSE "enqueue"])
    /\ UNCHANGED <<files, paused, visible, queues, running, failed, wake, sched, job>>

\* shouldWaitCover: whether the handler waits for a cover at that position
shouldWaitCover(pos, retry) == pos <= 1 \/ (retry /\ pos <= coverRetryQueueDepth)

\* coverPositionLocked
coverPosition(id, pq, q) == SelectInSeq(pq \o q, LAMBDA x : x = id)

\* The handler waits, or gives up at once: tryServeTelegramCover.
Answer(r, pos) ==
    Goes(r, IF shouldWaitCover(pos, call[r].retry \/ call[r].pri)
            THEN [call[r] EXCEPT !.at = "wait"] ELSE IdleCall)

Push(id, pri) ==
    /\ priQueue' = IF pri THEN <<id>> \o priQueue ELSE priQueue
    /\ queue' = IF pri THEN queue ELSE Append(queue, id)

(* enqueueCoverBuild, the section: nothing to do; a job that waits moves to the  *)
(* front (and loses its mark in coverPending); a new job.                       *)
EnqueueCoverBuild(r) ==
    /\ call[r].at = "enqueue"
    /\ LET id == call[r].id  pri == call[r].pri IN
       \/ /\ paused \/ id \in failed \/ isActive(id)
          /\ Answer(r, 0) /\ UNCHANGED <<queues, wake>>
       \/ /\ ~paused /\ id \notin failed /\ ~isActive(id) /\ id \in pending
          /\ IF pri THEN /\ pending' = pending \ {id}
                         /\ priQueue' = <<id>> \o Without(priQueue, id)
                         /\ queue' = Without(queue, id)
                    ELSE UNCHANGED queues
          /\ Answer(r, coverPosition(id, priQueue', queue')) /\ UNCHANGED wake
       \/ /\ ~paused /\ id \notin failed /\ ~isActive(id) /\ id \notin pending
          /\ pending' = pending \cup {id} /\ Push(id, pri)
          /\ Answer(r, coverPosition(id, priQueue', queue')) /\ wake' = TRUE
    /\ UNCHANGED <<files, paused, visible, running, failed, sched, job>>

\* waitCoverBuild: the cover is there, or nobody is going to build it
WaitCoverBuild(r) ==
    /\ call[r].at = "wait"
    /\ \/ call[r].id \in cached
       \/ ~isActive(call[r].id) /\ call[r].id \notin pending
    /\ Goes(r, IdleCall)
    /\ UNCHANGED <<files, paused, visible, queues, running, failed, wake, sched, job>>

\* ... or the handler's time is over, or the browser has gone
WaitTimeout(r) ==
    /\ call[r].at = "wait"
    /\ Goes(r, IdleCall)
    /\ UNCHANGED <<files, paused, visible, queues, running, failed, wake, sched, job>>

-----------------------------------------------------------------------------
(* The browser's state, and playback. *)

\* Mutation: the marks of the jobs that are dropped stay.
Unmarked_Kept == pending

\* Both drop what is queued, with its marks.
Unmarked == pending \ Queued

\* setCoverState, the section of s.mu: ids are the videos the browser names
ReadCoverState(r, pause, ids) ==
    /\ LET shown == Keep(ids, items \cap Videos) IN
       Begin(r, [at |-> "state", paused |-> pause, visible |-> ToSet(shown),
                 ordered |-> Keep(shown, Ids \ (local \cup cached))])
    /\ UNCHANGED <<files, paused, visible, queues, running, failed, wake, sched, job>>

\* Mutation: a pause lets the job that runs go on.
Stopped_NotByPause(pause, shown, ordered) ==
    {cancels[id] : id \in {i \in Ids : \/ active[i] = "pri" /\ i \notin shown
                                       \/ active[i] = "bg" /\ ordered # <<>>}} \ {NoJob}

\* The jobs that setCoverState stops.
Stopped(pause, shown, ordered) ==
    {cancels[id] : id \in {i \in Ids : \/ pause /\ isActive(i)
                                       \/ active[i] = "pri" /\ i \notin shown
                                       \/ active[i] = "bg" /\ ordered # <<>>}} \ {NoJob}

\* ... the section of s.coverMu.  The wake-up at its end is given here.
SetCoverState(r) ==
    /\ call[r].at = "state"
    /\ LET s == call[r]
           wanted == Keep(s.ordered, {id \in Ids \ cached : ~isActive(id)})
       IN  /\ paused' = s.paused /\ visible' = s.visible
           /\ priQueue' = IF s.paused THEN <<>> ELSE wanted
           /\ queue' = <<>>
           /\ pending' = Unmarked \cup ToSet(priQueue')
           /\ Goes(r, [at |-> "cancel", jobs |-> Stopped(s.paused, s.visible, s.ordered)])
    /\ wake' = TRUE
    /\ UNCHANGED <<files, running, failed, sched, job>>

\* preemptCoversForPlayback: everything is dropped
PreemptForPlayback(r) ==
    /\ Begin(r, [at |-> "cancel", jobs |-> {cancels[id] : id \in Ids} \ {NoJob}])
    /\ pending' = Unmarked /\ priQueue' = <<>> /\ queue' = <<>>
    /\ wake' = TRUE
    /\ UNCHANGED <<files, paused, visible, running, failed, sched, job>>

\* ... and, for both, the cancellations after the lock
CancelCovers(r) ==
    /\ call[r].at = "cancel"
    /\ job' = [j \in Jobs |-> IF j \in call[r].jobs /\ job[j] # IdleJob
                              THEN [job[j] EXCEPT !.canceled = TRUE] ELSE job[j]]
    /\ Goes(r, IdleCall)
    /\ UNCHANGED <<files, paused, visible, queues, running, failed, wake, sched>>

-----------------------------------------------------------------------------
(* coverSchedulerLoop *)

itemNeedsCoverBuild(id) == id \in items \ cached

\* popCoverJobLocked: the entries before the first that needs a cover
Skipped(q) == SelectInSeq(q, itemNeedsCoverBuild)
Rest(q) == IF Skipped(q) = 0 THEN <<>> ELSE SubSeq(q, Skipped(q) + 1, Len(q))

\* Mutation: an entry that is skipped keeps its mark.
Dropped_Nothing(q) == {}

Dropped(q) == IF Skipped(q) = 0 THEN ToSet(q) ELSE ToSet(SubSeq(q, 1, Skipped(q) - 1))
MayPop == ~paused /\ Cardinality({id \in Ids : isActive(id)}) < coverLimit

StartCover(j, id, pri) ==
    /\ job[j] = IdleJob
    /\ active' = [active EXCEPT ![id] = IF pri THEN "pri" ELSE "bg"]
    /\ cancels' = [cancels EXCEPT ![id] = j]
    /\ job' = [job EXCEPT ![j] = [at |-> IF pri THEN "begin" ELSE "check", id |-> id,
                                  pri |-> pri, canceled |-> FALSE, err |-> "none"]]

PopPriority(j) ==
    /\ sched = "top" /\ MayPop /\ Skipped(priQueue) # 0
    /\ StartCover(j, priQueue[Skipped(priQueue)], TRUE)
    /\ priQueue' = Rest(priQueue)
    /\ pending' = pending \ Dropped(priQueue)
    /\ UNCHANGED <<files, paused, visible, queue, failed, wake, sched, call, calls>>

PopBackground(j) ==
    /\ sched = "top" /\ MayPop /\ Skipped(priQueue) = 0 /\ Skipped(queue) # 0
    /\ StartCover(j, queue[Skipped(queue)], FALSE)
    /\ priQueue' = <<>> /\ queue' = Rest(queue)
    /\ pending' = pending \ (Dropped(priQueue) \cup Dropped(queue))
    /\ UNCHANGED <<files, paused, visible, failed, wake, sched, call, calls>>

PopNothing ==
    /\ sched = "top" /\ sched' = "wait"
    /\ IF MayPop THEN /\ Skipped(priQueue) = 0 /\ Skipped(queue) = 0
                      /\ priQueue' = <<>> /\ queue' = <<>>
                      /\ pending' = pending \ (Dropped(priQueue) \cup Dropped(queue))
                 ELSE UNCHANGED queues
    /\ UNCHANGED <<files, paused, visible, running, failed, wake, job, call, calls>>

SchedulerWake ==
    /\ sched = "wait" /\ wake
    /\ sched' = "top" /\ wake' = FALSE
    /\ UNCHANGED <<files, paused, visible, queues, running, failed, job, call, calls>>

-----------------------------------------------------------------------------
(* The goroutine of a job. *)
JobMoves(j, from, state) ==
    /\ job[j].at = from
    /\ job' = [job EXCEPT ![j] = state]
    /\ UNCHANGED <<paused, visible, sched, call, calls>>

\* beginCoverBandwidth returns: at once, after three seconds, or canceled
BandwidthReady(j) ==
    /\ JobMoves(j, "begin", [job[j] EXCEPT !.at = "check"])
    /\ UNCHANGED <<files, queues, running, failed, wake>>

CheckContext(j) ==
    /\ JobMoves(j, "check", IF job[j].canceled
                            THEN [job[j] EXCEPT !.at = "finish", !.err = "canceled"]
                            ELSE [job[j] EXCEPT !.at = "build"])
    /\ UNCHANGED <<files, queues, running, failed, wake>>

(* ensureThumbCache and buildCoverFromTelegram: the cover is built; or the      *)
(* request fails, is canceled or times out, or the item has gone.               *)
BuildCover(j) ==
    /\ \/ /\ JobMoves(j, "build", [job[j] EXCEPT !.at = "finish"])
          /\ job[j].id \in items \cup cached
          /\ cached' = cached \cup {job[j].id}
       \/ /\ \E e \in {"fail", "canceled"} :
                JobMoves(j, "build", [job[j] EXCEPT !.at = "finish", !.err = e])
          /\ UNCHANGED cached
    /\ UNCHANGED <<items, local, queues, running, failed, wake>>

\* Mutation: every failure cools down.
Cooled_Always(j) == IF job[j].err = "fail" THEN failed \cup {job[j].id} ELSE failed \ {job[j].id}

\* shouldCooldownCoverFailure: a failure, not a cancellation, of a poster
Cooled(j) ==
    IF job[j].err = "fail" /\ job[j].id \in items \cap Posters
    THEN failed \cup {job[j].id} ELSE failed \ {job[j].id}

\* Mutation: the loop is not told.
FinishCover_Silent(j) ==
    /\ JobMoves(j, "finish", IdleJob)
    /\ LET id == job[j].id IN
       /\ failed' = Cooled(j)
       /\ active' = [active EXCEPT ![id] = "no"]
       /\ cancels' = [cancels EXCEPT ![id] = NoJob]
       /\ pending' = pending \ {id}
    /\ UNCHANGED <<files, priQueue, queue, wake>>

\* Mutation: the cancel function stays.
FinishCover_KeepsCancel(j) ==
    /\ JobMoves(j, "finish", IdleJob)
    /\ LET id == job[j].id IN
       /\ failed' = Cooled(j)
       /\ active' = [active EXCEPT ![id] = "no"]
       /\ pending' = pending \ {id}
    /\ wake' = TRUE
    /\ UNCHANGED <<files, priQueue, queue, cancels>>

(* The end of the job. *)
FinishCover(j) ==
    /\ JobMoves(j, "finish", IdleJob)
    /\ LET id == job[j].id IN
       /\ failed' = Cooled(j)
       /\ active' = [active EXCEPT ![id] = "no"]
       /\ cancels' = [cancels EXCEPT ![id] = NoJob]
       /\ pending' = pending \ {id}
    /\ wake' = TRUE
    /\ UNCHANGED <<files, priQueue, queue>>

-----------------------------------------------------------------------------
(* The environment: imports, downloads, other builders of the same cover, and  *)
(* the clock.                                                                  *)
Import(id) ==
    /\ id \notin items /\ items' = items \cup {id}
    /\ UNCHANGED <<cached, local, paused, visible, queues, running, failed, wake, sched, job, call, calls>>

ResetImport ==
    /\ items # {} /\ calls < MaxCalls /\ calls' = calls + 1
    /\ items' = {}
    /\ UNCHANGED <<cached, local, paused, visible, queues, running, failed, wake, sched, job, call>>

Download(id) ==
    /\ id \in Videos \cap items /\ local' = local \cup {id}
    /\ UNCHANGED <<items, cached, paused, visible, queues, running, failed, wake, sched, job, call, calls>>

LocalCover(id) ==
    /\ id \in local \cap items /\ cached' = cached \cup {id}
    /\ UNCHANGED <<items, local, paused, visible, queues, running, failed, wake, sched, job, call, calls>>

CooldownEnds(id) ==
    /\ id \in failed /\ failed' = failed \ {id}
    /\ UNCHANGED <<files, paused, visible, queues, running, wake, sched, job, call, calls>>

Environment ==
    \/ \E id \in Ids : Import(id) \/ Download(id) \/ LocalCover(id) \/ CooldownEnds(id)
    \/ ResetImport

NewCall(r) ==
    \/ \E id \in Ids, asked, retry \in BOOLEAN : CoverRequestPolicy(r, id, asked, retry)
    \/ \E pause \in BOOLEAN, ids \in Orders : ReadCoverState(r, pause, ids)
    \/ PreemptForPlayback(r)

CallStep(r) ==
    LookAtCache(r) \/ EnqueueCoverBuild(r) \/ WaitCoverBuild(r) \/ SetCoverState(r) \/ CancelCovers(r)

SchedulerStep == (\E j \in Jobs : PopPriority(j) \/ PopBackground(j)) \/ PopNothing \/ SchedulerWake

JobStep(j) == BandwidthReady(j) \/ CheckContext(j) \/ BuildCover(j) \/ FinishCover(j)

Next ==
    \/ Environment
    \/ \E r \in Calls : NewCall(r) \/ CallStep(r) \/ WaitTimeout(r)
    \/ SchedulerStep
    \/ \E j \in Jobs : JobStep(j)

Spec == Init /\ [][Next]_vars

(* Handlers, the loop and jobs go on; no time-out of a handler is needed. *)
FairSpec ==
    /\ Spec
    /\ \A r \in Calls : WF_vars(CallStep(r))
    /\ WF_vars(SchedulerStep)
    /\ \A j \in Jobs : WF_vars(JobStep(j))

-----------------------------------------------------------------------------
Building == {j \in Jobs : job[j] # IdleJob}

(* A cover is built by one goroutine, which s.coverActive and s.coverCancels    *)
(* name (coverSchedulerLoop, popCoverJobLocked): what is canceled is the job    *)
(* that runs, also when an id is queued twice or its item has been replaced.    *)
JobsRegistered ==
    /\ \A j \in Building : cancels[job[j].id] = j
    /\ \A id \in Ids :
          /\ isActive(id) <=> cancels[id] # NoJob
          /\ cancels[id] # NoJob => job[cancels[id]] # IdleJob /\ job[cancels[id]].id = id
    /\ Cardinality(Building) <= coverLimit

(* A mark in s.coverPending stands for a job that is queued or runs; one that   *)
(* stood for nothing would keep its cover from ever being queued again.         *)
PendingIsReal == pending \subseteq Queued \cup {id \in Ids : isActive(id)}

(* Once a pause has been told to the jobs, none is queued and none goes on      *)
(* that is not canceled (setCoverState; enqueueCoverBuild and the loop look at  *)
(* coverPaused), however requests and the loop run against it.                  *)
PauseStops ==
    paused /\ (\A r \in Calls : call[r].at # "cancel")
        => Queued = {} /\ \A j \in Building : job[j].canceled

(* The loop does not sleep on a job it could start: coverWake has one token and *)
(* is sent before or after the lock is released.                                *)
NoLostWakeup == sched = "wait" /\ ~wake /\ MayPop => \A id \in Queued : ~itemNeedsCoverBuild(id)

(* All covers that are queued are built, given up or dropped, and no handler    *)
(* waits for one that nobody will build (waitCoverBuild), without its time-out. *)
CoversSettle ==
    <>[](/\ Queued \cap (items \ cached) = {}
         /\ Building = {}
         /\ \A r \in Calls : call[r] = IdleCall)
=============================================================================
