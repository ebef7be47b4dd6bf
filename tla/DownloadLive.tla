---------------------------- MODULE DownloadLive ----------------------------
(***************************************************************************)
(* Liveness of the download scheduler.  Requests come at will but there    *)
(* are finitely many of them (MaxRequests); every goroutine that can go on *)
(* does: they are goroutines of the Go runtime that wait for nothing but   *)
(* the locks, the clock, the network and dlWake.                           *)
(***************************************************************************)
EXTENDS DownloadScheduler

CONSTANT MaxRequests

ASSUME MaxRequestsAssumption == MaxRequests \in Nat

VARIABLE requests  \* requests made so far

LiveInit == Init /\ requests = 0

LiveRequest ==
    /\ Request
    /\ IF items' # items THEN UNCHANGED requests
       ELSE requests < MaxRequests /\ requests' = requests + 1

LiveStep ==
    /\ \/ \E c \in Clients : ClientStep(c)
       \/ SchedulerStep
       \/ \E g \in SlotRuns : SlotStep(g)
       \/ \E w \in Workers : WorkerStep(w)
       \/ \E j \in CoverJobs : CoverStep(j)
    /\ UNCHANGED requests

\* no request is owed; what was begun goes on, and a download ends.  A cover
\* job that looks again and again meets its deadline of three seconds, and its
\* loop of cancelOneBackgroundDownload, which does not wait, is quicker than a
\* download that is queued, popped and started again: now and then it finds none.
Fairness ==
    /\ \A c \in Clients : WF_vars(ClientStep(c))
    /\ WF_vars(SchedulerStep)
    /\ \A g \in SlotRuns : WF_vars(SlotStep(g))
    /\ \A w \in Workers : WF_vars(WorkerStep(w))
    /\ \A j \in CoverJobs : WF_vars(CoverStep(j))
    /\ \A j \in CoverJobs :
          /\ SF_vars(CoverCheck(j) /\ cover'[j] = "expired")
          /\ SF_vars(CoverCancel(j) /\ cover'[j] = "check")

LiveSpec == LiveInit /\ [][LiveRequest \/ LiveStep]_<<vars, requests>> /\ Fairness

-----------------------------------------------------------------------------

\* Everything requested is worked off: the queues drain, every slot is given
\* back and the cover jobs end.  No wake-up is lost, no slot waits for a
\* download that never comes and no cover job spins for ever.
Settles ==
    <>[](/\ dlPriQueue = <<>> /\ dlQueue = <<>>
         /\ downloading = {}
         /\ \A g \in SlotRuns : slot[g].pc = "idle"
         /\ \A j \in CoverJobs : cover[j] = "idle"
         /\ \A c \in Clients : client[c].pc = "idle")

\* A download canceled to make room is queued again when its goroutine exits
\* (comment of cancelOneBackgroundDownload), unless it completed first or the
\* user paused it.
PreemptedReturns ==
    \A id \in Ids :
        id \in preempted ~> \/ id \in dlPending \/ id \in completed
                            \/ id \in manualPaused
                            \/ id \in downloading /\ id \notin preempted
=============================================================================
