---------------------- MODULE DownloadSchedulerProofs ----------------------
(***************************************************************************)
(* Proofs about DownloadScheduler, for every set of ids, callers, workers  *)
(* and cover jobs, every finite set of slot goroutines and every limit.    *)
(***************************************************************************)
EXTENDS DownloadScheduler, FiniteSetTheorems, SequenceTheorems, TLAPS

-----------------------------------------------------------------------------
(* The wait queues.                                                        *)

\* Dropping an id from a queue of ids leaves a queue of ids.
LEMMA FilterType ==
    ASSUME NEW S, NEW q \in Seq(S), NEW id
    PROVE  filterID(q, id) \in Seq(S)
<1>1. CASE id \notin QueueIds(q)
  BY <1>1 DEF filterID
<1>2. CASE id \in QueueIds(q)
  <2> DEFINE p == CHOOSE i \in DOMAIN q : q[i] = id
  <2>1. p \in DOMAIN q
    BY <1>2 DEF QueueIds
  <2>2. p \in 1..Len(q) /\ Len(q) \in Nat
    BY <2>1, LenProperties
  <2> HIDE DEF p
  <2>3. SubSeq(q, 1, p - 1) \in Seq(S) /\ SubSeq(q, p + 1, Len(q)) \in Seq(S)
    <3>1. SubSeq(q, 1, p - 1) \in Seq(S)
      <4>1. p - 1 \in Int /\ \A i \in 1 .. p - 1 : q[i] \in S
        BY <2>2
      <4> QED
        BY <4>1, SubSeqProperties
    <3>2. SubSeq(q, p + 1, Len(q)) \in Seq(S)
      <4>1. p + 1 \in Int /\ Len(q) \in Int /\ \A i \in p + 1 .. Len(q) : q[i] \in S
        BY <2>2
      <4> QED
        BY <4>1, SubSeqProperties
    <3> QED
      BY <3>1, <3>2
  <2>4. SubSeq(q, 1, p - 1) \o SubSeq(q, p + 1, Len(q)) \in Seq(S)
    BY <2>3, ConcatProperties
  <2> QED
    BY <1>2, <2>4 DEF filterID, p
<1> QED
  BY <1>1, <1>2

\* The section of queuePush under dlMu keeps the types of what it writes.
LEMMA PushInsertType ==
    ASSUME TypeOK, NEW id \in Ids, NEW pri \in BOOLEAN, PushInsert(id, pri)
    PROVE  /\ dlPriQueue' \in Seq(Ids)
           /\ dlQueue' \in Seq(Ids)
           /\ dlPending' \subseteq Ids
           /\ dlWake' \in BOOLEAN
<1> USE DEF TypeOK
<1>1. <<id>> \in Seq(Ids)
  OBVIOUS
<1>2. filterID(dlPriQueue, id) \in Seq(Ids) /\ filterID(dlQueue, id) \in Seq(Ids)
  BY FilterType
<1>3. CASE id \in dlPending
  <2>1. <<id>> \o filterID(dlPriQueue, id) \in Seq(Ids)
    BY <1>1, <1>2, ConcatProperties
  <2> QED
    BY <1>2, <1>3, <2>1 DEF PushInsert, wakeDownloader
<1>4. CASE id \notin dlPending
  <2>1. <<id>> \o dlPriQueue \in Seq(Ids)
    BY <1>1, ConcatProperties
  <2>2. Append(dlQueue, id) \in Seq(Ids)
    BY AppendProperties
  <2> QED
    BY <1>4, <2>1, <2>2 DEF PushInsert, wakeDownloader
<1> QED
  BY <1>3, <1>4

\* A pop of the loop keeps the types of what it writes.
LEMMA PopType ==
    ASSUME TypeOK, NEW limit \in 0..Limit,
           \/ dlPriQueue # <<>> /\ PopPriority(limit)
           \/ dlQueue # <<>> /\ PopBackground(limit)
           \/ Sleep
    PROVE  /\ dlPriQueue' \in Seq(Ids)
           /\ dlQueue' \in Seq(Ids)
           /\ dlPending' \subseteq Ids
           /\ sched' \in SchedState
<1>1. /\ dlPriQueue \in Seq(Ids) /\ dlQueue \in Seq(Ids) /\ dlPending \subseteq Ids
      /\ \A r \in [pc : {"check"}, id : Ids, pri : BOOLEAN, limit : 0..Limit] :
            r \in SchedState
  BY DEF TypeOK, SchedState
<1>2. CASE dlPriQueue # <<>> /\ PopPriority(limit)
  <2>1. Head(dlPriQueue) \in Ids /\ Tail(dlPriQueue) \in Seq(Ids)
    BY <1>1, <1>2, HeadTailProperties
  <2> QED
    BY <1>1, <1>2, <2>1 DEF PopPriority
<1>3. CASE dlQueue # <<>> /\ PopBackground(limit)
  <2>1. Head(dlQueue) \in Ids /\ Tail(dlQueue) \in Seq(Ids)
    BY <1>1, <1>3, HeadTailProperties
  <2> QED
    BY <1>1, <1>3, <2>1 DEF PopBackground
<1>4. CASE Sleep
  <2>1. SchedWait \in SchedState
    BY LimitAssumption DEF SchedState, SchedWait
  <2> QED
    BY <1>1, <1>4, <2>1 DEF Sleep, queueVars
<1> QED
  BY <1>2, <1>3, <1>4

\* TryBackground either pops or sleeps.
LEMMA TryBackgroundCases ==
    ASSUME NEW limit, TryBackground(limit)
    PROVE  Sleep \/ (dlQueue # <<>> /\ PopBackground(limit))
BY DEF TryBackground

\* The effective limit lies between 0 and Limit.
LEMMA HoldLimitType ==
    ASSUME coverBandwidthHold \in Nat
    PROVE  downloadLimitWithCoverHoldLocked \in 0..Limit
BY LimitAssumption DEF downloadLimitWithCoverHoldLocked

-----------------------------------------------------------------------------
(* Local states of the goroutines.                                         *)

\* A goroutine that knows its item may move to any other point of its code.
LEMMA LocalMoves ==
    /\ \A r \in SlotState, pc \in {"start", "wait", "release"} :
          r.pc # "idle" => [r EXCEPT !.pc = pc] \in SlotState
    /\ \A r \in WorkerState, pc \in {"run", "marked", "requeue", "insert"} :
          r.pc # "idle" => [r EXCEPT !.pc = pc] \in WorkerState
    /\ \A r \in SchedState, pc \in {"check", "skip", "take"} :
          r.pc \notin {"top", "wait"} => [r EXCEPT !.pc = pc] \in SchedState
<1>1. ASSUME NEW r \in SlotState, NEW pc \in {"start", "wait", "release"}, r.pc # "idle"
      PROVE  [r EXCEPT !.pc = pc] \in SlotState
  BY <1>1 DEF SlotState
<1>2. ASSUME NEW r \in WorkerState, NEW pc \in {"run", "marked", "requeue", "insert"},
             r.pc # "idle"
      PROVE  [r EXCEPT !.pc = pc] \in WorkerState
  BY <1>2 DEF WorkerState
<1>3. ASSUME NEW r \in SchedState, NEW pc \in {"check", "skip", "take"},
             r.pc \notin {"top", "wait"}
      PROVE  [r EXCEPT !.pc = pc] \in SchedState
  BY <1>3 DEF SchedState
<1> QED
  BY <1>1, <1>2, <1>3

\* Its context may be canceled.
LEMMA CanceledWorker ==
    \A r \in WorkerState : [r EXCEPT !.canceled = TRUE] \in WorkerState
<1> SUFFICES ASSUME NEW r \in WorkerState
             PROVE  [r EXCEPT !.canceled = TRUE] \in WorkerState
  OBVIOUS
<1> QED
  BY DEF WorkerState

\* The states a goroutine is put in afresh.
LEMMA FreshStates ==
    /\ SchedTop \in SchedState /\ SchedWait \in SchedState
    /\ IdleSlot \in SlotState /\ IdleWorker \in WorkerState
    /\ \A pc \in {"idle", "preempt", "cancel"} : At(pc) \in ClientState
    /\ \A id \in Ids, pri \in BOOLEAN :
          /\ [pc |-> "start", id |-> id, pri |-> pri] \in SlotState
          /\ [pc |-> "insert", id |-> id, pri |-> pri] \in ClientState
          /\ [pc |-> "pause", id |-> id, pri |-> pri] \in ClientState
          /\ [pc |-> "run", id |-> id, canceled |-> pri] \in WorkerState
          /\ [pc |-> "requeue", id |-> id, canceled |-> pri] \in WorkerState
<1>1. SchedTop \in SchedState /\ SchedWait \in SchedState
  BY LimitAssumption DEF SchedTop, SchedWait, SchedState
<1>2. IdleSlot \in SlotState /\ IdleWorker \in WorkerState
  BY DEF IdleSlot, IdleWorker, SlotState, WorkerState
<1>3. \A pc \in {"idle", "preempt", "cancel"} : At(pc) \in ClientState
  BY DEF At, ClientState
<1>4. ASSUME NEW id \in Ids, NEW pri \in BOOLEAN
      PROVE  /\ [pc |-> "start", id |-> id, pri |-> pri] \in SlotState
             /\ [pc |-> "insert", id |-> id, pri |-> pri] \in ClientState
             /\ [pc |-> "pause", id |-> id, pri |-> pri] \in ClientState
             /\ [pc |-> "run", id |-> id, canceled |-> pri] \in WorkerState
             /\ [pc |-> "requeue", id |-> id, canceled |-> pri] \in WorkerState
  BY DEF SlotState, ClientState, WorkerState
<1> QED
  BY <1>1, <1>2, <1>3, <1>4

\* Marking a download preempted keeps the types of what it writes.
LEMMA PreemptType ==
    ASSUME TypeOK, NEW id \in Preemptable, Preempt(id)
    PROVE  /\ preempted' \subseteq Ids
           /\ worker' \in [Workers -> WorkerState]
           /\ UNCHANGED <<items, completed, manualPaused, downloading, dlPriority, cancels>>
<1>1. id \in Ids /\ cancels[id] \in Workers /\ worker \in [Workers -> WorkerState]
  BY DEF TypeOK, Preemptable
<1>2. worker' = [worker EXCEPT ![cancels[id]].canceled = TRUE]
  BY DEF Preempt
<1>3. worker' \in [Workers -> WorkerState]
  BY <1>1, <1>2, CanceledWorker
<1> QED
  BY <1>1, <1>3 DEF Preempt, TypeOK

-----------------------------------------------------------------------------
(* Type correctness.                                                       *)

LEMMA InitType == Init => TypeOK
<1> SUFFICES ASSUME Init PROVE TypeOK
  OBVIOUS
<1>1. dlPriQueue \in Seq(Ids) /\ dlQueue \in Seq(Ids)
  BY DEF Init
<1> QED
  BY <1>1, FreshStates DEF Init, TypeOK, IdleClient, CoverState

LEMMA RequestType == TypeOK /\ Request => TypeOK'
<1> SUFFICES ASSUME TypeOK, Request PROVE TypeOK'
  OBVIOUS
<1> USE DEF TypeOK
<1>1. ASSUME NEW c \in Clients, NEW id \in Ids, NEW pri \in BOOLEAN,
             NEW clear \in BOOLEAN, QueuePush(c, id, pri, clear)
      PROVE  TypeOK'
  BY <1>1, FreshStates DEF QueuePush, queueVars, slotVars
<1>2. ASSUME NEW c \in Clients, NEW id \in Ids, PauseDownload(c, id)
      PROVE  TypeOK'
  BY <1>2, FreshStates, FilterType DEF PauseDownload, muVars, slotVars
<1>3. ASSUME NEW id \in Ids, NEW done \in BOOLEAN, NEW manual \in BOOLEAN,
             AppendItem(id, done, manual)
      PROVE  TypeOK'
  BY <1>3 DEF AppendItem, queueVars, slotVars
<1>4. ASSUME NEW j \in CoverJobs, BeginCoverBandwidth(j)
      PROVE  TypeOK'
  BY <1>4, LimitAssumption DEF BeginCoverBandwidth, CoverState, muVars, queueVars
<1> QED
  BY <1>1, <1>2, <1>3, <1>4 DEF Request

LEMMA ClientType ==
    ASSUME TypeOK, NEW c \in Clients, ClientStep(c)
    PROVE  TypeOK'
<1>1. CASE QueuePushInsert(c)
  <2>1. client[c].id \in Ids /\ client[c].pri \in BOOLEAN
    BY <1>1 DEF QueuePushInsert, TypeOK, ClientState
  <2> QED
    BY <1>1, <2>1, FreshStates, PushInsertType
    DEF QueuePushInsert, TypeOK, IdleClient, muVars, slotVars
<1>2. CASE PreemptBackgroundDownload(c)
  BY <1>2, FreshStates
  DEF PreemptBackgroundDownload, TypeOK, IdleClient, muVars, queueVars, slotVars
<1>3. CASE CancelOneBackgroundDownload(c)
  <2>1. client' \in [Clients -> ClientState]
    BY <1>3, FreshStates DEF CancelOneBackgroundDownload, TypeOK, IdleClient
  <2>2. CASE UNCHANGED <<muVars, worker>>
    BY <1>3, <2>1, <2>2
    DEF CancelOneBackgroundDownload, TypeOK, muVars, queueVars, slotVars
  <2>3. ASSUME NEW id \in Preemptable, Preempt(id) PROVE TypeOK'
    BY <1>3, <2>1, <2>3, PreemptType
    DEF CancelOneBackgroundDownload, TypeOK, queueVars, slotVars
  <2> QED
    BY <1>3, <2>2, <2>3 DEF CancelOneBackgroundDownload
<1>4. CASE PauseMark(c)
  <2> DEFINE id == client[c].id
  <2>1. id \in Ids
    BY <1>4 DEF PauseMark, TypeOK, ClientState
  <2>2. manualPaused' \subseteq Ids /\ preempted' \subseteq Ids
    BY <1>4, <2>1 DEF PauseMark, TypeOK
  <2>3. worker' \in [Workers -> WorkerState]
    BY <1>4, <2>1, CanceledWorker DEF PauseMark, TypeOK
  <2>4. client' \in [Clients -> ClientState]
    BY <1>4, FreshStates DEF PauseMark, TypeOK, IdleClient
  <2> QED
    BY <1>4, <2>2, <2>3, <2>4 DEF PauseMark, TypeOK, queueVars, slotVars
<1> QED
  BY <1>1, <1>2, <1>3, <1>4 DEF ClientStep

LEMMA SchedulerType == TypeOK /\ SchedulerStep => TypeOK'
<1> SUFFICES ASSUME TypeOK, SchedulerStep PROVE TypeOK'
  OBVIOUS
<1>1. CASE TryStartDownload
  <2> DEFINE limit == downloadLimitWithCoverHoldLocked
  <2>1. limit \in 0..Limit
    BY HoldLimitType DEF TypeOK
  <2>2. \/ dlPriQueue # <<>> /\ PopPriority(limit)
        \/ dlQueue # <<>> /\ PopBackground(limit)
        \/ Sleep
    BY <1>1, TryBackgroundCases DEF TryStartDownload
  <2> QED
    BY <1>1, <2>1, <2>2, PopType DEF TryStartDownload, TypeOK, muVars, slotVars
<1>2. CASE PopCheck
  <2>1. sched' \in SchedState
    BY <1>2, LocalMoves DEF PopCheck, TypeOK
  <2> QED
    BY <1>2, <2>1 DEF PopCheck, TypeOK, muVars, queueVars, slotVars
<1>3. CASE PopSkip
  <2>1. sched.limit \in 0..Limit
    BY DEF TypeOK, SchedState
  <2>2. \/ dlPriQueue # <<>> /\ PopPriority(sched.limit)
        \/ dlQueue # <<>> /\ PopBackground(sched.limit)
        \/ Sleep
    BY <1>3, TryBackgroundCases DEF PopSkip
  <2> QED
    BY <1>3, <2>1, <2>2, PopType DEF PopSkip, TypeOK, muVars, slotVars
<1>4. ASSUME NEW g \in SlotRuns, TakeSlot(g) PROVE TypeOK'
  <2>1. sched.id \in Ids /\ sched.pri \in BOOLEAN
    BY <1>4 DEF TakeSlot, TypeOK, SchedState
  <2>2. slot' \in [SlotRuns -> SlotState] /\ sched' \in SchedState
    BY <1>4, <2>1, FreshStates DEF TakeSlot, TypeOK
  <2> QED
    BY <1>4, <2>2 DEF TakeSlot, TypeOK, muVars, queueVars
<1>5. CASE SchedulerWake
  BY <1>5, FreshStates DEF SchedulerWake, TypeOK, muVars, queueVars, slotVars
<1> QED
  BY <1>1, <1>2, <1>3, <1>4, <1>5 DEF SchedulerStep

LEMMA SlotType ==
    ASSUME TypeOK, NEW g \in SlotRuns, SlotStep(g)
    PROVE  TypeOK'
<1> USE DEF TypeOK
<1>1. CASE StartDownloadSkip(g)
  BY <1>1, LocalMoves DEF StartDownloadSkip, muVars, queueVars, slotVars
<1>2. ASSUME NEW w \in Workers, StartDownload(g, w) PROVE TypeOK'
  <2>1. slot[g].id \in Ids
    BY <1>2 DEF StartDownload, SlotState
  <2>2. slot' \in [SlotRuns -> SlotState]
    BY <1>2, LocalMoves DEF StartDownload
  <2>3. worker' \in [Workers -> WorkerState]
    BY <1>2, <2>1, FreshStates DEF StartDownload
  <2> QED
    BY <1>2, <2>1, <2>2, <2>3 DEF StartDownload, queueVars, slotVars
<1>3. CASE WaitDownload(g)
  BY <1>3, LocalMoves DEF WaitDownload, muVars, queueVars, slotVars
<1>4. CASE ReleaseSlot(g)
  BY <1>4, FreshStates DEF ReleaseSlot, ReleasePri, wakeDownloader, muVars, queueVars
<1> QED
  BY <1>1, <1>2, <1>3, <1>4 DEF SlotStep

LEMMA WorkerType ==
    ASSUME TypeOK, NEW w \in Workers, WorkerStep(w)
    PROVE  TypeOK'
<1> USE DEF TypeOK
<1>1. CASE MarkCompleted(w)
  <2>1. worker' \in [Workers -> WorkerState]
    BY <1>1, LocalMoves DEF MarkCompleted
  <2>2. completed' \subseteq Ids
    BY <1>1 DEF MarkCompleted
  <2> QED
    BY <1>1, <2>1, <2>2 DEF MarkCompleted, queueVars, slotVars
<1>2. CASE FinishDownload(w)
  <2>1. worker[w].id \in Ids
    BY <1>2 DEF FinishDownload, WorkerState
  <2>2. worker' \in [Workers -> WorkerState]
    BY <1>2, <2>1, FreshStates DEF FinishDownload
  <2> QED
    BY <1>2, <2>1, <2>2 DEF FinishDownload, queueVars, slotVars
<1>3. CASE Requeue(w)
  <2>1. worker' \in [Workers -> WorkerState]
    BY <1>3, LocalMoves, FreshStates DEF Requeue
  <2> QED
    BY <1>3, <2>1 DEF Requeue, muVars, queueVars, slotVars
<1>4. CASE RequeueInsert(w)
  <2>1. worker[w].id \in Ids
    BY <1>4 DEF RequeueInsert, WorkerState
  <2>2. worker' \in [Workers -> WorkerState]
    BY <1>4, FreshStates DEF RequeueInsert
  <2> QED
    BY <1>4, <2>1, <2>2, PushInsertType DEF RequeueInsert, muVars, slotVars
<1> QED
  BY <1>1, <1>2, <1>3, <1>4 DEF WorkerStep

LEMMA CoverType ==
    ASSUME TypeOK, NEW j \in CoverJobs, CoverStep(j)
    PROVE  TypeOK'
<1> USE DEF CoverState
<1>1. CASE CoverCancel(j)
  <2>1. CASE UNCHANGED <<muVars, worker>>
    BY <1>1, <2>1 DEF CoverCancel, TypeOK, muVars, queueVars, slotVars
  <2>2. ASSUME NEW id \in Preemptable, Preempt(id), UNCHANGED cover PROVE TypeOK'
    BY <1>1, <2>2, PreemptType DEF CoverCancel, TypeOK, queueVars, slotVars
  <2> QED
    BY <1>1, <2>1, <2>2 DEF CoverCancel
<1>2. CASE CoverCheck(j)
  BY <1>2 DEF CoverCheck, TypeOK, muVars, queueVars, slotVars
<1>3. CASE CoverDone(j)
  BY <1>3 DEF CoverDone, TypeOK, muVars, queueVars, slotVars
<1>4. CASE EndCoverBandwidth(j)
  BY <1>4 DEF EndCoverBandwidth, wakeDownloader, TypeOK, muVars, queueVars
<1> QED
  BY <1>1, <1>2, <1>3, <1>4 DEF CoverStep

LEMMA NextType == TypeOK /\ [Next]_vars => TypeOK'
<1>1. TypeOK /\ UNCHANGED vars => TypeOK'
  BY DEF TypeOK, vars
<1> QED
  BY <1>1, RequestType, ClientType, SchedulerType, SlotType, WorkerType, CoverType
  DEF Next

\* Every variable keeps its type: the queues hold ids only, no counter goes
\* below zero, and the limit the loop works with lies between 0 and Limit.
THEOREM TypeCorrect == Spec => []TypeOK
BY InitType, NextType, PTL DEF Spec

-----------------------------------------------------------------------------
(* The slots: which steps touch them, and what the counters count.         *)

\* Only taking and releasing a slot changes the counters or their goroutines.
LEMMA SlotSteps ==
    ASSUME TypeOK, [Next]_vars
    PROVE  \/ UNCHANGED <<dlActive, dlActivePri, SlotHolders, PlayHolders>>
           \/ \E g \in SlotRuns : TakeSlot(g) \/ ReleaseSlot(g)
<1> DEFINE Same == UNCHANGED <<dlActive, dlActivePri, SlotHolders, PlayHolders>>
<1>1. UNCHANGED <<dlActive, dlActivePri, slot>> => Same
  BY DEF SlotHolders, PlayHolders
<1>2. CASE UNCHANGED vars
  BY <1>1, <1>2 DEF vars
<1>3. CASE Request
  BY <1>1, <1>3 DEF Request, QueuePush, PauseDownload, AppendItem, BeginCoverBandwidth,
                    slotVars
<1>4. ASSUME NEW c \in Clients, ClientStep(c) PROVE Same
  BY <1>1, <1>4 DEF ClientStep, QueuePushInsert, PreemptBackgroundDownload,
                    CancelOneBackgroundDownload, PauseMark, slotVars
<1>5. CASE SchedulerStep
  BY <1>1, <1>5 DEF SchedulerStep, TryStartDownload, PopCheck, PopSkip, SchedulerWake,
                    slotVars
<1>6. ASSUME NEW g \in SlotRuns, SlotStep(g)
      PROVE  Same \/ ReleaseSlot(g)
  <2>1. ASSUME NEW pc, slot' = [slot EXCEPT ![g].pc = pc], pc # "idle",
               slot[g].pc # "idle", UNCHANGED slotVars
        PROVE  Same
    BY <2>1 DEF TypeOK, SlotState, SlotHolders, PlayHolders, slotVars
  <2> QED
    BY <1>6, <2>1 DEF SlotStep, StartDownloadSkip, StartDownload, WaitDownload
<1>7. ASSUME NEW w \in Workers, WorkerStep(w) PROVE Same
  BY <1>1, <1>7 DEF WorkerStep, MarkCompleted, FinishDownload, Requeue, RequeueInsert,
                    slotVars
<1>8. ASSUME NEW j \in CoverJobs, CoverStep(j) PROVE Same
  BY <1>1, <1>8 DEF CoverStep, CoverCancel, CoverCheck, CoverDone, EndCoverBandwidth,
                    slotVars
<1> QED
  BY <1>2, <1>3, <1>4, <1>5, <1>6, <1>7, <1>8 DEF Next

\* Sets of slot goroutines are finite.
LEMMA HoldersFinite ==
    /\ IsFiniteSet(SlotHolders) /\ Cardinality(SlotHolders) \in Nat
    /\ IsFiniteSet(PlayHolders) /\ Cardinality(PlayHolders) \in Nat
<1>1. SlotHolders \in SUBSET SlotRuns /\ PlayHolders \in SUBSET SlotRuns
  BY DEF SlotHolders, PlayHolders
<1> QED
  BY <1>1, FiniteAssumption, FS_Subset, FS_CardinalityType

LEMMA InitAccounting == Init => SlotAccounting
<1> SUFFICES ASSUME Init PROVE SlotAccounting
  OBVIOUS
<1>1. SlotHolders = {} /\ PlayHolders = {}
  BY DEF Init, SlotHolders, PlayHolders, IdleSlot
<1> QED
  BY <1>1, FS_EmptySet DEF Init, SlotAccounting

LEMMA NextAccounting == TypeOK /\ SlotAccounting /\ [Next]_vars => SlotAccounting'
<1> SUFFICES ASSUME TypeOK, SlotAccounting, [Next]_vars PROVE SlotAccounting'
  OBVIOUS
<1>1. CASE UNCHANGED <<dlActive, dlActivePri, SlotHolders, PlayHolders>>
  BY <1>1 DEF SlotAccounting
<1>2. ASSUME NEW g \in SlotRuns, TakeSlot(g) PROVE SlotAccounting'
  <2>1. sched.pri \in BOOLEAN /\ slot \in [SlotRuns -> SlotState]
    BY DEF TypeOK, SchedState
  <2>2. g \notin SlotHolders /\ g \notin PlayHolders
    BY <1>2 DEF TakeSlot, SlotHolders, PlayHolders
  <2>3. SlotHolders' = SlotHolders \cup {g}
    BY <1>2, <2>1 DEF TakeSlot, SlotHolders
  <2>4. PlayHolders' = IF sched.pri THEN PlayHolders \cup {g} ELSE PlayHolders
    BY <1>2, <2>1, <2>3 DEF TakeSlot, PlayHolders, SlotHolders
  <2>5. Cardinality(SlotHolders') = Cardinality(SlotHolders) + 1
    BY <2>2, <2>3, HoldersFinite, FS_AddElement
  <2>6. Cardinality(PlayHolders') =
          IF sched.pri THEN Cardinality(PlayHolders) + 1 ELSE Cardinality(PlayHolders)
    BY <2>2, <2>4, HoldersFinite, FS_AddElement
  <2> QED
    BY <1>2, <2>5, <2>6 DEF TakeSlot, SlotAccounting
<1>3. ASSUME NEW g \in SlotRuns, ReleaseSlot(g) PROVE SlotAccounting'
  <2>1. slot[g].pri \in BOOLEAN /\ slot \in [SlotRuns -> SlotState]
    BY DEF TypeOK, SlotState
  <2>2. g \in SlotHolders /\ (g \in PlayHolders <=> slot[g].pri)
    BY <1>3 DEF ReleaseSlot, SlotHolders, PlayHolders
  <2>3. SlotHolders' = SlotHolders \ {g}
    BY <1>3, <2>1 DEF ReleaseSlot, SlotHolders, IdleSlot
  <2>4. PlayHolders' = PlayHolders \ {g}
    BY <1>3, <2>1, <2>3 DEF ReleaseSlot, PlayHolders, SlotHolders, IdleSlot
  <2>5. /\ Cardinality(SlotHolders') = Cardinality(SlotHolders) - 1
        /\ Cardinality(SlotHolders') \in Nat
    BY <2>2, <2>3, HoldersFinite, FS_RemoveElement, FS_CardinalityType
  <2>6. /\ Cardinality(PlayHolders') =
             IF slot[g].pri THEN Cardinality(PlayHolders) - 1 ELSE Cardinality(PlayHolders)
        /\ Cardinality(PlayHolders') \in Nat
    BY <2>2, <2>4, HoldersFinite, FS_RemoveElement, FS_CardinalityType
  <2> QED
    BY <1>3, <2>5, <2>6, HoldersFinite DEF ReleaseSlot, ReleasePri, SlotAccounting
<1> QED
  BY <1>1, <1>2, <1>3, SlotSteps

\* dlActive and dlActivePri count the goroutines that hold a slot and the play
\* ones among them, so the clamps of the release never fire.
THEOREM SlotsAccounted == Spec => []SlotAccounting
BY InitAccounting, NextAccounting, TypeCorrect, PTL DEF Spec

-----------------------------------------------------------------------------
(* Running downloads.                                                      *)

\* Only registering and unregistering a download changes which ones run.
SameDownloads ==
    /\ UNCHANGED <<downloading, cancels>>
    /\ Running' = Running
    /\ \A w \in Running : worker'[w].id = worker[w].id

\* A step that only cancels contexts changes no download.
LEMMA CancelSame ==
    ASSUME TypeOK, NEW v \in Workers,
           worker' = [worker EXCEPT ![v].canceled = TRUE],
           UNCHANGED <<downloading, cancels>>
    PROVE  SameDownloads
<1>1. worker \in [Workers -> WorkerState]
  BY DEF TypeOK
<1>2. \A w \in Workers : worker'[w].pc = worker[w].pc /\ worker'[w].id = worker[w].id
  BY <1>1 DEF WorkerState
<1> QED
  BY <1>2 DEF SameDownloads, Running

LEMMA PreemptSame ==
    ASSUME TypeOK, NEW id \in Preemptable, Preempt(id)
    PROVE  SameDownloads
<1>1. cancels[id] \in Workers
  BY DEF TypeOK, Preemptable
<1> QED
  BY <1>1, CancelSame DEF Preempt

LEMMA DownloadSteps ==
    ASSUME TypeOK, [Next]_vars
    PROVE  \/ SameDownloads
           \/ \E g \in SlotRuns, w \in Workers : StartDownload(g, w)
           \/ \E w \in Workers : FinishDownload(w)
<1>1. UNCHANGED <<downloading, cancels, worker>> => SameDownloads
  BY DEF SameDownloads, Running
<1>2. CASE UNCHANGED vars
  BY <1>1, <1>2 DEF vars
<1>3. CASE Request
  BY <1>1, <1>3 DEF Request, QueuePush, PauseDownload, AppendItem, BeginCoverBandwidth,
                    muVars
<1>4. ASSUME NEW c \in Clients, ClientStep(c) PROVE SameDownloads
  <2>1. CASE QueuePushInsert(c)
    BY <1>1, <2>1 DEF QueuePushInsert, muVars
  <2>2. CASE PreemptBackgroundDownload(c)
    BY <1>1, <2>2 DEF PreemptBackgroundDownload, muVars
  <2>3. CASE CancelOneBackgroundDownload(c)
    BY <1>1, <2>3, PreemptSame DEF CancelOneBackgroundDownload, muVars
  <2>4. CASE PauseMark(c)
    <3>1. client[c].id \in Ids
      BY <2>4 DEF PauseMark, TypeOK, ClientState
    <3>2. CASE cancels[client[c].id] = NoWorker
      BY <1>1, <2>4, <3>2 DEF PauseMark
    <3>3. CASE cancels[client[c].id] # NoWorker
      <4>1. cancels[client[c].id] \in Workers
        BY <3>1, <3>3 DEF TypeOK
      <4> QED
        BY <2>4, <3>3, <4>1, CancelSame DEF PauseMark
    <3> QED
      BY <3>2, <3>3
  <2> QED
    BY <1>4, <2>1, <2>2, <2>3, <2>4 DEF ClientStep
<1>5. CASE SchedulerStep
  BY <1>1, <1>5 DEF SchedulerStep, TryStartDownload, PopCheck, PopSkip, TakeSlot,
                    SchedulerWake, muVars
<1>6. ASSUME NEW g \in SlotRuns, SlotStep(g)
      PROVE  SameDownloads \/ \E w \in Workers : StartDownload(g, w)
  BY <1>1, <1>6 DEF SlotStep, StartDownloadSkip, WaitDownload, ReleaseSlot, muVars
<1>7. ASSUME NEW w \in Workers, WorkerStep(w) PROVE SameDownloads \/ FinishDownload(w)
  <2>1. worker \in [Workers -> WorkerState]
    BY DEF TypeOK
  <2>2. CASE MarkCompleted(w)
    <3>1. \A v \in Workers : /\ worker'[v].id = worker[v].id
                             /\ v # w => worker'[v].pc = worker[v].pc
      BY <2>1, <2>2 DEF MarkCompleted, WorkerState
    <3>2. worker[w].pc = "run" /\ worker'[w].pc = "marked"
      BY <2>1, <2>2 DEF MarkCompleted, WorkerState
    <3> QED
      BY <2>2, <3>1, <3>2 DEF MarkCompleted, SameDownloads, Running
  <2>3. CASE Requeue(w)
    <3>1. /\ \A v \in Workers : v # w => worker'[v] = worker[v]
          /\ worker[w].pc = "requeue" /\ worker'[w].pc \in {"idle", "insert"}
      BY <2>1, <2>3 DEF Requeue, WorkerState, IdleWorker
    <3> QED
      BY <2>3, <3>1 DEF Requeue, SameDownloads, Running, muVars
  <2>4. CASE RequeueInsert(w)
    <3>1. /\ \A v \in Workers : v # w => worker'[v] = worker[v]
          /\ worker[w].pc = "insert" /\ worker'[w].pc = "idle"
      BY <2>1, <2>4 DEF RequeueInsert, IdleWorker
    <3> QED
      BY <2>4, <3>1 DEF RequeueInsert, SameDownloads, Running, muVars
  <2> QED
    BY <1>7, <2>2, <2>3, <2>4 DEF WorkerStep
<1>8. ASSUME NEW j \in CoverJobs, CoverStep(j) PROVE SameDownloads
  <2>1. CASE CoverCancel(j)
    BY <1>1, <2>1, PreemptSame DEF CoverCancel, muVars
  <2> QED
    BY <1>1, <1>8, <2>1 DEF CoverStep, CoverCheck, CoverDone, EndCoverBandwidth, muVars
<1> QED
  BY <1>2, <1>3, <1>4, <1>5, <1>6, <1>7, <1>8 DEF Next

LEMMA InitRegistered == Init => RegisteredDownloads
<1> SUFFICES ASSUME Init PROVE RegisteredDownloads
  OBVIOUS
<1>1. Running = {}
  BY DEF Init, Running, IdleWorker
<1> QED
  BY <1>1 DEF Init, RegisteredDownloads

LEMMA NextRegistered ==
    TypeOK /\ RegisteredDownloads /\ [Next]_vars => RegisteredDownloads'
<1> SUFFICES ASSUME TypeOK, RegisteredDownloads, [Next]_vars PROVE RegisteredDownloads'
  OBVIOUS
<1>1. CASE SameDownloads
  BY <1>1 DEF SameDownloads, RegisteredDownloads
<1>2. ASSUME NEW g \in SlotRuns, NEW w \in Workers, StartDownload(g, w)
      PROVE  RegisteredDownloads'
  <2> DEFINE id == slot[g].id
  <2>1. id \in Ids /\ id \notin downloading /\ w \notin Running
    BY <1>2 DEF StartDownload, NotStartable, Running, TypeOK, SlotState
  <2>2. /\ Running' = Running \cup {w}
        /\ worker'[w].id = id
        /\ \A v \in Running : worker'[v].id = worker[v].id
    BY <1>2, <2>1 DEF StartDownload, Running, TypeOK
  <2>3. downloading' = downloading \cup {id} /\ cancels' = [cancels EXCEPT ![id] = w]
    BY <1>2 DEF StartDownload
  <2>4. \A v \in Running : worker[v].id \in downloading
    BY DEF RegisteredDownloads
  <2> HIDE DEF id
  <2>5. \A v, u \in Running' : worker'[v].id = worker'[u].id => v = u
    BY <2>1, <2>2, <2>4 DEF RegisteredDownloads
  <2>6. downloading' = {worker'[v].id : v \in Running'}
    BY <2>1, <2>2, <2>3 DEF RegisteredDownloads
  <2>7. \A i \in Ids : IF i \in downloading'
                       THEN cancels'[i] \in Running' /\ worker'[cancels'[i]].id = i
                       ELSE cancels'[i] = NoWorker
    BY <2>1, <2>2, <2>3 DEF RegisteredDownloads, TypeOK
  <2> QED
    BY <2>5, <2>6, <2>7 DEF RegisteredDownloads
<1>3. ASSUME NEW w \in Workers, FinishDownload(w) PROVE RegisteredDownloads'
  <2> DEFINE id == worker[w].id
  <2>1. id \in Ids /\ w \in Running /\ id \in downloading
    BY <1>3 DEF FinishDownload, Running, TypeOK, WorkerState, RegisteredDownloads
  <2>2. /\ Running' = Running \ {w}
        /\ \A v \in Running' : worker'[v].id = worker[v].id
    BY <1>3, <2>1 DEF FinishDownload, Running, TypeOK, IdleWorker
  <2>3. downloading' = downloading \ {id} /\ cancels' = [cancels EXCEPT ![id] = NoWorker]
    BY <1>3 DEF FinishDownload
  <2>4. \A v \in Running : worker[v].id = id <=> v = w
    BY <2>1 DEF RegisteredDownloads
  <2> HIDE DEF id
  <2>5. \A v, u \in Running' : worker'[v].id = worker'[u].id => v = u
    BY <2>2 DEF RegisteredDownloads
  <2>6. downloading' = {worker'[v].id : v \in Running'}
    BY <2>1, <2>2, <2>3, <2>4 DEF RegisteredDownloads
  <2>7. \A i \in Ids : IF i \in downloading'
                       THEN cancels'[i] \in Running' /\ worker'[cancels'[i]].id = i
                       ELSE cancels'[i] = NoWorker
    BY <2>1, <2>2, <2>3, <2>4 DEF RegisteredDownloads, TypeOK
  <2> QED
    BY <2>5, <2>6, <2>7 DEF RegisteredDownloads
<1> QED
  BY <1>1, <1>2, <1>3, DownloadSteps

\* An id is downloaded by at most one goroutine, the one s.cancels names for
\* it, and s.downloading holds exactly the ids being downloaded.
THEOREM DownloadsRegistered == Spec => []RegisteredDownloads
BY InitRegistered, NextRegistered, TypeCorrect, PTL DEF Spec

-----------------------------------------------------------------------------
(* The limit.  A pop checks it and counts the slot in two sections; between *)
(* them dlActive can only fall, since the loop alone takes slots.  And a    *)
(* slot is held for every running download, for waitDownload gives it back  *)
(* only when the id is no longer registered.                                *)

CountedBelowLimit ==
    /\ dlActive <= Limit
    /\ sched.pc \in {"check", "skip", "take"} => dlActive < Limit

SlotHeld ==
    \A w \in Running : \E g \in SlotRuns : slot[g].pc = "wait" /\ slot[g].id = worker[w].id

LimitInv ==
    /\ TypeOK
    /\ SlotAccounting
    /\ RegisteredDownloads
    /\ CountedBelowLimit
    /\ SlotHeld

LEMMA InitLimit == Init => CountedBelowLimit /\ SlotHeld
<1> SUFFICES ASSUME Init PROVE CountedBelowLimit /\ SlotHeld
  OBVIOUS
<1>1. Running = {}
  BY DEF Init, Running, IdleWorker
<1> QED
  BY <1>1, LimitAssumption DEF Init, CountedBelowLimit, SlotHeld, SchedTop

\* The loop pops only below the limit.
LEMMA PopsBelow ==
    ASSUME NEW limit \in 0..Limit, dlActive \in Nat,
           dlActive < limit, TryBackground(limit) \/ PopPriority(limit)
    PROVE  sched'.pc = "wait" \/ dlActive < Limit
BY LimitAssumption DEF TryBackground

LEMMA NextCounted == TypeOK /\ CountedBelowLimit /\ [Next]_vars => CountedBelowLimit'
<1> SUFFICES ASSUME TypeOK, CountedBelowLimit, [Next]_vars PROVE CountedBelowLimit'
  OBVIOUS
<1> USE DEF CountedBelowLimit
<1>1. dlActive \in Nat /\ Limit \in Nat /\ downloadLimitWithCoverHoldLocked \in 0..Limit
  BY LimitAssumption, HoldLimitType DEF TypeOK
<1>2. CASE UNCHANGED <<dlActive, sched>>
  BY <1>2
<1>3. CASE TryStartDownload
  <2>1. CASE Sleep
    BY <1>3, <2>1 DEF TryStartDownload, Sleep, SchedWait, slotVars
  <2>2. CASE dlActive < downloadLimitWithCoverHoldLocked
    BY <1>1, <1>3, <2>2 DEF TryStartDownload, slotVars
  <2> QED
    BY <1>1, <1>3, <2>1, <2>2 DEF TryStartDownload
<1>4. CASE PopCheck \/ PopSkip
  BY <1>4 DEF PopCheck, PopSkip, slotVars
<1>5. ASSUME NEW g \in SlotRuns, TakeSlot(g) PROVE CountedBelowLimit'
  BY <1>1, <1>5 DEF TakeSlot, SchedTop
<1>6. CASE SchedulerWake
  BY <1>6 DEF SchedulerWake, SchedTop, slotVars
<1>7. ASSUME NEW g \in SlotRuns, ReleaseSlot(g) PROVE CountedBelowLimit'
  BY <1>1, <1>7 DEF ReleaseSlot
<1>8. ASSUME NEW g \in SlotRuns, SlotStep(g), ~ReleaseSlot(g)
      PROVE  UNCHANGED <<dlActive, sched>>
  BY <1>8 DEF SlotStep, StartDownloadSkip, StartDownload, WaitDownload, slotVars
<1>9. Request => UNCHANGED <<dlActive, sched>>
  BY DEF Request, QueuePush, PauseDownload, AppendItem, BeginCoverBandwidth, slotVars
<1>10. ASSUME NEW c \in Clients, ClientStep(c) PROVE UNCHANGED <<dlActive, sched>>
  BY <1>10 DEF ClientStep, QueuePushInsert, PreemptBackgroundDownload,
               CancelOneBackgroundDownload, PauseMark, slotVars
<1>11. ASSUME NEW w \in Workers, WorkerStep(w) PROVE UNCHANGED <<dlActive, sched>>
  BY <1>11 DEF WorkerStep, MarkCompleted, FinishDownload, Requeue, RequeueInsert, slotVars
<1>12. ASSUME NEW j \in CoverJobs, CoverStep(j) PROVE UNCHANGED <<dlActive, sched>>
  BY <1>12 DEF CoverStep, CoverCancel, CoverCheck, CoverDone, EndCoverBandwidth, slotVars
<1>13. UNCHANGED vars => UNCHANGED <<dlActive, sched>>
  BY DEF vars
<1> QED
  BY <1>2, <1>3, <1>4, <1>5, <1>6, <1>7, <1>8, <1>9, <1>10, <1>11, <1>12, <1>13
  DEF Next, SchedulerStep

\* A slot goroutine waits on, unless it sees its id unregistered.
LEMMA WaitsOn ==
    ASSUME TypeOK, [Next]_vars, NEW g \in SlotRuns, slot[g].pc = "wait",
           slot[g].id \in downloading
    PROVE  slot'[g].pc = "wait" /\ slot'[g].id = slot[g].id
<1> DEFINE Stays == slot'[g].pc = "wait" /\ slot'[g].id = slot[g].id
<1>1. slot \in [SlotRuns -> SlotState]
  BY DEF TypeOK
<1>2. UNCHANGED slot => Stays
  OBVIOUS
<1>3. ASSUME NEW h \in SlotRuns, SlotStep(h) PROVE Stays
  <2>1. h = g => FALSE
    BY <1>3 DEF SlotStep, StartDownloadSkip, StartDownload, WaitDownload, ReleaseSlot
  <2>2. \A d : slot' = [slot EXCEPT ![h] = d] => Stays
    BY <1>1, <2>1
  <2>3. \A pc : slot' = [slot EXCEPT ![h].pc = pc] => Stays
    BY <1>1, <2>1
  <2> QED
    BY <1>3, <2>2, <2>3
    DEF SlotStep, StartDownloadSkip, StartDownload, WaitDownload, ReleaseSlot
<1>4. ASSUME NEW h \in SlotRuns, TakeSlot(h) PROVE Stays
  BY <1>1, <1>4 DEF TakeSlot
<1>5. UNCHANGED vars => UNCHANGED slot
  BY DEF vars
<1>6. Request => UNCHANGED slot
  BY DEF Request, QueuePush, PauseDownload, AppendItem, BeginCoverBandwidth
<1>7. ASSUME NEW c \in Clients, ClientStep(c) PROVE UNCHANGED slot
  BY <1>7 DEF ClientStep, QueuePushInsert, PreemptBackgroundDownload,
              CancelOneBackgroundDownload, PauseMark
<1>8. ASSUME NEW w \in Workers, WorkerStep(w) PROVE UNCHANGED slot
  BY <1>8 DEF WorkerStep, MarkCompleted, FinishDownload, Requeue, RequeueInsert
<1>9. ASSUME NEW j \in CoverJobs, CoverStep(j) PROVE UNCHANGED slot
  BY <1>9 DEF CoverStep, CoverCancel, CoverCheck, CoverDone, EndCoverBandwidth
<1>10. SchedulerStep => UNCHANGED slot \/ \E h \in SlotRuns : TakeSlot(h)
  BY DEF SchedulerStep, TryStartDownload, PopCheck, PopSkip, SchedulerWake
<1> QED
  BY <1>2, <1>3, <1>4, <1>5, <1>6, <1>7, <1>8, <1>9, <1>10 DEF Next

LEMMA NextHeld ==
    TypeOK /\ RegisteredDownloads /\ SlotHeld /\ [Next]_vars => SlotHeld'
<1> SUFFICES ASSUME TypeOK, RegisteredDownloads, SlotHeld, [Next]_vars,
                    NEW w \in Running'
             PROVE  \E g \in SlotRuns : slot'[g].pc = "wait" /\ slot'[g].id = worker'[w].id
  BY DEF SlotHeld
<1>1. CASE w \in Running /\ worker'[w].id = worker[w].id
  <2>1. PICK g \in SlotRuns : slot[g].pc = "wait" /\ slot[g].id = worker[w].id
    BY <1>1 DEF SlotHeld
  <2>2. slot[g].id \in downloading
    BY <1>1, <2>1 DEF RegisteredDownloads
  <2> QED
    BY <1>1, <2>1, <2>2, WaitsOn
<1>2. CASE SameDownloads
  BY <1>1, <1>2 DEF SameDownloads
<1>3. ASSUME NEW g \in SlotRuns, NEW v \in Workers, StartDownload(g, v)
      PROVE  \E h \in SlotRuns : slot'[h].pc = "wait" /\ slot'[h].id = worker'[w].id
  <2>1. CASE w = v
    <3>1. slot'[g].pc = "wait" /\ slot'[g].id = slot[g].id /\ worker'[w].id = slot[g].id
      BY <1>3, <2>1 DEF StartDownload, TypeOK, SlotState
    <3> QED
      BY <3>1
  <2>2. CASE w # v
    BY <1>1, <1>3, <2>2 DEF StartDownload, Running, TypeOK
  <2> QED
    BY <2>1, <2>2
<1>4. ASSUME NEW v \in Workers, FinishDownload(v)
      PROVE  w \in Running /\ worker'[w].id = worker[w].id
  BY <1>4 DEF FinishDownload, Running, TypeOK, IdleWorker
<1> QED
  BY <1>1, <1>2, <1>3, <1>4, DownloadSteps

\* A slot is free from the look at the limit until it is taken, and each running
\* download has a slot that waits for it: LimitInv in every state.
THEOREM LimitInvariant == Spec => []LimitInv
<1>1. Init => CountedBelowLimit /\ SlotHeld
  BY InitLimit
<1>2. /\ TypeOK /\ RegisteredDownloads /\ CountedBelowLimit /\ SlotHeld
      /\ [Next]_vars
      => CountedBelowLimit' /\ SlotHeld'
  BY NextCounted, NextHeld
<1> QED
  BY <1>1, <1>2, TypeCorrect, SlotsAccounted, DownloadsRegistered, PTL DEF Spec, LimitInv

\* The running downloads are no more than the slot goroutines that wait: each
\* has one that waits for its id, and their ids differ.
LEMMA RunningFit ==
    ASSUME LimitInv, NEW H \in SUBSET SlotHolders,
           \A g \in SlotHolders : slot[g].pc = "wait" => g \in H
    PROVE  Cardinality(downloading) <= Cardinality(Running)
           /\ Cardinality(Running) <= Cardinality(H)
           /\ IsFiniteSet(Running) /\ IsFiniteSet(downloading)
<1> DEFINE Waits(g, w) == slot[g].pc = "wait" /\ slot[g].id = worker[w].id
           held == [w \in Running |-> CHOOSE g \in H : Waits(g, w)]
           of == [id \in downloading |-> cancels[id]]
<1>1. \A w \in Running : \E g \in H : Waits(g, w)
  BY DEF LimitInv, SlotHeld, SlotHolders
<1>2. \A w \in Running : held[w] \in H /\ Waits(held[w], w)
  BY <1>1
<1>3. held \in [Running -> H]
  BY <1>2
<1>4. \A v, w \in Running : held[v] = held[w] => v = w
  <2> SUFFICES ASSUME NEW v \in Running, NEW w \in Running, held[v] = held[w]
               PROVE  worker[v].id = worker[w].id
    BY DEF LimitInv, RegisteredDownloads
  <2> HIDE DEF held
  <2> QED
    BY <1>2
<1>5. held \in Injection(Running, H)
  <2> HIDE DEF held
  <2> QED
    BY <1>3, <1>4 DEF Injection, IsInjective
<1>6. of \in Injection(downloading, Running)
  <2>1. \A id \in downloading : id \in Ids /\ cancels[id] \in Running
                                /\ worker[cancels[id]].id = id
    BY DEF LimitInv, RegisteredDownloads, TypeOK
  <2>2. of \in [downloading -> Running]
    BY <2>1
  <2>3. \A i, k \in downloading : of[i] = of[k] => i = k
    BY <2>1
  <2> HIDE DEF of
  <2> QED
    BY <2>2, <2>3 DEF Injection, IsInjective
<1>7. IsFiniteSet(H)
  BY HoldersFinite, FS_Subset
<1> HIDE DEF held, of
<1>8. IsFiniteSet(Running) /\ Cardinality(Running) <= Cardinality(H)
  BY <1>5, <1>7, FS_Injection
<1>9. IsFiniteSet(downloading) /\ Cardinality(downloading) <= Cardinality(Running)
  BY <1>6, <1>8, FS_Injection
<1> QED
  BY <1>8, <1>9

LEMMA WithinLimit == LimitInv => DownloadsWithinLimit
<1> SUFFICES ASSUME LimitInv PROVE DownloadsWithinLimit
  OBVIOUS
<1>1. Cardinality(Running) <= Cardinality(SlotHolders) /\ IsFiniteSet(Running)
  BY RunningFit
<1>2. Cardinality(Running) \in Nat /\ Cardinality(SlotHolders) \in Nat
  BY <1>1, HoldersFinite, FS_CardinalityType
<1>3. Cardinality(SlotHolders) <= Limit
  BY DEF LimitInv, SlotAccounting, CountedBelowLimit
<1> QED
  BY <1>1, <1>2, <1>3, LimitAssumption DEF DownloadsWithinLimit

\* At most Limit downloads run at once.
THEOREM LimitKept == Spec => []DownloadsWithinLimit
BY LimitInvariant, WithinLimit, PTL

-----------------------------------------------------------------------------
(* The scheduler implements the plain slots.                               *)

\* A download that starts finds a slot of its own: the goroutine that starts it
\* holds one and does not wait yet.
LEMMA StartsBelowLimit ==
    ASSUME LimitInv, NEW g \in SlotRuns, NEW w \in Workers, StartDownload(g, w)
    PROVE  Cardinality(downloading) < Limit
<1> DEFINE H == SlotHolders \ {g}
<1>1. g \in SlotHolders /\ slot[g].pc # "wait"
  BY DEF StartDownload, SlotHolders
<1>2. H \in SUBSET SlotHolders /\ \A h \in SlotHolders : slot[h].pc = "wait" => h \in H
  BY <1>1
<1>3. IsFiniteSet(H) /\ Cardinality(H) = Cardinality(SlotHolders) - 1
  BY <1>1, HoldersFinite, FS_RemoveElement
<1> HIDE DEF H
<1>4. /\ Cardinality(downloading) <= Cardinality(Running)
      /\ Cardinality(Running) <= Cardinality(H)
      /\ IsFiniteSet(Running) /\ IsFiniteSet(downloading)
  BY <1>2, RunningFit
<1>5. /\ Cardinality(downloading) \in Nat /\ Cardinality(Running) \in Nat
      /\ Cardinality(H) \in Nat /\ Cardinality(SlotHolders) \in Nat
  BY <1>3, <1>4, HoldersFinite, FS_CardinalityType
<1>6. Cardinality(SlotHolders) <= Limit
  BY DEF LimitInv, SlotAccounting, CountedBelowLimit
<1> QED
  BY <1>3, <1>4, <1>5, <1>6, LimitAssumption

LEMMA StepsImplement == LimitInv /\ [Next]_vars => [Slots!Next]_downloading
<1> SUFFICES ASSUME LimitInv, [Next]_vars PROVE [Slots!Next]_downloading
  OBVIOUS
<1>1. CASE SameDownloads
  BY <1>1 DEF SameDownloads
<1>2. ASSUME NEW g \in SlotRuns, NEW w \in Workers, StartDownload(g, w)
      PROVE  Slots!Next
  <2>1. slot[g].id \in Ids /\ slot[g].id \notin downloading
    BY <1>2 DEF StartDownload, NotStartable, LimitInv, TypeOK, SlotState
  <2>2. Cardinality(downloading) < Limit
    BY <1>2, StartsBelowLimit
  <2>3. downloading' = downloading \cup {slot[g].id}
    BY <1>2 DEF StartDownload
  <2>4. Slots!Start(slot[g].id)
    BY <2>1, <2>2, <2>3 DEF Slots!Start, Slots!Cardinality, Cardinality
  <2> QED
    BY <2>1, <2>4 DEF Slots!Next
<1>3. ASSUME NEW w \in Workers, FinishDownload(w) PROVE Slots!Next
  <2>1. worker[w].id \in Ids /\ worker[w].id \in downloading
    BY <1>3 DEF FinishDownload, Running, LimitInv, TypeOK, WorkerState, RegisteredDownloads
  <2>2. Slots!Stop(worker[w].id)
    BY <1>3, <2>1 DEF Slots!Stop, FinishDownload
  <2> QED
    BY <2>1, <2>2 DEF Slots!Next
<1> QED
  BY <1>1, <1>2, <1>3, DownloadSteps DEF LimitInv

\* Every behaviour of the scheduler, its running downloads seen alone, is one
\* of the plain slots.
THEOREM SlotsImplemented == Spec => ImplementsSlots
<1>1. Init => Slots!Init
  BY DEF Init, Slots!Init
<1> QED
  BY <1>1, StepsImplement, LimitInvariant, PTL DEF Spec, ImplementsSlots, Slots!Spec

-----------------------------------------------------------------------------
(* Preemption marks.                                                       *)

\* The context of a running download, once canceled, stays so: only the start
\* of another download of the same goroutine makes a new one.
LEMMA CanceledStays ==
    ASSUME TypeOK, RegisteredDownloads, [Next]_vars,
           NEW w \in Running, worker[w].canceled, ~FinishDownload(w)
    PROVE  worker'[w].canceled
<1> DEFINE Stays == worker'[w].canceled
<1>1. worker \in [Workers -> WorkerState] /\ w \in Workers
  BY DEF TypeOK, Running
<1>2. worker[w].pc \in {"run", "marked"}
  BY DEF Running
<1>3. UNCHANGED worker => Stays
  OBVIOUS
<1>4. ASSUME NEW v, worker' = [worker EXCEPT ![v].canceled = TRUE] PROVE Stays
  BY <1>1, <1>4 DEF WorkerState
<1>5. ASSUME NEW v, NEW r, v # w, worker' = [worker EXCEPT ![v] = r] PROVE Stays
  BY <1>1, <1>5
<1>6. UNCHANGED vars => Stays
  BY <1>3 DEF vars
<1>7. Request => Stays
  BY <1>3 DEF Request, QueuePush, PauseDownload, AppendItem, BeginCoverBandwidth
<1>8. ASSUME NEW c \in Clients, ClientStep(c) PROVE Stays
  BY <1>3, <1>4, <1>8 DEF ClientStep, QueuePushInsert, PreemptBackgroundDownload,
                          CancelOneBackgroundDownload, PauseMark, Preempt
<1>9. SchedulerStep => Stays
  BY <1>3 DEF SchedulerStep, TryStartDownload, PopCheck, PopSkip, TakeSlot, SchedulerWake
<1>10. ASSUME NEW g \in SlotRuns, SlotStep(g) PROVE Stays
  BY <1>2, <1>3, <1>5, <1>10
  DEF SlotStep, StartDownloadSkip, StartDownload, WaitDownload, ReleaseSlot
<1>11. ASSUME NEW v \in Workers, WorkerStep(v) PROVE Stays
  <2>1. CASE MarkCompleted(v)
    <3>1. worker' = [worker EXCEPT ![v].pc = "marked"]
      BY <2>1 DEF MarkCompleted
    <3> QED
      BY <1>1, <3>1 DEF WorkerState
  <2>2. CASE FinishDownload(v)
    BY <1>5, <2>2 DEF FinishDownload
  <2>3. CASE Requeue(v)
    BY <1>2, <1>5, <2>3 DEF Requeue
  <2>4. CASE RequeueInsert(v)
    BY <1>2, <1>5, <2>4 DEF RequeueInsert
  <2> QED
    BY <1>11, <2>1, <2>2, <2>3, <2>4 DEF WorkerStep
<1>12. ASSUME NEW j \in CoverJobs, CoverStep(j) PROVE Stays
  BY <1>3, <1>4, <1>12
  DEF CoverStep, CoverCancel, CoverCheck, CoverDone, EndCoverBandwidth, Preempt
<1> QED
  BY <1>6, <1>7, <1>8, <1>9, <1>10, <1>11, <1>12 DEF Next

\* A step that marks a download cancels its context; no other step adds a mark.
LEMMA MarksAdded ==
    ASSUME TypeOK, RegisteredDownloads, [Next]_vars, NEW id \in preempted', id \notin preempted
    PROVE  /\ id \in downloading /\ UNCHANGED <<downloading, cancels>>
           /\ worker'[cancels[id]].canceled
<1> DEFINE Marked == /\ id \in downloading /\ UNCHANGED <<downloading, cancels>>
                     /\ worker'[cancels[id]].canceled
<1>1. preempted' # preempted
  OBVIOUS
<1>2. ASSUME NEW i \in Preemptable, Preempt(i) PROVE Marked
  <2>1. i = id /\ id \in downloading
    BY <1>2 DEF Preempt, Preemptable
  <2>2. cancels[id] \in Workers /\ worker \in [Workers -> WorkerState]
    BY <2>1 DEF RegisteredDownloads, Running, TypeOK
  <2>3. worker'[cancels[id]].canceled
    BY <1>2, <2>1, <2>2 DEF Preempt, WorkerState
  <2> QED
    BY <1>2, <2>1, <2>3 DEF Preempt
<1>3. UNCHANGED vars => FALSE
  BY <1>1 DEF vars
<1>4. Request => FALSE
  BY <1>1 DEF Request, QueuePush, PauseDownload, AppendItem, BeginCoverBandwidth, muVars
<1>5. ASSUME NEW c \in Clients, ClientStep(c) PROVE Marked
  BY <1>1, <1>2, <1>5 DEF ClientStep, QueuePushInsert, PreemptBackgroundDownload,
                          CancelOneBackgroundDownload, PauseMark, muVars
<1>6. SchedulerStep => FALSE
  BY <1>1 DEF SchedulerStep, TryStartDownload, PopCheck, PopSkip, TakeSlot, SchedulerWake,
              muVars
<1>7. ASSUME NEW g \in SlotRuns, SlotStep(g) PROVE FALSE
  BY <1>1, <1>7 DEF SlotStep, StartDownloadSkip, StartDownload, WaitDownload, ReleaseSlot,
                    muVars
<1>8. ASSUME NEW w \in Workers, WorkerStep(w) PROVE FALSE
  BY <1>1, <1>8 DEF WorkerStep, MarkCompleted, FinishDownload, Requeue, RequeueInsert, muVars
<1>9. ASSUME NEW j \in CoverJobs, CoverStep(j) PROVE Marked
  BY <1>1, <1>2, <1>9 DEF CoverStep, CoverCancel, CoverCheck, CoverDone, EndCoverBandwidth,
                          muVars
<1> QED
  BY <1>3, <1>4, <1>5, <1>6, <1>7, <1>8, <1>9 DEF Next

LEMMA NextMarks ==
    TypeOK /\ RegisteredDownloads /\ PreemptionIsLive /\ [Next]_vars => PreemptionIsLive'
<1> SUFFICES ASSUME TypeOK, RegisteredDownloads, PreemptionIsLive, [Next]_vars,
                    NEW id \in preempted'
             PROVE  id \in downloading' /\ worker'[cancels'[id]].canceled
  BY DEF PreemptionIsLive
<1>1. CASE id \notin preempted
  BY <1>1, MarksAdded
<1>2. CASE id \in preempted
  <2>1. id \in downloading /\ worker[cancels[id]].canceled /\ id \in Ids
    BY <1>2 DEF PreemptionIsLive, TypeOK
  <2>2. cancels[id] \in Running /\ worker[cancels[id]].id = id
    BY <2>1 DEF RegisteredDownloads
  <2>3. ~FinishDownload(cancels[id])
    BY <2>2 DEF FinishDownload
  <2>4. worker'[cancels[id]].canceled
    BY <2>1, <2>2, <2>3, CanceledStays
  <2>5. id \in downloading' /\ cancels'[id] = cancels[id]
    <3>1. CASE SameDownloads
      BY <2>1, <3>1 DEF SameDownloads
    <3>2. ASSUME NEW g \in SlotRuns, NEW w \in Workers, StartDownload(g, w)
          PROVE  id \in downloading' /\ cancels'[id] = cancels[id]
      BY <2>1, <3>2 DEF StartDownload, NotStartable, TypeOK
    <3>3. ASSUME NEW w \in Workers, FinishDownload(w)
          PROVE  id \in downloading' /\ cancels'[id] = cancels[id]
      <4>1. worker[w].id # id
        BY <3>3, <2>1 DEF FinishDownload
      <4> QED
        BY <2>1, <3>3, <4>1 DEF FinishDownload, TypeOK
    <3> QED
      BY <3>1, <3>2, <3>3, DownloadSteps
  <2> QED
    BY <2>4, <2>5
<1> QED
  BY <1>1, <1>2

\* A preemption mark is that of a running download whose context is canceled.
THEOREM PreemptionsLive == Spec => []PreemptionIsLive
<1>1. Init => PreemptionIsLive
  BY DEF Init, PreemptionIsLive
<1> QED
  BY <1>1, NextMarks, TypeCorrect, DownloadsRegistered, PTL DEF Spec

-----------------------------------------------------------------------------
(* The wait queues and s.dlPending.                                        *)

\* No id occurs twice.
Once(q) == \A i, j \in DOMAIN q : q[i] = q[j] => i = j

\* What the wait queues have in common is s.dlPending.
Consistent(pq, bq, pending) ==
    /\ pending = QueueIds(pq) \cup QueueIds(bq)
    /\ QueueIds(pq) \cap QueueIds(bq) = {}
    /\ Once(pq) /\ Once(bq)

LEMMA ConsistentIs ==
    /\ QueueConsistent <=> Consistent(dlPriQueue, dlQueue, dlPending)
    /\ QueueConsistent' <=> Consistent(dlPriQueue', dlQueue', dlPending')
BY DEF QueueConsistent, Consistent, Once, QueueIds

\* Dropping an id from a queue that has it once drops it altogether, and
\* nothing else.
LEMMA FilterRemoves ==
    ASSUME NEW S, NEW q \in Seq(S), NEW id, Once(q)
    PROVE  QueueIds(filterID(q, id)) = QueueIds(q) \ {id} /\ Once(filterID(q, id))
<1> DEFINE f == filterID(q, id)
<1>1. CASE id \notin QueueIds(q)
  BY <1>1 DEF filterID
<1>2. CASE id \in QueueIds(q)
  <2> DEFINE p == CHOOSE i \in DOMAIN q : q[i] = id
             n == Len(q)
  <2>1. p \in DOMAIN q /\ q[p] = id
    BY <1>2 DEF QueueIds
  <2>2. p \in 1..n /\ n \in Nat /\ DOMAIN q = 1..n
    BY <2>1, LenProperties
  <2>3. f = SubSeq(q, 1, p - 1) \o SubSeq(q, p + 1, n)
    BY <1>2 DEF filterID
  <2> HIDE DEF p, n, f
  <2>4. \A i \in 1..n : q[i] \in S
    BY DEF n
  <2>5. /\ SubSeq(q, 1, p - 1) \in Seq(S)
        /\ Len(SubSeq(q, 1, p - 1)) = p - 1
        /\ \A i \in 1..(p - 1) : SubSeq(q, 1, p - 1)[i] = q[i]
    <3>1. p - 1 \in Int /\ \A i \in 1..(p - 1) : q[i] \in S
      BY <2>2, <2>4
    <3> QED
      BY <2>2, <3>1, SubSeqProperties
  <2>6. /\ SubSeq(q, p + 1, n) \in Seq(S)
        /\ Len(SubSeq(q, p + 1, n)) = n - p
        /\ \A i \in 1..(n - p) : SubSeq(q, p + 1, n)[i] = q[p + i]
    <3>1. p + 1 \in Int /\ n \in Int /\ \A i \in (p + 1)..n : q[i] \in S
      BY <2>2, <2>4
    <3>2. /\ SubSeq(q, p + 1, n) \in Seq(S)
          /\ Len(SubSeq(q, p + 1, n)) = IF p + 1 <= n THEN n - (p + 1) + 1 ELSE 0
          /\ \A i \in 1..(n - (p + 1) + 1) : SubSeq(q, p + 1, n)[i] = q[p + 1 + i - 1]
      BY <3>1, SubSeqProperties
    <3> QED
      BY <2>2, <3>2
  <2>7. /\ f \in Seq(S) /\ Len(f) = n - 1
        /\ \A i \in 1..(n - 1) : f[i] = IF i < p THEN q[i] ELSE q[i + 1]
    <3> DEFINE a == SubSeq(q, 1, p - 1)  b == SubSeq(q, p + 1, n)
    <3>1. \A i \in 1..(p - 1) : a[i] = q[i]
      BY <2>5
    <3>2. \A i \in 1..(n - p) : b[i] = q[p + i]
      BY <2>6
    <3>3. f = a \o b /\ a \in Seq(S) /\ b \in Seq(S) /\ Len(a) = p - 1 /\ Len(b) = n - p
      BY <2>3, <2>5, <2>6
    <3> HIDE DEF a, b
    <3>4. /\ f \in Seq(S) /\ Len(f) = (p - 1) + (n - p)
          /\ \A i \in 1..((p - 1) + (n - p)) :
                f[i] = IF i <= p - 1 THEN a[i] ELSE b[i - (p - 1)]
      <4>1. /\ a \o b \in Seq(S) /\ Len(a \o b) = Len(a) + Len(b)
            /\ \A i \in 1..(Len(a) + Len(b)) :
                  (a \o b)[i] = IF i <= Len(a) THEN a[i] ELSE b[i - Len(a)]
        BY <3>3, ConcatProperties
      <4> QED
        BY <3>3, <4>1
    <3>5. (p - 1) + (n - p) = n - 1
      BY <2>2
    <3>6. ASSUME NEW i \in 1..(n - 1), i < p PROVE f[i] = q[i]
      <4>1. i \in 1..(p - 1)
        BY <2>2, <3>6
      <4> QED
        BY <2>2, <3>4, <3>1, <3>5, <4>1
    <3>7. ASSUME NEW i \in 1..(n - 1), ~(i < p) PROVE f[i] = q[i + 1]
      <4>1. ~(i <= p - 1) /\ i - (p - 1) \in 1..(n - p) /\ p + (i - (p - 1)) = i + 1
        BY <2>2, <3>7
      <4> QED
        BY <3>4, <3>2, <3>5, <4>1
    <3> QED
      BY <3>4, <3>5, <3>6, <3>7
  <2>8. DOMAIN f = 1..(n - 1)
    BY <2>7, LenProperties
  <2>9. \A i, j \in 1..n : q[i] = q[j] => i = j
    BY <2>2 DEF Once
  <2>10. \A i \in 1..(n - 1) : \E k \in 1..n : k # p /\ f[i] = q[k]
    BY <2>2, <2>7
  <2>11. \A k \in 1..n : k # p => \E i \in 1..(n - 1) : f[i] = q[k]
    <3> SUFFICES ASSUME NEW k \in 1..n, k # p PROVE \E i \in 1..(n - 1) : f[i] = q[k]
      OBVIOUS
    <3>1. CASE k < p
      BY <2>2, <2>7, <3>1
    <3>2. CASE k > p
      <4>1. k - 1 \in 1..(n - 1) /\ ~(k - 1 < p) /\ (k - 1) + 1 = k
        BY <2>2, <3>2
      <4> QED
        BY <2>7, <4>1
    <3> QED
      BY <2>2, <3>1, <3>2
  <2>12. QueueIds(f) = QueueIds(q) \ {id}
    <3>1. \A i \in DOMAIN f : f[i] # id /\ \E k \in DOMAIN q : q[k] = f[i]
      BY <2>1, <2>2, <2>8, <2>9, <2>10
    <3>2. \A k \in DOMAIN q : q[k] = id \/ \E i \in DOMAIN f : f[i] = q[k]
      BY <2>1, <2>2, <2>8, <2>11
    <3>3. \A y : y \in QueueIds(f) <=> \E i \in DOMAIN f : f[i] = y
      BY DEF QueueIds
    <3>4. \A y : y \in QueueIds(q) <=> \E k \in DOMAIN q : q[k] = y
      BY DEF QueueIds
    <3>5. \A y : y \in QueueIds(f) <=> y \in QueueIds(q) /\ y # id
      BY <3>1, <3>2, <3>3, <3>4
    <3> QED
      BY <3>5
  <2>13. Once(f)
    BY <2>2, <2>7, <2>8, <2>9 DEF Once
  <2> QED
    BY <2>12, <2>13 DEF f
<1> QED
  BY <1>1, <1>2

\* An id put at the front of a queue that does not have it.
LEMMA PutFirst ==
    ASSUME NEW S, NEW q \in Seq(S), NEW id \in S, Once(q), id \notin QueueIds(q)
    PROVE  QueueIds(<<id>> \o q) = QueueIds(q) \cup {id} /\ Once(<<id>> \o q)
<1> DEFINE n == Len(q)  h == <<id>> \o q
<1>1. n \in Nat /\ DOMAIN q = 1..n
  BY LenProperties
<1>2. \A i \in 1..n : q[i] # id
  BY <1>1 DEF QueueIds
<1>3. \A i, j \in 1..n : q[i] = q[j] => i = j
  BY <1>1 DEF Once
<1>4. <<id>> \in Seq(S) /\ Len(<<id>>) = 1 /\ <<id>>[1] = id
  OBVIOUS
<1>5. /\ h \in Seq(S) /\ Len(h) = 1 + n
      /\ \A i \in 1..(1 + n) : h[i] = IF i <= 1 THEN <<id>>[i] ELSE q[i - 1]
  BY <1>4, ConcatProperties
<1>6. DOMAIN h = 1..(1 + n)
  BY <1>5, LenProperties
<1> HIDE DEF n, h
<1>7. h[1] = id /\ \A i \in 1..n : h[i + 1] = q[i] /\ i + 1 \in 1..(1 + n)
  BY <1>1, <1>4, <1>5
<1>8. \A i \in 1..(1 + n) : h[i] = IF i = 1 THEN id ELSE q[i - 1]
  BY <1>1, <1>4, <1>5
<1>9. Once(h)
  BY <1>1, <1>2, <1>3, <1>6, <1>8 DEF Once
<1>10. \A y : y \in QueueIds(h) <=> y \in QueueIds(q) \/ y = id
  <2>1. \A y : y \in QueueIds(h) <=> \E i \in 1..(1 + n) : h[i] = y
    BY <1>6 DEF QueueIds
  <2>2. \A y : y \in QueueIds(q) <=> \E k \in 1..n : q[k] = y
    BY <1>1 DEF QueueIds
  <2>3. \A i \in 1..(1 + n) : h[i] = id \/ \E k \in 1..n : h[i] = q[k]
    BY <1>1, <1>8
  <2>4. 1 \in 1..(1 + n)
    BY <1>1
  <2> QED
    BY <1>7, <2>1, <2>2, <2>3, <2>4
<1> QED
  BY <1>9, <1>10 DEF h

\* ... and at its back.
LEMMA PutLast ==
    ASSUME NEW S, NEW q \in Seq(S), NEW id \in S, Once(q), id \notin QueueIds(q)
    PROVE  QueueIds(Append(q, id)) = QueueIds(q) \cup {id} /\ Once(Append(q, id))
<1> DEFINE n == Len(q)  t == Append(q, id)
<1>1. n \in Nat /\ DOMAIN q = 1..n
  BY LenProperties
<1>2. \A i \in 1..n : q[i] # id
  BY <1>1 DEF QueueIds
<1>3. \A i, j \in 1..n : q[i] = q[j] => i = j
  BY <1>1 DEF Once
<1>4. /\ t \in Seq(S) /\ Len(t) = n + 1
      /\ \A i \in 1..n : t[i] = q[i]
      /\ t[n + 1] = id
  BY AppendProperties
<1>5. DOMAIN t = 1..(n + 1)
  BY <1>4, LenProperties
<1> HIDE DEF n, t
<1>6. Once(t)
  BY <1>1, <1>2, <1>3, <1>4, <1>5 DEF Once
<1>7. \A y : y \in QueueIds(t) <=> y \in QueueIds(q) \/ y = id
  <2>1. \A y : y \in QueueIds(t) <=> \E i \in 1..(n + 1) : t[i] = y
    BY <1>5 DEF QueueIds
  <2>2. \A y : y \in QueueIds(q) <=> \E k \in 1..n : q[k] = y
    BY <1>1 DEF QueueIds
  <2>3. \A i \in 1..(n + 1) : t[i] = id \/ \E k \in 1..n : t[i] = q[k]
    BY <1>1, <1>4
  <2>4. n + 1 \in 1..(n + 1) /\ \A k \in 1..n : k \in 1..(n + 1)
    BY <1>1
  <2> QED
    BY <1>4, <2>1, <2>2, <2>3, <2>4
<1> QED
  BY <1>6, <1>7 DEF t

\* What is left when the first of a queue is taken.
LEMMA TakeOnce ==
    ASSUME NEW S, NEW q \in Seq(S), q # <<>>, Once(q)
    PROVE  /\ QueueIds(Tail(q)) = QueueIds(q) \ {Head(q)} /\ Once(Tail(q))
           /\ Head(q) \in QueueIds(q)
<1> DEFINE n == Len(q)  t == Tail(q)
<1>1. n \in Nat /\ n > 0 /\ DOMAIN q = 1..n
  BY LenProperties, EmptySeq
<1>2. Head(q) = q[1]
  OBVIOUS
<1>3. t \in Seq(S) /\ Len(t) = n - 1 /\ \A i \in 1..Len(t) : t[i] = q[i + 1]
  BY HeadTailProperties
<1>4. DOMAIN t = 1..(n - 1)
  BY <1>3, LenProperties
<1>5. \A i, j \in 1..n : q[i] = q[j] => i = j
  BY <1>1 DEF Once
<1> HIDE DEF n, t
<1>6. \A i \in 1..(n - 1) : t[i] = q[i + 1] /\ i + 1 \in 1..n
  BY <1>1, <1>3
<1>7. Once(t)
  BY <1>1, <1>4, <1>5, <1>6 DEF Once
<1>8. 1 \in 1..n
  BY <1>1
<1>9. \A i \in 1..(n - 1) : \E k \in 1..n : k # 1 /\ t[i] = q[k]
  BY <1>1, <1>6
<1>10. \A k \in 1..n : k # 1 => \E i \in 1..(n - 1) : t[i] = q[k]
  <2> SUFFICES ASSUME NEW k \in 1..n, k # 1 PROVE \E i \in 1..(n - 1) : t[i] = q[k]
    OBVIOUS
  <2>1. k - 1 \in 1..(n - 1) /\ (k - 1) + 1 = k
    BY <1>1
  <2> QED
    BY <1>6, <2>1
<1>11. QueueIds(t) = QueueIds(q) \ {Head(q)}
  <2>1. \A i \in DOMAIN t : t[i] # Head(q) /\ \E k \in DOMAIN q : q[k] = t[i]
    BY <1>1, <1>2, <1>4, <1>5, <1>8, <1>9
  <2>2. \A k \in DOMAIN q : q[k] = Head(q) \/ \E i \in DOMAIN t : t[i] = q[k]
    BY <1>1, <1>2, <1>4, <1>10
  <2>3. \A y : y \in QueueIds(t) <=> \E i \in DOMAIN t : t[i] = y
    BY DEF QueueIds
  <2>4. \A y : y \in QueueIds(q) <=> \E k \in DOMAIN q : q[k] = y
    BY DEF QueueIds
  <2>5. \A y : y \in QueueIds(t) <=> y \in QueueIds(q) /\ y # Head(q)
    BY <2>1, <2>2, <2>3, <2>4
  <2> QED
    BY <2>5
<1>12. Head(q) \in QueueIds(q)
  BY <1>1, <1>2, <1>8 DEF QueueIds
<1> QED
  BY <1>7, <1>11, <1>12 DEF t

\* queuePush keeps the queues consistent,
LEMMA PushConsistent ==
    ASSUME TypeOK, QueueConsistent, NEW id \in Ids, NEW pri \in BOOLEAN, PushInsert(id, pri)
    PROVE  QueueConsistent'
<1>1. dlPriQueue \in Seq(Ids) /\ dlQueue \in Seq(Ids)
  BY DEF TypeOK
<1>2. Consistent(dlPriQueue, dlQueue, dlPending)
  BY ConsistentIs
<1> DEFINE fp == filterID(dlPriQueue, id)  fq == filterID(dlQueue, id)
<1>3. /\ QueueIds(fp) = QueueIds(dlPriQueue) \ {id} /\ Once(fp)
      /\ QueueIds(fq) = QueueIds(dlQueue) \ {id} /\ Once(fq)
  BY <1>1, <1>2, FilterRemoves DEF Consistent
<1>4. fp \in Seq(Ids)
  BY <1>1, FilterType
<1> HIDE DEF fp, fq
<1>5. CASE id \in dlPending /\ pri
  <2>1. id \notin QueueIds(fp)
    BY <1>3
  <2>2. QueueIds(<<id>> \o fp) = QueueIds(fp) \cup {id} /\ Once(<<id>> \o fp)
    BY <1>3, <1>4, <2>1, PutFirst
  <2>3. Consistent(<<id>> \o fp, fq, dlPending)
    BY <1>2, <1>3, <1>5, <2>2 DEF Consistent
  <2>4. dlPriQueue' = <<id>> \o fp /\ dlQueue' = fq /\ dlPending' = dlPending
    BY <1>5 DEF PushInsert, fp, fq
  <2> QED
    BY <2>3, <2>4, ConsistentIs
<1>6. CASE id \in dlPending /\ ~pri
  BY <1>2, <1>6, ConsistentIs DEF PushInsert
<1>7. CASE id \notin dlPending
  <2>1. id \notin QueueIds(dlPriQueue) /\ id \notin QueueIds(dlQueue)
    BY <1>2, <1>7 DEF Consistent
  <2>2. Once(dlPriQueue) /\ Once(dlQueue)
    BY <1>2 DEF Consistent
  <2>3. /\ QueueIds(<<id>> \o dlPriQueue) = QueueIds(dlPriQueue) \cup {id}
        /\ Once(<<id>> \o dlPriQueue)
    BY <1>1, <2>1, <2>2, PutFirst
  <2>4. /\ QueueIds(Append(dlQueue, id)) = QueueIds(dlQueue) \cup {id}
        /\ Once(Append(dlQueue, id))
    BY <1>1, <2>1, <2>2, PutLast
  <2>5. /\ Consistent(<<id>> \o dlPriQueue, dlQueue, dlPending \cup {id})
        /\ Consistent(dlPriQueue, Append(dlQueue, id), dlPending \cup {id})
    BY <1>2, <2>1, <2>3, <2>4 DEF Consistent
  <2>6. /\ dlPending' = dlPending \cup {id}
        /\ \/ dlPriQueue' = <<id>> \o dlPriQueue /\ dlQueue' = dlQueue
           \/ dlPriQueue' = dlPriQueue /\ dlQueue' = Append(dlQueue, id)
    BY <1>7 DEF PushInsert
  <2> QED
    BY <2>5, <2>6, ConsistentIs
<1> QED
  BY <1>5, <1>6, <1>7

\* ... and so does a pop.
LEMMA PopConsistent ==
    ASSUME TypeOK, QueueConsistent, NEW limit,
           \/ dlPriQueue # <<>> /\ PopPriority(limit)
           \/ dlQueue # <<>> /\ PopBackground(limit)
           \/ Sleep
    PROVE  QueueConsistent'
<1>1. dlPriQueue \in Seq(Ids) /\ dlQueue \in Seq(Ids)
  BY DEF TypeOK
<1>2. Consistent(dlPriQueue, dlQueue, dlPending)
  BY ConsistentIs
<1>3. CASE dlPriQueue # <<>> /\ PopPriority(limit)
  <2>1. /\ QueueIds(Tail(dlPriQueue)) = QueueIds(dlPriQueue) \ {Head(dlPriQueue)}
        /\ Once(Tail(dlPriQueue)) /\ Head(dlPriQueue) \in QueueIds(dlPriQueue)
    BY <1>1, <1>2, <1>3, TakeOnce DEF Consistent
  <2>2. Consistent(Tail(dlPriQueue), dlQueue, dlPending \ {Head(dlPriQueue)})
    BY <1>2, <2>1 DEF Consistent
  <2> QED
    BY <1>3, <2>2, ConsistentIs DEF PopPriority
<1>4. CASE dlQueue # <<>> /\ PopBackground(limit)
  <2>1. /\ QueueIds(Tail(dlQueue)) = QueueIds(dlQueue) \ {Head(dlQueue)}
        /\ Once(Tail(dlQueue)) /\ Head(dlQueue) \in QueueIds(dlQueue)
    BY <1>1, <1>2, <1>4, TakeOnce DEF Consistent
  <2>2. Consistent(dlPriQueue, Tail(dlQueue), dlPending \ {Head(dlQueue)})
    BY <1>2, <2>1 DEF Consistent
  <2> QED
    BY <1>4, <2>2, ConsistentIs DEF PopBackground
<1>5. CASE Sleep
  BY <1>2, <1>5, ConsistentIs DEF Sleep, queueVars
<1> QED
  BY <1>3, <1>4, <1>5

LEMMA NextConsistent == TypeOK /\ QueueConsistent /\ [Next]_vars => QueueConsistent'
<1> SUFFICES ASSUME TypeOK, QueueConsistent, [Next]_vars PROVE QueueConsistent'
  OBVIOUS
<1>1. UNCHANGED queueVars => QueueConsistent'
  BY ConsistentIs DEF queueVars
<1>2. UNCHANGED vars => UNCHANGED queueVars
  BY DEF vars, queueVars
<1>3. CASE Request
  <2>1. ASSUME NEW c \in Clients, NEW id \in Ids, PauseDownload(c, id)
        PROVE  QueueConsistent'
    <3>1. CASE id \notin dlPending
      BY <1>1, <2>1, <3>1 DEF PauseDownload, queueVars
    <3>2. CASE id \in dlPending
      <4>1. Consistent(dlPriQueue, dlQueue, dlPending)
        BY ConsistentIs
      <4>2. /\ QueueIds(filterID(dlPriQueue, id)) = QueueIds(dlPriQueue) \ {id}
            /\ QueueIds(filterID(dlQueue, id)) = QueueIds(dlQueue) \ {id}
            /\ Once(filterID(dlPriQueue, id)) /\ Once(filterID(dlQueue, id))
        BY <4>1, FilterRemoves DEF Consistent, TypeOK
      <4>3. Consistent(filterID(dlPriQueue, id), filterID(dlQueue, id), dlPending \ {id})
        BY <4>1, <4>2 DEF Consistent
      <4> QED
        BY <2>1, <3>2, <4>3, ConsistentIs DEF PauseDownload
    <3> QED
      BY <3>1, <3>2
  <2>2. ASSUME ~ \E c \in Clients, id \in Ids : PauseDownload(c, id)
        PROVE  UNCHANGED queueVars
    BY <1>3, <2>2 DEF Request, QueuePush, AppendItem, BeginCoverBandwidth
  <2> QED
    BY <1>1, <2>1, <2>2
<1>4. ASSUME NEW c \in Clients, ClientStep(c) PROVE QueueConsistent'
  <2>1. CASE QueuePushInsert(c)
    <3>1. client[c].id \in Ids /\ client[c].pri \in BOOLEAN
      BY <2>1 DEF QueuePushInsert, TypeOK, ClientState
    <3> QED
      BY <2>1, <3>1, PushConsistent DEF QueuePushInsert
  <2> QED
    BY <1>1, <1>4, <2>1
    DEF ClientStep, PreemptBackgroundDownload, CancelOneBackgroundDownload, PauseMark
<1>5. CASE SchedulerStep
  <2>1. CASE TryStartDownload
    BY <2>1, TryBackgroundCases, PopConsistent DEF TryStartDownload
  <2>2. CASE PopSkip
    BY <2>2, TryBackgroundCases, PopConsistent DEF PopSkip
  <2> QED
    BY <1>1, <1>5, <2>1, <2>2 DEF SchedulerStep, PopCheck, TakeSlot, SchedulerWake
<1>6. ASSUME NEW g \in SlotRuns, SlotStep(g) PROVE UNCHANGED queueVars
  BY <1>6 DEF SlotStep, StartDownloadSkip, StartDownload, WaitDownload, ReleaseSlot
<1>7. ASSUME NEW w \in Workers, WorkerStep(w) PROVE QueueConsistent'
  <2>1. CASE RequeueInsert(w)
    <3>1. worker[w].id \in Ids
      BY <2>1 DEF RequeueInsert, TypeOK, WorkerState
    <3> QED
      BY <2>1, <3>1, PushConsistent DEF RequeueInsert
  <2> QED
    BY <1>1, <1>7, <2>1 DEF WorkerStep, MarkCompleted, FinishDownload, Requeue
<1>8. ASSUME NEW j \in CoverJobs, CoverStep(j) PROVE UNCHANGED queueVars
  BY <1>8 DEF CoverStep, CoverCancel, CoverCheck, CoverDone, EndCoverBandwidth
<1> QED
  BY <1>1, <1>2, <1>3, <1>4, <1>5, <1>6, <1>7, <1>8 DEF Next

\* An id waits once, in one queue, and s.dlPending is what waits.
THEOREM QueuesConsistent == Spec => []QueueConsistent
<1>1. Init => QueueConsistent
  BY DEF Init, QueueConsistent, QueueIds
<1> QED
  BY <1>1, NextConsistent, TypeCorrect, PTL DEF Spec

-----------------------------------------------------------------------------
(* Wake-ups.  A pop of the loop may have read the limit and found the       *)
(* priority queue empty a while ago; unless a token waits for the loop,      *)
(* what it read still holds, the limit at worst having fallen.               *)

EffectiveLimit == downloadLimitWithCoverHoldLocked

LimitFresh ==
    sched.pc \in {"check", "skip"} /\ ~dlWake =>
        /\ EffectiveLimit <= sched.limit
        /\ sched.pri \/ dlPriQueue = <<>>

\* A step that is none of the loop's leaves a token, or starts nothing that
\* the loop could not have started before.
Woken == dlWake' /\ sched' = sched

Quiet ==
    /\ UNCHANGED <<sched, dlWake, dlActive, dlActivePri>>
    /\ EffectiveLimit' <= EffectiveLimit
    /\ dlPriQueue = <<>> => dlPriQueue' = <<>>
    /\ dlQueue = <<>> => dlQueue' = <<>>

LEMMA CapMonotone ==
    ASSUME NEW a \in Nat, NEW b \in Nat, a <= b
    PROVE  BackgroundCap(a) <= BackgroundCap(b)
BY DEF BackgroundCap, downloadReservedSlots

LEMMA LimitType ==
    /\ TypeOK => EffectiveLimit \in 0..Limit
    /\ TypeOK' => EffectiveLimit' \in 0..Limit
<1>1. TypeOK => EffectiveLimit \in 0..Limit
  BY HoldLimitType DEF TypeOK, EffectiveLimit
<1>2. (TypeOK => EffectiveLimit \in 0..Limit)'
  BY <1>1, PTL
<1> QED
  BY <1>1, <1>2

\* The loop alone takes a token, and it does so to look again.
LEMMA WakeSteps ==
    ASSUME TypeOK, [Next]_vars
    PROVE  Woken \/ Quiet \/ SchedulerStep
<1>1. EffectiveLimit \in Nat /\ dlWake \in BOOLEAN
  BY LimitType DEF TypeOK
<1>2. UNCHANGED <<queueVars, slotVars, dlWake, sched>> => Quiet
  BY <1>1 DEF queueVars, slotVars, Quiet, EffectiveLimit, downloadLimitWithCoverHoldLocked
<1>3. ASSUME NEW id, NEW pri, PushInsert(id, pri), UNCHANGED <<slotVars, sched>>
      PROVE  Woken \/ Quiet
  <2>1. dlWake' = TRUE \/ UNCHANGED <<queueVars, dlWake>>
    BY <1>3 DEF PushInsert, wakeDownloader, queueVars
  <2> QED
    BY <1>2, <1>3, <2>1 DEF Woken
<1>4. CASE UNCHANGED vars
  BY <1>2, <1>4 DEF vars, queueVars, slotVars
<1>5. CASE Request
  <2>1. ASSUME NEW c \in Clients, NEW id \in Ids, PauseDownload(c, id) PROVE Quiet
    <3>1. filterID(<<>>, id) = <<>>
      BY DEF filterID, QueueIds
    <3>2. EffectiveLimit' = EffectiveLimit
      BY <2>1 DEF PauseDownload, slotVars, EffectiveLimit, downloadLimitWithCoverHoldLocked
    <3> QED
      BY <1>1, <2>1, <3>1, <3>2 DEF PauseDownload, Quiet, slotVars
  <2>2. ASSUME NEW j \in CoverJobs, BeginCoverBandwidth(j) PROVE Quiet
    <3>1. EffectiveLimit' <= EffectiveLimit
      BY <2>2, LimitAssumption
      DEF BeginCoverBandwidth, TypeOK, EffectiveLimit, downloadLimitWithCoverHoldLocked
    <3> QED
      BY <2>2, <3>1 DEF BeginCoverBandwidth, Quiet, queueVars
  <2> QED
    BY <1>2, <1>5, <2>1, <2>2 DEF Request, QueuePush, AppendItem
<1>6. ASSUME NEW c \in Clients, ClientStep(c) PROVE Woken \/ Quiet
  BY <1>2, <1>3, <1>6
  DEF ClientStep, QueuePushInsert, PreemptBackgroundDownload, CancelOneBackgroundDownload,
      PauseMark
<1>7. ASSUME NEW g \in SlotRuns, SlotStep(g) PROVE Woken \/ Quiet
  BY <1>2, <1>7
  DEF SlotStep, StartDownloadSkip, StartDownload, WaitDownload, ReleaseSlot, Woken,
      wakeDownloader
<1>8. ASSUME NEW w \in Workers, WorkerStep(w) PROVE Woken \/ Quiet
  BY <1>2, <1>3, <1>8 DEF WorkerStep, MarkCompleted, FinishDownload, Requeue, RequeueInsert
<1>9. ASSUME NEW j \in CoverJobs, CoverStep(j) PROVE Woken \/ Quiet
  BY <1>2, <1>9
  DEF CoverStep, CoverCancel, CoverCheck, CoverDone, EndCoverBandwidth, Woken, wakeDownloader
<1> QED
  BY <1>4, <1>5, <1>6, <1>7, <1>8, <1>9 DEF Next

\* What NoLostWakeup says of a sleeping loop.
NothingToStart(limit) ==
    dlActive < limit =>
        /\ dlPriQueue = <<>>
        /\ dlQueue = <<>> \/ dlActive - dlActivePri >= BackgroundCap(limit)

LEMMA NothingStays ==
    ASSUME TypeOK, TypeOK', NEW a \in Nat, NEW b \in Nat, b <= a, NothingToStart(a),
           UNCHANGED <<dlActive, dlActivePri>>,
           dlPriQueue = <<>> => dlPriQueue' = <<>>,
           dlQueue = <<>> => dlQueue' = <<>>
    PROVE  dlActive' < b =>
              /\ dlPriQueue' = <<>>
              /\ dlQueue' = <<>> \/ dlActive' - dlActivePri' >= BackgroundCap(b)'
BY CapMonotone DEF NothingToStart, TypeOK, BackgroundCap, downloadReservedSlots

\* A loop that goes to sleep has nothing it could start, as far as the limit
\* it read says.
LEMMA TryBackgroundSleeps ==
    ASSUME TypeOK, NEW limit \in Nat, dlPriQueue = <<>>, TryBackground(limit), sched'.pc = "wait"
    PROVE  NothingToStart(limit) /\ UNCHANGED queueVars
BY DEF TryBackground, PopBackground, Sleep, NothingToStart, TypeOK

LEMMA NextWake ==
    TypeOK /\ TypeOK' /\ LimitFresh /\ NoLostWakeup /\ [Next]_vars => LimitFresh' /\ NoLostWakeup'
<1> SUFFICES ASSUME TypeOK, TypeOK', LimitFresh, NoLostWakeup, [Next]_vars
             PROVE  LimitFresh' /\ NoLostWakeup'
  OBVIOUS
<1>1. EffectiveLimit \in Nat /\ EffectiveLimit' \in Nat
  BY LimitType
<1>2. /\ NoLostWakeup <=> (sched.pc = "wait" /\ ~dlWake => NothingToStart(EffectiveLimit))
      /\ NoLostWakeup' <=> (sched'.pc = "wait" /\ ~dlWake' => NothingToStart(EffectiveLimit)')
  BY DEF NoLostWakeup, NothingToStart, EffectiveLimit
<1>3. CASE Woken
  BY <1>2, <1>3 DEF Woken, LimitFresh
<1>4. CASE Quiet
  <2>1. LimitFresh'
    <3>1. SUFFICES ASSUME sched.pc \in {"check", "skip"}, ~dlWake
                   PROVE  EffectiveLimit' <= sched.limit /\ (sched.pri \/ dlPriQueue' = <<>>)
      BY <1>4 DEF LimitFresh, Quiet
    <3>2. sched.limit \in Nat
      BY DEF TypeOK, SchedState
    <3> QED
      BY <1>1, <1>4, <3>1, <3>2 DEF LimitFresh, Quiet
  <2>2. ASSUME sched'.pc = "wait", ~dlWake' PROVE NothingToStart(EffectiveLimit)'
    <3>1. NothingToStart(EffectiveLimit)
      BY <1>2, <1>4, <2>2 DEF Quiet
    <3> QED
      BY <1>1, <1>4, <3>1, NothingStays DEF Quiet, NothingToStart
  <2> QED
    BY <1>2, <2>1, <2>2
<1>5. CASE SchedulerStep
  <2>1. UNCHANGED slotVars => EffectiveLimit' = EffectiveLimit
    BY DEF slotVars, EffectiveLimit, downloadLimitWithCoverHoldLocked
  <2>2. CASE TryStartDownload
    <3>1. UNCHANGED <<slotVars, dlWake>>
      BY <2>2 DEF TryStartDownload
    <3>2. CASE sched'.pc = "wait"
      <4>1. NothingToStart(EffectiveLimit) /\ UNCHANGED queueVars
        <5>1. CASE dlActive >= EffectiveLimit
          BY <1>1, <2>2, <5>1 DEF TryStartDownload, Sleep, NothingToStart, TypeOK, EffectiveLimit
        <5>2. CASE ~(dlActive >= EffectiveLimit)
          BY <1>1, <2>2, <3>2, <5>2, TryBackgroundSleeps
          DEF TryStartDownload, PopPriority, EffectiveLimit
        <5> QED
          BY <5>1, <5>2
      <4>2. NothingToStart(EffectiveLimit)'
        BY <1>1, <2>1, <3>1, <4>1, NothingStays DEF slotVars, queueVars, NothingToStart
      <4> QED
        BY <1>2, <3>2, <4>2 DEF LimitFresh
    <3>3. CASE sched'.pc # "wait"
      <4>1. sched'.limit = EffectiveLimit /\ (sched'.pri \/ dlPriQueue' = <<>>)
        BY <2>2, <3>3 DEF TryStartDownload, TryBackground, PopPriority, PopBackground, Sleep,
                          SchedWait, EffectiveLimit
      <4> QED
        BY <1>1, <1>2, <2>1, <3>1, <3>3, <4>1 DEF LimitFresh
    <3> QED
      BY <3>2, <3>3
  <2>3. CASE PopCheck
    <3>1. /\ sched'.pc \in {"skip", "take"} /\ sched.pc = "check"
          /\ sched'.limit = sched.limit /\ sched'.pri = sched.pri
          /\ UNCHANGED <<slotVars, dlWake, dlPriQueue>>
      BY <2>3 DEF PopCheck, TypeOK, SchedState, queueVars
    <3> QED
      BY <1>2, <2>1, <3>1 DEF LimitFresh
  <2>4. CASE PopSkip
    <3>1. UNCHANGED <<slotVars, dlWake>> /\ sched.pc = "skip" /\ sched.limit \in Nat
      BY <2>4 DEF PopSkip, TypeOK, SchedState
    <3>2. ASSUME ~dlWake PROVE EffectiveLimit <= sched.limit /\ (sched.pri \/ dlPriQueue = <<>>)
      BY <3>1, <3>2 DEF LimitFresh
    <3>3. CASE sched'.pc = "wait"
      <4>1. SUFFICES ASSUME ~dlWake PROVE NothingToStart(EffectiveLimit)'
        BY <1>2, <3>1, <3>3 DEF LimitFresh
      <4>2. NothingToStart(sched.limit) /\ UNCHANGED queueVars
        <5>1. CASE sched.pri
          BY <2>4, <3>1, <3>3, <5>1, TryBackgroundSleeps DEF PopSkip, PopPriority
        <5>2. CASE ~sched.pri
          BY <2>4, <3>2, <3>3, <4>1, <5>2 DEF PopSkip, PopBackground, Sleep, NothingToStart
        <5> QED
          BY <5>1, <5>2
      <4> QED
        BY <1>1, <2>1, <3>1, <3>2, <4>1, <4>2, NothingStays DEF slotVars, queueVars, NothingToStart
    <3>4. CASE sched'.pc # "wait"
      <4>1. sched'.limit = sched.limit
        BY <2>4, <3>4 DEF PopSkip, TryBackground, PopPriority, PopBackground, Sleep, SchedWait
      <4>2. ~dlWake => sched'.pri \/ dlPriQueue' = <<>>
        BY <2>4, <3>2, <3>4
        DEF PopSkip, TryBackground, PopPriority, PopBackground, Sleep, SchedWait
      <4> QED
        BY <1>2, <2>1, <3>1, <3>2, <3>4, <4>1, <4>2 DEF LimitFresh
    <3> QED
      BY <3>3, <3>4
  <2>5. ASSUME sched'.pc = "top" PROVE LimitFresh' /\ NoLostWakeup'
    BY <1>2, <2>5 DEF LimitFresh
  <2> QED
    BY <1>5, <2>2, <2>3, <2>4, <2>5 DEF SchedulerStep, TakeSlot, SchedulerWake, SchedTop
<1> QED
  BY <1>3, <1>4, <1>5, WakeSteps

\* The loop never sleeps on a job it could start.
THEOREM WakeupsKept == Spec => []NoLostWakeup
<1>1. Init => LimitFresh /\ NoLostWakeup
  BY DEF Init, LimitFresh, NoLostWakeup, SchedTop
<1> QED
  BY <1>1, NextWake, TypeCorrect, PTL DEF Spec
=============================================================================
