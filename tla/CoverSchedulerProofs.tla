------------------------ MODULE CoverSchedulerProofs ------------------------
(***************************************************************************)
(* Proofs about CoverScheduler, for every finite set of items and any      *)
(* number of handlers and goroutines.                                      *)
(***************************************************************************)
EXTENDS CoverScheduler, SequenceLemmas, FiniteSetTheorems

-----------------------------------------------------------------------------
(* The inductive invariant.                                                *)

\* s.coverCancels names the goroutine of each active cover.
Registered ==
    /\ \A j \in Building : cancels[job[j].id] = j
    /\ \A id \in Ids :
          /\ isActive(id) <=> cancels[id] # NoJob
          /\ cancels[id] # NoJob => job[cancels[id]] # IdleJob /\ job[cancels[id]].id = id

\* The loop has started at most coverLimit covers.
OneActive == \A i, k \in Ids : isActive(i) /\ isActive(k) => i = k

\* While covers are paused none is queued, and a job that runs is canceled or
\* is about to be, by the handler that has picked it.
PausedIsTold ==
    paused =>
        /\ Queued = {}
        /\ \A j \in Building :
              job[j].canceled \/ \E r \in Calls : call[r].at = "cancel" /\ j \in call[r].jobs

\* The loop sleeps without a token only if no job is queued at all.
SleepsOnNothing == sched = "wait" /\ ~wake /\ MayPop => Queued = {}

CoverInv ==
    TypeOK /\ Registered /\ OneActive /\ PendingIsReal /\ PausedIsTold /\ SleepsOnNothing

-----------------------------------------------------------------------------
(* Facts about the operators of the model.                                 *)

LEMMA IdleIsNoState == IdleJob \notin JobStates /\ IdleCall \notin CallStates
BY DEF IdleJob, JobStates, IdleCall, CallStates

LEMMA RunningJob ==
    ASSUME TypeOK, NEW j \in Jobs, job[j] # IdleJob
    PROVE  job[j] \in JobStates /\ job[j].id \in Ids
BY DEF TypeOK, JobStates

\* The loop may start a cover only if none is active.
LEMMA MayPopMeansIdle ==
    ASSUME TypeOK, MayPop, NEW id \in Ids
    PROVE  ~isActive(id)
<1> DEFINE act == {i \in Ids : isActive(i)}
<1>1. IsFiniteSet(act)
  BY CoverAssumption, FS_Subset
<1>2. Cardinality(act) \in Nat /\ Cardinality(act) < 1
  BY <1>1, FS_CardinalityType DEF MayPop, coverLimit
<1>3. Cardinality(act) = 0
  BY <1>2
<1>4. act = {}
  BY <1>1, <1>3, FS_EmptySet
<1> QED
  BY <1>4

LEMMA WithoutSet ==
    ASSUME NEW q \in Seq(Ids), NEW id
    PROVE  Without(q, id) \in Seq(Ids) /\ ToSet(Without(q, id)) = ToSet(q) \ {id}
<1>1. /\ Keep(q, Ids \ {id}) \in Seq(Ids \cap (Ids \ {id}))
      /\ ToSet(Keep(q, Ids \ {id})) = ToSet(q) \cap (Ids \ {id})
  BY KeepProperties
<1>2. ToSet(q) \subseteq Ids
  BY DEF ToSet
<1>3. Seq(Ids \cap (Ids \ {id})) \subseteq Seq(Ids)
  OBVIOUS
<1> QED
  BY <1>1, <1>2, <1>3 DEF Without

\* popCoverJobLocked takes the first entry that needs a cover.
LEMMA SkippedProperties ==
    ASSUME NEW q \in Seq(Ids)
    PROVE  /\ Skipped(q) \in 0..Len(q)
           /\ Skipped(q) # 0 => itemNeedsCoverBuild(q[Skipped(q)])
<1> DEFINE I == {i \in 1..Len(q) : itemNeedsCoverBuild(q[i])}
<1>1. Skipped(q) = IF I # {} THEN Min(I) ELSE 0
  BY DEF Skipped, SelectInSeq
<1>2. Len(q) \in Nat
  OBVIOUS
<1>3. CASE I # {}
  <2>1. \E m \in I : \A k \in I : m <= k
    <3>1. I \subseteq Nat
      OBVIOUS
    <3> HIDE DEF I
    <3> QED
      BY <1>3, <3>1, SmallestMember
  <2>2. Min(I) \in I
    <3> HIDE DEF I
    <3> QED
      BY <2>1 DEF Min
  <2>3. Skipped(q) \in I
    BY <1>1, <1>3, <2>2
  <2>4. Skipped(q) \in 1..Len(q) /\ itemNeedsCoverBuild(q[Skipped(q)])
    BY <2>3
  <2> QED
    BY <1>2, <2>4
<1>4. CASE I = {}
  BY <1>1, <1>2, <1>4
<1> QED
  BY <1>3, <1>4

\* A queue is what the pop drops, what it takes and what it leaves.
LEMMA PopSplits ==
    ASSUME NEW q \in Seq(Ids)
    PROVE  /\ Rest(q) \in Seq(Ids)
           /\ Skipped(q) # 0 =>
                 q[Skipped(q)] \in Ids /\ ToSet(q) = Dropped(q) \cup {q[Skipped(q)]} \cup ToSet(Rest(q))
           /\ Skipped(q) = 0 => Dropped(q) = ToSet(q)
<1>1. CASE Skipped(q) = 0
  <2>1. <<>> \in Seq(Ids)
    OBVIOUS
  <2> QED
    BY <1>1, <2>1 DEF Rest, Dropped
<1>2. CASE Skipped(q) # 0
  <2>1. Skipped(q) \in 1..Len(q)
    <3>1. Len(q) \in Nat /\ Skipped(q) \in 0..Len(q)
      BY SkippedProperties
    <3> QED
      BY <1>2, <3>1
  <2> QED
    BY <1>2, <2>1, SliceSet DEF Rest, Dropped
<1> QED
  BY <1>1, <1>2

LEMMA EmptySet == ToSet(<<>>) = {}
BY DEF ToSet

LEMMA InitInv == Init => CoverInv
<1> SUFFICES ASSUME Init PROVE CoverInv
  OBVIOUS
<1>1. TypeOK
  <2>1. /\ active \in [Ids -> {"no", "bg", "pri"}] /\ cancels \in [Ids -> Jobs \cup {NoJob}]
        /\ job \in [Jobs -> {IdleJob} \cup JobStates]
        /\ call \in [Calls -> {IdleCall} \cup CallStates]
    BY DEF Init
  <2>2. priQueue \in Seq(Ids) /\ queue \in Seq(Ids) /\ calls \in 0..MaxCalls
    BY CoverAssumption DEF Init
  <2> QED
    BY <2>1, <2>2 DEF Init, TypeOK
<1>2. Building = {}
  BY DEF Init, Building
<1>3. \A id \in Ids : ~isActive(id) /\ cancels[id] = NoJob
  BY DEF Init, isActive
<1>4. Registered /\ OneActive
  BY <1>2, <1>3 DEF Registered, OneActive
<1>5. PendingIsReal /\ PausedIsTold /\ SleepsOnNothing
  BY DEF Init, PendingIsReal, PausedIsTold, SleepsOnNothing
<1> QED
  BY <1>1, <1>4, <1>5 DEF CoverInv

-----------------------------------------------------------------------------
(* Types.                                                                  *)

LEMMA BeginType ==
    ASSUME TypeOK, NEW r \in Calls, NEW state \in CallStates, Begin(r, state)
    PROVE  call' \in [Calls -> {IdleCall} \cup CallStates] /\ calls' \in 0..MaxCalls
<1>1. calls \in 0..MaxCalls /\ calls < MaxCalls /\ calls' = calls + 1 /\ MaxCalls \in Nat
  BY CoverAssumption DEF TypeOK, Begin
<1>2. calls' \in 0..MaxCalls
  BY <1>1
<1>3. call' \in [Calls -> {IdleCall} \cup CallStates]
  BY DEF TypeOK, Begin
<1> QED
  BY <1>2, <1>3

LEMMA GoesType ==
    ASSUME TypeOK, NEW r \in Calls, NEW state \in {IdleCall} \cup CallStates, Goes(r, state)
    PROVE  call' \in [Calls -> {IdleCall} \cup CallStates] /\ calls' \in 0..MaxCalls
BY DEF TypeOK, Goes

\* A request that looks for a cover, at any of its points.
LEMMA RequestStates ==
    ASSUME TypeOK, NEW r \in Calls, call[r].at \in {"look", "enqueue", "wait"},
           NEW a \in {"look", "enqueue", "wait"}
    PROVE  [call[r] EXCEPT !.at = a] \in CallStates /\ call[r].id \in Ids /\ call[r].pri \in BOOLEAN
<1>1. call[r] \in [at : {"look", "enqueue", "wait"}, id : Ids, pri : BOOLEAN, retry : BOOLEAN]
  <2>1. call[r] \in {IdleCall} \cup CallStates
    BY DEF TypeOK
  <2> QED
    BY <2>1 DEF CallStates, IdleCall
<1> QED
  BY <1>1 DEF CallStates

LEMMA AnswerType ==
    ASSUME TypeOK, NEW r \in Calls, call[r].at = "enqueue", NEW pos, Answer(r, pos)
    PROVE  call' \in [Calls -> {IdleCall} \cup CallStates] /\ calls' \in 0..MaxCalls
<1>1. [call[r] EXCEPT !.at = "wait"] \in CallStates
  BY RequestStates
<1> QED
  BY <1>1, GoesType DEF Answer

\* The browser's state, as its handler holds it.
LEMMA StateOfBrowser ==
    ASSUME TypeOK, NEW r \in Calls, call[r].at = "state"
    PROVE  call[r] \in [at : {"state"}, paused : BOOLEAN, visible : SUBSET Videos, ordered : Seq(Ids)]
<1>1. call[r] \in {IdleCall} \cup CallStates
  BY DEF TypeOK
<1> QED
  BY <1>1 DEF CallStates, IdleCall

LEMMA CancelStates ==
    ASSUME TypeOK, NEW r \in Calls, call[r].at = "cancel"
    PROVE  call[r].jobs \subseteq Jobs
<1>1. call[r] \in {IdleCall} \cup CallStates
  BY DEF TypeOK
<1> QED
  BY <1>1 DEF CallStates, IdleCall

LEMMA StoppedAreJobs ==
    ASSUME TypeOK, NEW S \in SUBSET Ids
    PROVE  {cancels[id] : id \in S} \ {NoJob} \in SUBSET Jobs
BY DEF TypeOK

LEMMA KeptOfIds ==
    ASSUME NEW q \in Seq(Ids), NEW S
    PROVE  Keep(q, S) \in Seq(Ids) /\ ToSet(Keep(q, S)) = ToSet(q) \cap S
<1>1. Keep(q, S) \in Seq(Ids \cap S)
  BY KeepProperties
<1>2. Seq(Ids \cap S) \subseteq Seq(Ids)
  OBVIOUS
<1> QED
  BY <1>1, <1>2, KeepProperties

\* What setCoverState reads before its section.
LEMMA ReadStates ==
    ASSUME TypeOK, NEW pause \in BOOLEAN, NEW ids \in Orders
    PROVE  [at |-> "state", paused |-> pause, visible |-> ToSet(Keep(ids, items \cap Videos)),
            ordered |-> Keep(Keep(ids, items \cap Videos), Ids \ (local \cup cached))] \in CallStates
<1>1. ids \in Seq(Ids)
  <2>1. PICK n \in 0..Cardinality(Ids) : ids \in [1..n -> Ids]
    BY DEF Orders
  <2>2. n \in Nat
    BY CoverAssumption, FS_CardinalityType
  <2> QED
    BY <2>1, <2>2
<1>2. /\ Keep(ids, items \cap Videos) \in Seq(Ids)
      /\ ToSet(Keep(ids, items \cap Videos)) \in SUBSET Videos
  BY <1>1, KeptOfIds
<1>3. Keep(Keep(ids, items \cap Videos), Ids \ (local \cup cached)) \in Seq(Ids)
  BY <1>2, KeptOfIds
<1> QED
  BY <1>2, <1>3 DEF CallStates

LEMMA CallTypes ==
    ASSUME TypeOK, NEW r \in Calls, NewCall(r) \/ CallStep(r) \/ WaitTimeout(r)
    PROVE  TypeOK'
<1> USE DEF TypeOK, files, queues, running
<1>1. IdleCall \in {IdleCall} \cup CallStates
  OBVIOUS
<1>2. ASSUME NEW id \in Ids, NEW asked \in BOOLEAN, NEW retry \in BOOLEAN,
             CoverRequestPolicy(r, id, asked, retry)
      PROVE  TypeOK'
  <2>1. [at |-> "look", id |-> id, pri |-> id \in Videos, retry |-> retry] \in CallStates
    BY DEF CallStates
  <2>2. call' \in [Calls -> {IdleCall} \cup CallStates] /\ calls' \in 0..MaxCalls
    BY <1>2, <2>1, BeginType DEF CoverRequestPolicy
  <2> QED
    BY <1>2, <2>2 DEF CoverRequestPolicy
<1>3. ASSUME NEW pause \in BOOLEAN, NEW ids \in Orders, ReadCoverState(r, pause, ids)
      PROVE  TypeOK'
  <2>1. call' \in [Calls -> {IdleCall} \cup CallStates] /\ calls' \in 0..MaxCalls
    BY <1>3, BeginType, ReadStates DEF ReadCoverState
  <2> QED
    BY <1>3, <2>1 DEF ReadCoverState
<1>4. CASE PreemptForPlayback(r)
  <2>1. [at |-> "cancel", jobs |-> {cancels[id] : id \in Ids} \ {NoJob}] \in CallStates
    BY StoppedAreJobs DEF CallStates
  <2>2. call' \in [Calls -> {IdleCall} \cup CallStates] /\ calls' \in 0..MaxCalls
    BY <1>4, <2>1, BeginType DEF PreemptForPlayback
  <2> QED
    BY <1>4, <2>2 DEF PreemptForPlayback, Unmarked
<1>5. CASE LookAtCache(r)
  <2>1. /\ [call[r] EXCEPT !.at = IF call[r].id \in cached THEN "wait" ELSE "enqueue"] \in CallStates
        /\ call[r].at = "look"
    BY <1>5, RequestStates DEF LookAtCache
  <2>2. call' \in [Calls -> {IdleCall} \cup CallStates] /\ calls' \in 0..MaxCalls
    BY <1>5, <2>1, GoesType DEF LookAtCache
  <2> QED
    BY <1>5, <2>2 DEF LookAtCache
<1>6. CASE EnqueueCoverBuild(r)
  <2>1. call[r].at = "enqueue" /\ call[r].id \in Ids /\ call[r].pri \in BOOLEAN
    BY <1>6, RequestStates DEF EnqueueCoverBuild
  <2>2. \A pos : Answer(r, pos) =>
           call' \in [Calls -> {IdleCall} \cup CallStates] /\ calls' \in 0..MaxCalls
    BY <2>1, AnswerType
  <2>3. call' \in [Calls -> {IdleCall} \cup CallStates] /\ calls' \in 0..MaxCalls
    BY <1>6, <2>2 DEF EnqueueCoverBuild
  <2>4. /\ <<call[r].id>> \o priQueue \in Seq(Ids) /\ Append(queue, call[r].id) \in Seq(Ids)
        /\ <<call[r].id>> \o Without(priQueue, call[r].id) \in Seq(Ids)
        /\ Without(queue, call[r].id) \in Seq(Ids)
    BY <2>1, WithoutSet, PrependSet, AppendProperties
  <2>5. priQueue' \in Seq(Ids) /\ queue' \in Seq(Ids) /\ pending' \subseteq Ids /\ wake' \in BOOLEAN
    BY <1>6, <2>1, <2>4 DEF EnqueueCoverBuild, Push
  <2> QED
    BY <1>6, <2>3, <2>5 DEF EnqueueCoverBuild
<1>7. CASE WaitCoverBuild(r) \/ WaitTimeout(r)
  <2>1. call' \in [Calls -> {IdleCall} \cup CallStates] /\ calls' \in 0..MaxCalls
    BY <1>1, <1>7, GoesType DEF WaitCoverBuild, WaitTimeout
  <2> QED
    BY <1>7, <2>1 DEF WaitCoverBuild, WaitTimeout
<1>8. CASE SetCoverState(r)
  <2> DEFINE wanted == Keep(call[r].ordered, {id \in Ids \ cached : ~isActive(id)})
  <2>1. /\ call[r].paused \in BOOLEAN /\ call[r].visible \in SUBSET Videos
        /\ call[r].ordered \in Seq(Ids)
    BY <1>8, StateOfBrowser DEF SetCoverState
  <2>2. wanted \in Seq(Ids) /\ <<>> \in Seq(Ids)
    BY <2>1, KeptOfIds
  <2>3. Stopped(call[r].paused, call[r].visible, call[r].ordered) \in SUBSET Jobs
    BY StoppedAreJobs DEF Stopped
  <2>4. [at |-> "cancel", jobs |-> Stopped(call[r].paused, call[r].visible, call[r].ordered)] \in CallStates
    BY <2>3 DEF CallStates
  <2>5. call' \in [Calls -> {IdleCall} \cup CallStates] /\ calls' \in 0..MaxCalls
    BY <1>8, <2>4, GoesType DEF SetCoverState
  <2> HIDE DEF wanted
  <2>6. /\ priQueue' = IF call[r].paused THEN <<>> ELSE wanted
        /\ queue' = <<>> /\ pending' = Unmarked \cup ToSet(priQueue')
        /\ paused' = call[r].paused /\ visible' = call[r].visible
    BY <1>8 DEF SetCoverState, wanted
  <2>7. priQueue' \in Seq(Ids) /\ queue' \in Seq(Ids)
    BY <2>2, <2>6
  <2>8. pending' \subseteq Ids
    BY <2>6, <2>7 DEF Unmarked, ToSet
  <2> QED
    BY <1>8, <2>1, <2>5, <2>6, <2>7, <2>8 DEF SetCoverState
<1>9. CASE CancelCovers(r)
  <2>1. call' \in [Calls -> {IdleCall} \cup CallStates] /\ calls' \in 0..MaxCalls
    BY <1>1, <1>9, GoesType DEF CancelCovers
  <2>2. \A j \in Jobs : job[j] # IdleJob => [job[j] EXCEPT !.canceled = TRUE] \in JobStates
    BY RunningJob DEF JobStates
  <2>3. job' \in [Jobs -> {IdleJob} \cup JobStates]
    BY <1>9, <2>2 DEF CancelCovers
  <2> QED
    BY <1>9, <2>1, <2>3 DEF CancelCovers
<1> QED
  BY <1>2, <1>3, <1>4, <1>5, <1>6, <1>7, <1>8, <1>9 DEF NewCall, CallStep

LEMMA StartType ==
    ASSUME TypeOK, NEW j \in Jobs, NEW id \in Ids, NEW pri \in BOOLEAN, StartCover(j, id, pri)
    PROVE  /\ active' \in [Ids -> {"no", "bg", "pri"}] /\ cancels' \in [Ids -> Jobs \cup {NoJob}]
           /\ job' \in [Jobs -> {IdleJob} \cup JobStates]
BY DEF TypeOK, StartCover, JobStates

LEMMA SchedulerTypes == TypeOK /\ SchedulerStep => TypeOK'
<1> SUFFICES ASSUME TypeOK, SchedulerStep PROVE TypeOK'
  OBVIOUS
<1> USE DEF TypeOK, files, queues, running
<1>1. ASSUME NEW j \in Jobs, PopPriority(j) PROVE TypeOK'
  <2>1. priQueue[Skipped(priQueue)] \in Ids /\ Rest(priQueue) \in Seq(Ids)
    BY <1>1, PopSplits DEF PopPriority
  <2>2. /\ active' \in [Ids -> {"no", "bg", "pri"}] /\ cancels' \in [Ids -> Jobs \cup {NoJob}]
        /\ job' \in [Jobs -> {IdleJob} \cup JobStates]
    BY <1>1, <2>1, StartType DEF PopPriority
  <2> QED
    BY <1>1, <2>1, <2>2 DEF PopPriority
<1>2. ASSUME NEW j \in Jobs, PopBackground(j) PROVE TypeOK'
  <2>1. queue[Skipped(queue)] \in Ids /\ Rest(queue) \in Seq(Ids) /\ <<>> \in Seq(Ids)
    BY <1>2, PopSplits DEF PopBackground
  <2>2. /\ active' \in [Ids -> {"no", "bg", "pri"}] /\ cancels' \in [Ids -> Jobs \cup {NoJob}]
        /\ job' \in [Jobs -> {IdleJob} \cup JobStates]
    BY <1>2, <2>1, StartType DEF PopBackground
  <2> QED
    BY <1>2, <2>1, <2>2 DEF PopBackground
<1>3. CASE PopNothing
  <2>1. <<>> \in Seq(Ids)
    OBVIOUS
  <2> QED
    BY <1>3, <2>1 DEF PopNothing
<1>4. CASE SchedulerWake
  BY <1>4 DEF SchedulerWake
<1> QED
  BY <1>1, <1>2, <1>3, <1>4 DEF SchedulerStep

\* A goroutine that moves on keeps its cover and whether it is canceled.
LEMMA JobMovesType ==
    ASSUME TypeOK, NEW j \in Jobs, NEW from \in {"begin", "check", "build", "finish"},
           job[j].at = from
    PROVE  job[j] \in JobStates
<1>1. job[j] \in {IdleJob} \cup JobStates
  BY DEF TypeOK
<1> QED
  BY <1>1 DEF IdleJob

LEMMA JobTypes == ASSUME TypeOK, NEW j \in Jobs, JobStep(j) PROVE TypeOK'
<1> USE DEF TypeOK, files, queues, running
<1>1. CASE BandwidthReady(j)
  <2>1. job[j] \in JobStates
    BY <1>1, JobMovesType DEF BandwidthReady, JobMoves
  <2>2. job' \in [Jobs -> {IdleJob} \cup JobStates]
    BY <1>1, <2>1 DEF BandwidthReady, JobMoves, JobStates
  <2> QED
    BY <1>1, <2>2 DEF BandwidthReady, JobMoves
<1>2. CASE CheckContext(j)
  <2>1. job[j] \in JobStates
    BY <1>2, JobMovesType DEF CheckContext, JobMoves
  <2>2. job' \in [Jobs -> {IdleJob} \cup JobStates]
    BY <1>2, <2>1 DEF CheckContext, JobMoves, JobStates
  <2> QED
    BY <1>2, <2>2 DEF CheckContext, JobMoves
<1>3. CASE BuildCover(j)
  <2>1. job[j] \in JobStates
    BY <1>3, JobMovesType DEF BuildCover, JobMoves
  <2>2. job' \in [Jobs -> {IdleJob} \cup JobStates]
    <3>1. /\ [job[j] EXCEPT !.at = "finish"] \in JobStates
          /\ \A e \in {"fail", "canceled"} : [job[j] EXCEPT !.at = "finish", !.err = e] \in JobStates
      BY <2>1 DEF JobStates
    <3>2. \E state \in JobStates : job' = [job EXCEPT ![j] = state]
      BY <1>3, <3>1 DEF BuildCover, JobMoves
    <3> QED
      BY <3>2
  <2>3. cached' \subseteq Ids
    BY <1>3, <2>1 DEF BuildCover, JobStates
  <2>4. UNCHANGED <<items, local, paused, visible, queues, running, failed, wake, sched, call, calls>>
    BY <1>3 DEF BuildCover, JobMoves
  <2> QED
    BY <2>2, <2>3, <2>4
<1>4. CASE FinishCover(j)
  <2>2. job' \in [Jobs -> {IdleJob} \cup JobStates]
    BY <1>4 DEF FinishCover, JobMoves
  <2>3. failed' \subseteq Posters
    BY <1>4 DEF FinishCover, Cooled
  <2>4. /\ active' \in [Ids -> {"no", "bg", "pri"}] /\ cancels' \in [Ids -> Jobs \cup {NoJob}]
        /\ pending' \subseteq Ids /\ wake' \in BOOLEAN
    BY <1>4 DEF FinishCover
  <2>5. UNCHANGED <<files, priQueue, queue, paused, visible, sched, call, calls>>
    BY <1>4 DEF FinishCover, JobMoves
  <2> QED
    BY <2>2, <2>3, <2>4, <2>5
<1> QED
  BY <1>1, <1>2, <1>3, <1>4 DEF JobStep

LEMMA EnvironmentTypes == TypeOK /\ Environment => TypeOK'
<1> SUFFICES ASSUME TypeOK, Environment PROVE TypeOK'
  OBVIOUS
<1> USE DEF TypeOK, files, queues, running
<1>1. ASSUME NEW id \in Ids, Import(id) \/ Download(id) \/ LocalCover(id) \/ CooldownEnds(id)
      PROVE  TypeOK'
  BY <1>1 DEF Import, Download, LocalCover, CooldownEnds
<1>2. CASE ResetImport
  <2>1. calls' \in 0..MaxCalls
    BY <1>2, CoverAssumption DEF ResetImport
  <2> QED
    BY <1>2, <2>1 DEF ResetImport
<1> QED
  BY <1>1, <1>2 DEF Environment

LEMMA TypeStep == TypeOK /\ [Next]_vars => TypeOK'
<1> SUFFICES ASSUME TypeOK, [Next]_vars PROVE TypeOK'
  OBVIOUS
<1>1. CASE UNCHANGED vars
  BY <1>1 DEF TypeOK, vars, files, queues, running
<1> QED
  BY <1>1, CallTypes, SchedulerTypes, JobTypes, EnvironmentTypes DEF Next

-----------------------------------------------------------------------------
(* Who builds a cover.                                                     *)

\* The cover that a goroutine takes, and that nobody else builds.
LEMMA StartRegisters ==
    ASSUME TypeOK, Registered, MayPop, NEW j \in Jobs, NEW id \in Ids, NEW pri \in BOOLEAN,
           StartCover(j, id, pri)
    PROVE  /\ Registered' /\ OneActive'
           /\ \A i \in Ids : isActive(i)' <=> i = id
           /\ job'[j].id = id /\ \A k \in Jobs \ {j} : job'[k] = job[k]
<1>1. \A i \in Ids : ~isActive(i) /\ cancels[i] = NoJob
  BY MayPopMeansIdle DEF Registered
<1>2. /\ active' = [active EXCEPT ![id] = IF pri THEN "pri" ELSE "bg"]
      /\ cancels' = [cancels EXCEPT ![id] = j]
  BY DEF StartCover
<1>3. job' \in [Jobs -> {IdleJob} \cup JobStates] /\ job'[j] # IdleJob /\ job'[j].id = id
      /\ \A k \in Jobs \ {j} : job'[k] = job[k]
  BY DEF StartCover, TypeOK, IdleJob, JobStates
<1>4. \A i \in Ids : (active'[i] # "no" <=> i = id) /\ cancels'[i] = IF i = id THEN j ELSE NoJob
  BY <1>1, <1>2 DEF TypeOK, isActive
<1>5. \A k \in Jobs : job[k] = IdleJob
  <2> SUFFICES ASSUME NEW k \in Jobs, job[k] # IdleJob PROVE FALSE
    OBVIOUS
  <2>1. cancels[job[k].id] = k /\ job[k].id \in Ids
    BY RunningJob DEF Registered, Building
  <2> QED
    BY <1>1, <2>1, CoverAssumption
<1>6. \A k \in Building' : k = j
  BY <1>3, <1>5 DEF Building
<1>7. Registered'
  BY <1>3, <1>4, <1>6, CoverAssumption DEF Registered, isActive
<1>8. OneActive'
  BY <1>4 DEF OneActive, isActive
<1> QED
  BY <1>3, <1>4, <1>7, <1>8 DEF isActive

\* A step of a goroutine other than its end.
LEMMA MovesKeepRegistered ==
    ASSUME TypeOK, Registered, OneActive, NEW j \in Jobs,
           BandwidthReady(j) \/ CheckContext(j) \/ BuildCover(j)
    PROVE  /\ Registered' /\ OneActive'
           /\ Building' = Building /\ \A k \in Jobs : job'[k].canceled = job[k].canceled
<1>1. /\ job[j] \in JobStates /\ job[j] # IdleJob
      /\ \E state \in JobStates :
            /\ job' = [job EXCEPT ![j] = state]
            /\ state.id = job[j].id /\ state.canceled = job[j].canceled
  <2>1. job[j] \in JobStates
    BY JobMovesType DEF BandwidthReady, CheckContext, BuildCover, JobMoves
  <2>2. job[j] # IdleJob
    BY <2>1, IdleIsNoState
  <2> DEFINE Onward(state) == state \in JobStates /\ state.id = job[j].id /\ state.canceled = job[j].canceled
  <2>3. /\ \A a \in {"check", "build", "finish"} : Onward([job[j] EXCEPT !.at = a])
        /\ \A e \in {"fail", "canceled"} : Onward([job[j] EXCEPT !.at = "finish", !.err = e])
    BY <2>1 DEF JobStates
  <2> HIDE DEF Onward
  <2>4. ASSUME BandwidthReady(j) PROVE \E state : job' = [job EXCEPT ![j] = state] /\ Onward(state)
    BY <2>3, <2>4 DEF BandwidthReady, JobMoves
  <2>5. ASSUME CheckContext(j) PROVE \E state : job' = [job EXCEPT ![j] = state] /\ Onward(state)
    BY <2>3, <2>5 DEF CheckContext, JobMoves
  <2>6. ASSUME BuildCover(j) PROVE \E state : job' = [job EXCEPT ![j] = state] /\ Onward(state)
    BY <2>3, <2>6 DEF BuildCover, JobMoves
  <2> QED
    BY <2>1, <2>2, <2>4, <2>5, <2>6 DEF Onward
<1>2. UNCHANGED running
  BY DEF BandwidthReady, CheckContext, BuildCover
<1>3. /\ \A k \in Jobs : /\ job'[k] # IdleJob <=> job[k] # IdleJob
                         /\ job'[k].id = job[k].id /\ job'[k].canceled = job[k].canceled
  BY <1>1, IdleIsNoState DEF TypeOK
<1>4. Building' = Building
  BY <1>3 DEF Building
<1>5. Registered'
  BY <1>2, <1>3, <1>4 DEF Registered, running, isActive, TypeOK, Building
<1>6. OneActive'
  BY <1>2 DEF OneActive, isActive, running
<1> QED
  BY <1>3, <1>4, <1>5, <1>6

LEMMA FinishFrees ==
    ASSUME TypeOK, Registered, OneActive, NEW j \in Jobs, FinishCover(j)
    PROVE  /\ Registered' /\ OneActive' /\ Building' = {}
           /\ job[j].id \in Ids /\ \A i \in Ids : isActive(i) => i = job[j].id
<1>1. job[j] \in JobStates /\ job[j] # IdleJob /\ job[j].id \in Ids
  <2>1. job[j] \in JobStates
    BY JobMovesType DEF FinishCover, JobMoves
  <2> QED
    BY <2>1, IdleIsNoState DEF JobStates
<1>2. isActive(job[j].id) /\ cancels[job[j].id] = j
  BY <1>1, CoverAssumption DEF Registered, Building
<1>3. \A i \in Ids : isActive(i) => i = job[j].id
  BY <1>1, <1>2 DEF OneActive
<1>4. /\ active' = [active EXCEPT ![job[j].id] = "no"]
      /\ cancels' = [cancels EXCEPT ![job[j].id] = NoJob]
      /\ job' = [job EXCEPT ![j] = IdleJob]
  BY DEF FinishCover, JobMoves
<1>5. \A i \in Ids : active'[i] = "no" /\ cancels'[i] = NoJob
  BY <1>1, <1>3, <1>4 DEF TypeOK, isActive, Registered
<1>6. \A k \in Jobs : job'[k] = IdleJob
  <2> SUFFICES ASSUME NEW k \in Jobs, k # j, job[k] # IdleJob PROVE FALSE
    BY <1>4 DEF TypeOK
  <2>1. cancels[job[k].id] = k /\ job[k].id \in Ids
    BY RunningJob DEF Registered, Building
  <2>2. isActive(job[k].id)
    BY <2>1, CoverAssumption DEF Registered
  <2> QED
    BY <1>2, <1>3, <2>1, <2>2
<1>7. Building' = {}
  BY <1>6 DEF Building
<1>8. Registered' /\ OneActive'
  BY <1>5, <1>7 DEF Registered, OneActive, isActive
<1> QED
  BY <1>1, <1>3, <1>7, <1>8

\* The other steps do not register, start or end a job; one cancels.
LEMMA UnregisteredStep ==
    ASSUME Registered, OneActive, UNCHANGED <<running, job>>
    PROVE  Registered' /\ OneActive' /\ Building' = Building
BY DEF Registered, OneActive, isActive, running, Building

LEMMA CancelKeepsRegistered ==
    ASSUME TypeOK, Registered, OneActive, NEW r \in Calls, CancelCovers(r)
    PROVE  /\ Registered' /\ OneActive' /\ Building' = Building
           /\ \A k \in Building : job[k].canceled \/ k \in call[r].jobs => job'[k].canceled
<1>1. \A k \in Jobs : job[k] # IdleJob =>
         job'[k] \in JobStates /\ job'[k].id = job[k].id
         /\ (job[k].canceled \/ k \in call[r].jobs => job'[k].canceled)
  <2> SUFFICES ASSUME NEW k \in Jobs, job[k] # IdleJob
               PROVE  job'[k] \in JobStates /\ job'[k].id = job[k].id
                      /\ (job[k].canceled \/ k \in call[r].jobs => job'[k].canceled)
    OBVIOUS
  <2>1. job[k] \in JobStates
    BY RunningJob
  <2>2. job'[k] = IF k \in call[r].jobs THEN [job[k] EXCEPT !.canceled = TRUE] ELSE job[k]
    BY DEF CancelCovers
  <2> QED
    BY <2>1, <2>2 DEF JobStates
<1>2. \A k \in Jobs : job[k] = IdleJob => job'[k] = IdleJob
  BY DEF CancelCovers
<1>3. Building' = Building
  BY <1>1, <1>2, IdleIsNoState DEF Building
<1>4. UNCHANGED running
  BY DEF CancelCovers
<1>5. Registered'
  BY <1>1, <1>2, <1>3, <1>4, IdleIsNoState DEF Registered, Building, running, isActive, TypeOK
<1>6. OneActive'
  BY <1>4 DEF OneActive, isActive, running
<1> QED
  BY <1>1, <1>3, <1>5, <1>6 DEF Building

-----------------------------------------------------------------------------
(* What is queued.                                                         *)

\* A step that leaves the queues, the jobs and the loop alone.
LEMMA QuietStep ==
    ASSUME CoverInv, UNCHANGED <<paused, queues, running, wake, sched>>
    PROVE  PendingIsReal' /\ SleepsOnNothing'
BY DEF CoverInv, PendingIsReal, SleepsOnNothing, queues, running, Queued, isActive, MayPop

\* A handler that is not about to cancel jobs moves on, and no job is queued.
LEMMA HandlerStep ==
    ASSUME TypeOK, PausedIsTold, NEW r \in Calls, call[r].at # "cancel", NEW state,
           call' = [call EXCEPT ![r] = state],
           UNCHANGED <<paused, job>>, paused => Queued' \subseteq Queued
    PROVE  PausedIsTold'
<1>1. \A q \in Calls \ {r} : call'[q] = call[q]
  BY DEF TypeOK
<1>2. ASSUME paused, NEW j \in Building
      PROVE  job[j].canceled \/ \E q \in Calls : call'[q].at = "cancel" /\ j \in call'[q].jobs
  <2>1. job[j].canceled \/ \E q \in Calls : call[q].at = "cancel" /\ j \in call[q].jobs
    BY <1>2 DEF PausedIsTold
  <2> QED
    BY <1>1, <2>1
<1>3. paused => Queued' = {}
  BY DEF PausedIsTold
<1> QED
  BY <1>2, <1>3 DEF PausedIsTold, Building

\* A request for a cover queues it, with its mark and a token, or moves it to
\* the front.
LEMMA EnqueueStep ==
    ASSUME CoverInv, NEW r \in Calls, EnqueueCoverBuild(r)
    PROVE  CoverInv'
<1> DEFINE id == call[r].id
           pri == call[r].pri
<1>1. TypeOK /\ TypeOK' /\ Registered' /\ OneActive'
  <2>1. TypeOK'
    BY CallTypes DEF CoverInv, CallStep
  <2> QED
    BY <2>1, UnregisteredStep DEF CoverInv, EnqueueCoverBuild
<1>2. call[r].at = "enqueue" /\ id \in Ids /\ UNCHANGED <<paused, running, sched, job>>
  BY <1>1, RequestStates DEF EnqueueCoverBuild
<1>3. ToSet(priQueue) \subseteq Ids /\ ToSet(queue) \subseteq Ids
  BY <1>1 DEF TypeOK, ToSet
<1>4. \/ UNCHANGED <<queues, wake>>
      \/ /\ ~paused /\ ~isActive(id) /\ id \in pending /\ UNCHANGED wake
         /\ pending' \subseteq pending /\ Queued' = Queued \cup {id}
      \/ /\ ~paused /\ wake' = TRUE
         /\ pending' = pending \cup {id} /\ Queued' = Queued \cup {id}
  <2>1. /\ ToSet(<<id>> \o Without(priQueue, id)) = {id} \cup (ToSet(priQueue) \ {id})
        /\ ToSet(Without(queue, id)) = ToSet(queue) \ {id}
        /\ ToSet(<<id>> \o priQueue) = {id} \cup ToSet(priQueue)
        /\ ToSet(Append(queue, id)) = ToSet(queue) \cup {id}
    BY <1>1, <1>2, WithoutSet, PrependSet, AppendSet DEF TypeOK
  <2>2. CASE paused \/ id \in failed \/ isActive(id)
    BY <2>2 DEF EnqueueCoverBuild
  <2>3. CASE ~paused /\ id \notin failed /\ ~isActive(id) /\ id \in pending
    <3>1. CASE pri
      <4>1. /\ pending' = pending \ {id} /\ UNCHANGED wake
            /\ priQueue' = <<id>> \o Without(priQueue, id) /\ queue' = Without(queue, id)
        BY <2>3, <3>1 DEF EnqueueCoverBuild
      <4> QED
        BY <2>1, <2>3, <4>1 DEF Queued
    <3>2. CASE ~pri
      BY <2>3, <3>2 DEF EnqueueCoverBuild
    <3> QED
      BY <3>1, <3>2
  <2>4. CASE ~paused /\ id \notin failed /\ ~isActive(id) /\ id \notin pending
    <3>1. pending' = pending \cup {id} /\ Push(id, pri) /\ wake' = TRUE
      BY <2>4 DEF EnqueueCoverBuild
    <3>2. Queued' = Queued \cup {id}
      BY <2>1, <3>1 DEF Push, Queued
    <3> QED
      BY <2>4, <3>1, <3>2
  <2> QED
    BY <2>2, <2>3, <2>4
<1> HIDE DEF id, pri
<1>5. PendingIsReal'
  BY <1>2, <1>4 DEF CoverInv, PendingIsReal, isActive, running, queues, Queued
<1>6. PausedIsTold'
  <2>1. \E state : call' = [call EXCEPT ![r] = state]
    BY DEF EnqueueCoverBuild, Answer, Goes
  <2>2. paused => Queued' \subseteq Queued
    BY <1>4 DEF Queued, queues
  <2> QED
    BY <1>1, <1>2, <2>1, <2>2, HandlerStep DEF CoverInv
<1>7. SleepsOnNothing'
  <2>1. CASE UNCHANGED <<queues, wake>>
    BY <1>2, <2>1, QuietStep
  <2>2. CASE ~isActive(id) /\ id \in pending /\ UNCHANGED wake
    <3>1. id \in Queued
      BY <1>2, <2>2 DEF CoverInv, PendingIsReal
    <3>2. MayPop' <=> MayPop
      BY <1>2 DEF MayPop, isActive, running
    <3> QED
      BY <1>2, <2>2, <3>1, <3>2 DEF CoverInv, SleepsOnNothing
  <2>3. CASE wake' = TRUE
    BY <2>3 DEF SleepsOnNothing
  <2> QED
    BY <1>4, <2>1, <2>2, <2>3
<1> QED
  BY <1>1, <1>5, <1>6, <1>7 DEF CoverInv

\* The browser's state replaces the queues and picks the jobs to cancel.
LEMMA SetCoverStateStep ==
    ASSUME CoverInv, NEW r \in Calls, SetCoverState(r)
    PROVE  CoverInv'
<1>1. TypeOK /\ TypeOK' /\ Registered' /\ OneActive' /\ Building' = Building
  <2>1. TypeOK'
    BY CallTypes DEF CoverInv, CallStep
  <2> QED
    BY <2>1, UnregisteredStep DEF CoverInv, SetCoverState
<1> DEFINE jobs == Stopped(call[r].paused, call[r].visible, call[r].ordered)
<1>2. /\ paused' = call[r].paused /\ (paused' => priQueue' = <<>>) /\ queue' = <<>>
      /\ pending' = (pending \ Queued) \cup ToSet(priQueue') /\ wake' = TRUE
      /\ call' = [call EXCEPT ![r] = [at |-> "cancel", jobs |-> jobs]]
      /\ UNCHANGED <<running, job>>
  BY DEF SetCoverState, Unmarked, Goes
<1>3. Queued' = ToSet(priQueue')
  BY <1>2, EmptySet DEF Queued
<1>4. PendingIsReal'
  BY <1>2, <1>3 DEF CoverInv, PendingIsReal, isActive, running
<1>5. PausedIsTold'
  <2> SUFFICES ASSUME paused' PROVE Queued' = {} /\ \A j \in Building : j \in jobs
    <3>1. call'[r].at = "cancel" /\ call'[r].jobs = jobs
      BY <1>1, <1>2 DEF TypeOK
    <3> HIDE DEF jobs
    <3> QED
      BY <1>1, <3>1 DEF PausedIsTold
  <2>1. Queued' = {}
    BY <1>2, <1>3, EmptySet
  <2>2. ASSUME NEW j \in Building PROVE j \in jobs
    <3>1. cancels[job[j].id] = j /\ job[j].id \in Ids /\ j \in Jobs
      BY <1>1, RunningJob DEF CoverInv, Registered, Building
    <3>2. isActive(job[j].id) /\ j # NoJob
      BY <3>1, CoverAssumption DEF CoverInv, Registered
    <3> QED
      BY <1>2, <3>1, <3>2 DEF Stopped
  <2> QED
    BY <2>1, <2>2
<1>6. SleepsOnNothing'
  BY <1>2 DEF SleepsOnNothing
<1> QED
  BY <1>1, <1>4, <1>5, <1>6 DEF CoverInv

\* The other steps of a handler.
LEMMA CallInv ==
    ASSUME CoverInv, NEW r \in Calls, NewCall(r) \/ CallStep(r) \/ WaitTimeout(r)
    PROVE  CoverInv'
<1>1. TypeOK /\ TypeOK'
  BY CallTypes DEF CoverInv
<1>2. CASE EnqueueCoverBuild(r) \/ SetCoverState(r)
  BY <1>2, EnqueueStep, SetCoverStateStep
<1>3. CASE \/ \E id \in Ids, asked, retry \in BOOLEAN : CoverRequestPolicy(r, id, asked, retry)
           \/ \E pause \in BOOLEAN, ids \in Orders : ReadCoverState(r, pause, ids)
           \/ LookAtCache(r) \/ WaitCoverBuild(r) \/ WaitTimeout(r)
  <2>1. call[r].at # "cancel" /\ \E state : call' = [call EXCEPT ![r] = state]
    BY <1>3 DEF CoverRequestPolicy, ReadCoverState, LookAtCache, WaitCoverBuild, WaitTimeout,
                Begin, Goes, IdleCall
  <2>2. UNCHANGED <<paused, queues, running, wake, sched, job>>
    BY <1>3 DEF CoverRequestPolicy, ReadCoverState, LookAtCache, WaitCoverBuild, WaitTimeout
  <2>3. Queued' = Queued
    BY <2>2 DEF Queued, queues
  <2>4. PausedIsTold'
    BY <1>1, <2>1, <2>2, <2>3, HandlerStep DEF CoverInv
  <2>5. Registered' /\ OneActive'
    BY <2>2, UnregisteredStep DEF CoverInv
  <2> QED
    BY <1>1, <2>2, <2>4, <2>5, QuietStep DEF CoverInv
<1>4. CASE PreemptForPlayback(r)
  <2>1. call[r].at # "cancel" /\ \E state : call' = [call EXCEPT ![r] = state]
    <3> DEFINE stops == [at |-> "cancel", jobs |-> {cancels[id] : id \in Ids} \ {NoJob}]
    <3>1. Begin(r, stops)
      BY <1>4 DEF PreemptForPlayback
    <3> HIDE DEF stops
    <3>2. call[r] = IdleCall /\ call' = [call EXCEPT ![r] = stops]
      BY <3>1 DEF Begin
    <3>3. \E state : call' = [call EXCEPT ![r] = state]
      BY <3>2
    <3>4. call[r].at # "cancel"
      BY <3>2 DEF IdleCall
    <3> QED
      BY <3>3, <3>4
  <2>2. UNCHANGED <<paused, running, job>> /\ wake' = TRUE /\ pending' = pending \ Queued
        /\ priQueue' = <<>> /\ queue' = <<>>
    BY <1>4 DEF PreemptForPlayback, Unmarked
  <2>3. Queued' = {}
    BY <2>2, EmptySet DEF Queued
  <2>4. PausedIsTold'
    BY <1>1, <2>1, <2>2, <2>3, HandlerStep DEF CoverInv
  <2>5. PendingIsReal' /\ SleepsOnNothing'
    BY <2>2 DEF CoverInv, PendingIsReal, SleepsOnNothing, isActive, running
  <2>6. Registered' /\ OneActive'
    BY <2>2, UnregisteredStep DEF CoverInv
  <2> QED
    BY <1>1, <2>4, <2>5, <2>6 DEF CoverInv
<1>5. CASE CancelCovers(r)
  <2>1. /\ Registered' /\ OneActive' /\ Building' = Building
        /\ \A k \in Building : job[k].canceled \/ k \in call[r].jobs => job'[k].canceled
    BY <1>5, CancelKeepsRegistered DEF CoverInv
  <2>2. UNCHANGED <<paused, queues, running, wake, sched>> /\ call' = [call EXCEPT ![r] = IdleCall]
    BY <1>5 DEF CancelCovers, Goes
  <2>3. PausedIsTold'
    <3> SUFFICES ASSUME paused
                 PROVE  /\ Queued' = {}
                        /\ \A j \in Building : \/ job'[j].canceled
                              \/ \E q \in Calls : call'[q].at = "cancel" /\ j \in call'[q].jobs
      BY <2>1, <2>2 DEF PausedIsTold
    <3>1. Queued' = {}
      BY <2>2 DEF CoverInv, PausedIsTold, Queued, queues
    <3>2. \A q \in Calls \ {r} : call'[q] = call[q]
      BY <1>1, <2>2 DEF TypeOK
    <3>3. \A j \in Building :
             job[j].canceled \/ \E q \in Calls : call[q].at = "cancel" /\ j \in call[q].jobs
      BY DEF CoverInv, PausedIsTold
    <3> QED
      BY <2>1, <3>1, <3>2, <3>3
  <2> QED
    BY <1>1, <2>1, <2>2, <2>3, QuietStep DEF CoverInv
<1> QED
  BY <1>2, <1>3, <1>4, <1>5 DEF NewCall, CallStep

-----------------------------------------------------------------------------
(* The loop and its jobs.                                                  *)

LEMMA SchedulerInv == CoverInv /\ SchedulerStep => CoverInv'
<1> SUFFICES ASSUME CoverInv, SchedulerStep PROVE CoverInv'
  OBVIOUS
<1>1. TypeOK /\ TypeOK' /\ priQueue \in Seq(Ids) /\ queue \in Seq(Ids)
  BY SchedulerTypes DEF CoverInv, TypeOK
<1>2. ASSUME NEW j \in Jobs, PopPriority(j) PROVE CoverInv'
  <2> DEFINE id == priQueue[Skipped(priQueue)]
  <2>1. /\ id \in Ids /\ ToSet(priQueue) = Dropped(priQueue) \cup {id} \cup ToSet(Rest(priQueue))
    BY <1>1, <1>2, PopSplits DEF PopPriority
  <2>2. /\ MayPop /\ StartCover(j, id, TRUE) /\ sched' = "top" /\ UNCHANGED <<paused, queue>>
        /\ priQueue' = Rest(priQueue) /\ pending' = pending \ Dropped(priQueue)
    BY <1>2 DEF PopPriority
  <2> HIDE DEF id
  <2>3. Registered' /\ OneActive' /\ \A i \in Ids : isActive(i)' <=> i = id
    BY <1>1, <2>1, <2>2, StartRegisters DEF CoverInv
  <2>4. \A i \in Ids : ~isActive(i)
    BY <1>1, <2>2, MayPopMeansIdle
  <2>5. PendingIsReal'
    BY <2>1, <2>2, <2>3, <2>4 DEF CoverInv, PendingIsReal, Queued
  <2>6. PausedIsTold' /\ SleepsOnNothing'
    BY <2>2 DEF PausedIsTold, SleepsOnNothing, MayPop
  <2> QED
    BY <1>1, <2>3, <2>5, <2>6 DEF CoverInv
<1>3. ASSUME NEW j \in Jobs, PopBackground(j) PROVE CoverInv'
  <2> DEFINE id == queue[Skipped(queue)]
  <2>1. /\ id \in Ids /\ ToSet(queue) = Dropped(queue) \cup {id} \cup ToSet(Rest(queue))
        /\ Dropped(priQueue) = ToSet(priQueue)
    BY <1>1, <1>3, PopSplits DEF PopBackground
  <2>2. /\ MayPop /\ StartCover(j, id, FALSE) /\ sched' = "top" /\ UNCHANGED paused
        /\ queue' = Rest(queue) /\ pending' = pending \ (Dropped(priQueue) \cup Dropped(queue))
    BY <1>3 DEF PopBackground
  <2> HIDE DEF id
  <2>3. Registered' /\ OneActive' /\ \A i \in Ids : isActive(i)' <=> i = id
    BY <1>1, <2>1, <2>2, StartRegisters DEF CoverInv
  <2>4. \A i \in Ids : ~isActive(i)
    BY <1>1, <2>2, MayPopMeansIdle
  <2>5. PendingIsReal'
    BY <2>1, <2>2, <2>3, <2>4 DEF CoverInv, PendingIsReal, Queued
  <2>6. PausedIsTold' /\ SleepsOnNothing'
    BY <2>2 DEF PausedIsTold, SleepsOnNothing, MayPop
  <2> QED
    BY <1>1, <2>3, <2>5, <2>6 DEF CoverInv
<1>4. CASE PopNothing
  <2>1. UNCHANGED <<paused, running, job, call>>
    BY <1>4 DEF PopNothing
  <2>2. Registered' /\ OneActive' /\ Building' = Building
    BY <2>1, UnregisteredStep DEF CoverInv
  <2>3. CASE MayPop
    <3>1. /\ priQueue' = <<>> /\ queue' = <<>>
          /\ pending' = pending \ (Dropped(priQueue) \cup Dropped(queue))
          /\ Skipped(priQueue) = 0 /\ Skipped(queue) = 0
      BY <1>4, <2>3 DEF PopNothing
    <3>2. Dropped(priQueue) \cup Dropped(queue) = Queued
      BY <1>1, <3>1, PopSplits DEF Queued
    <3>3. Queued' = {}
      BY <3>1, EmptySet DEF Queued
    <3>4. PendingIsReal'
      BY <2>1, <3>1, <3>2 DEF CoverInv, PendingIsReal, isActive, running
    <3>5. PausedIsTold' /\ SleepsOnNothing'
      BY <2>3, <2>1, <3>3 DEF PausedIsTold, SleepsOnNothing, MayPop
    <3> QED
      BY <1>1, <2>2, <3>4, <3>5 DEF CoverInv
  <2>4. CASE ~MayPop
    <3>1. UNCHANGED queues
      BY <1>4, <2>4 DEF PopNothing
    <3>2. ~MayPop'
      BY <2>1, <2>4 DEF MayPop, isActive, running
    <3>3. PendingIsReal' /\ PausedIsTold' /\ SleepsOnNothing'
      BY <2>1, <2>2, <3>1, <3>2 DEF CoverInv, PendingIsReal, PausedIsTold, SleepsOnNothing,
                                    Queued, isActive, running, queues
    <3> QED
      BY <1>1, <2>2, <3>3 DEF CoverInv
  <2> QED
    BY <2>3, <2>4
<1>5. CASE SchedulerWake
  <2>1. UNCHANGED <<paused, queues, running, job, call>> /\ sched' = "top"
    BY <1>5 DEF SchedulerWake
  <2>2. Registered' /\ OneActive' /\ Building' = Building
    BY <2>1, UnregisteredStep DEF CoverInv
  <2>3. PendingIsReal' /\ PausedIsTold' /\ SleepsOnNothing'
    BY <2>1, <2>2 DEF CoverInv, PendingIsReal, PausedIsTold, SleepsOnNothing, Queued, isActive,
                      running, queues
  <2> QED
    BY <1>1, <2>2, <2>3 DEF CoverInv
<1> QED
  BY <1>2, <1>3, <1>4, <1>5 DEF SchedulerStep

LEMMA JobInv == ASSUME CoverInv, NEW j \in Jobs, JobStep(j) PROVE CoverInv'
<1>1. TypeOK /\ TypeOK'
  BY JobTypes DEF CoverInv
<1>2. CASE BandwidthReady(j) \/ CheckContext(j) \/ BuildCover(j)
  <2>1. /\ Registered' /\ OneActive'
        /\ Building' = Building /\ \A k \in Jobs : job'[k].canceled = job[k].canceled
    BY <1>2, MovesKeepRegistered DEF CoverInv
  <2>2. UNCHANGED <<paused, queues, running, wake, sched, call>>
    BY <1>2 DEF BandwidthReady, CheckContext, BuildCover, JobMoves
  <2>3. PausedIsTold'
    BY <2>1, <2>2 DEF CoverInv, PausedIsTold, Queued, queues, Building
  <2> QED
    BY <1>1, <2>1, <2>2, <2>3, QuietStep DEF CoverInv
<1>3. CASE FinishCover(j)
  <2>1. /\ Registered' /\ OneActive' /\ Building' = {}
        /\ job[j].id \in Ids /\ \A i \in Ids : isActive(i) => i = job[j].id
    BY <1>3, FinishFrees DEF CoverInv
  <2>2. UNCHANGED <<paused, priQueue, queue>> /\ wake' = TRUE /\ pending' = pending \ {job[j].id}
    BY <1>3 DEF FinishCover, JobMoves
  <2>3. PendingIsReal'
    BY <2>1, <2>2 DEF CoverInv, PendingIsReal, Queued
  <2>4. PausedIsTold' /\ SleepsOnNothing'
    BY <2>1, <2>2 DEF CoverInv, PausedIsTold, SleepsOnNothing, Queued
  <2> QED
    BY <1>1, <2>1, <2>3, <2>4 DEF CoverInv
<1> QED
  BY <1>2, <1>3 DEF JobStep

LEMMA EnvironmentInv == CoverInv /\ Environment => CoverInv'
<1> SUFFICES ASSUME CoverInv, Environment PROVE CoverInv'
  OBVIOUS
<1>1. TypeOK'
  BY EnvironmentTypes DEF CoverInv
<1>2. UNCHANGED <<paused, queues, running, wake, sched, job, call>>
  BY DEF Environment, Import, Download, LocalCover, CooldownEnds, ResetImport
<1>3. Registered' /\ OneActive' /\ Building' = Building
  BY <1>2, UnregisteredStep DEF CoverInv
<1>4. PausedIsTold'
  BY <1>2, <1>3 DEF CoverInv, PausedIsTold, Queued, queues
<1> QED
  BY <1>1, <1>2, <1>3, <1>4, QuietStep DEF CoverInv

LEMMA InvStep == CoverInv /\ [Next]_vars => CoverInv'
<1> SUFFICES ASSUME CoverInv, [Next]_vars PROVE CoverInv'
  OBVIOUS
<1>1. CASE UNCHANGED vars
  <2>1. UNCHANGED <<paused, queues, running, wake, sched, job, call>>
    BY <1>1 DEF vars
  <2>2. TypeOK'
    BY TypeStep DEF CoverInv
  <2>3. Registered' /\ OneActive' /\ Building' = Building
    BY <2>1, UnregisteredStep DEF CoverInv
  <2>4. PausedIsTold'
    BY <2>1, <2>3 DEF CoverInv, PausedIsTold, Queued, queues
  <2> QED
    BY <2>1, <2>2, <2>3, <2>4, QuietStep DEF CoverInv
<1> QED
  BY <1>1, CallInv, SchedulerInv, JobInv, EnvironmentInv DEF Next

-----------------------------------------------------------------------------
(* The theorems.                                                           *)

\* CoverInv holds in every state the cover scheduler reaches.
THEOREM CoverInvariant == Spec => []CoverInv
<1>1. Init => CoverInv
  BY InitInv
<1>2. CoverInv /\ [Next]_vars => CoverInv'
  BY InvStep
<1> QED
  BY <1>1, <1>2, PTL DEF Spec

\* The fields of the cover scheduler have their types.
THEOREM CoverTypes == Spec => []TypeOK
<1>1. CoverInv => TypeOK
  BY DEF CoverInv
<1> QED
  BY <1>1, CoverInvariant, PTL

\* A cover is built by one goroutine, which s.coverActive and s.coverCancels
\* name, and coverLimit holds.
THEOREM OneJobPerCover == Spec => []JobsRegistered
<1>1. CoverInv => JobsRegistered
  <2> SUFFICES ASSUME CoverInv PROVE Cardinality(Building) <= coverLimit
    BY DEF CoverInv, Registered, JobsRegistered
  <2>1. CASE Building = {}
    BY <2>1, FS_EmptySet DEF coverLimit
  <2>2. CASE Building # {}
    <3>1. PICK j \in Building : TRUE
      BY <2>2
    <3>2. ASSUME NEW k \in Building
          PROVE  cancels[job[k].id] = k /\ job[k].id \in Ids /\ isActive(job[k].id)
      <4>1. cancels[job[k].id] = k /\ job[k].id \in Ids /\ k \in Jobs
        BY RunningJob DEF CoverInv, Registered, Building
      <4> QED
        BY <4>1, CoverAssumption DEF CoverInv, Registered
    <3>3. \A k \in Building : k = j
      BY <3>1, <3>2 DEF CoverInv, OneActive
    <3>4. Building = {j}
      BY <3>1, <3>3
    <3>5. Cardinality(Building) = 1
      BY <3>4, FS_Singleton
    <3> QED
      BY <3>5 DEF coverLimit
  <2> QED
    BY <2>1, <2>2
<1> QED
  BY <1>1, CoverInvariant, PTL

\* A mark in s.coverPending stands for a job that is queued or runs.
THEOREM MarksStandForJobs == Spec => []PendingIsReal
<1>1. CoverInv => PendingIsReal
  BY DEF CoverInv
<1> QED
  BY <1>1, CoverInvariant, PTL

\* A pause that has been told to the jobs stops all of them.
THEOREM PauseIsObeyed == Spec => []PauseStops
<1>1. CoverInv => PauseStops
  BY DEF CoverInv, PausedIsTold, PauseStops
<1> QED
  BY <1>1, CoverInvariant, PTL

\* The loop does not sleep on a job it could start.
THEOREM WakeupsKept == Spec => []NoLostWakeup
<1>1. CoverInv => NoLostWakeup
  BY DEF CoverInv, SleepsOnNothing, NoLostWakeup
<1> QED
  BY <1>1, CoverInvariant, PTL
=============================================================================
