----------------------- MODULE DownloadCommandProofs -----------------------
(***************************************************************************)
(* Proofs about `tdl download`: every run of the command, over any dialogs  *)
(* and albums, any number of goroutines and any number of runs.             *)
(***************************************************************************)
EXTENDS DownloadCommand, SequenceLemmas

Busy(w) == work[w] # Idle

\* Where the main goroutine is, and what i.err, i.elem and the pool are then.
Phases ==
    /\ main = "spawn" => elem # <<>>
    /\ main \in {"process", "off"} => elem = <<>>
    /\ main \in {"off", "next", "process", "spawn", "wait"} => ~err
    /\ main = "off" => \A w \in Workers : ~Busy(w)

\* The physical position is a listed message, or where the next dialog begins.
CursorIn ==
    /\ dlg \in 1..(Len(Dialogs) + 1)
    /\ num = 1 \/ (dlg \in 1..Len(Dialogs) /\ num \in 1..Len(Dialogs[dlg]))

Types == TypeOK /\ Phases /\ CursorIn

-----------------------------------------------------------------------------
(* Types. *)

\* What the assumption on the constants says.
LEMMA Constants ==
    /\ Dialogs \in Seq(Seq(Msgs)) /\ Len(Dialogs) \in Nat /\ DOMAIN Dialogs = 1..Len(Dialogs)
    /\ \A d \in 1..Len(Dialogs) : /\ Dialogs[d] \in Seq(Msgs) /\ Len(Dialogs[d]) \in Nat
                                  /\ \A k \in 1..Len(Dialogs[d]) : Dialogs[d][k] \in Msgs
    /\ \A m \in Msgs : Album[m] \in Seq(Msgs)
<1>1. Dialogs \in Seq(Seq(Msgs)) /\ Album \in [Msgs -> Seq(Msgs)]
  BY CommandAssumption
<1>2. Len(Dialogs) \in Nat /\ DOMAIN Dialogs = 1..Len(Dialogs) /\ \A d \in 1..Len(Dialogs) : Dialogs[d] \in Seq(Msgs)
  BY <1>1
<1>3. \A q \in Seq(Msgs) : Len(q) \in Nat /\ \A k \in 1..Len(q) : q[k] \in Msgs
  OBVIOUS
<1> QED
  BY <1>1, <1>2, <1>3

\* The message of process.
Current == Dialogs[dlg][num]

LEMMA CurrentIsListed ==
    ASSUME Types, ~AtEnd
    PROVE  /\ dlg \in 1..Len(Dialogs) /\ num \in 1..Len(Dialogs[dlg])
           /\ Current \in Msgs
<1>1. dlg \in DOMAIN Dialogs /\ ~(num > Len(Dialogs[dlg])) /\ num \in Nat
  BY DEF AtEnd, Types, TypeOK
<1>2. dlg \in 1..Len(Dialogs) /\ Len(Dialogs[dlg]) \in Nat
  BY <1>1, Constants
<1>3. num \in 1..Len(Dialogs[dlg])
  <2>1. CASE num = 1
    BY <1>1, <1>2, <2>1
  <2>2. CASE num \in 1..Len(Dialogs[dlg])
    BY <2>2
  <2> QED
    BY <2>1, <2>2 DEF Types, CursorIn
<1> QED
  BY <1>2, <1>3, Constants DEF Current

LEMMA CandidatesTyped ==
    ASSUME TypeOK, NEW m \in Msgs
    PROVE  /\ Candidates(m) \in Seq(Elems) /\ Todo(m) \in Seq(Elems) /\ Members(m) \in Seq(Msgs)
           /\ ToSet(Todo(m)) = {e \in ToSet(Candidates(m)) : e.pos \notin finished /\ Wanted(e.msg)}
<1>1. Members(m) \in Seq(Msgs)
  <2>1. Members(m) \in Seq(Msgs \cap (Msgs \ deleted))
    BY Constants, KeepProperties DEF Members
  <2> QED
    BY <2>1
<1>2. Candidates(m) \in Seq(Elems)
  <2>1. logicalPos \in Nat
    BY DEF TypeOK
  <2>2. CASE Album[m] = <<>>
    <3>1. [msg |-> m, pos |-> logicalPos] \in Elems
      BY <2>1 DEF Elems
    <3> DEFINE e == [msg |-> m, pos |-> logicalPos]
    <3> HIDE DEF e
    <3>2. <<e>> \in Seq(Elems)
      BY <3>1 DEF e
    <3> QED
      BY <2>2, <3>2 DEF Candidates, e
  <2>3. CASE Album[m] # <<>>
    <3> DEFINE q == Members(m)
    <3>1. Len(q) \in Nat /\ \A k \in 1..Len(q) : q[k] \in Msgs
      BY <1>1
    <3> HIDE DEF q
    <3>2. \A k \in 1..Len(q) : [msg |-> q[k], pos |-> logicalPos + k - 1] \in Elems
      BY <2>1, <3>1 DEF Elems
    <3> DEFINE e(k) == [msg |-> q[k], pos |-> logicalPos + k - 1]
    <3>3. \A k \in 1..Len(q) : e(k) \in Elems
      BY <3>2
    <3> HIDE DEF e
    <3>4. [k \in 1..Len(q) |-> e(k)] \in Seq(Elems)
      BY <3>1, <3>3
    <3> QED
      BY <2>3, <3>4 DEF Candidates, q, e
  <2> QED
    BY <2>2, <2>3
<1> DEFINE S == {e \in Range(Candidates(m)) : e.pos \notin finished /\ Wanted(e.msg)}
           q == Candidates(m)
<1>3. Todo(m) = Keep(q, S)
  BY DEF Todo
<1> HIDE DEF S, q
<1>4. Keep(q, S) \in Seq(Elems \cap S) /\ ToSet(Keep(q, S)) = ToSet(q) \cap S
  BY <1>2, KeepProperties DEF q
<1>5. Keep(q, S) \in Seq(Elems)
  BY <1>4
<1>6. ToSet(q) \cap S = {e \in ToSet(q) : e.pos \notin finished /\ Wanted(e.msg)}
  BY DEF S, q, ToSet, Range
<1> QED
  BY <1>1, <1>2, <1>3, <1>4, <1>5, <1>6 DEF q

LEMMA AdvanceIn ==
    ASSUME Types, ~AtEnd, Advance
    PROVE  dlg' \in Nat /\ num' \in Nat /\ CursorIn'
<1>1. dlg \in 1..Len(Dialogs) /\ num \in 1..Len(Dialogs[dlg]) /\ Len(Dialogs) \in Nat /\ Len(Dialogs[dlg]) \in Nat
  BY CurrentIsListed, Constants
<1> DEFINE last == Len(Dialogs[dlg])
           n == Len(Dialogs)
<1>2. CASE num + 1 > last
  <2>1. dlg' = dlg + 1 /\ num' = 1
    BY <1>2 DEF Advance
  <2>2. dlg + 1 \in 1..(n + 1) /\ dlg + 1 \in Nat
    BY <1>1
  <2> QED
    BY <2>1, <2>2 DEF CursorIn
<1>3. CASE ~(num + 1 > last)
  <2>1. dlg' = dlg /\ num' = num + 1
    BY <1>3 DEF Advance
  <2>2. num + 1 \in 1..last /\ num + 1 \in Nat
    BY <1>1, <1>3
  <2>3. dlg \in 1..(n + 1) /\ dlg \in Nat
    BY <1>1
  <2> QED
    BY <1>1, <2>1, <2>2, <2>3 DEF CursorIn
<1> QED
  BY <1>2, <1>3

\* What a goroutine has when it moves on, and after that.
LEMMA MovesOn ==
    ASSUME TypeOK, NEW w \in Workers, NEW from \in WorkStates, NEW to \in WorkStates \cup {"idle"},
           Moves(w, from, to)
    PROVE  /\ work[w] \in Tasks /\ Busy(w) /\ work[w].at = from
           /\ work[w].e \in Elems /\ work[w].e.msg \in Msgs /\ work[w].e.pos \in Nat
           /\ work' \in [Workers -> {Idle} \cup Tasks]
           /\ \A v \in Workers : v # w => work'[v] = work[v]
           /\ to # "idle" => work'[w] # Idle /\ work'[w].at = to /\ work'[w].e = work[w].e
           /\ to = "idle" => work'[w] = Idle
<1>1. "idle" \notin WorkStates /\ Idle.at = "idle" /\ from \in WorkStates
  BY DEF WorkStates, Idle
<1>2. work \in [Workers -> {Idle} \cup Tasks]
  BY DEF TypeOK
<1>3. work[w] # Idle /\ work[w].at = from
  BY <1>1 DEF Moves
<1>4. work[w] \in Tasks
  BY <1>2, <1>3
<1>5. work[w].e \in Elems /\ work[w].e.msg \in Msgs /\ work[w].e.pos \in Nat
  BY <1>4 DEF Tasks, Elems
<1> DEFINE to1 == [work[w] EXCEPT !.at = to]
<1>6. to # "idle" => to1 \in Tasks /\ to1.at = to /\ to1.e = work[w].e
  BY <1>4 DEF Tasks
<1>7. work' = [work EXCEPT ![w] = IF to = "idle" THEN Idle ELSE to1]
  BY DEF Moves
<1>8. to # "idle" => to1 # Idle
  BY <1>1, <1>6
<1> HIDE DEF to1
<1>9. work'[w] = (IF to = "idle" THEN Idle ELSE to1) /\ \A v \in Workers : v # w => work'[v] = work[v]
  BY <1>2, <1>7
<1>10. work' \in [Workers -> {Idle} \cup Tasks]
  BY <1>2, <1>6, <1>7
<1> QED
  BY <1>3, <1>4, <1>5, <1>6, <1>8, <1>9, <1>10 DEF Busy

LEMMA TypesInit == Init => Types
<1> SUFFICES ASSUME Init PROVE Types
  OBVIOUS
<1>1. TypeOK
  <2>1. 0 \in 0..MaxRuns
    BY CommandAssumption
  <2>2. <<>> \in Seq(Elems)
    OBVIOUS
  <2>3. work \in [Workers -> {Idle} \cup Tasks]
    BY DEF Init
  <2> QED
    BY <2>1, <2>2, <2>3 DEF Init, TypeOK, FileStates, MainStates
<1>2. Phases
  BY DEF Init, Phases, Busy
<1>3. CursorIn
  BY Constants DEF Init, CursorIn
<1> QED
  BY <1>1, <1>2, <1>3 DEF Types

\* Without a process.
LEMMA NoProcessTypes ==
    ASSUME NEW fin, fin \subseteq Nat, NoProcess(fin)
    PROVE  /\ dlg' \in Nat /\ num' \in Nat /\ logicalPos' \in Nat /\ finished' \subseteq Nat
           /\ elem' \in Seq(Elems) /\ work' \in [Workers -> {Idle} \cup Tasks]
           /\ trackers' \subseteq Nat /\ unclosed' \subseteq Nat
           /\ {canceled', err', groupErr', rerr'} \subseteq BOOLEAN
           /\ CursorIn' /\ ~err' /\ ~rerr' /\ elem' = <<>> /\ \A w \in Workers : ~(work'[w] # Idle)
<1>1. dlg' = 1 /\ num' = 1 /\ logicalPos' = 0 /\ elem' = <<>> /\ finished' \subseteq Nat /\ trackers' = {} /\ unclosed' = {}
  BY DEF NoProcess
<1>2. CursorIn'
  BY <1>1, Constants DEF CursorIn
<1>3. work' \in [Workers -> {Idle} \cup Tasks] /\ \A w \in Workers : ~(work'[w] # Idle)
  BY DEF NoProcess
<1>4. {canceled', err', groupErr', rerr'} \subseteq BOOLEAN /\ ~err' /\ ~rerr'
  BY DEF NoProcess
<1>5. elem' \in Seq(Elems)
  BY <1>1
<1> QED
  BY <1>1, <1>2, <1>3, <1>4, <1>5

LEMMA MainTypes ==
    ASSUME Types, MainStep
    PROVE  Types'
<1> USE DEF MainStates
<1>1. CASE Next
  <2>1. TypeOK'
    BY <1>1 DEF Next, Types, TypeOK, disk, pool
  <2>2. Phases'
    BY <1>1 DEF Next, Types, Phases, Busy, pool
  <2>3. CursorIn'
    BY <1>1 DEF Next, Types, CursorIn
  <2> QED
    BY <2>1, <2>2, <2>3 DEF Types
<1>2. CASE ProcessEnd
  <2>1. TypeOK'
    BY <1>2 DEF ProcessEnd, Types, TypeOK, disk, pool, iterator
  <2>2. Phases'
    BY <1>2 DEF ProcessEnd, Types, Phases, Busy, pool, iterator
  <2>3. CursorIn'
    BY <1>2 DEF ProcessEnd, Types, CursorIn, iterator
  <2> QED
    BY <2>1, <2>2, <2>3 DEF Types
<1>3. CASE Process
  <2>1. Current \in Msgs /\ ~AtEnd /\ Advance
    BY <1>3, CurrentIsListed DEF Process
  <2>2. dlg' \in Nat /\ num' \in Nat /\ CursorIn'
    BY <2>1, AdvanceIn
  <2>3. Candidates(Current) \in Seq(Elems) /\ Todo(Current) \in Seq(Elems)
    BY <2>1, CandidatesTyped DEF Types
  <2>4. Created(Todo(Current)) \in [Msgs -> FileStates]
    BY DEF Created, Types, TypeOK, FileStates
  <2>5. logicalPos \in Nat /\ Len(Candidates(Current)) \in Nat /\ elem = <<>> /\ ~err
    BY <1>3, <2>3 DEF Types, TypeOK, Phases, Process
  <2>6. CASE Current \in deleted
    <3>1. logicalPos' = logicalPos + 1 /\ UNCHANGED <<main, elem, tmp>>
      BY <1>3, <2>6 DEF Process, Current
    <3>2. logicalPos' \in Nat
      BY <2>5, <3>1
    <3>3. TypeOK'
      BY <1>3, <2>2, <3>1, <3>2 DEF Process, Types, TypeOK, pool
    <3>4. Phases'
      BY <1>3, <3>1 DEF Process, Types, Phases, Busy, pool
    <3> QED
      BY <2>2, <3>3, <3>4 DEF Types
  <2>7. CASE Current \notin deleted
    <3>1. /\ logicalPos' = logicalPos + Len(Candidates(Current))
          /\ elem' = Todo(Current) /\ tmp' = Created(Todo(Current))
          /\ main' = IF Todo(Current) = <<>> THEN "process" ELSE "spawn"
      BY <1>3, <2>7 DEF Process, Current
    <3>2. logicalPos' \in Nat
      BY <2>5, <3>1
    <3>3. TypeOK'
      BY <1>3, <2>2, <2>3, <2>4, <3>1, <3>2 DEF Process, Types, TypeOK, pool
    <3>4. Phases'
      BY <1>3, <3>1, <2>5 DEF Process, Types, Phases, Busy, pool
    <3> QED
      BY <2>2, <3>3, <3>4 DEF Types
  <2> QED
    BY <2>6, <2>7
<1>4. CASE ProcessError
  <2>1. Current \in Msgs /\ ~AtEnd /\ Advance
    BY <1>4, CurrentIsListed DEF ProcessError
  <2>2. dlg' \in Nat /\ num' \in Nat /\ CursorIn'
    BY <2>1, AdvanceIn
  <2>3. Todo(Current) \in Seq(Elems) /\ Len(Todo(Current)) \in Nat
    BY <2>1, CandidatesTyped DEF Types
  <2>4. PICK k \in 0..(IF Current \in deleted THEN 0 ELSE Len(Todo(Current))) :
           elem' = SubSeq(Todo(Current), 1, k) /\ tmp' = Created(elem')
    BY <1>4 DEF ProcessError, Current
  <2>5. k \in 0..Len(Todo(Current))
    BY <2>3
  <2>6. elem' \in Seq(Elems)
    BY <2>3, <2>4, <2>5, PrefixSet
  <2>7. tmp' \in [Msgs -> FileStates]
    BY <2>4 DEF Created, Types, TypeOK, FileStates
  <2>8. TypeOK'
    BY <1>4, <2>2, <2>6, <2>7 DEF ProcessError, Types, TypeOK, pool
  <2>9. Phases'
    BY <1>4 DEF ProcessError, Phases
  <2> QED
    BY <2>2, <2>8, <2>9 DEF Types
<1>5. CASE \E w \in Workers : Spawn(w)
  <2>1. PICK w \in Workers : Spawn(w)
    BY <1>5
  <2>2. elem \in Seq(Elems) /\ elem # <<>> /\ work \in [Workers -> {Idle} \cup Tasks]
    BY <2>1 DEF Spawn, Types, TypeOK, Phases
  <2>3. Head(elem) \in Elems /\ Tail(elem) \in Seq(Elems)
    BY <2>2, HeadTailSet
  <2>4. [at |-> "add", e |-> Head(elem)] \in Tasks
    BY <2>3 DEF Tasks, WorkStates
  <2>5. work' \in [Workers -> {Idle} \cup Tasks]
    BY <2>1, <2>2, <2>4 DEF Spawn
  <2>6. TypeOK'
    BY <2>1, <2>3, <2>5 DEF Spawn, Types, TypeOK, disk
  <2>7. Phases'
    BY <2>1 DEF Spawn, Types, Phases
  <2>8. CursorIn'
    BY <2>1 DEF Spawn, Types, CursorIn
  <2> QED
    BY <2>6, <2>7, <2>8 DEF Types
<1>6. CASE Wait
  <2>1. TypeOK'
    BY <1>6 DEF Wait, Types, TypeOK, disk, pool, iterator
  <2>2. Phases'
    BY <1>6 DEF Wait, Types, Phases, iterator
  <2>3. CursorIn'
    BY <1>6 DEF Wait, Types, CursorIn, iterator
  <2> QED
    BY <2>1, <2>2, <2>3 DEF Types
<1>7. CASE ProgressWait
  <2>1. TypeOK'
    BY <1>7 DEF ProgressWait, Types, TypeOK, disk, pool, iterator
  <2>2. Phases'
    BY <1>7 DEF ProgressWait, Types, Phases, iterator
  <2>3. CursorIn'
    BY <1>7 DEF ProgressWait, Types, CursorIn, iterator
  <2> QED
    BY <2>1, <2>2, <2>3 DEF Types
<1>8. CASE Save
  <2>1. TypeOK'
    BY <1>8 DEF Save, Types, TypeOK, pool, iterator
  <2>2. Phases'
    BY <1>8 DEF Save, Types, Phases, iterator
  <2>3. CursorIn'
    BY <1>8 DEF Save, Types, CursorIn, iterator
  <2> QED
    BY <2>1, <2>2, <2>3 DEF Types
<1>9. CASE Exit \/ MapRace
  <2>1. NoProcess({}) /\ main' = "off" /\ UNCHANGED <<disk, runs>>
    BY <1>9 DEF Exit, MapRace
  <2> QED
    BY <2>1, NoProcessTypes DEF Types, TypeOK, Phases, Busy, disk
<1> QED
  BY <1>1, <1>2, <1>3, <1>4, <1>5, <1>6, <1>7, <1>8, <1>9 DEF MainStep

LEMMA WorkTypes ==
    ASSUME Types, NEW w \in Workers, Work(w)
    PROVE  Types'
<1>1. /\ final' \in [Msgs -> FileStates] /\ tmp' \in [Msgs -> FileStates]
      /\ trackers' \subseteq Nat /\ finished' \subseteq Nat /\ unclosed' \subseteq Nat /\ groupErr' \in BOOLEAN
      /\ work' \in [Workers -> {Idle} \cup Tasks] /\ Busy(w) /\ main' = main
      /\ UNCHANGED <<deleted, record, runs, canceled, dlg, num, logicalPos, err, elem, rerr>>
  <2> USE DEF WorkStates
  <2>1. CASE OnAdd(w)
    <3>1. Moves(w, "add", "download")
      BY <2>1 DEF OnAdd
    <3>2. work' \in [Workers -> {Idle} \cup Tasks] /\ Busy(w) /\ work[w].e.pos \in Nat
      BY <3>1, MovesOn DEF Types
    <3> QED
      BY <2>1, <3>1, <3>2 DEF OnAdd, Types, TypeOK, Moves
  <2>2. CASE DownloadDone(w)
    BY <2>2, MovesOn DEF DownloadDone, Types, TypeOK, Moves, FileStates
  <2>3. CASE DownloadFails(w)
    BY <2>3, MovesOn DEF DownloadFails, Types, TypeOK, Moves
  <2>4. CASE DownloadCanceled(w)
    BY <2>4, MovesOn DEF DownloadCanceled, Types, TypeOK, Moves
  <2>5. CASE Finish(w)
    <3>1. Moves(w, "finish", "rename")
      BY <2>5 DEF Finish
    <3>2. work' \in [Workers -> {Idle} \cup Tasks] /\ Busy(w) /\ work[w].e.pos \in Nat
      BY <3>1, MovesOn DEF Types
    <3> QED
      BY <2>5, <3>1, <3>2 DEF Finish, Types, TypeOK, Moves
  <2>6. CASE Rename(w)
    BY <2>6, MovesOn DEF Rename, Types, TypeOK, Moves, FileStates
  <2>7. CASE RemoveTmp(w)
    BY <2>7, MovesOn DEF RemoveTmp, Types, TypeOK, Moves, FileStates
  <2>8. CASE CloseFails(w)
    <3>1. PICK at \in {"finish", "remove"} : Moves(w, at, "idle") /\ groupErr' = (groupErr \/ at = "remove")
      BY <2>8 DEF CloseFails
    <3>2. work' \in [Workers -> {Idle} \cup Tasks] /\ Busy(w) /\ work[w].e.pos \in Nat
      BY <3>1, MovesOn DEF Types
    <3>3. groupErr' \in BOOLEAN
      BY <3>1
    <3>4. tmp' \in [Msgs -> FileStates]
      BY <2>8 DEF CloseFails, Types, TypeOK, FileStates
    <3>5. trackers' \subseteq Nat /\ unclosed' \subseteq Nat /\ UNCHANGED <<final, main, finished>>
      BY <2>8, <3>2 DEF CloseFails, Types, TypeOK
    <3> QED
      BY <3>1, <3>2, <3>3, <3>4, <3>5 DEF Types, TypeOK, Moves
  <2>9. CASE RenameFails(w)
    BY <2>9, MovesOn DEF RenameFails, Types, TypeOK, Moves
  <2> QED
    BY <2>1, <2>2, <2>3, <2>4, <2>5, <2>6, <2>7, <2>8, <2>9 DEF Work
<1>2. TypeOK'
  BY <1>1 DEF Types, TypeOK
<1>3. Phases'
  BY <1>1 DEF Types, Phases
<1>4. CursorIn'
  BY <1>1 DEF Types, CursorIn
<1> QED
  BY <1>2, <1>3, <1>4 DEF Types

LEMMA TypesStep ==
    ASSUME Types, [Step]_vars
    PROVE  Types'
<1>1. CASE UNCHANGED vars
  BY <1>1 DEF Types, TypeOK, Phases, CursorIn, Busy, vars, disk, iterator, pool
<1>2. CASE Continue \/ Decline \/ Restart
  <2>1. PICK fin \in SUBSET Nat, rec \in SUBSET Nat : Start(fin, rec)
    BY <1>2 DEF Continue, Decline, Restart, Types, TypeOK
  <2>2. runs' \in 0..MaxRuns /\ main' = "next" /\ record' \subseteq Nat
    BY <2>1, CommandAssumption DEF Start, Types, TypeOK
  <2>3. NoProcess(fin) /\ UNCHANGED <<deleted, final, tmp>>
    BY <2>1 DEF Start
  <2> QED
    BY <2>2, <2>3, NoProcessTypes DEF Types, TypeOK, Phases, MainStates
<1>3. CASE MainStep
  BY <1>3, MainTypes
<1>4. CASE \E w \in Workers : Work(w)
  BY <1>4, WorkTypes
<1>5. CASE UserCancel
  <2>1. TypeOK'
    BY <1>5 DEF UserCancel, Types, TypeOK, disk, iterator, pool
  <2>2. Phases' /\ CursorIn'
    BY <1>5 DEF UserCancel, Types, Phases, CursorIn, Busy, iterator, pool
  <2> QED
    BY <2>1, <2>2 DEF Types
<1>6. CASE Kill
  <2>1. NoProcess({}) /\ main' = "off" /\ UNCHANGED <<disk, runs>>
    BY <1>6 DEF Kill
  <2> QED
    BY <2>1, NoProcessTypes DEF Types, TypeOK, Phases, Busy, disk, MainStates
<1>7. CASE \E m \in Msgs : Delete(m)
  <2>1. TypeOK'
    BY <1>7 DEF Delete, Types, TypeOK, iterator, pool
  <2>2. Phases' /\ CursorIn'
    BY <1>7 DEF Delete, Types, Phases, CursorIn, Busy, iterator, pool
  <2> QED
    BY <2>1, <2>2 DEF Types
<1>8. CASE Done
  BY <1>1, <1>8 DEF Done
<1> QED
  BY <1>1, <1>2, <1>3, <1>4, <1>5, <1>6, <1>7, <1>8 DEF Step

\* The state of the command is what its fields and files can hold, Next makes no
\* element before the one before is taken, and Download is not started anew with
\* an iterator that failed (TypeOK of the runs; app/dl/iter.go, core/downloader).
THEOREM CommandTypes == Spec => []TypeOK
<1>1. Types => TypeOK
  BY DEF Types
<1> QED
  BY TypesInit, TypesStep, <1>1, PTL DEF Spec

-----------------------------------------------------------------------------
(* Positions.                                                              *)

\* The listed messages of all dialogs, and for each what it stands for.
AllListed == FlattenSeq(Dialogs)
AlbumsListed == [k \in DOMAIN AllListed |-> AlbumOf(AllListed[k])]

\* How many listed messages the first dialogs have, and how many positions the
\* first listed messages.
ListedAt == CHOOSE off : Flattened(AllListed, off, Dialogs)
ExpandedAt == CHOOSE off : Flattened(Expanded, off, AlbumsListed)

LEMMA AlbumTyped ==
    \A m \in Msgs : AlbumOf(m) \in Seq(Msgs) /\ Len(AlbumOf(m)) \in Nat
<1> SUFFICES ASSUME NEW m \in Msgs PROVE AlbumOf(m) \in Seq(Msgs) /\ Len(AlbumOf(m)) \in Nat
  OBVIOUS
<1>1. AlbumOf(m) \in Seq(Msgs)
  BY Constants DEF AlbumOf
<1> QED
  BY <1>1

LEMMA Places ==
    /\ AllListed \in Seq(Msgs) /\ Flattened(AllListed, ListedAt, Dialogs)
    /\ AlbumsListed \in Seq(Seq(Msgs)) /\ Len(AlbumsListed) = Len(AllListed) /\ Len(AllListed) \in Nat
    /\ \A k \in 1..Len(AllListed) : AllListed[k] \in Msgs /\ AlbumsListed[k] = AlbumOf(AllListed[k])
    /\ Expanded \in Seq(Msgs) /\ Len(Expanded) \in Nat
    /\ Flattened(Expanded, ExpandedAt, AlbumsListed)
<1>1. AllListed \in Seq(Msgs) /\ \E off : Flattened(AllListed, off, Dialogs)
  BY Constants, FlattenPlaces DEF AllListed
<1>2. Flattened(AllListed, ListedAt, Dialogs)
  BY <1>1 DEF ListedAt
<1>3. Len(AllListed) \in Nat /\ DOMAIN AllListed = 1..Len(AllListed) /\ \A k \in 1..Len(AllListed) : AllListed[k] \in Msgs
  BY <1>1
<1>4. \A k \in 1..Len(AllListed) : AlbumOf(AllListed[k]) \in Seq(Msgs)
  BY <1>3, AlbumTyped
<1> DEFINE q(k) == AlbumOf(AllListed[k])
           n == Len(AllListed)
           s == [k \in 1..n |-> q(k)]
<1>5. AlbumsListed = s
  BY <1>3 DEF AlbumsListed
<1>6. n \in Nat /\ \A k \in 1..n : q(k) \in Seq(Msgs)
  BY <1>3, <1>4
<1> HIDE DEF q, n
<1>7. s \in Seq(Seq(Msgs)) /\ Len(s) = n /\ \A k \in 1..n : s[k] = q(k)
  BY <1>6
<1> HIDE DEF s
<1>8. AlbumsListed \in Seq(Seq(Msgs)) /\ Len(AlbumsListed) = n /\ \A k \in 1..n : AlbumsListed[k] = q(k)
  BY <1>5, <1>7
<1>9. Expanded = FlattenSeq(AlbumsListed)
  BY DEF Expanded, AlbumsListed, AllListed
<1>10. Expanded \in Seq(Msgs) /\ \E off : Flattened(Expanded, off, AlbumsListed)
  BY <1>8, <1>9, FlattenPlaces
<1>11. Flattened(Expanded, ExpandedAt, AlbumsListed)
  BY <1>10 DEF ExpandedAt
<1>12. Len(Expanded) \in Nat
  BY <1>10
<1> QED
  BY <1>1, <1>2, <1>3, <1>8, <1>10, <1>11, <1>12 DEF q, n

\* How many listed messages process has been called for.
Cursor == ListedAt[dlg - 1] + num - 1

LEMMA CursorAtCurrent ==
    ASSUME Types, ~AtEnd
    PROVE  /\ Cursor \in Nat /\ Cursor + 1 \in 1..Len(AllListed)
           /\ AllListed[Cursor + 1] = Current
           /\ Advance => Cursor' = Cursor + 1
<1>1. /\ dlg \in 1..Len(Dialogs) /\ num \in 1..Len(Dialogs[dlg])
      /\ Len(Dialogs) \in Nat /\ Len(Dialogs[dlg]) \in Nat
  BY CurrentIsListed, Constants
<1>2. /\ ListedAt \in [0..Len(Dialogs) -> Nat]
      /\ ListedAt[dlg] = ListedAt[dlg - 1] + Len(Dialogs[dlg])
      /\ ListedAt[dlg - 1] + num \in 1..Len(AllListed)
      /\ AllListed[ListedAt[dlg - 1] + num] = Current
  BY <1>1, Places DEF Flattened, IsOffsets, Current
<1>3. dlg - 1 \in 0..Len(Dialogs) /\ num \in Nat /\ num >= 1 /\ num <= Len(Dialogs[dlg])
  BY <1>1
<1>4. ListedAt[dlg - 1] \in Nat
  BY <1>2, <1>3
<1> DEFINE at == ListedAt[dlg - 1]
           last == Len(Dialogs[dlg])
<1>5. at \in Nat /\ last \in Nat /\ Cursor = at + num - 1 /\ ListedAt[dlg] = at + last
  BY <1>1, <1>2, <1>4 DEF Cursor
<1>6. Cursor \in Nat /\ Cursor + 1 = at + num
  <2> HIDE DEF at, last
  <2> QED
    BY <1>3, <1>5
<1>7. ASSUME Advance PROVE Cursor' = Cursor + 1
  <2>1. Cursor' = ListedAt[dlg' - 1] + num' - 1
    BY DEF Cursor
  <2>2. CASE num + 1 > last
    <3>1. dlg' = dlg + 1 /\ num' = 1 /\ num = last
      BY <1>1, <1>7, <2>2 DEF Advance
    <3>2. (dlg + 1) - 1 = dlg
      BY <1>1
    <3>3. Cursor' = ListedAt[dlg] + 1 - 1
      BY <2>1, <3>1, <3>2
    <3> HIDE DEF at, last
    <3> QED
      BY <1>5, <1>6, <3>1, <3>3
  <2>3. CASE ~(num + 1 > last)
    <3>1. dlg' = dlg /\ num' = num + 1
      BY <1>7, <2>3 DEF Advance
    <3>2. Cursor' = at + (num + 1) - 1
      BY <2>1, <3>1
    <3> HIDE DEF at, last
    <3> QED
      BY <1>3, <1>5, <1>6, <3>2
  <2> QED
    BY <2>2, <2>3
<1> QED
  BY <1>2, <1>6, <1>7

\* The positions of the message that process is called for, and of the next one.
CursorPos == ExpandedAt[Cursor]

LEMMA CurrentPlaces ==
    ASSUME Types, ~AtEnd
    PROVE  /\ CursorPos \in Nat /\ Len(AlbumOf(Current)) \in Nat
           /\ ExpandedAt[Cursor + 1] = CursorPos + Len(AlbumOf(Current))
           /\ Advance => CursorPos' = CursorPos + Len(AlbumOf(Current))
           /\ \A k \in 1..Len(AlbumOf(Current)) :
                 CursorPos + k \in 1..Len(Expanded) /\ Expanded[CursorPos + k] = AlbumOf(Current)[k]
<1> DEFINE i == Cursor + 1
<1>1. i \in 1..Len(AllListed) /\ AllListed[i] = Current /\ Cursor \in Nat /\ i - 1 = Cursor /\ Len(AllListed) \in Nat
  BY CursorAtCurrent, Places
<1>2. AlbumsListed[i] = AlbumOf(Current) /\ Len(AlbumsListed) = Len(AllListed)
  BY <1>1, Places
<1>3. Len(AlbumOf(Current)) \in Nat
  BY CurrentIsListed, AlbumTyped
<1>4. Advance => CursorPos' = ExpandedAt[Cursor']
  BY DEF CursorPos
<1>5. Advance => Cursor' = i
  BY CursorAtCurrent
<1> HIDE DEF i
<1>6. /\ ExpandedAt \in [0..Len(AllListed) -> Nat]
      /\ ExpandedAt[i] = ExpandedAt[i - 1] + Len(AlbumsListed[i])
      /\ \A k \in 1..Len(AlbumsListed[i]) :
            /\ ExpandedAt[i - 1] + k \in 1..Len(Expanded)
            /\ Expanded[ExpandedAt[i - 1] + k] = AlbumsListed[i][k]
  BY <1>1, <1>2, Places DEF Flattened, IsOffsets
<1>7. ExpandedAt[i - 1] = CursorPos
  BY <1>1 DEF CursorPos
<1>8. i - 1 \in 0..Len(AllListed)
  BY <1>1
<1>9. CursorPos \in Nat
  BY <1>6, <1>7, <1>8
<1>10. ExpandedAt[i] = CursorPos + Len(AlbumOf(Current))
  BY <1>2, <1>6, <1>7
<1>11. Advance => CursorPos' = CursorPos + Len(AlbumOf(Current))
  BY <1>4, <1>5, <1>10
<1> QED
  BY <1>2, <1>3, <1>6, <1>7, <1>9, <1>10, <1>11 DEF i

\* The message of an element is the one at its position.
AtItsPlace(e) == e.pos < Len(Expanded) /\ Expanded[e.pos + 1] = e.msg

LEMMA CandidatesPlaced ==
    ASSUME Types, ~AtEnd, DeletableAlone, deleted \subseteq Deletable, Current \notin deleted,
           logicalPos = CursorPos
    PROVE  /\ Len(Candidates(Current)) = Len(AlbumOf(Current))
           /\ \A k \in 1..Len(AlbumOf(Current)) :
                 Candidates(Current)[k] = [msg |-> AlbumOf(Current)[k], pos |-> logicalPos + k - 1]
<1> DEFINE m == Current
<1>1. m \in Msgs /\ logicalPos \in Nat
  BY CurrentIsListed DEF Types, TypeOK
<1> HIDE DEF m
<1>2. CASE Album[m] = <<>>
  <2>1. AlbumOf(m) = <<m>> /\ Candidates(m) = <<[msg |-> m, pos |-> logicalPos]>>
    BY <1>2 DEF AlbumOf, Candidates
  <2>2. Len(AlbumOf(m)) = 1 /\ AlbumOf(m)[1] = m
    BY <2>1
  <2> DEFINE e == [msg |-> m, pos |-> logicalPos]
  <2>3. logicalPos + 1 - 1 = logicalPos
    BY <1>1
  <2>4. e = [msg |-> m, pos |-> logicalPos + 1 - 1]
    BY <2>3
  <2> HIDE DEF e
  <2>5. Len(<<e>>) = 1 /\ <<e>>[1] = e
    OBVIOUS
  <2>6. Candidates(m) = <<e>>
    BY <2>1 DEF e
  <2>7. \A k \in 1..1 : k = 1
    OBVIOUS
  <2> QED
    BY <2>2, <2>4, <2>5, <2>6, <2>7 DEF m
<1>3. CASE Album[m] # <<>>
  <2>1. AlbumOf(m) = Album[m] /\ Album[m] \in Seq(Msgs)
    BY <1>1, <1>3, Constants DEF AlbumOf
  <2>2. ToSet(Album[m]) \subseteq Msgs \ deleted
    <3>1. ToSet(Album[m]) \subseteq Msgs
      BY <2>1 DEF ToSet
    <3>2. \A x \in deleted : x \notin ToSet(Album[m])
      BY <1>1 DEF DeletableAlone
    <3> QED
      BY <3>1, <3>2
  <2>3. Members(m) = Album[m]
    BY <2>1, <2>2, KeepAll DEF Members
  <2>4. Candidates(m) = [k \in 1..Len(Album[m]) |-> [msg |-> Album[m][k], pos |-> logicalPos + k - 1]]
    BY <1>3, <2>3 DEF Candidates
  <2> DEFINE n == Len(Album[m])
             e(k) == [msg |-> Album[m][k], pos |-> logicalPos + k - 1]
  <2>5. n \in Nat
    BY <2>1
  <2> HIDE DEF n, e
  <2>6. Len([k \in 1..n |-> e(k)]) = n /\ \A k \in 1..n : [j \in 1..n |-> e(j)][k] = e(k)
    BY <2>5
  <2>7. Candidates(m) = [k \in 1..n |-> e(k)]
    BY <2>4 DEF n, e
  <2>8. Len(Candidates(m)) = n /\ \A k \in 1..n : Candidates(m)[k] = e(k)
    BY <2>6, <2>7
  <2> QED
    BY <2>1, <2>8 DEF n, e, m
<1> QED
  BY <1>2, <1>3

LEMMA TodoPlaced ==
    ASSUME Types, ~AtEnd, DeletableAlone, deleted \subseteq Deletable, Current \notin deleted,
           logicalPos = CursorPos
    PROVE  /\ IsInjective(Todo(Current))
           /\ \A e \in ToSet(Todo(Current)) :
                 /\ e \in Elems /\ AtItsPlace(e) /\ e.pos \notin finished /\ Wanted(e.msg)
                 /\ logicalPos <= e.pos /\ e.pos < logicalPos + Len(AlbumOf(Current))
           /\ \A p \in logicalPos..(logicalPos + Len(AlbumOf(Current)) - 1) :
                 \/ \E e \in ToSet(Todo(Current)) : e.pos = p
                 \/ p \in finished \/ ~Wanted(Expanded[p + 1])
<1> DEFINE n == Len(AlbumOf(Current))
           q == Candidates(Current)
           album == AlbumOf(Current)
<1>1. n \in Nat /\ logicalPos \in Nat /\ Current \in Msgs /\ Len(Expanded) \in Nat
  BY CurrentPlaces, CurrentIsListed, Places
<1>2. /\ q \in Seq(Elems) /\ Len(q) = n
      /\ \A k \in 1..n : q[k] = [msg |-> album[k], pos |-> logicalPos + k - 1]
  BY <1>1, CandidatesPlaced, CandidatesTyped DEF Types
<1>3. DOMAIN q = 1..n /\ \A k \in 1..n : q[k] \in Elems
  BY <1>2
<1>4. /\ Todo(Current) \in Seq(Elems)
      /\ ToSet(Todo(Current)) = {e \in ToSet(q) : e.pos \notin finished /\ Wanted(e.msg)}
  BY <1>1, CandidatesTyped DEF Types
<1>5. \A k \in 1..n : logicalPos + k \in 1..Len(Expanded) /\ Expanded[logicalPos + k] = album[k]
  BY CurrentPlaces
<1>6. Todo(Current) = Keep(q, {e \in Range(q) : e.pos \notin finished /\ Wanted(e.msg)})
  BY DEF Todo
<1> HIDE DEF n, q, album
<1>7. \A k \in 1..n : q[k].msg = album[k] /\ q[k].pos = logicalPos + k - 1
  BY <1>2
<1>8. \A k \in 1..n : (logicalPos + k - 1) + 1 = logicalPos + k
  BY <1>1
<1>9. IsInjective(q)
  <2>1. \A i, k \in 1..n : logicalPos + i - 1 = logicalPos + k - 1 => i = k
    BY <1>1
  <2> QED
    BY <1>3, <1>7, <2>1 DEF IsInjective
<1>10. IsInjective(Todo(Current))
  BY <1>2, <1>6, <1>9, KeepInjective
<1>11. ASSUME NEW e \in ToSet(Todo(Current))
       PROVE  /\ e \in Elems /\ AtItsPlace(e) /\ e.pos \notin finished /\ Wanted(e.msg)
              /\ logicalPos <= e.pos /\ e.pos < logicalPos + n
  <2>1. PICK k \in 1..n : e = q[k]
    BY <1>3, <1>4 DEF ToSet
  <2>2. e.pos = logicalPos + k - 1 /\ e.pos + 1 = logicalPos + k /\ e.msg = album[k]
    BY <1>7, <1>8, <2>1
  <2>3. AtItsPlace(e)
    <3>1. Expanded[e.pos + 1] = e.msg /\ logicalPos + k <= Len(Expanded) /\ k \in Nat
      BY <1>5, <2>2
    <3>2. e.pos < Len(Expanded)
      BY <1>1, <2>2, <3>1
    <3> QED
      BY <3>1, <3>2 DEF AtItsPlace
  <2>4. logicalPos <= e.pos /\ e.pos < logicalPos + n
    BY <1>1, <2>2
  <2> QED
    BY <1>3, <1>4, <2>1, <2>3, <2>4
<1>12. ASSUME NEW p \in logicalPos..(logicalPos + n - 1)
       PROVE  \/ \E e \in ToSet(Todo(Current)) : e.pos = p
              \/ p \in finished \/ ~Wanted(Expanded[p + 1])
  <2> DEFINE k == p + 1 - logicalPos
  <2>1. k \in 1..n /\ logicalPos + k - 1 = p /\ logicalPos + k = p + 1
    BY <1>1
  <2> HIDE DEF k
  <2>2. q[k].pos = p /\ q[k].msg = Expanded[p + 1] /\ q[k] \in ToSet(q)
    BY <1>3, <1>5, <1>7, <2>1 DEF ToSet
  <2> QED
    BY <1>4, <2>2
<1> QED
  BY <1>10, <1>11, <1>12 DEF n

ElemsPlaced ==
    /\ \A e \in ToSet(elem) : AtItsPlace(e) /\ (~err => e.pos < logicalPos)
    /\ IsInjective(elem)

WorkPlaced ==
    \A w \in Workers : Busy(w) => /\ AtItsPlace(work[w].e) /\ work[w].e.pos < logicalPos
                                  /\ work[w].e \notin ToSet(elem)

WorkApart ==
    \A v, w \in Workers : v # w /\ Busy(v) /\ Busy(w) => work[v].e # work[w].e

\* The elements that wait or are worked on are at their places, and different.
Placed ==
    /\ deleted \subseteq Deletable
    /\ ~err => logicalPos = CursorPos
    /\ ElemsPlaced /\ WorkPlaced /\ WorkApart

LEMMA NoProcessPlaced ==
    ASSUME NEW fin, NoProcess(fin), deleted' \subseteq Deletable
    PROVE  Placed'
<1>1. /\ dlg' = 1 /\ num' = 1 /\ logicalPos' = 0 /\ elem' = <<>>
      /\ \A w \in Workers : ~(work'[w] # Idle)
  BY DEF NoProcess
<1>2. CursorPos' = 0
  <2>1. ListedAt[0] = 0 /\ ExpandedAt[0] = 0
    BY Places DEF Flattened, IsOffsets
  <2>2. Cursor' = ListedAt[1 - 1] + 1 - 1
    BY <1>1 DEF Cursor
  <2>3. Cursor' = 0
    BY <2>1, <2>2
  <2>4. CursorPos' = ExpandedAt[Cursor']
    BY DEF CursorPos
  <2> QED
    BY <2>1, <2>3, <2>4
<1>3. ToSet(elem') = {} /\ IsInjective(elem')
  BY <1>1 DEF ToSet, IsInjective
<1>4. ElemsPlaced'
  BY <1>3 DEF ElemsPlaced
<1>5. WorkPlaced' /\ WorkApart'
  BY <1>1 DEF WorkPlaced, WorkApart, Busy
<1> QED
  BY <1>1, <1>2, <1>4, <1>5 DEF Placed

LEMMA SamePlaced ==
    ASSUME Placed, UNCHANGED <<dlg, num, logicalPos, elem, work>>, deleted' \subseteq Deletable,
           err => err'
    PROVE  Placed'
<1>1. CursorPos' = CursorPos
  BY DEF CursorPos, Cursor
<1>2. ElemsPlaced'
  BY DEF Placed, ElemsPlaced, AtItsPlace
<1>3. WorkPlaced' /\ WorkApart'
  BY DEF Placed, WorkPlaced, WorkApart, Busy, AtItsPlace
<1> QED
  BY <1>1, <1>2, <1>3 DEF Placed

\* A goroutine keeps its element until it ends.
LEMMA WorkMoves ==
    ASSUME Types, NEW w \in Workers, Work(w)
    PROVE  /\ work[w] \in Tasks /\ Busy(w) /\ work[w].e.msg \in Msgs /\ work[w].e.pos \in Nat
           /\ \A v \in Workers : v # w => work'[v] = work[v]
           /\ work'[w] # Idle => work'[w].e = work[w].e
           /\ UNCHANGED <<deleted, record, runs, main, canceled, dlg, num, logicalPos, err, elem, rerr>>
<1> USE DEF WorkStates
<1>1. CASE OnAdd(w)
  BY <1>1, MovesOn DEF OnAdd, Types, Moves
<1>2. CASE DownloadDone(w)
  BY <1>2, MovesOn DEF DownloadDone, Types, Moves
<1>3. CASE DownloadFails(w)
  BY <1>3, MovesOn DEF DownloadFails, Types, Moves
<1>4. CASE DownloadCanceled(w)
  BY <1>4, MovesOn DEF DownloadCanceled, Types, Moves
<1>5. CASE Finish(w)
  BY <1>5, MovesOn DEF Finish, Types, Moves
<1>6. CASE Rename(w)
  BY <1>6, MovesOn DEF Rename, Types, Moves
<1>7. CASE RemoveTmp(w)
  BY <1>7, MovesOn DEF RemoveTmp, Types, Moves
<1>8. CASE CloseFails(w)
  <2>1. PICK at \in {"finish", "remove"} : Moves(w, at, "idle")
    BY <1>8 DEF CloseFails
  <2> QED
    BY <1>8, <2>1, MovesOn DEF CloseFails, Types, Moves
<1>9. CASE RenameFails(w)
  BY <1>9, MovesOn DEF RenameFails, Types, Moves
<1> QED
  BY <1>1, <1>2, <1>3, <1>4, <1>5, <1>6, <1>7, <1>8, <1>9 DEF Work

LEMMA WorkKeepsPlaced ==
    ASSUME Types, Placed, NEW w \in Workers, Work(w)
    PROVE  Placed'
<1>1. \A v \in Workers : work'[v] # Idle => Busy(v) /\ work'[v].e = work[v].e
  BY WorkMoves DEF Busy
<1>2. UNCHANGED <<deleted, dlg, num, logicalPos, err, elem>>
  BY WorkMoves
<1>3. CursorPos' = CursorPos
  BY <1>2 DEF CursorPos, Cursor
<1>4. ElemsPlaced'
  BY <1>2 DEF Placed, ElemsPlaced, AtItsPlace
<1>5. WorkPlaced'
  BY <1>1, <1>2 DEF Placed, WorkPlaced, AtItsPlace, Busy
<1>6. WorkApart'
  BY <1>1 DEF Placed, WorkApart, Busy
<1> QED
  BY <1>2, <1>3, <1>4, <1>5, <1>6 DEF Placed

LEMMA SpawnKeepsPlaced ==
    ASSUME Types, Placed, NEW w \in Workers, Spawn(w)
    PROVE  Placed'
<1>1. elem \in Seq(Elems) /\ elem # <<>> /\ work \in [Workers -> {Idle} \cup Tasks] /\ ~err
  BY DEF Spawn, Types, TypeOK, Phases
<1>2. /\ ToSet(elem) = {Head(elem)} \cup ToSet(Tail(elem))
      /\ IsInjective(Tail(elem)) /\ Head(elem) \notin ToSet(Tail(elem))
  BY <1>1, HeadTailSet DEF Placed, ElemsPlaced
<1>3. /\ elem' = Tail(elem) /\ UNCHANGED <<deleted, dlg, num, logicalPos, err>>
      /\ work' = [work EXCEPT ![w] = [at |-> "add", e |-> Head(elem)]]
      /\ work[w] = Idle
  BY DEF Spawn, disk
<1>4. work'[w].e = Head(elem) /\ \A v \in Workers : v # w => work'[v] = work[v]
  BY <1>1, <1>3
<1>5. AtItsPlace(Head(elem)) /\ Head(elem).pos < logicalPos
  BY <1>1, <1>2 DEF Placed, ElemsPlaced
<1>6. CursorPos' = CursorPos
  BY <1>3 DEF CursorPos, Cursor
<1>7. ElemsPlaced'
  <2> DEFINE rest == Tail(elem)
  <2>1. elem' = rest /\ IsInjective(rest) /\ \A e \in ToSet(rest) : e \in ToSet(elem)
    BY <1>2, <1>3
  <2> HIDE DEF rest
  <2>2. \A e \in ToSet(rest) : AtItsPlace(e) /\ (~err => e.pos < logicalPos)
    BY <2>1 DEF Placed, ElemsPlaced
  <2> QED
    BY <1>3, <2>1, <2>2 DEF ElemsPlaced, AtItsPlace
<1>8. WorkPlaced'
  <2> SUFFICES ASSUME NEW v \in Workers, work'[v] # Idle
               PROVE  /\ AtItsPlace(work'[v].e) /\ work'[v].e.pos < logicalPos
                      /\ work'[v].e \notin ToSet(Tail(elem))
    BY <1>3 DEF WorkPlaced, AtItsPlace, Busy
  <2>1. CASE v = w
    BY <1>2, <1>4, <1>5, <2>1
  <2>2. CASE v # w
    BY <1>2, <1>4, <2>2 DEF Placed, WorkPlaced, Busy
  <2> QED
    BY <2>1, <2>2
<1>9. WorkApart'
  <2> SUFFICES ASSUME NEW u \in Workers, NEW v \in Workers, u # v, work'[u] # Idle, work'[v] # Idle
               PROVE  work'[u].e # work'[v].e
    BY DEF WorkApart, Busy
  <2>1. \A x \in Workers : x # w /\ work'[x] # Idle => work'[x].e # Head(elem)
    BY <1>2, <1>4 DEF Placed, WorkPlaced, Busy
  <2>2. CASE u # w /\ v # w
    BY <1>4, <2>2 DEF Placed, WorkApart, Busy
  <2> QED
    BY <1>4, <2>1, <2>2
<1> QED
  BY <1>3, <1>6, <1>7, <1>8, <1>9 DEF Placed

LEMMA ProcessKeepsPlaced ==
    ASSUME DeletableAlone, Types, Placed, Process
    PROVE  Placed'
<1> DEFINE n == Len(AlbumOf(Current))
           m == Current
<1>1. /\ ~AtEnd /\ Advance /\ elem = <<>> /\ ~err /\ logicalPos = CursorPos /\ logicalPos \in Nat
      /\ deleted \subseteq Deletable /\ UNCHANGED <<deleted, err, work>>
  BY DEF Process, Types, TypeOK, Phases, Placed, pool
<1>2. n \in Nat /\ CursorPos' = logicalPos + n /\ m \in Msgs
  BY <1>1, CurrentPlaces, CurrentIsListed
<1>3. logicalPos' = logicalPos + n
  <2>1. CASE m \in deleted
    <3>1. Album[m] = <<>>
      BY <1>1, <2>1 DEF DeletableAlone
    <3>2. n = 1
      BY <3>1 DEF AlbumOf
    <3>3. logicalPos' = logicalPos + 1
      BY <2>1 DEF Process, Current
    <3> QED
      BY <3>2, <3>3
  <2>2. CASE m \notin deleted
    <3>1. logicalPos' = logicalPos + Len(Candidates(m))
      BY <2>2 DEF Process, Current
    <3>2. Len(Candidates(m)) = n
      BY <1>1, <2>2, CandidatesPlaced
    <3> QED
      BY <3>1, <3>2
  <2> QED
    BY <2>1, <2>2
<1>4. /\ IsInjective(elem')
      /\ \A e \in ToSet(elem') : /\ AtItsPlace(e) /\ e \in Elems
                                 /\ logicalPos <= e.pos /\ e.pos < logicalPos + n
  <2>1. CASE m \in deleted
    <3>1. elem' = <<>>
      BY <1>1, <2>1 DEF Process, Current
    <3> QED
      BY <3>1 DEF ToSet, IsInjective
  <2>2. CASE m \notin deleted
    <3>1. elem' = Todo(m)
      BY <2>2 DEF Process, Current
    <3> QED
      BY <1>1, <2>2, <3>1, TodoPlaced
  <2> QED
    BY <2>1, <2>2
<1> HIDE DEF n, m
<1>5. ElemsPlaced'
  BY <1>3, <1>4 DEF ElemsPlaced, AtItsPlace
<1>6. WorkPlaced'
  <2> SUFFICES ASSUME NEW w \in Workers, Busy(w)
               PROVE  /\ AtItsPlace(work[w].e) /\ work[w].e.pos < logicalPos'
                      /\ work[w].e \notin ToSet(elem')
    BY <1>1 DEF WorkPlaced, AtItsPlace, Busy
  <2>1. AtItsPlace(work[w].e) /\ work[w].e.pos < logicalPos /\ work[w].e.pos \in Nat
    <3>1. work[w].e.pos \in Nat
      BY DEF Types, TypeOK, Busy, Tasks, Elems
    <3> QED
      BY <3>1 DEF Placed, WorkPlaced
  <2>2. work[w].e \notin ToSet(elem')
    BY <1>1, <1>4, <2>1
  <2>3. work[w].e.pos < logicalPos'
    BY <1>1, <1>2, <1>3, <2>1
  <2> QED
    BY <2>1, <2>2, <2>3
<1>7. WorkApart'
  BY <1>1 DEF Placed, WorkApart, Busy
<1> QED
  BY <1>1, <1>2, <1>3, <1>5, <1>6, <1>7 DEF Placed

LEMMA ErrorKeepsPlaced ==
    ASSUME DeletableAlone, Types, Placed, ProcessError
    PROVE  Placed'
<1>1. /\ ~AtEnd /\ ~err /\ logicalPos = CursorPos /\ logicalPos \in Nat /\ Current \in Msgs
      /\ deleted \subseteq Deletable /\ UNCHANGED <<deleted, work, logicalPos>> /\ err'
  BY CurrentIsListed DEF ProcessError, Types, TypeOK, Phases, Placed, pool
<1>2. Todo(Current) \in Seq(Elems) /\ Len(Todo(Current)) \in Nat
  BY <1>1, CandidatesTyped DEF Types
<1>3. PICK k \in 0..(IF Current \in deleted THEN 0 ELSE Len(Todo(Current))) :
         elem' = SubSeq(Todo(Current), 1, k)
  BY DEF ProcessError, Current
<1>4. /\ IsInjective(elem')
      /\ \A e \in ToSet(elem') : AtItsPlace(e) /\ e \in Elems /\ logicalPos <= e.pos
  <2>1. CASE Current \in deleted
    <3>1. k = 0
      BY <2>1
    <3>2. elem' = <<>>
      BY <1>3, <3>1, SubSeqEmpty
    <3> QED
      BY <3>2 DEF ToSet, IsInjective
  <2>2. CASE Current \notin deleted
    <3>1. k \in 0..Len(Todo(Current))
      BY <2>2
    <3>2. /\ IsInjective(Todo(Current))
          /\ \A e \in ToSet(Todo(Current)) : AtItsPlace(e) /\ e \in Elems /\ logicalPos <= e.pos
      BY <1>1, <2>2, TodoPlaced
    <3>3. IsInjective(elem') /\ ToSet(elem') \subseteq ToSet(Todo(Current))
      BY <1>2, <1>3, <3>1, <3>2, PrefixSet
    <3> QED
      BY <3>2, <3>3
  <2> QED
    BY <2>1, <2>2
<1>5. ElemsPlaced'
  BY <1>1, <1>4 DEF ElemsPlaced, AtItsPlace
<1>6. WorkPlaced'
  <2> SUFFICES ASSUME NEW w \in Workers, Busy(w)
               PROVE  /\ AtItsPlace(work[w].e) /\ work[w].e.pos < logicalPos
                      /\ work[w].e \notin ToSet(elem')
    BY <1>1 DEF WorkPlaced, AtItsPlace, Busy
  <2>1. AtItsPlace(work[w].e) /\ work[w].e.pos < logicalPos
    BY DEF Placed, WorkPlaced
  <2>2. work[w].e.pos \in Nat
    BY DEF Types, TypeOK, Busy, Tasks, Elems
  <2> QED
    BY <1>1, <1>4, <2>1, <2>2
<1>7. WorkApart'
  BY <1>1 DEF Placed, WorkApart, Busy
<1> QED
  BY <1>1, <1>5, <1>6, <1>7 DEF Placed

LEMMA PlacedInit == Init => Placed
<1> SUFFICES ASSUME Init PROVE Placed
  OBVIOUS
<1>1. /\ dlg = 1 /\ num = 1 /\ logicalPos = 0 /\ elem = <<>> /\ deleted = {}
      /\ \A w \in Workers : ~(work[w] # Idle)
  BY DEF Init
<1>2. CursorPos = 0
  <2>1. ListedAt[0] = 0 /\ ExpandedAt[0] = 0
    BY Places DEF Flattened, IsOffsets
  <2>2. Cursor = ListedAt[1 - 1] + 1 - 1
    BY <1>1 DEF Cursor
  <2>3. Cursor = 0
    BY <2>1, <2>2
  <2> QED
    BY <2>1, <2>3 DEF CursorPos
<1>3. ToSet(elem) = {} /\ IsInjective(elem)
  BY <1>1 DEF ToSet, IsInjective
<1>4. ElemsPlaced
  BY <1>3 DEF ElemsPlaced
<1>5. WorkPlaced /\ WorkApart
  BY <1>1 DEF WorkPlaced, WorkApart, Busy
<1> QED
  BY <1>1, <1>2, <1>4, <1>5 DEF Placed

LEMMA PlacedStep ==
    ASSUME DeletableAlone, Types, Placed, [Step]_vars
    PROVE  Placed'
<1>1. CASE UNCHANGED vars
  <2>1. UNCHANGED <<dlg, num, logicalPos, elem, work>> /\ deleted' \subseteq Deletable /\ (err => err')
    BY <1>1 DEF vars, disk, iterator, pool, Placed
  <2> QED
    BY <2>1, SamePlaced
<1>2. CASE (\E fin, rec : Start(fin, rec)) \/ Exit \/ MapRace \/ Kill
  <2>1. \E fin : NoProcess(fin) /\ deleted' \subseteq Deletable
    BY <1>2 DEF Start, Exit, MapRace, Kill, disk, Placed
  <2> QED
    BY <2>1, NoProcessPlaced
<1>3. CASE Next \/ ProcessEnd \/ Wait \/ ProgressWait \/ Save \/ UserCancel \/ \E m \in Msgs : Delete(m)
  <2>1. UNCHANGED <<dlg, num, logicalPos, elem, work>> /\ deleted' \subseteq Deletable /\ (err => err')
    <3>1. CASE Next
      BY <3>1, Zenon DEF Next, disk, pool, Placed
    <3>2. CASE ProcessEnd \/ Wait \/ ProgressWait \/ Save \/ UserCancel
      BY <3>2 DEF ProcessEnd, Wait, ProgressWait, Save, UserCancel, disk, iterator, pool, Placed
    <3>3. CASE \E m \in Msgs : Delete(m)
      BY <3>3 DEF Delete, iterator, pool, Placed
    <3> QED
      BY <1>3, <3>1, <3>2, <3>3
  <2> QED
    BY <2>1, SamePlaced
<1>4. CASE Process
  BY <1>4, ProcessKeepsPlaced
<1>5. CASE ProcessError
  BY <1>5, ErrorKeepsPlaced
<1>6. CASE \E w \in Workers : Spawn(w)
  BY <1>6, SpawnKeepsPlaced
<1>7. CASE \E w \in Workers : Work(w)
  BY <1>7, WorkKeepsPlaced
<1>8. CASE Continue \/ Decline \/ Restart
  BY <1>2, <1>8 DEF Continue, Decline, Restart
<1>9. CASE Done
  BY <1>1, <1>9 DEF Done
<1> QED
  BY <1>1, <1>2, <1>3, <1>4, <1>5, <1>6, <1>7, <1>8, <1>9 DEF Step, MainStep

-----------------------------------------------------------------------------
(* Positions and writers.                                                  *)

\* Every position of an element is the position of its message, whatever was
\* skipped, finished or deleted before, in this run and in those before it
\* (process of app/dl/iter.go), if no member of an album is deleted.
THEOREM PositionsKept ==
    ASSUME DeletableAlone
    PROVE  Spec => []PositionsStable
<1>1. Init => Types /\ Placed
  BY TypesInit, PlacedInit
<1>2. Types /\ Placed /\ [Step]_vars => Types' /\ Placed'
  BY TypesStep, PlacedStep
<1>3. Types /\ Placed => PositionsStable
  <2> SUFFICES ASSUME Types, Placed PROVE PositionsStable
    OBVIOUS
  <2>1. elem \in Seq(Elems)
    BY DEF Types, TypeOK
  <2>2. \A k \in 1..Len(elem) : elem[k] \in ToSet(elem)
    BY <2>1 DEF ToSet
  <2> QED
    BY <2>2 DEF PositionsStable, Placed, ElemsPlaced, WorkPlaced, AtItsPlace, Busy
<1> QED
  BY <1>1, <1>2, <1>3, PTL DEF Spec

LEMMA SamePlace ==
    ASSUME DistinctFiles, NEW a \in Elems, NEW b \in Elems, AtItsPlace(a), AtItsPlace(b)
    PROVE  /\ a.msg = b.msg => a = b
           /\ a.pos = b.pos => a = b
<1>1. a.pos \in Nat /\ b.pos \in Nat /\ Len(Expanded) \in Nat /\ DOMAIN Expanded = 1..Len(Expanded)
  BY Places DEF Elems
<1>2. a.pos + 1 \in 1..Len(Expanded) /\ b.pos + 1 \in 1..Len(Expanded)
  BY <1>1 DEF AtItsPlace
<1>3. a.pos + 1 = b.pos + 1 => a.pos = b.pos
  BY <1>1
<1>4. a.msg = b.msg => a.pos = b.pos
  BY <1>1, <1>2, <1>3 DEF DistinctFiles, IsInjective, AtItsPlace
<1>5. a.pos = b.pos => a.msg = b.msg
  BY DEF AtItsPlace
<1>6. a.msg = b.msg /\ a.pos = b.pos => a = b
  BY DEF Elems
<1> QED
  BY <1>4, <1>5, <1>6

LEMMA ElementsTyped ==
    ASSUME Types
    PROVE  /\ \A e \in ToSet(elem) : e \in Elems /\ e.msg \in Msgs /\ e.pos \in Nat
           /\ \A w \in Workers : Busy(w) => /\ work[w] \in Tasks /\ work[w].e \in Elems
                                           /\ work[w].e.msg \in Msgs /\ work[w].e.pos \in Nat
<1>1. elem \in Seq(Elems)
  BY DEF Types, TypeOK
<1>2. \A e \in ToSet(elem) : e \in Elems
  BY <1>1 DEF ToSet
<1>3. \A w \in Workers : Busy(w) => work[w] \in Tasks
  BY DEF Types, TypeOK, Busy
<1> QED
  BY <1>2, <1>3 DEF Tasks, Elems

\* Different elements have different files and positions.
LEMMA ElementsApart ==
    ASSUME DistinctFiles, Types, Placed
    PROVE  /\ \A w \in Workers, e \in ToSet(elem) :
                 Busy(w) => work[w].e.msg # e.msg /\ work[w].e.pos # e.pos
           /\ \A v, w \in Workers : v # w /\ Busy(v) /\ Busy(w) =>
                 work[v].e.msg # work[w].e.msg /\ work[v].e.pos # work[w].e.pos
<1>1. ASSUME NEW w \in Workers, NEW e \in ToSet(elem), Busy(w)
      PROVE  work[w].e.msg # e.msg /\ work[w].e.pos # e.pos
  <2>1. work[w].e \in Elems /\ e \in Elems /\ work[w].e # e
    BY <1>1, ElementsTyped DEF Placed, WorkPlaced
  <2>2. AtItsPlace(work[w].e) /\ AtItsPlace(e)
    BY <1>1 DEF Placed, WorkPlaced, ElemsPlaced
  <2> QED
    BY <2>1, <2>2, SamePlace
<1>2. ASSUME NEW v \in Workers, NEW w \in Workers, v # w, Busy(v), Busy(w)
      PROVE  work[v].e.msg # work[w].e.msg /\ work[v].e.pos # work[w].e.pos
  <2>1. work[v].e \in Elems /\ work[w].e \in Elems /\ work[v].e # work[w].e
    BY <1>2, ElementsTyped DEF Placed, WorkApart
  <2>2. AtItsPlace(work[v].e) /\ AtItsPlace(work[w].e)
    BY <1>2 DEF Placed, WorkPlaced
  <2> QED
    BY <2>1, <2>2, SamePlace
<1> QED
  BY <1>1, <1>2

\* Two goroutines never write one file, and the file of a running goroutine is
\* never that of an element which waits (core/downloader, app/dl/iter.go), if no
\* file has two positions: an album whose member is listed itself is excluded, and
\* there the code does have two writers.
THEOREM OneWriterPerFile ==
    ASSUME DeletableAlone, DistinctFiles
    PROVE  Spec => []OneWriter
<1>1. Init => Types /\ Placed
  BY TypesInit, PlacedInit
<1>2. Types /\ Placed /\ [Step]_vars => Types' /\ Placed'
  BY TypesStep, PlacedStep
<1>3. Types /\ Placed => OneWriter
  <2> SUFFICES ASSUME Types, Placed PROVE OneWriter
    OBVIOUS
  <2>1. elem \in Seq(Elems)
    BY DEF Types, TypeOK
  <2>2. \A k \in 1..Len(elem) : elem[k] \in ToSet(elem)
    BY <2>1 DEF ToSet
  <2> QED
    BY <2>2, ElementsApart DEF OneWriter, Busy
<1> QED
  BY <1>1, <1>2, <1>3, PTL DEF Spec

-----------------------------------------------------------------------------
(* Files.                                                                  *)

\* With --skip-same no element is made of a file that is there.
NewFiles ==
    SkipSame => /\ \A e \in ToSet(elem) : final[e.msg] # "full"
                /\ \A w \in Workers : Busy(w) => final[work[w].e.msg] # "full"

\* What is renamed was written to its end.
WholeTmp ==
    ~MayFail => \A w \in Workers :
        Busy(w) /\ work[w].at \in {"finish", "rename"} => tmp[work[w].e.msg] = "full"

\* A position is marked finished in the step before the renaming.
Unfinished ==
    /\ \A e \in ToSet(elem) : e.pos \notin finished
    /\ \A w \in Workers : Busy(w) => (work[w].e.pos \in finished <=> work[w].at = "rename")

Files == NewFiles /\ WholeTmp /\ Unfinished

\* What both outcomes of process make.
LEMMA MakesElements ==
    ASSUME DeletableAlone, DistinctFiles, Types, Placed, Process \/ ProcessError
    PROVE  /\ \A e \in ToSet(elem') : /\ e \in Elems /\ AtItsPlace(e) /\ logicalPos <= e.pos
                                      /\ e.pos \notin finished /\ Wanted(e.msg)
           /\ \A m \in Msgs : tmp'[m] = IF \E e \in ToSet(elem') : e.msg = m THEN "partial" ELSE tmp[m]
           /\ UNCHANGED <<deleted, record, final, runs, canceled, finished, work, trackers, groupErr>>
           /\ \A w \in Workers : Busy(w) => \A e \in ToSet(elem') :
                 work[w].e.msg # e.msg /\ work[w].e.pos # e.pos
<1>1. /\ ~AtEnd /\ elem = <<>> /\ ~err /\ logicalPos = CursorPos /\ logicalPos \in Nat /\ Current \in Msgs
      /\ deleted \subseteq Deletable
  BY CurrentIsListed DEF Process, ProcessError, Types, TypeOK, Phases, Placed
<1> DEFINE todo == Todo(Current)
           Makes(es) == elem' = es /\ (tmp' = Created(es) \/ (es = <<>> /\ tmp' = tmp))
<1>2. todo \in Seq(Elems) /\ Len(todo) \in Nat
  BY <1>1, CandidatesTyped DEF Types
<1>3. \E k \in 0..Len(todo) : Makes(SubSeq(todo, 1, k)) /\ (Current \in deleted => k = 0)
  <2>1. SubSeq(todo, 1, 0) = <<>>
    BY SubSeqEmpty
  <2>2. CASE ProcessError
    <3>1. PICK k \in 0..(IF Current \in deleted THEN 0 ELSE Len(todo)) :
             elem' = SubSeq(todo, 1, k) /\ tmp' = Created(elem')
      BY <2>2 DEF ProcessError, Current
    <3>2. k \in 0..Len(todo) /\ (Current \in deleted => k = 0)
      BY <1>2, <3>1
    <3> QED
      BY <3>1, <3>2
  <2>3. CASE Process /\ Current \in deleted
    <3>1. elem' = <<>> /\ tmp' = tmp
      BY <1>1, <2>3 DEF Process, Current
    <3>2. 0 \in 0..Len(todo)
      BY <1>2
    <3> QED
      BY <2>1, <3>1, <3>2
  <2>4. CASE Process /\ Current \notin deleted
    <3>1. elem' = todo /\ tmp' = Created(todo)
      BY <2>4 DEF Process, Current
    <3>2. Len(todo) \in 0..Len(todo) /\ SubSeq(todo, 1, Len(todo)) = todo
      BY <1>2
    <3> QED
      BY <2>4, <3>1, <3>2
  <2> QED
    BY <2>2, <2>3, <2>4
<1>4. PICK k \in 0..Len(todo) : Makes(SubSeq(todo, 1, k)) /\ (Current \in deleted => k = 0)
  BY <1>3
<1> DEFINE es == SubSeq(todo, 1, k)
<1>5. es \in Seq(Elems) /\ ToSet(es) \subseteq ToSet(todo)
  BY <1>2, PrefixSet
<1>6. \A e \in ToSet(es) : /\ e \in Elems /\ AtItsPlace(e) /\ logicalPos <= e.pos
                           /\ e.pos \notin finished /\ Wanted(e.msg)
  <2>1. CASE Current \in deleted
    <3>1. es = <<>>
      BY <1>4, <2>1, SubSeqEmpty
    <3> QED
      BY <3>1 DEF ToSet
  <2>2. CASE Current \notin deleted
    BY <1>1, <1>5, <2>2, TodoPlaced
  <2> QED
    BY <2>1, <2>2
<1>7. Len(es) \in Nat /\ DOMAIN es = 1..Len(es)
  BY <1>5
<1>8. elem' = es /\ (tmp' = Created(es) \/ (es = <<>> /\ tmp' = tmp))
  BY <1>4
<1> HIDE DEF es, todo
<1>9. \A m \in Msgs : tmp'[m] = IF \E e \in ToSet(elem') : e.msg = m THEN "partial" ELSE tmp[m]
  <2>1. \A m : (\E e \in ToSet(es) : e.msg = m) <=> \E i \in 1..Len(es) : es[i].msg = m
    BY <1>7 DEF ToSet
  <2>2. es = <<>> => ToSet(es) = {}
    BY DEF ToSet
  <2>3. CASE tmp' = Created(es)
    BY <1>8, <2>1, <2>3 DEF Created
  <2>4. CASE es = <<>> /\ tmp' = tmp
    BY <1>8, <2>2, <2>4
  <2> QED
    BY <1>8, <2>3, <2>4
<1>10. UNCHANGED <<deleted, record, final, runs, canceled, finished, work, trackers, groupErr>>
  BY DEF Process, ProcessError, pool
<1>11. ASSUME NEW w \in Workers, Busy(w), NEW e \in ToSet(es)
       PROVE  work[w].e.msg # e.msg /\ work[w].e.pos # e.pos
  <2>1. work[w].e \in Elems /\ work[w].e.pos \in Nat /\ AtItsPlace(work[w].e) /\ work[w].e.pos < logicalPos
    BY <1>11, ElementsTyped DEF Placed, WorkPlaced
  <2>2. e \in Elems /\ AtItsPlace(e) /\ logicalPos <= e.pos /\ e.pos \in Nat
    BY <1>6 DEF Elems
  <2>3. work[w].e.pos # e.pos
    BY <1>1, <2>1, <2>2
  <2> QED
    BY <2>1, <2>2, <2>3, SamePlace
<1> QED
  BY <1>6, <1>8, <1>9, <1>10, <1>11

LEMMA FilesInit == Init => Files
<1> SUFFICES ASSUME Init PROVE Files
  OBVIOUS
<1>1. ToSet(elem) = {} /\ \A w \in Workers : ~Busy(w)
  BY DEF Init, ToSet, Busy
<1> QED
  BY <1>1 DEF Files, NewFiles, WholeTmp, Unfinished

LEMMA NoProcessFiles ==
    ASSUME NEW fin, NoProcess(fin)
    PROVE  Files'
<1>1. elem' = <<>> /\ \A w \in Workers : ~(work'[w] # Idle)
  BY DEF NoProcess
<1>2. ToSet(elem') = {}
  BY <1>1 DEF ToSet
<1> QED
  BY <1>1, <1>2 DEF Files, NewFiles, WholeTmp, Unfinished, Busy

LEMMA SameFiles ==
    ASSUME Files, UNCHANGED <<final, tmp, finished, elem, work>>
    PROVE  Files'
BY DEF Files, NewFiles, WholeTmp, Unfinished, Busy

LEMMA ProcessKeepsFiles ==
    ASSUME DeletableAlone, DistinctFiles, Types, Placed, Files, Process \/ ProcessError
    PROVE  Files'
<1>1. /\ \A e \in ToSet(elem') : e \in Elems /\ e.pos \notin finished /\ Wanted(e.msg)
      /\ \A m \in Msgs : tmp'[m] = IF \E e \in ToSet(elem') : e.msg = m THEN "partial" ELSE tmp[m]
      /\ UNCHANGED <<final, finished, work>>
      /\ \A w \in Workers : Busy(w) => \A e \in ToSet(elem') : work[w].e.msg # e.msg
  BY MakesElements
<1>2. NewFiles'
  BY <1>1 DEF Files, NewFiles, Wanted, Busy
<1>3. WholeTmp'
  <2>1. \A w \in Workers : Busy(w) => tmp'[work[w].e.msg] = tmp[work[w].e.msg]
    BY <1>1, ElementsTyped
  <2> QED
    BY <1>1, <2>1 DEF Files, WholeTmp, Busy
<1>4. Unfinished'
  BY <1>1 DEF Files, Unfinished, Busy
<1> QED
  BY <1>2, <1>3, <1>4 DEF Files

LEMMA SpawnKeepsFiles ==
    ASSUME Types, Files, NEW w \in Workers, Spawn(w)
    PROVE  Files'
<1>1. elem \in Seq(Elems) /\ elem # <<>> /\ work \in [Workers -> {Idle} \cup Tasks]
  BY DEF Spawn, Types, TypeOK, Phases
<1>2. ToSet(elem) = {Head(elem)} \cup ToSet(Tail(elem))
  BY <1>1, HeadTailSet
<1>3. /\ elem' = Tail(elem) /\ UNCHANGED <<final, tmp, finished>>
      /\ work' = [work EXCEPT ![w] = [at |-> "add", e |-> Head(elem)]]
  BY DEF Spawn, disk
<1>4. /\ work'[w].e = Head(elem) /\ work'[w].at = "add"
      /\ \A v \in Workers : v # w => work'[v] = work[v]
  BY <1>1, <1>3
<1> DEFINE first == Head(elem)
           rest == Tail(elem)
<1>5. /\ elem' = rest /\ ToSet(elem) = {first} \cup ToSet(rest)
      /\ work'[w].e = first
  BY <1>2, <1>3, <1>4
<1> HIDE DEF first, rest
<1>6. NewFiles'
  <2> SUFFICES ASSUME SkipSame
               PROVE  /\ \A e \in ToSet(rest) : final[e.msg] # "full"
                      /\ \A v \in Workers : work'[v] # Idle => final[work'[v].e.msg] # "full"
    BY <1>3, <1>5 DEF NewFiles, Busy
  <2>1. \A e \in ToSet(elem) : final[e.msg] # "full"
    BY DEF Files, NewFiles
  <2>2. \A v \in Workers : work[v] # Idle => final[work[v].e.msg] # "full"
    BY DEF Files, NewFiles, Busy
  <2> QED
    BY <1>4, <1>5, <2>1, <2>2
<1>7. WholeTmp'
  BY <1>3, <1>4 DEF Files, WholeTmp, Busy
<1>8. Unfinished'
  <2>1. \A e \in ToSet(elem) : e.pos \notin finished
    BY DEF Files, Unfinished
  <2>2. \A v \in Workers : work[v] # Idle => (work[v].e.pos \in finished <=> work[v].at = "rename")
    BY DEF Files, Unfinished, Busy
  <2>3. \A v \in Workers : work'[v] # Idle => (work'[v].e.pos \in finished <=> work'[v].at = "rename")
    BY <1>4, <1>5, <2>1, <2>2
  <2> QED
    BY <1>3, <1>5, <2>1, <2>3 DEF Unfinished, Busy
<1> QED
  BY <1>6, <1>7, <1>8 DEF Files

\* What a step of a goroutine does to the file and the position of its element.
File(w) == work[w].e.msg
Position(w) == work[w].e.pos

Downloading(w) ==
    /\ work[w].at \in {"add", "download"} /\ work'[w] # Idle
    /\ work'[w].at \in {"download", "finish", "remove"}
    /\ tmp'[File(w)] \in {tmp[File(w)], "full"}
    /\ work'[w].at = "finish" => MayFail \/ tmp'[File(w)] = "full"
    /\ UNCHANGED <<final, finished, groupErr>>

Finishing(w) ==
    /\ work[w].at = "finish" /\ work'[w] # Idle /\ work'[w].at = "rename"
    /\ finished' = finished \cup {Position(w)}
    /\ UNCHANGED <<final, tmp, groupErr>>

Renaming(w) ==
    /\ work[w].at = "rename" /\ work'[w] = Idle
    /\ final'[File(w)] = tmp[File(w)]
    /\ UNCHANGED <<finished, groupErr>>

Removing(w) ==
    /\ work[w].at = "remove" /\ work'[w] = Idle
    /\ groupErr'
    /\ UNCHANGED <<final, finished>>

\* A file that cannot be closed, or not be renamed.
Failing(w) ==
    /\ work[w].at \in {"finish", "rename", "remove"} /\ work'[w] = Idle
    /\ work[w].at # "rename" => Position(w) \in unclosed'
    /\ work[w].at = "rename" => UNCHANGED tmp
    /\ groupErr => groupErr'
    /\ UNCHANGED <<final, finished>>

LEMMA WorkEffects ==
    ASSUME Types, NEW w \in Workers, Work(w)
    PROVE  /\ \A x \in Msgs : x # File(w) => final'[x] = final[x] /\ tmp'[x] = tmp[x]
           /\ Downloading(w) \/ Finishing(w) \/ Renaming(w) \/ Removing(w) \/ Failing(w)
<1> DEFINE m == File(w)
           Others == \A x \in Msgs : x # m => final'[x] = final[x] /\ tmp'[x] = tmp[x]
<1> USE DEF WorkStates
<1>1. final \in [Msgs -> FileStates] /\ tmp \in [Msgs -> FileStates] /\ m \in Msgs /\ TypeOK
  BY WorkMoves DEF Types, TypeOK, File
<1>2. CASE OnAdd(w)
  <2>1. Moves(w, "add", "download") /\ UNCHANGED <<final, tmp, finished, groupErr>>
    BY <1>2 DEF OnAdd
  <2>2. work[w].at = "add" /\ work'[w] # Idle /\ work'[w].at = "download"
    BY <1>1, <2>1, MovesOn
  <2> QED
    BY <2>1, <2>2 DEF Downloading
<1>3. CASE DownloadDone(w)
  <2>1. Moves(w, "download", "finish") /\ UNCHANGED <<final, finished, groupErr>> /\ tmp' = [tmp EXCEPT ![m] = "full"]
    BY <1>3 DEF DownloadDone, File
  <2>2. work[w].at = "download" /\ work'[w] # Idle /\ work'[w].at = "finish"
    BY <1>1, <2>1, MovesOn
  <2>3. tmp'[m] = "full" /\ Others
    BY <1>1, <2>1
  <2> HIDE DEF m
  <2>4. Downloading(w)
    BY <2>1, <2>2, <2>3 DEF Downloading, m
  <2> QED
    BY <2>3, <2>4 DEF m
<1>4. CASE DownloadFails(w)
  <2>1. MayFail /\ Moves(w, "download", "finish") /\ UNCHANGED <<final, tmp, finished, groupErr>>
    BY <1>4 DEF DownloadFails
  <2>2. work[w].at = "download" /\ work'[w] # Idle /\ work'[w].at = "finish"
    BY <1>1, <2>1, MovesOn
  <2> QED
    BY <2>1, <2>2 DEF Downloading
<1>5. CASE DownloadCanceled(w)
  <2>1. Moves(w, "download", "remove") /\ UNCHANGED <<final, tmp, finished, groupErr>>
    BY <1>5 DEF DownloadCanceled
  <2>2. work[w].at = "download" /\ work'[w] # Idle /\ work'[w].at = "remove"
    BY <1>1, <2>1, MovesOn
  <2> QED
    BY <2>1, <2>2 DEF Downloading
<1>6. CASE Finish(w)
  <2>1. Moves(w, "finish", "rename") /\ UNCHANGED <<final, tmp, groupErr>> /\ finished' = finished \cup {Position(w)}
    BY <1>6 DEF Finish, Position
  <2>2. work[w].at = "finish" /\ work'[w] # Idle /\ work'[w].at = "rename"
    BY <1>1, <2>1, MovesOn
  <2> QED
    BY <2>1, <2>2 DEF Finishing
<1>7. CASE Rename(w)
  <2>1. /\ Moves(w, "rename", "idle") /\ UNCHANGED <<finished, groupErr>>
        /\ final' = [final EXCEPT ![m] = tmp[m]] /\ tmp' = [tmp EXCEPT ![m] = "none"]
    BY <1>7 DEF Rename, File
  <2>2. work[w].at = "rename" /\ work'[w] = Idle
    BY <1>1, <2>1, MovesOn
  <2>3. final'[m] = tmp[m] /\ Others
    BY <1>1, <2>1
  <2> HIDE DEF m
  <2>4. Renaming(w)
    BY <2>1, <2>2, <2>3 DEF Renaming, m
  <2> QED
    BY <2>3, <2>4 DEF m
<1>8. CASE RemoveTmp(w)
  <2>1. /\ Moves(w, "remove", "idle") /\ UNCHANGED <<final, finished>> /\ groupErr'
        /\ tmp' = [tmp EXCEPT ![m] = "none"]
    BY <1>8, Zenon DEF RemoveTmp, File
  <2>2. work[w].at = "remove" /\ work'[w] = Idle
    BY <1>1, <2>1, MovesOn
  <2>3. Others
    BY <1>1, <2>1
  <2>4. Removing(w)
    BY <2>1, <2>2 DEF Removing
  <2> QED
    BY <2>3, <2>4
<1>9. CASE CloseFails(w)
  <2>1. PICK at \in {"finish", "remove"} : Moves(w, at, "idle") /\ groupErr' = (groupErr \/ at = "remove")
    BY <1>9 DEF CloseFails
  <2>2. work[w].at = at /\ work'[w] = Idle
    BY <1>1, <2>1, MovesOn
  <2>3. /\ tmp' \in {tmp, [tmp EXCEPT ![m] = "partial"]} /\ UNCHANGED <<final, finished>>
        /\ Position(w) \in unclosed'
    BY <1>9 DEF CloseFails, File, Position
  <2>4. Others
    BY <1>1, <2>3
  <2>5. groupErr => groupErr'
    BY <2>1
  <2>6. Failing(w)
    BY <2>2, <2>3, <2>5 DEF Failing
  <2> QED
    BY <2>4, <2>6
<1>10. CASE RenameFails(w)
  <2>1. Moves(w, "rename", "idle") /\ UNCHANGED <<final, tmp, finished, groupErr>>
    BY <1>10 DEF RenameFails
  <2>2. work[w].at = "rename" /\ work'[w] = Idle
    BY <1>1, <2>1, MovesOn
  <2> QED
    BY <2>1, <2>2 DEF Failing
<1> QED
  BY <1>2, <1>3, <1>4, <1>5, <1>6, <1>7, <1>8, <1>9, <1>10 DEF Work

\* A goroutine forgets nothing.
LEMMA WorkRemembers ==
    ASSUME NEW w \in Workers, Work(w)
    PROVE  unclosed \subseteq unclosed'
BY DEF Work, OnAdd, DownloadDone, DownloadFails, DownloadCanceled, CloseFails, Finish, Rename,
       RenameFails, RemoveTmp

LEMMA WorkKeepsFiles ==
    ASSUME DistinctFiles, Types, Placed, Files, NEW w \in Workers, Work(w)
    PROVE  Files'
<1>1. /\ Busy(w) /\ File(w) \in Msgs /\ Position(w) \in Nat /\ elem' = elem
      /\ \A v \in Workers : v # w => work'[v] = work[v]
      /\ work'[w] # Idle => work'[w].e = work[w].e
  BY WorkMoves DEF File, Position
<1>2. /\ \A e \in ToSet(elem) : e.msg # File(w) /\ e.pos # Position(w) /\ e.msg \in Msgs
      /\ \A v \in Workers : v # w /\ Busy(v) =>
            work[v].e.msg # File(w) /\ work[v].e.pos # Position(w) /\ work[v].e.msg \in Msgs
  BY <1>1, ElementsApart, ElementsTyped DEF File, Position
<1>3. /\ \A x \in Msgs : x # File(w) => final'[x] = final[x] /\ tmp'[x] = tmp[x]
      /\ Downloading(w) \/ Finishing(w) \/ Renaming(w) \/ Removing(w) \/ Failing(w)
  BY WorkEffects
<1>4. /\ \A e \in ToSet(elem) : final'[e.msg] = final[e.msg]
      /\ \A v \in Workers : v # w /\ Busy(v) =>
            final'[work[v].e.msg] = final[work[v].e.msg] /\ tmp'[work[v].e.msg] = tmp[work[v].e.msg]
  BY <1>2, <1>3
<1>5. NewFiles'
  <2>1. work'[w] # Idle => final'[work'[w].e.msg] = final[work[w].e.msg]
    BY <1>1, <1>3 DEF Downloading, Finishing, Renaming, Removing, Failing
  <2> QED
    BY <1>1, <1>4, <2>1 DEF Files, NewFiles, Busy
<1>6. WholeTmp'
  <2> SUFFICES ASSUME ~MayFail, NEW v \in Workers, work'[v] # Idle, work'[v].at \in {"finish", "rename"}
               PROVE  tmp'[work'[v].e.msg] = "full"
    BY DEF WholeTmp, Busy
  <2>1. CASE v # w
    BY <1>1, <1>4, <2>1 DEF Files, WholeTmp, Busy
  <2>2. CASE v = w
    <3>1. work'[v].e.msg = File(w)
      BY <1>1, <2>2 DEF File
    <3>2. CASE Downloading(w)
      BY <2>2, <3>1, <3>2 DEF Downloading
    <3>3. CASE Finishing(w)
      BY <1>1, <2>2, <3>1, <3>3 DEF Finishing, Files, WholeTmp, File
    <3> QED
      BY <1>3, <2>2, <3>2, <3>3 DEF Renaming, Removing, Failing
  <2> QED
    BY <2>1, <2>2
<1>7. Unfinished'
  <2>1. /\ \A e \in ToSet(elem) : e.pos \notin finished'
        /\ \A v \in Workers : v # w /\ Busy(v) => (work[v].e.pos \in finished' <=> work[v].at = "rename")
    BY <1>2, <1>3 DEF Files, Unfinished, Downloading, Finishing, Renaming, Removing, Failing
  <2>2. work'[w] # Idle => (work'[w].e.pos \in finished' <=> work'[w].at = "rename")
    <3>1. work'[w] # Idle => work'[w].e.pos = Position(w)
      BY <1>1 DEF Position
    <3>2. Position(w) \in finished <=> work[w].at = "rename"
      BY <1>1 DEF Files, Unfinished, Position
    <3> QED
      BY <1>3, <3>1, <3>2 DEF Downloading, Finishing, Renaming, Removing, Failing
  <2> QED
    BY <1>1, <2>1, <2>2 DEF Unfinished, Busy
<1> QED
  BY <1>5, <1>6, <1>7 DEF Files

LEMMA FilesStep ==
    ASSUME DeletableAlone, DistinctFiles, Types, Placed, Files, [Step]_vars
    PROVE  Files'
<1>1. CASE UNCHANGED vars
  BY <1>1, SameFiles DEF vars, disk, iterator, pool
<1>2. CASE (\E fin, rec : Start(fin, rec)) \/ Exit \/ MapRace \/ Kill
  BY <1>2, NoProcessFiles DEF Start, Exit, MapRace, Kill
<1>3. CASE Next \/ ProcessEnd \/ Wait \/ ProgressWait \/ Save \/ UserCancel \/ \E m \in Msgs : Delete(m)
  <2>1. UNCHANGED <<final, tmp, finished, elem, work>>
    BY <1>3 DEF Next, ProcessEnd, Wait, ProgressWait, Save, UserCancel, Delete, disk, iterator, pool
  <2> QED
    BY <2>1, SameFiles
<1>4. CASE Process \/ ProcessError
  BY <1>4, ProcessKeepsFiles
<1>5. CASE \E w \in Workers : Spawn(w)
  BY <1>5, SpawnKeepsFiles
<1>6. CASE \E w \in Workers : Work(w)
  BY <1>6, WorkKeepsFiles
<1>7. CASE Continue \/ Decline \/ Restart
  BY <1>2, <1>7 DEF Continue, Decline, Restart
<1>8. CASE Done
  BY <1>1, <1>8 DEF Done
<1> QED
  BY <1>1, <1>2, <1>3, <1>4, <1>5, <1>6, <1>7, <1>8 DEF Step, MainStep

\* A complete file is never replaced by an incomplete one, however often the
\* command is run and interrupted (donePost of app/dl/progress.go), if downloads
\* do not fail, or files that are there are skipped.
THEOREM CompleteStaysComplete ==
    ASSUME DeletableAlone, DistinctFiles, ~MayFail \/ SkipSame
    PROVE  Spec => CompleteFilesKept
<1>1. Init => Types /\ Placed /\ Files
  BY TypesInit, PlacedInit, FilesInit
<1>2. Types /\ Placed /\ Files /\ [Step]_vars => Types' /\ Placed' /\ Files'
  BY TypesStep, PlacedStep, FilesStep
<1>3. Types /\ Placed /\ Files /\ [Step]_vars
         => [\A m \in Msgs : final[m] = "full" => final'[m] = "full"]_vars
  <2> SUFFICES ASSUME Types, Placed, Files, Step, NEW m \in Msgs, final[m] = "full"
               PROVE  final'[m] = "full"
    OBVIOUS
  <2>1. CASE \E w \in Workers : Work(w)
    <3>1. PICK w \in Workers : Work(w)
      BY <2>1
    <3>2. /\ \A x \in Msgs : x # File(w) => final'[x] = final[x]
          /\ Downloading(w) \/ Finishing(w) \/ Renaming(w) \/ Removing(w) \/ Failing(w)
      BY <3>1, WorkEffects
    <3>3. Busy(w) /\ SkipSame => final[File(w)] # "full"
      BY DEF Files, NewFiles, File
    <3>4. Busy(w) /\ ~MayFail /\ work[w].at = "rename" => tmp[File(w)] = "full"
      BY DEF Files, WholeTmp, File
    <3>5. Busy(w)
      BY <3>1, WorkMoves
    <3> QED
      BY <3>2, <3>3, <3>4, <3>5 DEF Downloading, Finishing, Renaming, Removing, Failing
  <2>2. CASE (\E fin, rec : Start(fin, rec)) \/ Exit \/ MapRace \/ Kill
    BY <2>2 DEF Start, Exit, MapRace, Kill, disk
  <2>3. CASE Next \/ ProcessEnd \/ Wait \/ ProgressWait \/ Save \/ UserCancel \/ \E x \in Msgs : Delete(x)
    BY <2>3 DEF Next, ProcessEnd, Wait, ProgressWait, Save, UserCancel, Delete, disk
  <2>4. CASE Process \/ ProcessError \/ Done \/ \E w \in Workers : Spawn(w)
    BY <2>4 DEF Process, ProcessError, Done, Spawn, vars, disk
  <2> QED
    BY <2>1, <2>2, <2>3, <2>4 DEF Step, MainStep, Continue, Decline, Restart
<1> QED
  BY <1>1, <1>2, <1>3, PTL DEF Spec, CompleteFilesKept

-----------------------------------------------------------------------------
(* The resume record.                                                      *)

\* A run has at least what it read from the record, unless it was restarted.
Remembered ==
    /\ main # "off" => record \subseteq finished
    /\ main = "off" => finished = {}

LEMMA RememberedInit == Init => Remembered
BY DEF Init, Remembered

LEMMA RememberedStep ==
    ASSUME ~MayRestart, Types, Remembered, [Step]_vars
    PROVE  Remembered'
<1>1. CASE UNCHANGED vars
  BY <1>1 DEF Remembered, vars, disk, iterator
<1>2. CASE Continue \/ Decline
  BY <1>2 DEF Remembered, Continue, Decline, Start, NoProcess
<1>3. CASE Exit \/ MapRace \/ Kill
  BY <1>3 DEF Remembered, Exit, MapRace, Kill, NoProcess
<1>4. CASE Next
  BY <1>4 DEF Remembered, Next, disk
<1>5. CASE ProcessEnd \/ Wait \/ ProgressWait
  BY <1>5 DEF Remembered, ProcessEnd, Wait, ProgressWait, disk, iterator
<1>6. CASE Process
  BY <1>6 DEF Remembered, Process
<1>7. CASE ProcessError
  BY <1>7 DEF Remembered, ProcessError
<1>8. CASE \E w \in Workers : Spawn(w)
  BY <1>8 DEF Remembered, Spawn, disk
<1>9. CASE Save
  BY <1>9 DEF Remembered, Save, iterator
<1>10. CASE \E w \in Workers : Work(w)
  <2>1. PICK w \in Workers : Work(w)
    BY <1>10
  <2>2. UNCHANGED <<main, record>>
    BY <2>1, WorkMoves
  <2>3. finished \subseteq finished' /\ (main = "off" => ~Busy(w))
    BY <2>1, WorkEffects DEF Downloading, Finishing, Renaming, Removing, Failing, Types, Phases
  <2>4. Busy(w)
    BY <2>1, WorkMoves
  <2> QED
    BY <2>2, <2>3, <2>4 DEF Remembered
<1>11. CASE UserCancel \/ \E m \in Msgs : Delete(m)
  BY <1>11 DEF Remembered, UserCancel, Delete, disk, iterator
<1>12. CASE Done
  BY <1>1, <1>12 DEF Done
<1> QED
  BY <1>1, <1>2, <1>3, <1>4, <1>5, <1>6, <1>7, <1>8, <1>9, <1>10, <1>11, <1>12 DEF Step, MainStep, Restart

LEMMA SameReady ==
    ASSUME RecordedIsReady, record' \cup finished' \subseteq record \cup finished,
           UNCHANGED <<final, tmp>>
    PROVE  RecordedIsReady'
BY DEF RecordedIsReady, Ready

LEMMA ProcessKeepsReady ==
    ASSUME DeletableAlone, DistinctFiles, Types, Placed, Remembered, RecordedIsReady,
           Process \/ ProcessError
    PROVE  RecordedIsReady'
<1>1. /\ \A e \in ToSet(elem') : e \in Elems /\ AtItsPlace(e) /\ e.pos \notin finished
      /\ \A m \in Msgs : tmp'[m] = IF \E e \in ToSet(elem') : e.msg = m THEN "partial" ELSE tmp[m]
      /\ UNCHANGED <<record, final, finished>>
  BY MakesElements
<1>2. record \cup finished = finished /\ finished \subseteq Nat
  BY DEF Remembered, Process, ProcessError, Types, TypeOK
<1>3. ASSUME NEW p \in finished, p < Len(Expanded)
      PROVE  Ready(Expanded[p + 1])'
  <2>1. p \in Nat /\ Expanded[p + 1] \in Msgs
    <3>1. p \in Nat /\ Len(Expanded) \in Nat /\ Expanded \in Seq(Msgs)
      BY <1>2, Places
    <3>2. p + 1 \in 1..Len(Expanded)
      BY <1>3, <3>1
    <3> QED
      BY <3>1, <3>2
  <2> DEFINE m == Expanded[p + 1]
  <2>2. \A e \in ToSet(elem') : e.msg # m
    <3> SUFFICES ASSUME NEW e \in ToSet(elem'), e.msg = m PROVE FALSE
      OBVIOUS
    <3>1. e \in Elems /\ AtItsPlace(e) /\ e.pos \notin finished
      BY <1>1
    <3> DEFINE a == [msg |-> m, pos |-> p]
    <3>2. a \in Elems /\ AtItsPlace(a) /\ a.msg = m /\ a.pos = p
      BY <1>3, <2>1 DEF Elems, AtItsPlace
    <3> HIDE DEF a, m
    <3>3. a = e
      BY <3>1, <3>2, SamePlace
    <3> QED
      BY <3>1, <3>2, <3>3
  <2>3. tmp'[m] = tmp[m]
    BY <1>1, <2>1, <2>2
  <2>4. Ready(m)
    BY <1>3 DEF RecordedIsReady
  <2> QED
    BY <1>1, <2>3, <2>4 DEF Ready
<1> QED
  BY <1>1, <1>2, <1>3 DEF RecordedIsReady

LEMMA WorkKeepsReady ==
    ASSUME DistinctFiles, ~MayFail, Types, Placed, Files, Remembered, RecordedIsReady,
           NEW w \in Workers, Work(w)
    PROVE  RecordedIsReady'
<1>1. /\ Busy(w) /\ work[w].e \in Elems /\ File(w) \in Msgs /\ Position(w) \in Nat
      /\ AtItsPlace(work[w].e) /\ record' = record /\ record \cup finished \subseteq Nat
  BY WorkMoves, ElementsTyped DEF File, Position, Placed, WorkPlaced, Types, TypeOK
<1>2. /\ \A x \in Msgs : x # File(w) => final'[x] = final[x] /\ tmp'[x] = tmp[x]
      /\ Downloading(w) \/ Finishing(w) \/ Renaming(w) \/ Removing(w) \/ Failing(w)
  BY WorkEffects
<1>3. /\ work[w].at \in {"finish", "rename"} => tmp[File(w)] = "full"
      /\ Position(w) \in finished <=> work[w].at = "rename"
  BY <1>1 DEF Files, WholeTmp, Unfinished, File, Position
<1>4. record \cup finished = finished
  BY <1>1 DEF Remembered, Types, Phases
<1>5. ASSUME NEW p \in finished', p < Len(Expanded)
      PROVE  Ready(Expanded[p + 1])'
  <2> DEFINE m == Expanded[p + 1]
  <2>1. p \in finished \cup {Position(w)}
    BY <1>2 DEF Downloading, Finishing, Renaming, Removing, Failing
  <2>2. p \in Nat /\ m \in Msgs
    <3>1. p \in Nat /\ Len(Expanded) \in Nat /\ Expanded \in Seq(Msgs)
      BY <1>1, <2>1, Places
    <3>2. p + 1 \in 1..Len(Expanded)
      BY <1>5, <3>1
    <3> QED
      BY <3>1, <3>2
  <2>3. m = File(w) <=> p = Position(w)
    <3> DEFINE a == [msg |-> m, pos |-> p]
    <3>1. a \in Elems /\ AtItsPlace(a) /\ a.msg = m /\ a.pos = p
      BY <1>5, <2>2 DEF Elems, AtItsPlace
    <3> HIDE DEF a, m
    <3>2. a.msg = work[w].e.msg => a = work[w].e
      BY <1>1, <3>1, SamePlace
    <3>3. a.pos = work[w].e.pos => a = work[w].e
      BY <1>1, <3>1, SamePlace
    <3> QED
      BY <3>1, <3>2, <3>3 DEF File, Position
  <2>4. p \in finished => Ready(m)
    BY <1>5 DEF RecordedIsReady
  <2> HIDE DEF m
  <2>5. CASE p # Position(w)
    BY <1>2, <2>1, <2>2, <2>3, <2>4, <2>5 DEF Ready, m
  <2>6. CASE p = Position(w)
    <3>1. m = File(w)
      BY <2>3, <2>6
    <3>2. final'[m] = "full" \/ tmp'[m] = "full"
      <4>1. CASE Downloading(w)
        BY <1>3, <1>5, <2>6, <4>1 DEF Downloading
      <4>2. CASE Finishing(w)
        BY <1>3, <3>1, <4>2 DEF Finishing
      <4>3. CASE Renaming(w)
        BY <1>3, <3>1, <4>3 DEF Renaming
      <4>4. CASE Removing(w)
        BY <1>3, <1>5, <2>6, <4>4 DEF Removing
      <4>5. CASE Failing(w)
        BY <1>3, <1>5, <2>6, <3>1, <4>5 DEF Failing
      <4> QED
        BY <1>2, <4>1, <4>2, <4>3, <4>4, <4>5
    <3> QED
      BY <3>2 DEF Ready, m
  <2> QED
    BY <2>5, <2>6
<1> QED
  BY <1>1, <1>2, <1>4, <1>5 DEF RecordedIsReady, Downloading, Finishing, Renaming, Removing, Failing

LEMMA ReadyStep ==
    ASSUME DeletableAlone, DistinctFiles, ~MayFail, ~MayRestart,
           Types, Placed, Files, Remembered, RecordedIsReady, [Step]_vars
    PROVE  RecordedIsReady'
<1>1. CASE UNCHANGED vars
  BY <1>1, SameReady DEF vars, disk, iterator
<1>2. CASE Continue \/ Decline
  BY <1>2, SameReady DEF Continue, Decline, Start, NoProcess
<1>3. CASE Exit \/ MapRace \/ Kill
  BY <1>3, SameReady DEF Exit, MapRace, Kill, NoProcess, disk
<1>4. CASE Next \/ ProcessEnd \/ Wait \/ ProgressWait \/ UserCancel \/ \E m \in Msgs : Delete(m)
  BY <1>4, SameReady DEF Next, ProcessEnd, Wait, ProgressWait, UserCancel, Delete, disk, iterator
<1>5. CASE Save
  BY <1>5, SameReady DEF Save, iterator
<1>6. CASE \E w \in Workers : Spawn(w)
  BY <1>6, SameReady DEF Spawn, disk
<1>7. CASE Process \/ ProcessError
  BY <1>7, ProcessKeepsReady
<1>8. CASE \E w \in Workers : Work(w)
  BY <1>8, WorkKeepsReady
<1>9. CASE Done
  BY <1>1, <1>9 DEF Done
<1> QED
  BY <1>1, <1>2, <1>3, <1>4, <1>5, <1>6, <1>7, <1>8, <1>9 DEF Step, MainStep, Restart

\* A position that the resume record or i.finished holds, which later runs skip,
\* has its file, complete, over any interruptions and kills (app/dl/iter.go,
\* app/dl/progress.go, saveProgress of app/dl/dl.go), if downloads do not fail
\* and the user does not restart.
THEOREM RecordedHasItsFile ==
    ASSUME DeletableAlone, DistinctFiles, ~MayFail, ~MayRestart
    PROVE  Spec => []RecordedIsReady
<1>1. Init => Types /\ Placed /\ Files /\ Remembered /\ RecordedIsReady
  BY TypesInit, PlacedInit, FilesInit, RememberedInit DEF Init, RecordedIsReady
<1>2. Types /\ Placed /\ Files /\ Remembered /\ RecordedIsReady /\ [Step]_vars
         => Types' /\ Placed' /\ Files' /\ Remembered' /\ RecordedIsReady'
  BY TypesStep, PlacedStep, FilesStep, RememberedStep, ReadyStep
<1> QED
  BY <1>1, <1>2, PTL DEF Spec

-----------------------------------------------------------------------------
(* What a run has dealt with.                                              *)

Visited(p) ==
    \/ Expanded[p + 1] \in deleted \cup Filtered
    \/ p \in finished \cup unclosed
    \/ SkipSame /\ final[Expanded[p + 1]] = "full"
    \/ \E e \in ToSet(elem) : e.pos = p
    \/ \E w \in Workers : Busy(w) /\ Position(w) = p

\* Until an error is met, nothing before the logical position was passed over.
Covered ==
    ~err /\ ~groupErr => \A p \in 0..(logicalPos - 1) : p < Len(Expanded) => Visited(p)

\* The run ends without an error only when all is passed and no element is left.
EndsClean ==
    /\ main = "wait" => elem = <<>> /\ logicalPos = Len(Expanded)
    /\ main \in {"progress", "save", "exit"} /\ ~rerr =>
         /\ elem = <<>> /\ logicalPos = Len(Expanded)
         /\ ~err /\ ~groupErr /\ \A w \in Workers : ~Busy(w)

LEMMA CoveredInit == Init => Covered /\ EndsClean
<1> SUFFICES ASSUME Init PROVE Covered /\ EndsClean
  OBVIOUS
<1>1. logicalPos = 0 /\ main = "off"
  BY DEF Init
<1>2. 0..(0 - 1) = {}
  OBVIOUS
<1> QED
  BY <1>1, <1>2 DEF Covered, EndsClean

LEMMA NoProcessCovered ==
    ASSUME NEW fin, NoProcess(fin)
    PROVE  Covered'
<1>1. logicalPos' = 0
  BY DEF NoProcess
<1>2. 0..(0 - 1) = {}
  OBVIOUS
<1> QED
  BY <1>1, <1>2 DEF Covered

LEMMA SameCovered ==
    ASSUME Covered, UNCHANGED <<finished, unclosed, final, logicalPos, elem, work, groupErr>>,
           deleted \subseteq deleted', err => err'
    PROVE  Covered'
BY DEF Covered, Visited, Position, Busy

LEMMA ProcessKeepsCovered ==
    ASSUME DeletableAlone, Types, Placed, Covered, Process
    PROVE  Covered'
<1> DEFINE n == Len(AlbumOf(Current))
           m == Current
<1>1. /\ ~AtEnd /\ elem = <<>> /\ ~err /\ logicalPos = CursorPos /\ logicalPos \in Nat
      /\ deleted \subseteq Deletable /\ m \in Msgs
      /\ UNCHANGED <<deleted, finished, unclosed, final, err, work, groupErr>>
  BY CurrentIsListed DEF Process, Types, TypeOK, Phases, Placed, pool
<1>2. n \in Nat
  BY <1>1, CurrentPlaces
<1>3. ToSet(elem) = {}
  BY <1>1 DEF ToSet
<1> SUFFICES ASSUME ~err, ~groupErr, NEW p \in 0..(logicalPos' - 1), p < Len(Expanded)
             PROVE  Visited(p)'
  BY <1>1 DEF Covered
<1>4. CASE p < logicalPos
  <2>1. p \in 0..(logicalPos - 1)
    <3>1. \A a, b \in Nat : a < b => a \in 0..(b - 1)
      OBVIOUS
    <3>2. p \in Nat
      OBVIOUS
    <3> QED
      BY <1>1, <1>4, <3>1, <3>2
  <2>2. Visited(p)
    BY <2>1 DEF Covered
  <2> QED
    BY <1>1, <1>3, <2>2 DEF Visited, Position, Busy
<1>5. CASE ~(p < logicalPos)
  <2>1. CASE m \in deleted
    <3>1. Album[m] = <<>>
      BY <1>1, <2>1 DEF DeletableAlone
    <3>2. AlbumOf(m) = <<m>> /\ n = 1 /\ AlbumOf(m)[1] = m
      BY <3>1 DEF AlbumOf
    <3>3. logicalPos' = logicalPos + 1
      BY <2>1 DEF Process, Current
    <3>4. p = logicalPos
      BY <1>1, <1>5, <3>3
    <3>5. Expanded[CursorPos + 1] = AlbumOf(m)[1]
      BY <1>1, <3>2, CurrentPlaces
    <3>6. Expanded[p + 1] = m
      BY <1>1, <3>2, <3>4, <3>5
    <3> QED
      BY <1>1, <2>1, <3>6 DEF Visited
  <2>2. CASE m \notin deleted
    <3>1. /\ logicalPos' = logicalPos + Len(Candidates(m)) /\ elem' = Todo(m)
      BY <2>2 DEF Process, Current
    <3>2. Len(Candidates(m)) = n
      BY <1>1, <2>2, CandidatesPlaced
    <3>3. p \in logicalPos..(logicalPos + n - 1)
      <4> HIDE DEF n, m
      <4> QED
        BY <1>1, <1>2, <1>5, <3>1, <3>2
    <3>4. \/ \E e \in ToSet(Todo(m)) : e.pos = p
          \/ p \in finished \/ ~Wanted(Expanded[p + 1])
      BY <1>1, <2>2, <3>3, TodoPlaced
    <3> QED
      BY <1>1, <3>1, <3>4 DEF Visited, Wanted
  <2> QED
    BY <2>1, <2>2
<1> QED
  BY <1>4, <1>5

LEMMA SpawnKeepsCovered ==
    ASSUME Types, Covered, NEW w \in Workers, Spawn(w)
    PROVE  Covered'
<1>1. elem \in Seq(Elems) /\ elem # <<>> /\ work \in [Workers -> {Idle} \cup Tasks] /\ ~Busy(w)
  BY DEF Spawn, Types, TypeOK, Phases, Busy
<1>2. ToSet(elem) = {Head(elem)} \cup ToSet(Tail(elem))
  BY <1>1, HeadTailSet
<1>3. /\ elem' = Tail(elem) /\ UNCHANGED <<deleted, final, finished, unclosed, logicalPos, err, groupErr>>
      /\ work' = [work EXCEPT ![w] = [at |-> "add", e |-> Head(elem)]]
  BY DEF Spawn, disk
<1> DEFINE first == Head(elem)
<1>4. /\ work'[w] = [at |-> "add", e |-> first]
      /\ \A v \in Workers : v # w => work'[v] = work[v]
  BY <1>1, <1>3
<1> HIDE DEF first
<1>5. work'[w] # Idle /\ work'[w].e = first
  <2>1. Idle.at = "idle" /\ work'[w].at = "add"
    BY <1>4 DEF Idle
  <2> QED
    BY <1>4, <2>1
<1> SUFFICES ASSUME ~err, ~groupErr, NEW p \in 0..(logicalPos - 1), p < Len(Expanded)
             PROVE  Visited(p)'
  BY <1>3 DEF Covered
<1>6. Visited(p)
  BY DEF Covered
<1>7. CASE \E e \in ToSet(elem) : e.pos = p
  <2>1. (\E e \in ToSet(Tail(elem)) : e.pos = p) \/ first.pos = p
    BY <1>2, <1>7 DEF first
  <2> QED
    BY <1>3, <1>5, <2>1 DEF Visited, Busy, Position
<1>8. CASE \E v \in Workers : Busy(v) /\ Position(v) = p
  <2>1. PICK v \in Workers : Busy(v) /\ Position(v) = p
    BY <1>8
  <2>2. work'[v] = work[v]
    BY <1>1, <1>4, <2>1
  <2> QED
    BY <2>1, <2>2 DEF Visited, Busy, Position
<1>9. CASE \/ Expanded[p + 1] \in deleted \cup Filtered \/ p \in finished \cup unclosed
           \/ SkipSame /\ final[Expanded[p + 1]] = "full"
  BY <1>3, <1>9 DEF Visited
<1> QED
  BY <1>6, <1>7, <1>8, <1>9 DEF Visited

LEMMA WorkKeepsCovered ==
    ASSUME DistinctFiles, Types, Placed, Files, Covered, NEW w \in Workers, Work(w)
    PROVE  Covered'
<1>1. /\ Busy(w) /\ File(w) \in Msgs /\ Position(w) \in Nat
      /\ \A v \in Workers : v # w => work'[v] = work[v]
      /\ work'[w] # Idle => work'[w].e = work[w].e
      /\ UNCHANGED <<deleted, elem, logicalPos, err>>
  BY WorkMoves DEF File, Position
<1>2. /\ \A x \in Msgs : x # File(w) => final'[x] = final[x]
      /\ Downloading(w) \/ Finishing(w) \/ Renaming(w) \/ Removing(w) \/ Failing(w)
  BY WorkEffects
<1>3. finished \subseteq finished' /\ unclosed \subseteq unclosed' /\ (groupErr => groupErr')
  BY <1>2, WorkRemembers DEF Downloading, Finishing, Renaming, Removing, Failing
<1> SUFFICES ASSUME ~err, ~groupErr', NEW p \in 0..(logicalPos - 1), p < Len(Expanded)
             PROVE  Visited(p)'
  BY <1>1 DEF Covered
<1>4. Visited(p)
  BY <1>3 DEF Covered
<1>5. CASE \/ Expanded[p + 1] \in deleted \cup Filtered \/ p \in finished \cup unclosed
           \/ \E e \in ToSet(elem) : e.pos = p
  BY <1>1, <1>3, <1>5 DEF Visited
<1>6. CASE SkipSame /\ final[Expanded[p + 1]] = "full"
  <2> DEFINE m == Expanded[p + 1]
  <2>1. m \in Msgs
    <3>1. p \in Nat /\ Len(Expanded) \in Nat /\ Expanded \in Seq(Msgs)
      BY Places
    <3>2. p + 1 \in 1..Len(Expanded)
      BY <3>1
    <3> QED
      BY <3>1, <3>2
  <2>2. final[File(w)] # "full"
    BY <1>1, <1>6 DEF Files, NewFiles, File
  <2>3. final'[m] = "full"
    BY <1>2, <1>6, <2>1, <2>2
  <2> QED
    BY <1>6, <2>3 DEF Visited
<1>7. CASE \E v \in Workers : Busy(v) /\ Position(v) = p
  <2>1. PICK v \in Workers : Busy(v) /\ Position(v) = p
    BY <1>7
  <2>2. CASE v # w
    BY <1>1, <2>1, <2>2 DEF Visited, Busy, Position
  <2>3. CASE v = w
    <3>1. CASE work'[w] # Idle
      BY <1>1, <2>1, <2>3, <3>1 DEF Visited, Busy, Position
    <3>2. CASE work'[w] = Idle
      <4>1. work[w].at = "rename" \/ Position(w) \in unclosed'
        BY <1>2, <3>2 DEF Downloading, Finishing, Renaming, Removing, Failing
      <4>2. p \in finished \cup unclosed'
        BY <1>1, <2>1, <2>3, <4>1 DEF Files, Unfinished, Position
      <4> QED
        BY <1>3, <4>2 DEF Visited
    <3> QED
      BY <3>1, <3>2
  <2> QED
    BY <2>2, <2>3
<1> QED
  BY <1>4, <1>5, <1>6, <1>7 DEF Visited

LEMMA CoveredStep ==
    ASSUME DeletableAlone, DistinctFiles, Types, Placed, Files, Covered, [Step]_vars
    PROVE  Covered'
<1>1. CASE UNCHANGED vars
  BY <1>1, SameCovered DEF vars, disk, iterator, pool
<1>2. CASE (\E fin, rec : Start(fin, rec)) \/ Exit \/ MapRace \/ Kill
  BY <1>2, NoProcessCovered DEF Start, Exit, MapRace, Kill
<1>3. CASE Next
  <2>1. UNCHANGED <<finished, unclosed, final, logicalPos, elem, work, groupErr, deleted>> /\ (err => err')
    BY <1>3, Zenon DEF Next, disk, pool
  <2> QED
    BY <2>1, SameCovered
<1>4. CASE ProcessEnd \/ Wait \/ ProgressWait \/ Save \/ UserCancel
  BY <1>4, SameCovered DEF ProcessEnd, Wait, ProgressWait, Save, UserCancel, disk, iterator, pool
<1>5. CASE \E m \in Msgs : Delete(m)
  BY <1>5, SameCovered DEF Delete, iterator, pool
<1>6. CASE Process
  BY <1>6, ProcessKeepsCovered
<1>7. CASE ProcessError
  BY <1>7 DEF ProcessError, Covered
<1>8. CASE \E w \in Workers : Spawn(w)
  BY <1>8, SpawnKeepsCovered
<1>9. CASE \E w \in Workers : Work(w)
  BY <1>9, WorkKeepsCovered
<1>10. CASE Continue \/ Decline \/ Restart
  BY <1>2, <1>10 DEF Continue, Decline, Restart
<1>11. CASE Done
  BY <1>1, <1>11 DEF Done
<1> QED
  BY <1>1, <1>2, <1>3, <1>4, <1>5, <1>6, <1>7, <1>8, <1>9, <1>10, <1>11 DEF Step, MainStep

\* The iteration has ended: the logical position is behind the last message.
LEMMA AtEndIsAll ==
    ASSUME NoEmptyDialog, Types, Placed, AtEnd, ~err
    PROVE  logicalPos = Len(Expanded)
<1>1. Len(Dialogs) \in Nat /\ DOMAIN Dialogs = 1..Len(Dialogs) /\ \A d \in 1..Len(Dialogs) : Len(Dialogs[d]) \in Nat
  BY Constants
<1>2. dlg \notin 1..Len(Dialogs)
  <2> SUFFICES ASSUME dlg \in 1..Len(Dialogs) PROVE FALSE
    OBVIOUS
  <2>1. num > Len(Dialogs[dlg]) /\ num \in Nat
    BY <1>1 DEF AtEnd, Types, TypeOK
  <2>2. Dialogs[dlg] # <<>> /\ Dialogs[dlg] \in Seq(Msgs)
    BY <1>1, Constants DEF NoEmptyDialog
  <2>3. Len(Dialogs[dlg]) # 0 /\ Len(Dialogs[dlg]) \in Nat
    BY <1>1, <2>2
  <2> DEFINE n == Len(Dialogs[dlg])
  <2>4. n \in Nat /\ n # 0 /\ num > n /\ (num = 1 \/ num \in 1..n)
    BY <2>1, <2>3 DEF Types, CursorIn
  <2> HIDE DEF n
  <2> QED
    BY <2>1, <2>4
<1>3. dlg = Len(Dialogs) + 1 /\ num = 1
  <2>1. dlg \in 1..(Len(Dialogs) + 1) /\ num = 1
    BY <1>2 DEF Types, CursorIn
  <2> QED
    BY <1>1, <1>2, <2>1
<1>4. Cursor = Len(AllListed)
  <2>1. ListedAt[Len(Dialogs)] = Len(AllListed) /\ Len(AllListed) \in Nat
    BY Places DEF Flattened
  <2>2. dlg - 1 = Len(Dialogs)
    BY <1>1, <1>3
  <2>3. Cursor = ListedAt[Len(Dialogs)] + 1 - 1
    BY <1>3, <2>2 DEF Cursor
  <2> QED
    BY <2>1, <2>3
<1>5. ExpandedAt[Len(AlbumsListed)] = Len(Expanded) /\ Len(AlbumsListed) = Len(AllListed)
  BY Places DEF Flattened
<1> QED
  BY <1>4, <1>5 DEF Placed, CursorPos

LEMMA EndsCleanStep ==
    ASSUME NoEmptyDialog, Types, Placed, EndsClean, [Step]_vars
    PROVE  EndsClean'
<1>1. CASE UNCHANGED vars
  BY <1>1 DEF EndsClean, Busy, vars, disk, iterator, pool
<1>2. CASE (\E fin, rec : Start(fin, rec)) \/ Exit \/ MapRace \/ Kill
  <2>1. main' \in {"next", "off"}
    BY <1>2 DEF Start, Exit, MapRace, Kill
  <2> QED
    BY <2>1 DEF EndsClean
<1>3. CASE Next
  <2>1. main' \in {"spawn", "process"} \/ (main' = "progress" /\ rerr')
    BY <1>3 DEF Next
  <2> QED
    BY <2>1 DEF EndsClean
<1>4. CASE ProcessEnd
  <2>1. /\ main' = "wait" /\ elem = <<>> /\ AtEnd /\ ~err
        /\ UNCHANGED <<elem, logicalPos>>
    BY <1>4 DEF ProcessEnd, Types, Phases, iterator
  <2>2. logicalPos = Len(Expanded)
    BY <2>1, AtEndIsAll
  <2> QED
    BY <2>1, <2>2 DEF EndsClean
<1>5. CASE Process \/ \E w \in Workers : Spawn(w)
  <2>1. main' \in {"spawn", "process", "next"}
    BY <1>5 DEF Process, Spawn
  <2> QED
    BY <2>1 DEF EndsClean
<1>6. CASE ProcessError
  BY <1>6 DEF ProcessError, EndsClean
<1>7. CASE Wait
  <2>1. /\ elem = <<>> /\ logicalPos = Len(Expanded) /\ ~err /\ main' = "progress"
        /\ \A w \in Workers : work[w] = Idle
        /\ UNCHANGED <<elem, logicalPos, err, groupErr, work>>
    BY <1>7 DEF Wait, EndsClean, Types, Phases, iterator, pool
  <2>2. rerr' = groupErr
    BY <1>7 DEF Wait
  <2> QED
    BY <2>1, <2>2, Zenon DEF EndsClean, Busy
<1>8. CASE ProgressWait
  BY <1>8 DEF ProgressWait, EndsClean, iterator, pool, Busy
<1>9. CASE Save
  BY <1>9 DEF Save, EndsClean, iterator, pool, Busy
<1>10. CASE UserCancel \/ \E m \in Msgs : Delete(m)
  BY <1>10 DEF UserCancel, Delete, EndsClean, iterator, pool, Busy
<1>11. CASE \E w \in Workers : Work(w)
  <2>1. PICK w \in Workers : Work(w)
    BY <1>11
  <2>2. Busy(w) /\ UNCHANGED <<main, elem, logicalPos, err, rerr>>
    BY <2>1, WorkMoves
  <2> QED
    BY <2>2 DEF EndsClean
<1>12. CASE Continue \/ Decline \/ Restart
  BY <1>2, <1>12 DEF Continue, Decline, Restart
<1>13. CASE Done
  BY <1>1, <1>13 DEF Done
<1> QED
  BY <1>1, <1>2, <1>3, <1>4, <1>5, <1>6, <1>7, <1>8, <1>9, <1>10, <1>11, <1>12, <1>13 DEF Step, MainStep

\* A run without an error has dealt with every message that is due: finished it,
\* found it recorded as finished by a run before, found its file with --skip-same,
\* or could not close it (OnDone of app/dl/progress.go); no other element was
\* dropped (Download of core/downloader), though downloads, requests and renames
\* fail and the user interrupts, restarts and kills.
THEOREM EverythingVisited ==
    ASSUME DeletableAlone, DistinctFiles, NoEmptyDialog
    PROVE  Spec => []AllVisited
<1>1. Init => Types /\ Placed /\ Files /\ Covered /\ EndsClean
  BY TypesInit, PlacedInit, FilesInit, CoveredInit
<1>2. Types /\ Placed /\ Files /\ Covered /\ EndsClean /\ [Step]_vars
         => Types' /\ Placed' /\ Files' /\ Covered' /\ EndsClean'
  BY TypesStep, PlacedStep, FilesStep, CoveredStep, EndsCleanStep
<1>3. Covered /\ EndsClean => AllVisited
  <2> SUFFICES ASSUME Covered, EndsClean, Succeeded, NEW m \in Due, NEW p \in Positions(m)
               PROVE  p \in finished \cup unclosed \/ (SkipSame /\ final[m] = "full")
    BY Zenon DEF AllVisited
  <2>1. /\ elem = <<>> /\ logicalPos = Len(Expanded) /\ ~err /\ ~groupErr
        /\ \A w \in Workers : ~Busy(w)
    BY DEF EndsClean, Succeeded
  <2>2. p \in 0..(Len(Expanded) - 1) /\ Expanded[p + 1] = m
    BY DEF Positions
  <2>3. p < Len(Expanded)
    BY <2>2, Places
  <2>4. Visited(p)
    BY <2>1, <2>2, <2>3 DEF Covered
  <2>5. m \notin deleted \cup Filtered
    BY DEF Due
  <2>6. ToSet(elem) = {}
    BY <2>1 DEF ToSet
  <2> QED
    BY <2>1, <2>2, <2>4, <2>5, <2>6 DEF Visited
<1> QED
  BY <1>1, <1>2, <1>3, PTL DEF Spec

LEMMA DueHasPlace ==
    ASSUME NEW m \in Due
    PROVE  \E p \in Positions(m) : p \in Nat /\ p < Len(Expanded) /\ Expanded[p + 1] = m
<1>1. PICK x \in Listed : m \in Range(AlbumOf(x))
  BY DEF Due
<1>2. PICK d \in DOMAIN Dialogs : x \in Range(Dialogs[d])
  BY DEF Listed
<1>3. d \in 1..Len(Dialogs) /\ Len(Dialogs) \in Nat /\ Dialogs[d] \in Seq(Msgs)
  BY <1>2, Constants
<1>4. PICK j \in 1..Len(Dialogs[d]) : x = Dialogs[d][j]
  BY <1>2, <1>3 DEF Range
<1> DEFINE i == ListedAt[d - 1] + j
<1>5. i \in 1..Len(AllListed) /\ AllListed[i] = x
  BY <1>3, <1>4, Places DEF Flattened
<1>6. AlbumsListed[i] = AlbumOf(x) /\ x \in Msgs /\ Len(AlbumsListed) = Len(AllListed) /\ Len(AllListed) \in Nat
  BY <1>5, Places
<1>7. AlbumOf(x) \in Seq(Msgs)
  BY <1>6, AlbumTyped
<1>8. PICK k \in 1..Len(AlbumOf(x)) : m = AlbumOf(x)[k]
  BY <1>1, <1>7 DEF Range
<1> HIDE DEF i
<1> DEFINE at == ExpandedAt[i - 1] + k
<1>9. at \in 1..Len(Expanded) /\ Expanded[at] = m
  BY <1>5, <1>6, <1>8, Places DEF Flattened
<1> HIDE DEF at
<1>10. Len(Expanded) \in Nat
  BY Places
<1>11. at - 1 \in 0..(Len(Expanded) - 1) /\ (at - 1) + 1 = at /\ at - 1 \in Nat /\ at - 1 < Len(Expanded)
  BY <1>9, <1>10
<1> QED
  BY <1>9, <1>11 DEF Positions

LEMMA AllClosed ==
    ASSUME ~FilesFail
    PROVE  Spec => [](unclosed = {})
<1>1. Init => unclosed = {}
  BY DEF Init
<1>2. unclosed = {} /\ [Step]_vars => (unclosed = {})'
  <2> SUFFICES ASSUME unclosed = {}, [Step]_vars PROVE unclosed' = {}
    OBVIOUS
  <2>1. CASE Continue \/ Decline \/ Restart \/ Exit \/ MapRace \/ Kill
    BY <2>1 DEF Continue, Decline, Restart, Start, Exit, MapRace, Kill, NoProcess
  <2>2. CASE Next \/ ProcessEnd \/ Process \/ ProcessError \/ \E w \in Workers : Spawn(w)
    BY <2>2 DEF Next, ProcessEnd, Process, ProcessError, Spawn, pool
  <2>3. CASE Wait \/ ProgressWait \/ Save \/ UserCancel \/ \E m \in Msgs : Delete(m)
    BY <2>3 DEF Wait, ProgressWait, Save, UserCancel, Delete, pool
  <2>4. CASE \E w \in Workers : Work(w)
    BY <2>4 DEF Work, OnAdd, DownloadDone, DownloadFails, DownloadCanceled, CloseFails, Finish,
                Rename, RenameFails, RemoveTmp
  <2>5. CASE Done \/ UNCHANGED vars
    BY <2>5 DEF Done, vars, pool
  <2> QED
    BY <2>1, <2>2, <2>3, <2>4, <2>5 DEF Step, MainStep
<1> QED
  BY <1>1, <1>2, PTL DEF Spec

\* Nothing is lost over interruptions, kills and resumed runs: when a run ends
\* without an error, and clears the resume key (app/dl/dl.go), every due message
\* has its file, complete, if downloads do not fail, files can be closed, and the
\* user does not restart.
THEOREM NothingIsLost ==
    ASSUME DeletableAlone, DistinctFiles, NoEmptyDialog, ~MayFail, ~FilesFail, ~MayRestart
    PROVE  Spec => []NothingLost
<1>1. AllVisited /\ RecordedIsReady /\ unclosed = {} => NothingLost
  <2> SUFFICES ASSUME AllVisited, RecordedIsReady, unclosed = {}, Succeeded, NEW m \in Due PROVE Ready(m)
    BY DEF NothingLost
  <2>1. PICK p \in Positions(m) : p \in Nat /\ p < Len(Expanded) /\ Expanded[p + 1] = m
    BY DueHasPlace
  <2>2. p \in finished \/ final[m] = "full"
    BY <2>1 DEF AllVisited
  <2>3. p \in finished => Ready(m)
    BY <2>1 DEF RecordedIsReady
  <2> QED
    BY <2>2, <2>3 DEF Ready
<1>2. (Spec => []AllVisited) /\ (Spec => []RecordedIsReady) /\ (Spec => [](unclosed = {}))
  BY EverythingVisited, RecordedHasItsFile, AllClosed
<1> QED
  BY <1>1, <1>2, PTL
=============================================================================
