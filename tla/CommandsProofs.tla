--------------------------- MODULE CommandsProofs ---------------------------
(***************************************************************************)
(* Proofs about `tdl upload`, `tdl forward` and the key-value storage, for  *)
(* every input, album, limit, and set of namespaces, names and goroutines.  *)
(***************************************************************************)
EXTENDS Commands, DownloadCommandProofs, FiniteSetTheorems

-----------------------------------------------------------------------------
(* Upload: what its invariants rest on. *)

UploadStates == {"listed", "opened", "added", "uploading", "sending", "ended"}
UploadEnding == {"progress", "ended"}

UpTypes ==
    /\ files \in Seq(Up!AllFiles) /\ remove \in BOOLEAN /\ cur \in 1..(Len(files) + 1) /\ upErr \in BOOLEAN
    /\ uploader \in {"next", "go", "wait", "progress", "ended"}
    /\ upload \in [1..Len(files) -> UploadStates]
    /\ tracker \in [Up!AllFiles -> Nat] /\ active \subseteq 1..Len(files)
    /\ upCanceled \in [cmd : BOOLEAN, group : BOOLEAN]
    /\ onDisk \subseteq Up!AllFiles /\ arrived \subseteq Up!AllFiles /\ refused \subseteq Up!AllFiles
    /\ leaked \subseteq 1..Len(files)

\* The iterator has given out the files before cur, except one it failed on.
UpCursor ==
    /\ \A k \in 1..Len(files) :
          /\ k >= cur => upload[k] = "listed"
          /\ k < cur /\ upload[k] = "listed" => upErr
          /\ upload[k] = "opened" => uploader = "go" /\ k = cur - 1
    /\ uploader = "go" => cur > 1 /\ upload[cur - 1] = "opened"
    /\ uploader = "wait" => cur = Len(files) + 1
    /\ uploader \in UploadEnding /\ ~upErr => cur = Len(files) + 1 /\ Up!Running = {}
    /\ upErr => uploader \in UploadEnding

\* The errgroup holds as many goroutines as its limit, and the iterator left no
\* more than one file open.
UpOpen ==
    /\ IsFiniteSet(Up!Running) /\ Cardinality(Up!Running) <= UploadLimit
    /\ leaked # {} => uploader \in UploadEnding /\ upErr
    /\ \A k, l \in leaked : k = l

\* Without a cancellation, a file whose goroutine has ended was sent or refused.
UpEnded ==
    \A k \in 1..Len(files) :
        upload[k] = "ended" /\ ~upCanceled.group => files[k] \in arrived \cup refused

UploadInv == UpTypes /\ UpCursor /\ UpOpen /\ UpEnded /\ Up!OnlyTriedIsRemoved

LEMMA UploadInitInv == CommandsInit => UploadInv
<1> SUFFICES ASSUME CommandsInit PROVE UploadInv
  OBVIOUS
<1> USE DEF CommandsInit, Up!UploadInit
<1>1. files \in Seq(Up!AllFiles)
  <2>1. PICK p \in Paths : files = Up!Walk(p)
    BY DEF Up!UploadInit
  <2>2. p \in Seq(Up!Range(p)) /\ Up!Range(p) \subseteq Up!AllFiles
    BY <2>1, UploadAssumption DEF Up!AllFiles
  <2>3. files \in Seq(Up!Range(p) \cap (Up!Range(p) \ Excluded))
    BY <2>1, <2>2, KeepProperties DEF Up!Walk, Up!Keep, Keep
  <2> QED
    BY <2>2, <2>3
<1>2. Len(files) \in Nat /\ DOMAIN files = 1..Len(files)
  BY <1>1
<1>3. UpTypes
  <2>1. upCanceled \in [cmd : BOOLEAN, group : BOOLEAN] /\ tracker \in [Up!AllFiles -> Nat]
    OBVIOUS
  <2>2. cur \in 1..(Len(files) + 1)
    BY <1>2
  <2>3. upload \in [1..Len(files) -> UploadStates]
    BY <1>2 DEF UploadStates
  <2> QED
    BY <1>1, <2>1, <2>2, <2>3 DEF UpTypes
<1>4. UpCursor
  BY <1>2 DEF UpCursor, UploadEnding
<1>5. Up!Running = {}
  BY <1>2 DEF Up!Running, Up!At, Up!Positions
<1>6. UpOpen
  BY <1>5, FS_EmptySet, UploadAssumption DEF UpOpen
<1>7. UpEnded /\ Up!OnlyTriedIsRemoved
  BY <1>2 DEF UpEnded, Up!OnlyTriedIsRemoved
<1> QED
  BY <1>3, <1>4, <1>6, <1>7 DEF UploadInv

\* The positions, and what runs, in terms of upload.
LEMMA UploadPlaces ==
    ASSUME UpTypes
    PROVE  /\ Len(files) \in Nat /\ Up!Positions = 1..Len(files)
           /\ \A k \in 1..Len(files) : files[k] \in Up!AllFiles
           /\ Up!Running = {k \in 1..Len(files) : upload[k] \in {"added", "uploading", "sending"}}
<1>1. Len(files) \in Nat /\ DOMAIN files = 1..Len(files) /\ \A k \in 1..Len(files) : files[k] \in Up!AllFiles
  BY DEF UpTypes
<1> QED
  BY <1>1 DEF Up!Positions, Up!Running, Up!At

\* A step of the goroutine of a file: it goes on, or ends.
GoroutineSteps(k, to) ==
    /\ k \in 1..Len(files) /\ uploader # "ended" /\ upload[k] \in {"added", "uploading", "sending"}
    /\ to \in {"uploading", "sending", "ended"} /\ upload' = [upload EXCEPT ![k] = to]
    /\ UNCHANGED <<files, remove, cur, upErr, uploader, tracker, leaked>>

LEMMA GoroutineInv ==
    ASSUME UploadInv, NEW k, NEW to, GoroutineSteps(k, to),
           active' \subseteq active, onDisk' \subseteq onDisk,
           upCanceled' \in [cmd : BOOLEAN, group : BOOLEAN],
           upCanceled.group => upCanceled'.group,
           arrived' \subseteq Up!AllFiles, refused' \subseteq Up!AllFiles,
           arrived \cup refused \subseteq arrived' \cup refused',
           to = "ended" /\ ~upCanceled'.group => files[k] \in arrived' \cup refused',
           onDisk \ onDisk' \subseteq arrived' \cup refused'
    PROVE  UploadInv'
<1> USE DEF GoroutineSteps
<1>1. Len(files) \in Nat
  BY UploadPlaces DEF UploadInv
<1>2. UpTypes'
  BY <1>1 DEF UploadInv, UpTypes, UploadStates
<1>3. Up!Running' \subseteq Up!Running
  <2>1. DOMAIN files = 1..Len(files) /\ upload' = [upload EXCEPT ![k] = to] /\ upload \in [1..Len(files) -> UploadStates]
    BY DEF UploadInv, UpTypes
  <2> QED
    BY <2>1 DEF Up!Running, Up!At, Up!Positions
<1>4. upload' \in [1..Len(files) -> UploadStates] /\ upload'[k] = to /\ \A l \in 1..Len(files) : l # k => upload'[l] = upload[l]
  BY <1>2 DEF UpTypes, UploadInv
<1>5. k < cur /\ cur \in Nat
  BY <1>1 DEF UploadInv, UpTypes, UpCursor
<1>6. UpCursor'
  <2>1. \A l \in 1..Len(files) : /\ l >= cur => upload'[l] = "listed"
                                 /\ l < cur /\ upload'[l] = "listed" => upErr
                                 /\ upload'[l] = "opened" => uploader = "go" /\ l = cur - 1
    BY <1>1, <1>4, <1>5 DEF UploadInv, UpCursor
  <2>2. uploader = "go" => cur > 1 /\ upload'[cur - 1] = "opened"
    BY <1>1, <1>4, <1>5 DEF UploadInv, UpCursor, UpTypes
  <2>3. uploader \in UploadEnding /\ ~upErr => cur = Len(files) + 1 /\ Up!Running' = {}
    BY <1>3 DEF UploadInv, UpCursor
  <2> QED
    BY <2>1, <2>2, <2>3 DEF UploadInv, UpCursor
<1>7. UpOpen'
  <2>1. IsFiniteSet(Up!Running') /\ Cardinality(Up!Running') <= Cardinality(Up!Running)
    BY <1>3, FS_Subset DEF UploadInv, UpOpen
  <2>2. Cardinality(Up!Running') \in Nat /\ Cardinality(Up!Running) \in Nat
    BY <2>1, FS_CardinalityType DEF UploadInv, UpOpen
  <2> QED
    BY <2>1, <2>2, UploadAssumption DEF UploadInv, UpOpen
<1>8. UpEnded'
  BY <1>4 DEF UploadInv, UpEnded
<1>9. Up!OnlyTriedIsRemoved'
  BY DEF UploadInv, Up!OnlyTriedIsRemoved, Up!AllFiles
<1> QED
  BY <1>2, <1>6, <1>7, <1>8, <1>9 DEF UploadInv

\* Iter.Next: the file is opened, or the iterator fails, or it is at its end.
LEMMA IterNextInv ==
    ASSUME UploadInv, Up!IterNext
    PROVE  UploadInv'
<1> USE DEF Up!IterNext
<1>1. Len(files) \in Nat /\ cur \in 1..(Len(files) + 1) /\ leaked = {} /\ ~upErr
  BY UploadPlaces DEF UploadInv, UpTypes, UpOpen, UpCursor, UploadEnding
<1>2. UNCHANGED <<files, remove, tracker, active, upCanceled, onDisk, arrived, refused>>
  BY DEF Up!upShown
<1>3. CASE upCanceled.group
  <2>1. upErr' = TRUE /\ uploader' = "progress" /\ UNCHANGED <<cur, upload, leaked>>
    BY <1>3
  <2>2. Up!Running' = Up!Running
    BY <1>2, <2>1 DEF Up!Running, Up!At, Up!Positions
  <2> QED
    BY <1>1, <1>2, <2>1, <2>2 DEF UploadInv, UpTypes, UpCursor, UpOpen, UpEnded, UploadEnding, Up!OnlyTriedIsRemoved, Up!AllFiles
<1>4. CASE ~upCanceled.group /\ cur > Len(files)
  <2>1. uploader' = "wait" /\ UNCHANGED <<cur, upErr, upload, leaked>>
    BY <1>4
  <2>2. Up!Running' = Up!Running
    BY <1>2, <2>1 DEF Up!Running, Up!At, Up!Positions
  <2> QED
    BY <1>1, <1>2, <1>4, <2>1, <2>2 DEF UploadInv, UpTypes, UpCursor, UpOpen, UpEnded, UploadEnding, Up!OnlyTriedIsRemoved, Up!AllFiles
<1>5. CASE ~upCanceled.group /\ ~(cur > Len(files))
  <2>1. cur \in 1..Len(files) /\ cur' = cur + 1 /\ upload[cur] = "listed" /\ uploader = "next"
    BY <1>1, <1>5 DEF UploadInv, UpCursor
  <2>2. upload \in [1..Len(files) -> UploadStates] /\ DOMAIN files = 1..Len(files)
    BY DEF UploadInv, UpTypes
  <2>3. CASE /\ uploader' = "go" /\ upload' = [upload EXCEPT ![cur] = "opened"]
             /\ UNCHANGED <<upErr, leaked>>
    <3>1. upload'[cur] = "opened" /\ \A k \in 1..Len(files) : k # cur => upload'[k] = upload[k]
      BY <2>1, <2>2, <2>3
    <3>2. Up!Running' = Up!Running
      BY <1>2, <2>1, <2>2, <3>1 DEF Up!Running, Up!At, Up!Positions
    <3>3. UpTypes'
      BY <1>1, <1>2, <2>1, <2>2, <2>3 DEF UploadInv, UpTypes, UploadStates, Up!AllFiles
    <3>4. UpCursor'
      BY <1>1, <1>2, <2>1, <2>3, <3>1 DEF UploadInv, UpCursor, UploadEnding
    <3> QED
      BY <1>1, <1>2, <2>3, <3>1, <3>2, <3>3, <3>4 DEF UploadInv, UpOpen, UpEnded, Up!OnlyTriedIsRemoved, Up!AllFiles
  <2>4. CASE /\ upErr' = TRUE /\ uploader' = "progress" /\ UNCHANGED upload
             /\ leaked' \subseteq {cur}
    <3>1. Up!Running' = Up!Running
      BY <1>2, <2>4 DEF Up!Running, Up!At, Up!Positions
    <3>2. UpTypes'
      BY <1>1, <1>2, <2>1, <2>4 DEF UploadInv, UpTypes, Up!AllFiles
    <3>3. UpCursor'
      BY <1>1, <1>2, <2>1, <2>4 DEF UploadInv, UpCursor, UploadEnding
    <3> QED
      BY <1>2, <2>4, <3>1, <3>2, <3>3 DEF UploadInv, UpOpen, UpEnded, UploadEnding, Up!OnlyTriedIsRemoved, Up!AllFiles
  <2> QED
    BY <1>1, <1>5, <2>3, <2>4
<1> QED
  BY <1>3, <1>4, <1>5

\* Upload counts as the other modules do.
LEMMA SameCardinality == \A S : Up!Cardinality(S) = Cardinality(S)
BY DEF Up!Cardinality, Cardinality

\* wg.Go waits until fewer than the limit run.
LEMMA GoInv ==
    ASSUME UploadInv, Up!Go
    PROVE  UploadInv'
<1> DEFINE k == cur - 1
<1>1. Len(files) \in Nat /\ DOMAIN files = 1..Len(files) /\ cur \in 1..(Len(files) + 1) /\ cur > 1 /\ upload[k] = "opened"
  BY UploadPlaces DEF UploadInv, UpTypes, UpCursor, Up!Go, Up!Positions
<1>2. k \in 1..Len(files) /\ k + 1 = cur /\ files[k] \in Up!AllFiles /\ k \in Nat
  BY <1>1, UploadPlaces DEF UploadInv
<1>3. /\ uploader = "go" /\ uploader' = "next" /\ Up!SlotFree
      /\ upload' = [upload EXCEPT ![k] = "added"]
      /\ tracker' = [tracker EXCEPT ![files[k]] = k] /\ active' = active \cup {k}
      /\ UNCHANGED <<files, remove, cur, upErr, upCanceled, onDisk, arrived, refused, leaked>>
  BY DEF Up!Go, Up!upIter, Up!upSeen
<1>4. upload \in [1..Len(files) -> UploadStates]
  BY DEF UploadInv, UpTypes
<1> HIDE DEF k
<1>5. upload'[k] = "added" /\ \A l \in 1..Len(files) : l # k => upload'[l] = upload[l]
  BY <1>2, <1>3, <1>4
<1>6. UpTypes'
  BY <1>1, <1>2, <1>3 DEF UploadInv, UpTypes, UploadStates, Up!AllFiles
<1>7. UpCursor'
  <2>1. \A l \in 1..Len(files) : /\ l >= cur => upload'[l] = "listed"
                                 /\ l < cur /\ upload'[l] = "listed" => upErr
                                 /\ upload'[l] # "opened"
    BY <1>1, <1>2, <1>3, <1>5 DEF UploadInv, UpCursor
  <2> QED
    BY <1>3, <2>1 DEF UploadInv, UpCursor, UploadEnding
<1>8. Up!Running' = Up!Running \cup {k} /\ k \notin Up!Running
  BY <1>1, <1>2, <1>3, <1>5 DEF Up!Running, Up!At, Up!Positions
<1>9. UpOpen'
  <2>1. IsFiniteSet(Up!Running') /\ Cardinality(Up!Running') = Cardinality(Up!Running) + 1
    BY <1>8, FS_AddElement DEF UploadInv, UpOpen
  <2>2. Cardinality(Up!Running) \in Nat /\ Cardinality(Up!Running) < UploadLimit
    <3>1. Up!Cardinality(Up!Running) = Cardinality(Up!Running)
      BY SameCardinality
    <3> QED
      BY <1>3, <3>1, FS_CardinalityType DEF UploadInv, UpOpen, Up!SlotFree
  <2>3. leaked = {}
    BY <1>3 DEF UploadInv, UpOpen, UploadEnding
  <2> QED
    BY <1>3, <2>1, <2>2, <2>3, UploadAssumption DEF UpOpen
<1>10. UpEnded' /\ Up!OnlyTriedIsRemoved'
  BY <1>3, <1>5 DEF UploadInv, UpEnded, Up!OnlyTriedIsRemoved, Up!AllFiles
<1> QED
  BY <1>6, <1>7, <1>9, <1>10 DEF UploadInv

\* The other steps of the main goroutine, and Ctrl-C.
LEMMA UploadMainInv ==
    ASSUME UploadInv, Up!Ctrl_C \/ Up!Wait \/ Up!ProgressWait \/ UNCHANGED uploadAll
    PROVE  UploadInv'
<1> USE DEF UploadInv, UpTypes, UpCursor, UpOpen, UpEnded, UploadEnding, Up!OnlyTriedIsRemoved, Up!AllFiles,
            Up!upIter, Up!upShown, Up!upSeen
<1>1. Len(files) \in Nat
  OBVIOUS
<1>2. Up!Running' = Up!Running
  BY DEF Up!Running, Up!At, Up!Positions, Up!Ctrl_C, Up!Wait, Up!ProgressWait, uploadAll
<1>3. CASE Up!Ctrl_C
  BY <1>1, <1>2, <1>3 DEF Up!Ctrl_C
<1>4. CASE Up!Wait
  BY <1>1, <1>2, <1>4 DEF Up!Wait
<1>5. CASE Up!ProgressWait
  BY <1>1, <1>2, <1>5 DEF Up!ProgressWait
<1>6. CASE UNCHANGED uploadAll
  BY <1>1, <1>2, <1>6 DEF uploadAll
<1> QED
  BY <1>3, <1>4, <1>5, <1>6

\* The steps of the goroutine of a file.
LEMMA UploadGoroutineInv ==
    ASSUME UploadInv, NEW k \in Up!Positions,
           Up!Begin(k) \/ Up!PartsSent(k) \/ Up!Sent(k) \/ Up!Refused(k) \/ Up!Canceled(k)
    PROVE  UploadInv'
<1>1. /\ k \in 1..Len(files) /\ files[k] \in Up!AllFiles
      /\ active \subseteq 1..Len(files) /\ onDisk \subseteq Up!AllFiles
      /\ arrived \subseteq Up!AllFiles /\ refused \subseteq Up!AllFiles
      /\ upCanceled \in [cmd : BOOLEAN, group : BOOLEAN]
  BY UploadPlaces DEF UploadInv, UpTypes
<1>2. CASE Up!Begin(k)
  <2>1. GoroutineSteps(k, "uploading") /\ UNCHANGED <<active, upCanceled, onDisk, arrived, refused>>
    BY <1>1, <1>2 DEF GoroutineSteps, Up!Begin, Up!Step, Up!upIter, Up!upShown, Up!upSeen
  <2> QED
    BY <1>1, <2>1, GoroutineInv
<1>3. CASE Up!PartsSent(k)
  <2>1. /\ GoroutineSteps(k, "sending") /\ UNCHANGED <<upCanceled, onDisk, arrived, refused>>
        /\ active' \subseteq active
    BY <1>1, <1>3 DEF GoroutineSteps, Up!PartsSent, Up!Step, Up!Shown, Up!upIter, Up!upSeen
  <2> QED
    BY <1>1, <2>1, GoroutineInv
<1>4. ASSUME NEW error \in BOOLEAN, Up!Return(k, error)
      PROVE  /\ upload' = [upload EXCEPT ![k] = "ended"]
             /\ active' \subseteq active
             /\ onDisk' \subseteq onDisk /\ onDisk \ onDisk' \subseteq {files[k]}
             /\ error => onDisk' = onDisk
             /\ upCanceled' = [upCanceled EXCEPT !.group = @ \/ error]
             /\ UNCHANGED <<files, remove, cur, upErr, uploader, tracker, leaked>>
  <2>1. PICK closed \in BOOLEAN :
          /\ Up!OnDone(k, error, closed)
          /\ active' = IF Up!Fails(k, error, closed) THEN active \ {tracker[files[k]]} ELSE active
    BY <1>4 DEF Up!Return
  <2>2. active' \subseteq active
    BY <2>1
  <2> QED
    BY <1>4, <2>1, <2>2 DEF Up!Return, Up!OnDone, Up!upIter
<1>5. CASE Up!Sent(k) \/ Up!Refused(k)
  <2>1. /\ Up!Return(k, FALSE) /\ uploader # "ended" /\ upload[k] \in {"uploading", "sending"}
        /\ arrived' \subseteq Up!AllFiles /\ refused' \subseteq Up!AllFiles
        /\ arrived \cup refused \cup {files[k]} \subseteq arrived' \cup refused'
    BY <1>1, <1>5 DEF Up!Sent, Up!Refused
  <2>2. upCanceled' \in [cmd : BOOLEAN, group : BOOLEAN] /\ (upCanceled.group => upCanceled'.group)
    BY <1>1, <1>4, <2>1
  <2>3. GoroutineSteps(k, "ended")
    BY <1>1, <1>4, <2>1 DEF GoroutineSteps
  <2>4. /\ active' \subseteq active /\ onDisk' \subseteq onDisk /\ onDisk \ onDisk' \subseteq arrived' \cup refused'
    BY <1>4, <2>1
  <2> QED
    BY <2>1, <2>2, <2>3, <2>4, GoroutineInv
<1>6. CASE Up!Canceled(k)
  <2>1. /\ Up!Return(k, TRUE) /\ uploader # "ended" /\ upload[k] \in {"added", "uploading", "sending"}
        /\ UNCHANGED <<arrived, refused>>
    BY <1>6 DEF Up!Canceled
  <2>2. upCanceled' \in [cmd : BOOLEAN, group : BOOLEAN] /\ upCanceled'.group
    BY <1>1, <1>4, <2>1
  <2>3. GoroutineSteps(k, "ended")
    BY <1>1, <1>4, <2>1 DEF GoroutineSteps
  <2>4. active' \subseteq active /\ onDisk' = onDisk
    BY <1>4, <2>1
  <2> QED
    BY <1>1, <2>1, <2>2, <2>3, <2>4, GoroutineInv
<1> QED
  BY <1>2, <1>3, <1>5, <1>6

LEMMA UploadStepInv == UploadInv /\ [CommandsNext]_commandsVars => UploadInv'
<1> SUFFICES ASSUME UploadInv, [CommandsNext]_commandsVars PROVE UploadInv'
  OBVIOUS
<1>1. Up!UploadNext \/ UNCHANGED uploadAll
  BY DEF CommandsNext, Stopped, commandsVars
<1>2. CASE Up!UploadNext
  BY <1>2, UploadMainInv, IterNextInv, GoInv, UploadGoroutineInv DEF Up!UploadNext
<1> QED
  BY <1>1, <1>2, UploadMainInv

LEMMA UploadRight == UploadInv => UploadIsRight /\ Up!TypeOK
<1> SUFFICES ASSUME UploadInv
             PROVE  Up!FewAreOpen /\ Up!OnlyTriedIsRemoved /\ Up!AllTried /\ Up!TypeOK
  BY DEF UploadIsRight
<1>1. Len(files) \in Nat /\ DOMAIN files = 1..Len(files) /\ Up!Positions = 1..Len(files)
  BY UploadPlaces DEF UploadInv, Up!Positions
<1> DEFINE opened == {k \in 1..Len(files) : upload[k] = "opened"}
<1>2. Up!Open = Up!Running \cup opened \cup leaked
  BY <1>1 DEF Up!Open, Up!Running, Up!At
<1>3. \A k, l \in opened \cup leaked : k = l
  <2>1. \A k \in opened : uploader = "go" /\ k = cur - 1
    BY DEF UploadInv, UpCursor
  <2>2. leaked # {} => uploader # "go"
    BY DEF UploadInv, UpOpen, UploadEnding
  <2> QED
    BY <2>1, <2>2 DEF UploadInv, UpOpen
<1>4. Up!FewAreOpen
  <2>1. PICK x : opened \cup leaked \subseteq {x}
    <3> HIDE DEF opened
    <3>1. CASE opened \cup leaked = {}
      BY <3>1
    <3>2. CASE opened \cup leaked # {}
      <4>1. PICK y : y \in opened \cup leaked
        BY <3>2
      <4>2. opened \cup leaked \subseteq {y}
        BY <1>3, <4>1
      <4> QED
        BY <4>2
    <3> QED
      BY <3>1, <3>2
  <2>2. IsFiniteSet(Up!Running \cup {x}) /\ Cardinality(Up!Running \cup {x}) <= Cardinality(Up!Running) + 1
    <3>1. IsFiniteSet(Up!Running) /\ Cardinality(Up!Running) \in Nat
      BY FS_CardinalityType DEF UploadInv, UpOpen
    <3> QED
      BY <3>1, FS_AddElement
  <2>3. Cardinality(Up!Open) <= Cardinality(Up!Running \cup {x})
    BY <1>2, <2>1, <2>2, FS_Subset
  <2>4. IsFiniteSet(Up!Open)
    BY <1>2, <2>1, <2>2, FS_Subset
  <2>5. /\ Cardinality(Up!Open) \in Nat /\ Cardinality(Up!Running) \in Nat
        /\ Cardinality(Up!Running \cup {x}) \in Nat /\ Cardinality(Up!Running) <= UploadLimit
    BY <2>2, <2>4, FS_CardinalityType DEF UploadInv, UpOpen
  <2>6. Cardinality(Up!Open) <= UploadLimit + 1
    BY <2>2, <2>3, <2>5, UploadAssumption
  <2> QED
    BY <2>6, SameCardinality DEF Up!FewAreOpen
<1>5. Up!AllTried
  <2> SUFFICES ASSUME uploader \in UploadEnding, ~upErr
               PROVE  Up!Open = {} /\ (~upCanceled.group => Up!Range(files) \subseteq arrived \cup refused)
    BY DEF Up!AllTried, UploadEnding
  <2>1. cur = Len(files) + 1 /\ Up!Running = {}
    BY DEF UploadInv, UpCursor
  <2>2. opened = {}
    BY DEF UploadInv, UpCursor, UploadEnding
  <2>3. leaked = {}
    BY DEF UploadInv, UpOpen
  <2>4. ASSUME NEW k \in 1..Len(files), ~upCanceled.group PROVE files[k] \in arrived \cup refused
    <3>1. k < cur
      BY <1>1, <2>1
    <3>2. upload[k] # "listed" /\ upload[k] # "opened"
      BY <2>2, <3>1 DEF UploadInv, UpCursor
    <3>3. upload[k] \in UploadStates /\ k \notin Up!Running
      BY <2>1 DEF UploadInv, UpTypes
    <3>4. upload[k] = "ended"
      BY <1>1, <3>2, <3>3 DEF UploadStates, Up!Running, Up!At
    <3> QED
      BY <2>4, <3>4 DEF UploadInv, UpEnded
  <2> QED
    BY <1>1, <1>2, <2>1, <2>2, <2>3, <2>4 DEF Up!Range
<1>6. Up!TypeOK
  BY <1>1 DEF UploadInv, UpTypes, UploadStates, Up!TypeOK
<1> QED
  BY <1>4, <1>5, <1>6 DEF UploadInv

\* Every file is tried, no more than --limit of them and the one that waits are
\* open, and --rm removes only what was sent or refused, whatever fails and however
\* uploads interleave (core/uploader/uploader.go, app/up).
THEOREM UploadsAreRight == CommandsSpec => []UploadIsRight
<1>1. CommandsSpec => []UploadInv
  BY UploadInitInv, UploadStepInv, PTL DEF CommandsSpec
<1>2. UploadInv => UploadIsRight
  BY UploadRight
<1> QED
  BY <1>1, <1>2, PTL

-----------------------------------------------------------------------------
(* Forward: what its invariants rest on. *)

InFlight == at \in {"forward", "direct", "clone"}
InHand == IF InFlight THEN Fwd!UnderWay ELSE {}
AlbumSent(m) == Fwd!Range(Fwd!AlbumOf(m)) \subseteq sent

FwTypes ==
    /\ dialogs \in Seq(Seq(Fwd!Messages)) /\ \A k \in 1..Len(dialogs) : dialogs[k] # <<>>
    /\ single \in BOOLEAN /\ dry \in BOOLEAN /\ protected \in BOOLEAN
    /\ i \in 1..(Len(dialogs) + 1) /\ (i <= Len(dialogs) => j \in 1..Len(dialogs[i]))
    /\ iterErr \in BOOLEAN /\ stopped \in BOOLEAN /\ sent \subseteq Fwd!Messages
    /\ at \in {"next", "got", "forward", "direct", "clone", "ended", "crashed"}
    /\ fwElem \in Fwd!Messages \cup {None} /\ (InFlight \/ at = "got" => fwElem \in Fwd!Messages)
    /\ grouped \in Seq(Fwd!Messages) /\ todo \in Seq(Fwd!Messages) /\ media \subseteq Fwd!Messages
    /\ copies \in [Fwd!Messages -> Nat]
    /\ lost \subseteq Fwd!Messages /\ split \subseteq Fwd!Messages
    /\ failed \subseteq Fwd!Messages /\ dropped \subseteq Fwd!Messages

\* What is under way was not sent before as a whole: a message, or its album, or a
\* message of an album that could not be read.
FwAlbum ==
    InFlight =>
        /\ fwElem \notin sent
        /\ grouped # <<>> => ~single /\ grouped = Fwd!AlbumOf(fwElem) /\ fwElem \in Fwd!Range(grouped)
        /\ grouped = <<>> /\ ~single => Fwd!Range(Fwd!AlbumOf(fwElem)) \subseteq split

\* A copy of an album has lost no member but those in dropped.
FwCopy ==
    /\ at = "forward" => media = {}
    /\ at \in {"direct", "clone"} =>
        /\ Fwd!Range(todo) \cup media \subseteq Fwd!UnderWay
        /\ grouped # <<>> => Fwd!UnderWay \subseteq Fwd!Range(todo) \cup media \cup dropped

\* Copies are made of what is in f.sent or under way, and a member of an album is
\* sent without the others only when the album could not be read.
FwOnce ==
    \A m \in Fwd!Messages :
        /\ m \notin sent \cup InHand => copies[m] = 0
        /\ copies[m] <= 1 \/ m \in lost \cup split
        /\ m \in InHand => copies[m] = 0 \/ m \in lost \cup split
        /\ m \in sent /\ ~single => AlbumSent(m) \/ m \in split

\* Two requests for a message alone, and two for its album.
FwBound ==
    \A m \in Fwd!Messages :
        IF m \in InHand
        THEN copies[m] <= (IF m \in sent THEN 2 ELSE 0) + (IF at = "clone" THEN 1 ELSE 0)
        ELSE copies[m] <= (IF AlbumSent(m) THEN 4 ELSE 2)

FwHandled == \A m \in sent : dry \/ copies[m] > 0 \/ m \in failed \cup dropped

\* The iterator has passed only messages that are in f.sent, or under way.
FwReached ==
    \/ iterErr \/ at = "crashed"
    \/ \A k \in 1..Len(dialogs) : \A l \in 1..Len(dialogs[k]) :
          k < i \/ (k = i /\ l < j) =>
              \/ dialogs[k][l] \in sent
              \/ (InFlight \/ at = "got") /\ dialogs[k][l] = fwElem

FwEnd ==
    /\ at = "ended" /\ ~iterErr /\ ~stopped => i > Len(dialogs)
    /\ iterErr => at = "ended"

ForwardInv ==
    /\ FwTypes /\ FwAlbum /\ FwCopy /\ FwOnce /\ FwBound /\ FwHandled /\ FwReached /\ FwEnd
    /\ Fwd!DryRunSendsNothing

\* A message is in one album or in none.
LEMMA AlbumFacts ==
    ASSUME NEW m \in Fwd!Messages
    PROVE  /\ Fwd!AlbumOf(m) \in Seq(Fwd!Messages)
           /\ Fwd!AlbumOf(m) # <<>> => m \in Fwd!Range(Fwd!AlbumOf(m))
           /\ \A n \in Fwd!Range(Fwd!AlbumOf(m)) : n \in Fwd!Messages /\ Fwd!AlbumOf(n) = Fwd!AlbumOf(m)
<1>1. CASE \E a \in Albums : m \in Fwd!Range(a)
  <2> DEFINE A == Fwd!AlbumOf(m)
  <2>1. A \in Albums /\ m \in Fwd!Range(A)
    BY <1>1 DEF Fwd!AlbumOf
  <2>2. A \in Seq(Fwd!Messages)
    BY <2>1, ForwardAssumption DEF Fwd!Messages
  <2> HIDE DEF A
  <2>3. ASSUME NEW n \in Fwd!Range(A) PROVE n \in Fwd!Messages /\ Fwd!AlbumOf(n) = A
    <3>1. n \in Fwd!Messages
      BY <2>2, <2>3 DEF Fwd!Range
    <3>2. \A b \in Albums : n \in Fwd!Range(b) => b = A
      BY <2>1, <2>3, <3>1, ForwardAssumption DEF Fwd!Messages
    <3>3. Fwd!AlbumOf(n) \in Albums /\ n \in Fwd!Range(Fwd!AlbumOf(n))
      BY <2>1, <2>3 DEF Fwd!AlbumOf
    <3> QED
      BY <3>1, <3>2, <3>3
  <2> QED
    BY <2>1, <2>2, <2>3 DEF A
<1>2. CASE ~(\E a \in Albums : m \in Fwd!Range(a))
  <2>1. Fwd!AlbumOf(m) = <<>>
    BY <1>2 DEF Fwd!AlbumOf
  <2>2. Fwd!Range(<<>>) = {}
    BY DEF Fwd!Range
  <2> QED
    BY <2>1, <2>2
<1> QED
  BY <1>1, <1>2

\* collectDialogs gives as many lists, of as many messages each.
LEMMA CollectedDialogs ==
    ASSUME NEW input \in Inputs, NEW desc \in BOOLEAN
    PROVE  /\ Fwd!CollectDialogs(input, desc) \in Seq(Seq(Fwd!Messages))
           /\ \A k \in 1..Len(Fwd!CollectDialogs(input, desc)) : Fwd!CollectDialogs(input, desc)[k] # <<>>
<1>1. input \in Seq(Seq(Fwd!Messages)) /\ Len(input) \in Nat /\ DOMAIN input = 1..Len(input)
  BY ForwardAssumption DEF Fwd!Messages
<1>2. ASSUME NEW k \in 1..Len(input)
      PROVE  /\ input[k] \in Seq(Fwd!Messages) /\ input[k] # <<>>
             /\ Fwd!Reverse(input[k]) \in Seq(Fwd!Messages) /\ Fwd!Reverse(input[k]) # <<>>
  <2> DEFINE q == input[k]
  <2>1. q \in Seq(Fwd!Messages) /\ q # <<>>
    BY <1>1, ForwardAssumption
  <2> HIDE DEF q
  <2>2. Len(q) \in Nat /\ Len(q) # 0 /\ \A n \in 1..Len(q) : q[n] \in Fwd!Messages /\ Len(q) - n + 1 \in 1..Len(q)
    BY <2>1
  <2>3. Fwd!Reverse(q) = [n \in 1..Len(q) |-> q[(Len(q) - n) + 1]]
    BY DEF Fwd!Reverse
  <2>4. Fwd!Reverse(q) \in [1..Len(q) -> Fwd!Messages] /\ DOMAIN Fwd!Reverse(q) = 1..Len(q)
    BY <2>2, <2>3
  <2>5. Fwd!Reverse(q) \in Seq(Fwd!Messages)
    BY <2>2, <2>4
  <2>6. Fwd!Reverse(q) # <<>>
    BY <2>2, <2>4
  <2> QED
    BY <2>1, <2>5, <2>6 DEF q
<1> DEFINE D == Fwd!CollectDialogs(input, desc)
<1>3. D = [k \in 1..Len(input) |-> IF desc THEN Fwd!Reverse(input[k]) ELSE input[k]]
  BY <1>1 DEF Fwd!CollectDialogs
<1> HIDE DEF D
<1>4. D \in [1..Len(input) -> Seq(Fwd!Messages)] /\ \A k \in 1..Len(input) : D[k] # <<>>
  BY <1>2, <1>3
<1>5. D \in Seq(Seq(Fwd!Messages)) /\ Len(D) = Len(input)
  <2>1. \A T : \A n \in Nat : \A q \in [1..n -> T] : q \in Seq(T) /\ Len(q) = n
    OBVIOUS
  <2> QED
    BY <1>1, <1>4, <2>1
<1> QED
  BY <1>4, <1>5 DEF D

LEMMA ForwardInitInv == CommandsInit => ForwardInv
<1> SUFFICES ASSUME Fwd!ForwardInit PROVE ForwardInv
  BY DEF CommandsInit
<1>1. PICK input \in Inputs, desc \in BOOLEAN : dialogs = Fwd!CollectDialogs(input, desc)
  BY DEF Fwd!ForwardInit
<1>2. /\ dialogs \in Seq(Seq(Fwd!Messages)) /\ Len(dialogs) \in Nat
      /\ \A k \in 1..Len(dialogs) : dialogs[k] # <<>>
  BY <1>1, CollectedDialogs
<1>3. \A k \in 1..Len(dialogs) : dialogs[k] \in Seq(Fwd!Messages) /\ Len(dialogs[k]) \in Nat /\ Len(dialogs[k]) # 0
  BY <1>2
<1>4. \A m \in Fwd!Messages : copies[m] = 0
  BY DEF Fwd!ForwardInit
<1>5. 1 \in 1..(Len(dialogs) + 1) /\ (1 <= Len(dialogs) => 1 \in 1..Len(dialogs[1]))
  BY <1>2, <1>3
<1>6. FwTypes
  <2>1. copies \in [Fwd!Messages -> Nat]
    BY DEF Fwd!ForwardInit
  <2>2. grouped \in Seq(Fwd!Messages) /\ todo \in Seq(Fwd!Messages)
    BY DEF Fwd!ForwardInit
  <2>3. i \in 1..(Len(dialogs) + 1) /\ (i <= Len(dialogs) => j \in 1..Len(dialogs[i]))
    BY <1>5 DEF Fwd!ForwardInit
  <2>4. /\ single \in BOOLEAN /\ dry \in BOOLEAN /\ protected \in BOOLEAN /\ iterErr = FALSE /\ stopped = FALSE
        /\ sent = {} /\ at = "next" /\ fwElem = None /\ media = {} /\ lost = {} /\ split = {}
        /\ failed = {} /\ dropped = {}
    BY DEF Fwd!ForwardInit
  <2> QED
    BY <1>2, <2>1, <2>2, <2>3, <2>4 DEF FwTypes, InFlight
<1>7. FwAlbum /\ FwCopy /\ FwHandled /\ FwEnd
  BY DEF Fwd!ForwardInit, FwAlbum, FwCopy, FwHandled, FwEnd, InFlight
<1>8. FwOnce /\ FwBound
  BY <1>4 DEF Fwd!ForwardInit, FwOnce, FwBound, InHand, InFlight
<1>9. FwReached
  BY <1>2, <1>3 DEF Fwd!ForwardInit, FwReached
<1> QED
  BY <1>4, <1>6, <1>7, <1>8, <1>9 DEF ForwardInv, Fwd!DryRunSendsNothing

fwFixed == <<dialogs, mode, single, dry, protected, i, j, iterErr, fwElem, grouped, stopped>>

\* What is under way are the message and its album.
LEMMA UnderWayFacts ==
    ASSUME ForwardInv, InFlight
    PROVE  /\ Fwd!UnderWay \subseteq Fwd!Messages /\ fwElem \in Fwd!UnderWay /\ fwElem \in Fwd!Messages
           /\ InHand = Fwd!UnderWay
           /\ grouped = <<>> => Fwd!UnderWay = {fwElem}
           /\ grouped # <<>> => /\ Fwd!UnderWay = Fwd!Range(grouped) /\ ~single
                                /\ \A m \in Fwd!UnderWay : Fwd!Range(Fwd!AlbumOf(m)) = Fwd!UnderWay
<1>1. /\ fwElem \in Fwd!Messages /\ grouped \in Seq(Fwd!Messages) /\ Fwd!UnderWay = {fwElem} \cup Fwd!Range(grouped)
      /\ DOMAIN grouped = 1..Len(grouped)
  BY DEF ForwardInv, FwTypes, Fwd!UnderWay
<1>2. Fwd!Range(grouped) \subseteq Fwd!Messages
  BY <1>1 DEF Fwd!Range
<1>3. grouped = <<>> => Fwd!Range(grouped) = {}
  BY DEF Fwd!Range
<1>4. ASSUME grouped # <<>>
      PROVE  /\ Fwd!UnderWay = Fwd!Range(grouped) /\ ~single
             /\ \A m \in Fwd!UnderWay : Fwd!Range(Fwd!AlbumOf(m)) = Fwd!UnderWay
  <2>1. ~single /\ grouped = Fwd!AlbumOf(fwElem) /\ fwElem \in Fwd!Range(grouped)
    BY <1>4 DEF ForwardInv, FwAlbum
  <2>2. Fwd!UnderWay = Fwd!Range(grouped)
    BY <1>1, <2>1
  <2>3. \A m \in Fwd!Range(grouped) : Fwd!AlbumOf(m) = grouped
    BY <1>1, <2>1, AlbumFacts
  <2> QED
    BY <2>1, <2>2, <2>3
<1> QED
  BY <1>1, <1>2, <1>3, <1>4 DEF InHand

\* forwardMessage returns: what was under way is in f.sent.
LEMMA DoneInv ==
    ASSUME ForwardInv, InFlight, NEW error \in BOOLEAN, Fwd!Done(error), UNCHANGED <<fwFixed, dropped, split, media>>,
           todo' \in Seq(Fwd!Messages), copies' \in [Fwd!Messages -> Nat],
           \A m \in Fwd!Messages : \/ copies'[m] = copies[m]
                                   \/ m \in Fwd!UnderWay /\ ~dry /\ copies'[m] = copies[m] + 1,
           lost \subseteq lost', lost' \subseteq Fwd!Messages,
           error \/ \A m \in Fwd!UnderWay : dry \/ copies'[m] > 0 \/ m \in dropped
    PROVE  ForwardInv'
<1> DEFINE U == Fwd!UnderWay
<1> HIDE DEF U
<1>1. /\ U \subseteq Fwd!Messages /\ fwElem \in U /\ InHand = U
      /\ grouped = <<>> => U = {fwElem}
      /\ grouped # <<>> => ~single /\ \A m \in U : Fwd!Range(Fwd!AlbumOf(m)) = U
  BY UnderWayFacts DEF U
<1>2. /\ sent' = sent \cup U
      /\ failed' = IF error THEN failed \cup U ELSE failed
      /\ at' = IF error /\ stopped /\ grouped = <<>> THEN "ended" ELSE "next"
  BY DEF Fwd!Done, U
<1>3. UNCHANGED <<dialogs, mode, single, dry, protected, i, j, iterErr, fwElem, grouped, stopped, dropped, split, media>>
  BY DEF fwFixed
<1>4. ~InFlight' /\ InHand' = {} /\ at' # "got" /\ at' # "clone" /\ at' # "crashed"
  BY <1>2 DEF InFlight, InHand
<1>5. \A m \in Fwd!Messages : copies[m] \in Nat /\ copies'[m] \in Nat
  BY DEF ForwardInv, FwTypes
<1>6. FwTypes'
  BY <1>1, <1>2, <1>3, <1>4 DEF ForwardInv, FwTypes, Fwd!Messages
<1>7. FwAlbum' /\ FwCopy'
  BY <1>4 DEF FwAlbum, FwCopy, InFlight
<1>8. \A m \in Fwd!Messages : /\ copies'[m] <= copies[m] + 1 /\ copies'[m] >= copies[m]
                              /\ m \notin U => copies'[m] = copies[m]
  BY <1>5 DEF U
<1>9. \A m \in Fwd!Messages : m \in sent' /\ ~single => AlbumSent(m)' \/ m \in split
  <2> SUFFICES ASSUME NEW m \in Fwd!Messages, m \in sent', ~single PROVE AlbumSent(m)' \/ m \in split
    OBVIOUS
  <2>1. CASE m \in sent
    BY <1>2, <2>1 DEF ForwardInv, FwOnce, AlbumSent
  <2>2. CASE m \in U /\ grouped # <<>>
    BY <1>1, <1>2, <2>2 DEF AlbumSent
  <2>3. CASE m \in U /\ grouped = <<>>
    <3>1. m = fwElem /\ Fwd!Range(Fwd!AlbumOf(m)) \subseteq split
      BY <1>1, <2>3 DEF ForwardInv, FwAlbum
    <3>2. CASE Fwd!AlbumOf(m) = <<>>
      BY <3>2 DEF AlbumSent, Fwd!Range
    <3>3. CASE Fwd!AlbumOf(m) # <<>>
      BY <3>1, <3>3, AlbumFacts
    <3> QED
      BY <3>2, <3>3
  <2> QED
    BY <1>2, <2>1, <2>2, <2>3
<1>10. FwOnce'
  <2> SUFFICES ASSUME NEW m \in Fwd!Messages
               PROVE  /\ m \notin sent' => copies'[m] = 0
                      /\ copies'[m] <= 1 \/ m \in lost' \cup split
    BY <1>3, <1>4, <1>9 DEF FwOnce, Fwd!Messages
  <2>1. /\ m \notin sent \cup U => copies[m] = 0
        /\ copies[m] <= 1 \/ m \in lost \cup split
        /\ m \in U => copies[m] = 0 \/ m \in lost \cup split
    BY <1>1 DEF ForwardInv, FwOnce
  <2> QED
    BY <1>2, <1>5, <1>8, <2>1
<1>11. FwBound'
  <2> SUFFICES ASSUME NEW m \in Fwd!Messages
               PROVE  copies'[m] <= (IF AlbumSent(m)' THEN 4 ELSE 2)
    BY <1>4 DEF FwBound, Fwd!Messages
  <2>1. CASE m \in U
    <3>1. copies[m] <= (IF m \in sent THEN 2 ELSE 0) + (IF at = "clone" THEN 1 ELSE 0)
      BY <1>1, <2>1 DEF ForwardInv, FwBound
    <3>2. m \in sent => AlbumSent(m)'
      <4>1. fwElem \notin sent
        BY DEF ForwardInv, FwAlbum
      <4> QED
        BY <1>1, <1>2, <2>1, <4>1 DEF AlbumSent
    <3> QED
      BY <1>5, <1>8, <3>1, <3>2
  <2>2. CASE m \notin U
    <3>1. copies[m] <= (IF AlbumSent(m) THEN 4 ELSE 2)
      BY <1>1, <2>2 DEF ForwardInv, FwBound
    <3>2. AlbumSent(m) => AlbumSent(m)'
      BY <1>2 DEF AlbumSent
    <3> QED
      BY <1>5, <1>8, <2>2, <3>1, <3>2
  <2> QED
    BY <2>1, <2>2
<1>12. FwHandled'
  <2> SUFFICES ASSUME NEW m \in sent' PROVE dry \/ copies'[m] > 0 \/ m \in failed' \cup dropped
    BY <1>3 DEF FwHandled
  <2>1. m \in Fwd!Messages /\ (m \in sent \/ m \in U)
    BY <1>1, <1>2 DEF ForwardInv, FwTypes
  <2>2. CASE m \in sent
    BY <1>2, <1>5, <1>8, <2>1, <2>2 DEF ForwardInv, FwHandled
  <2>3. CASE m \in U
    BY <1>2, <2>3 DEF U
  <2> QED
    BY <2>1, <2>2, <2>3
<1>13. FwReached'
  BY <1>1, <1>2, <1>3, <1>4 DEF ForwardInv, FwReached, FwEnd, InFlight
<1>14. FwEnd'
  BY <1>2, <1>3 DEF ForwardInv, FwEnd, InFlight
<1>15. Fwd!DryRunSendsNothing'
  BY <1>3 DEF ForwardInv, Fwd!DryRunSendsNothing, Fwd!Messages
<1> QED
  BY <1>6, <1>7, <1>10, <1>11, <1>12, <1>13, <1>14, <1>15 DEF ForwardInv

\* The context is canceled.
LEMMA CancelInv ==
    ASSUME ForwardInv, Fwd!Cancel
    PROVE  ForwardInv'
<1>1. /\ at \notin {"ended", "crashed"} /\ stopped' = TRUE
      /\ UNCHANGED <<dialogs, mode, single, dry, protected, i, j, iterErr, sent, fwElem, grouped, todo, media,
                     at, copies, lost, split, failed, dropped>>
  BY DEF Fwd!Cancel, Fwd!fwOptions, Fwd!fwIter, Fwd!fwElem, Fwd!fwSeen
<1>2. FwTypes'
  BY <1>1 DEF ForwardInv, FwTypes, InFlight, Fwd!Messages
<1>3. FwAlbum' /\ FwCopy' /\ FwHandled' /\ FwReached' /\ FwEnd' /\ Fwd!DryRunSendsNothing'
  BY <1>1 DEF ForwardInv, FwAlbum, FwCopy, FwHandled, FwReached, FwEnd, InFlight, Fwd!UnderWay, Fwd!DryRunSendsNothing, Fwd!Messages
<1>4. FwOnce' /\ FwBound'
  BY <1>1 DEF ForwardInv, FwOnce, FwBound, InHand, InFlight, AlbumSent, Fwd!UnderWay, Fwd!Messages
<1> QED
  BY <1>2, <1>3, <1>4 DEF ForwardInv

\* The iterator goes on by one message, or the command ends.
LEMMA ForwardNextInv ==
    ASSUME ForwardInv, Fwd!Next
    PROVE  ForwardInv'
<1>1. /\ at = "next" /\ at' \in {"got", "ended", "crashed"}
      /\ UNCHANGED <<dialogs, mode, single, dry, protected, sent, grouped, todo, media, stopped,
                     copies, lost, split, failed, dropped>>
  BY DEF Fwd!Next, Fwd!fwOptions, Fwd!fwSeen
<1>2. /\ Len(dialogs) \in Nat /\ i \in 1..(Len(dialogs) + 1) /\ ~iterErr
      /\ \A k \in 1..Len(dialogs) : dialogs[k] \in Seq(Fwd!Messages) /\ dialogs[k] # <<>>
      /\ \A k \in 1..Len(dialogs) : Len(dialogs[k]) \in Nat /\ Len(dialogs[k]) # 0
  <2>1. /\ dialogs \in Seq(Seq(Fwd!Messages)) /\ \A k \in 1..Len(dialogs) : dialogs[k] # <<>>
        /\ i \in 1..(Len(dialogs) + 1) /\ ~iterErr
    BY <1>1 DEF ForwardInv, FwTypes, FwEnd
  <2>2. \A q \in Seq(Fwd!Messages) : Len(q) \in Nat /\ (Len(q) = 0 => q = <<>>)
    OBVIOUS
  <2> QED
    BY <2>1, <2>2
<1>3. ~InFlight /\ ~InFlight' /\ InHand = {} /\ InHand' = {}
  BY <1>1 DEF InFlight, InHand
<1>4. FwOnce' /\ FwBound' /\ FwHandled' /\ FwAlbum' /\ FwCopy' /\ Fwd!DryRunSendsNothing'
  BY <1>1, <1>3 DEF ForwardInv, FwOnce, FwBound, FwHandled, FwAlbum, FwCopy, AlbumSent, Fwd!DryRunSendsNothing, Fwd!Messages, InFlight
<1>5. CASE stopped \/ i > Len(dialogs)
  <2>1. at' = "ended" /\ iterErr' = (iterErr \/ stopped) /\ UNCHANGED <<i, j, fwElem>>
    BY <1>5 DEF Fwd!Next
  <2>2. iterErr' \in BOOLEAN /\ (~iterErr' => ~stopped) /\ (stopped => iterErr')
    BY <1>2, <2>1 DEF ForwardInv, FwTypes
  <2>3. FwTypes'
    BY <1>1, <1>3, <2>1, <2>2 DEF ForwardInv, FwTypes, Fwd!Messages
  <2>4. FwReached'
    BY <1>1, <1>2, <1>3, <2>1 DEF ForwardInv, FwReached
  <2>5. FwEnd'
    BY <1>1, <1>5, <2>1, <2>2 DEF FwEnd
  <2> QED
    BY <1>4, <2>3, <2>4, <2>5 DEF ForwardInv
<1>6. CASE ~stopped /\ ~(i > Len(dialogs))
  <2>1. /\ Fwd!Advance
        /\ \/ at' = "got" /\ fwElem' = dialogs[i][j] /\ UNCHANGED iterErr
           \/ at' = "ended" /\ iterErr' = TRUE /\ UNCHANGED fwElem
           \/ at' = "crashed" /\ UNCHANGED <<iterErr, fwElem>>
    BY <1>6 DEF Fwd!Next
  <2>2. i \in 1..Len(dialogs) /\ j \in 1..Len(dialogs[i]) /\ dialogs[i][j] \in Fwd!Messages
    <3>1. i \in 1..Len(dialogs) /\ j \in 1..Len(dialogs[i])
      BY <1>2, <1>6 DEF ForwardInv, FwTypes
    <3> QED
      BY <1>2, <3>1
  <2>3. /\ i' \in 1..(Len(dialogs) + 1) /\ (i' <= Len(dialogs) => j' \in 1..Len(dialogs[i']))
        /\ \A k \in 1..Len(dialogs) : \A l \in 1..Len(dialogs[k]) :
              k < i' \/ (k = i' /\ l < j') => k < i \/ (k = i /\ l < j) \/ (k = i /\ l = j)
    <3>1. CASE j < Len(dialogs[i])
      <4>1. j' = j + 1 /\ i' = i
        BY <2>1, <3>1 DEF Fwd!Advance
      <4> QED
        BY <1>2, <2>2, <3>1, <4>1
    <3>2. CASE ~(j < Len(dialogs[i]))
      <4>1. j' = 1 /\ i' = i + 1
        BY <2>1, <3>2 DEF Fwd!Advance
      <4>2. i' \in 1..(Len(dialogs) + 1) /\ (i' <= Len(dialogs) => j' \in 1..Len(dialogs[i']))
        BY <1>2, <2>2, <4>1
      <4>3. ASSUME NEW k \in 1..Len(dialogs), NEW l \in 1..Len(dialogs[k]), k < i' \/ (k = i' /\ l < j')
            PROVE  k < i \/ (k = i /\ l < j) \/ (k = i /\ l = j)
        <5>1. k \in Nat /\ l \in Nat /\ l >= 1 /\ i \in Nat
          BY <1>2
        <5>2. k < i \/ k = i
          BY <4>1, <4>3, <5>1
        <5> QED
          BY <1>2, <2>2, <3>2, <5>1, <5>2
      <4> QED
        BY <4>2, <4>3
    <3> QED
      BY <3>1, <3>2
  <2>4. FwTypes'
    <3>1. iterErr' \in BOOLEAN /\ fwElem' \in Fwd!Messages \cup {None} /\ (at' = "got" => fwElem' \in Fwd!Messages)
      BY <2>1, <2>2 DEF ForwardInv, FwTypes
    <3> QED
      BY <1>1, <1>3, <2>3, <3>1 DEF ForwardInv, FwTypes, Fwd!Messages
  <2>5. FwReached'
    <3>1. CASE at' = "got"
      <4>1. fwElem' = dialogs[i][j] /\ UNCHANGED dialogs /\ iterErr' = iterErr
        BY <1>1, <2>1, <3>1
      <4>2. \A k \in 1..Len(dialogs) : \A l \in 1..Len(dialogs[k]) :
                k < i \/ (k = i /\ l < j) => dialogs[k][l] \in sent
        BY <1>1, <1>2, <1>3 DEF ForwardInv, FwReached
      <4> QED
        BY <1>1, <2>3, <3>1, <4>1, <4>2 DEF FwReached
    <3> QED
      BY <2>1, <3>1 DEF FwReached
  <2>6. FwEnd'
    BY <1>2, <2>1 DEF FwEnd
  <2> QED
    BY <1>4, <2>4, <2>5, <2>6 DEF ForwardInv
<1> QED
  BY <1>5, <1>6

\* A message that was sent is skipped.
LEMMA SkipInv ==
    ASSUME ForwardInv, Fwd!Skip
    PROVE  ForwardInv'
<1>1. /\ at = "got" /\ at' = "next" /\ fwElem \in sent
      /\ UNCHANGED <<dialogs, mode, single, dry, protected, i, j, iterErr, sent, fwElem, grouped, todo, media,
                     stopped, copies, lost, split, failed, dropped>>
  BY DEF Fwd!Skip, Fwd!fwOptions, Fwd!fwIter, Fwd!fwElem, Fwd!fwSeen
<1>2. ~InFlight /\ ~InFlight' /\ InHand = {} /\ InHand' = {}
  BY <1>1 DEF InFlight, InHand
<1>3. FwTypes'
  BY <1>1, <1>2 DEF ForwardInv, FwTypes, Fwd!Messages
<1>4. FwOnce' /\ FwBound' /\ FwHandled' /\ FwAlbum' /\ FwCopy' /\ FwEnd' /\ Fwd!DryRunSendsNothing'
  BY <1>1, <1>2 DEF ForwardInv, FwOnce, FwBound, FwHandled, FwAlbum, FwCopy, FwEnd, AlbumSent,
                    Fwd!DryRunSendsNothing, Fwd!Messages, InFlight
<1>5. FwReached'
  BY <1>1, <1>2 DEF ForwardInv, FwReached
<1> QED
  BY <1>3, <1>4, <1>5 DEF ForwardInv

\* The album of the message is fetched, or is taken for empty.
LEMMA GetGroupedInv ==
    ASSUME ForwardInv, Fwd!GetGrouped
    PROVE  ForwardInv'
<1> DEFINE album == IF single THEN <<>> ELSE Fwd!AlbumOf(fwElem)
<1>1. /\ at = "got" /\ fwElem \notin sent /\ at' = "forward" /\ todo' = <<>> /\ media' = {}
      /\ \/ grouped' = album /\ UNCHANGED split
         \/ album # <<>> /\ grouped' = <<>> /\ split' = split \cup Fwd!Range(album)
      /\ UNCHANGED <<dialogs, mode, single, dry, protected, i, j, iterErr, sent, fwElem, stopped,
                     copies, lost, failed, dropped>>
  BY DEF Fwd!GetGrouped, Fwd!fwOptions, Fwd!fwIter
<1>2. /\ fwElem \in Fwd!Messages /\ album \in Seq(Fwd!Messages) /\ Fwd!Range(album) \subseteq Fwd!Messages
      /\ album # <<>> => ~single /\ album = Fwd!AlbumOf(fwElem) /\ fwElem \in Fwd!Range(album)
                         /\ \A n \in Fwd!Range(album) : Fwd!AlbumOf(n) = album
  <2>1. fwElem \in Fwd!Messages
    BY <1>1 DEF ForwardInv, FwTypes
  <2>2. CASE single
    <3>1. album = <<>> /\ Fwd!Range(<<>>) = {} /\ <<>> \in Seq(Fwd!Messages)
      BY <2>2 DEF Fwd!Range
    <3> QED
      BY <2>1, <3>1
  <2>3. CASE ~single
    BY <2>1, <2>3, AlbumFacts
  <2> QED
    BY <2>2, <2>3
<1>3. /\ Fwd!Range(<<>>) = {} /\ (~single => Fwd!AlbumOf(fwElem) = album)
      /\ Fwd!UnderWay' = {fwElem} \cup Fwd!Range(grouped')
  BY <1>1 DEF Fwd!Range, Fwd!UnderWay
<1> HIDE DEF album
<1>4. ~InFlight /\ InFlight' /\ InHand = {} /\ InHand' = {fwElem} \cup Fwd!Range(grouped')
  BY <1>1, <1>3 DEF InFlight, InHand
<1>5. FwTypes'
  <2>1. grouped' \in Seq(Fwd!Messages) /\ todo' \in Seq(Fwd!Messages) /\ split' \subseteq Fwd!Messages
    <3>1. <<>> \in Seq(Fwd!Messages)
      OBVIOUS
    <3>2. split \subseteq Fwd!Messages
      BY DEF ForwardInv, FwTypes
    <3> QED
      BY <1>1, <1>2, <3>1, <3>2
  <2> QED
    BY <1>1, <1>2, <1>4, <2>1 DEF ForwardInv, FwTypes, Fwd!Messages
<1>6. FwAlbum'
  BY <1>1, <1>2, <1>3 DEF FwAlbum
<1>7. FwCopy' /\ FwHandled' /\ FwEnd' /\ Fwd!DryRunSendsNothing'
  BY <1>1 DEF ForwardInv, FwCopy, FwHandled, FwEnd, Fwd!DryRunSendsNothing, Fwd!Messages
<1>8. FwReached'
  BY <1>1, <1>4 DEF ForwardInv, FwReached
<1>9. ASSUME NEW m \in Fwd!Messages, m \in InHand', m \in sent PROVE ~AlbumSent(m) /\ ~single
  <2>1. grouped' # <<>> /\ grouped' = album /\ album # <<>> /\ m \in Fwd!Range(album)
    BY <1>1, <1>3, <1>4, <1>9
  <2>2. Fwd!AlbumOf(m) = album /\ fwElem \in Fwd!Range(album) /\ ~single
    BY <1>2, <2>1
  <2> QED
    BY <1>1, <2>2 DEF AlbumSent
<1>10. \A m \in Fwd!Messages : AlbumSent(m)' <=> AlbumSent(m)
  BY <1>1 DEF AlbumSent
<1>11. FwOnce'
  <2> SUFFICES ASSUME NEW m \in Fwd!Messages
               PROVE  /\ m \notin sent \cup InHand' => copies[m] = 0
                      /\ copies[m] <= 1 \/ m \in lost \cup split'
                      /\ m \in InHand' => copies[m] = 0 \/ m \in lost \cup split'
                      /\ m \in sent /\ ~single => AlbumSent(m) \/ m \in split'
    BY <1>1, <1>10 DEF FwOnce, Fwd!Messages
  <2>1. split \subseteq split'
    BY <1>1
  <2>2. /\ m \notin sent => copies[m] = 0
        /\ copies[m] <= 1 \/ m \in lost \cup split
        /\ m \in sent /\ ~single => AlbumSent(m) \/ m \in split
    BY <1>4 DEF ForwardInv, FwOnce
  <2> QED
    BY <1>9, <2>1, <2>2
<1>12. FwBound'
  <2> SUFFICES ASSUME NEW m \in Fwd!Messages
               PROVE  IF m \in InHand' THEN copies[m] <= (IF m \in sent THEN 2 ELSE 0) + 0
                      ELSE copies[m] <= (IF AlbumSent(m) THEN 4 ELSE 2)
    BY <1>1, <1>10 DEF FwBound, Fwd!Messages
  <2>1. copies[m] <= (IF AlbumSent(m) THEN 4 ELSE 2) /\ (m \notin sent => copies[m] = 0) /\ copies[m] \in Nat
    <3>1. copies[m] \in Nat
      BY DEF ForwardInv, FwTypes
    <3>2. copies[m] <= (IF AlbumSent(m) THEN 4 ELSE 2)
      BY <1>4 DEF ForwardInv, FwBound
    <3>3. m \notin sent => copies[m] = 0
      BY <1>4 DEF ForwardInv, FwOnce
    <3> QED
      BY <3>1, <3>2, <3>3
  <2> QED
    BY <1>9, <2>1
<1> QED
  BY <1>5, <1>6, <1>7, <1>8, <1>11, <1>12 DEF ForwardInv

\* What is under way stays so when forwardMessage goes on to another request.
LEMMA InFlightInv ==
    ASSUME ForwardInv, InFlight, at' \in {"direct", "clone"}, UNCHANGED <<fwFixed, sent, split, failed>>,
           todo' \in Seq(Fwd!Messages), media' \subseteq Fwd!Messages, dropped' \subseteq Fwd!Messages,
           dropped \subseteq dropped', FwCopy', copies' \in [Fwd!Messages -> Nat],
           lost \subseteq lost', lost' \subseteq Fwd!Messages,
           \A m \in Fwd!Messages :
               \/ copies'[m] = copies[m] /\ (at = "clone" => at' = "clone")
               \/ /\ m \in Fwd!UnderWay \cap lost' /\ ~dry /\ copies'[m] = copies[m] + 1
                  /\ at # "clone" /\ at' = "clone"
    PROVE  ForwardInv'

<1> DEFINE U == Fwd!UnderWay
<1> HIDE DEF U
<1>1. UNCHANGED <<dialogs, mode, single, dry, protected, i, j, iterErr, fwElem, grouped, stopped, sent, split, failed>>
  BY DEF fwFixed
<1>2. InFlight' /\ InHand = U /\ InHand' = U /\ U \subseteq Fwd!Messages
  <2>1. Fwd!UnderWay' = Fwd!UnderWay
    BY <1>1 DEF Fwd!UnderWay, Fwd!Range
  <2> QED
    BY <2>1, UnderWayFacts DEF U, InFlight, InHand
<1>3. \A m \in Fwd!Messages : /\ copies[m] \in Nat /\ copies'[m] \in Nat
                              /\ AlbumSent(m)' <=> AlbumSent(m)
  BY <1>1 DEF ForwardInv, FwTypes, AlbumSent
<1>4. \A m \in Fwd!Messages :
          \/ copies'[m] = copies[m] /\ (at = "clone" => at' = "clone")
          \/ m \in U /\ m \in lost' /\ copies'[m] = copies[m] + 1 /\ at # "clone" /\ at' = "clone"
  BY DEF U
<1>5. FwTypes'
  BY <1>1, <1>2 DEF ForwardInv, FwTypes, Fwd!Messages
<1>6. FwAlbum'
  BY <1>1 DEF ForwardInv, FwAlbum
<1>7. FwOnce'
  <2> SUFFICES ASSUME NEW m \in Fwd!Messages
               PROVE  /\ m \notin sent \cup U => copies'[m] = 0
                      /\ copies'[m] <= 1 \/ m \in lost' \cup split
                      /\ m \in U => copies'[m] = 0 \/ m \in lost' \cup split
                      /\ m \in sent /\ ~single => AlbumSent(m) \/ m \in split
    BY <1>1, <1>2, <1>3 DEF FwOnce, Fwd!Messages
  <2>1. /\ m \notin sent \cup U => copies[m] = 0
        /\ copies[m] <= 1 \/ m \in lost \cup split
        /\ m \in U => copies[m] = 0 \/ m \in lost \cup split
        /\ m \in sent /\ ~single => AlbumSent(m) \/ m \in split
    BY <1>2 DEF ForwardInv, FwOnce
  <2> QED
    BY <1>4, <2>1
<1>8. FwBound'
  <2> SUFFICES ASSUME NEW m \in Fwd!Messages
               PROVE  IF m \in U
                      THEN copies'[m] <= (IF m \in sent THEN 2 ELSE 0) + (IF at' = "clone" THEN 1 ELSE 0)
                      ELSE copies'[m] <= (IF AlbumSent(m) THEN 4 ELSE 2)
    BY <1>1, <1>2, <1>3 DEF FwBound, Fwd!Messages
  <2>1. IF m \in U
        THEN copies[m] <= (IF m \in sent THEN 2 ELSE 0) + (IF at = "clone" THEN 1 ELSE 0)
        ELSE copies[m] <= (IF AlbumSent(m) THEN 4 ELSE 2)
    BY <1>2 DEF ForwardInv, FwBound
  <2> QED
    BY <1>3, <1>4, <2>1
<1>9. FwHandled'
  <2> SUFFICES ASSUME NEW m \in sent PROVE dry \/ copies'[m] > 0 \/ m \in failed \cup dropped'
    BY <1>1 DEF FwHandled
  <2>1. m \in Fwd!Messages /\ (dry \/ copies[m] > 0 \/ m \in failed \cup dropped)
    BY DEF ForwardInv, FwTypes, FwHandled
  <2> QED
    BY <1>3, <1>4, <2>1
<1>10. FwReached'
  BY <1>1, <1>2 DEF ForwardInv, FwReached, FwEnd, InFlight
<1>11. FwEnd'
  BY <1>1 DEF ForwardInv, FwEnd, InFlight
<1>12. Fwd!DryRunSendsNothing'
  BY <1>1 DEF ForwardInv, Fwd!DryRunSendsNothing, Fwd!Messages
<1> QED
  BY <1>5, <1>6, <1>7, <1>8, <1>9, <1>10, <1>11, <1>12 DEF ForwardInv

LEMMA RangeIsSet == \A q : Fwd!Range(q) = ToSet(q)
BY DEF Fwd!Range, ToSet

\* What a request makes arrive.
LEMMA ArriveFacts ==
    ASSUME ForwardInv, NEW msgs, msgs \subseteq Fwd!Messages, Fwd!Arrive(msgs)
    PROVE  /\ copies' \in [Fwd!Messages -> Nat]
           /\ \A m \in Fwd!Messages : copies'[m] = IF m \in msgs /\ ~dry THEN copies[m] + 1 ELSE copies[m]
BY DEF ForwardInv, FwTypes, Fwd!Arrive

LEMMA NotAnsweredFacts ==
    ASSUME ForwardInv, NEW msgs, msgs \subseteq Fwd!Messages, Fwd!NotAnswered(msgs)
    PROVE  /\ copies' \in [Fwd!Messages -> Nat] /\ lost \subseteq lost' /\ lost' \subseteq Fwd!Messages /\ ~dry
           /\ \A m \in Fwd!Messages : \/ copies'[m] = copies[m]
                                      \/ m \in msgs \cap lost' /\ copies'[m] = copies[m] + 1
<1>1. copies \in [Fwd!Messages -> Nat] /\ lost \subseteq Fwd!Messages
  BY DEF ForwardInv, FwTypes
<1>2. CASE UNCHANGED <<copies, lost>>
  BY <1>1, <1>2 DEF Fwd!NotAnswered
<1>3. CASE Fwd!Arrive(msgs) /\ lost' = lost \cup msgs
  BY <1>1, <1>3, ArriveFacts DEF Fwd!NotAnswered
<1> QED
  BY <1>2, <1>3 DEF Fwd!NotAnswered

\* forwardMessage begins with the album, with the message, or not at all.
LEMMA ForwardBeginInv ==
    ASSUME ForwardInv, Fwd!Begin
    PROVE  ForwardInv'
<1>1. /\ at = "forward" /\ InFlight
      /\ UNCHANGED <<fwFixed, media, copies, lost, split, dropped>>
  BY DEF Fwd!Begin, InFlight, fwFixed, Fwd!fwOptions, Fwd!fwIter
<1>2. /\ todo \in Seq(Fwd!Messages) /\ copies \in [Fwd!Messages -> Nat] /\ lost \subseteq Fwd!Messages
      /\ dropped \subseteq Fwd!Messages /\ media = {}
  BY <1>1 DEF ForwardInv, FwTypes, FwCopy
<1>3. CASE Fwd!Done(TRUE) /\ UNCHANGED todo
  BY <1>1, <1>2, <1>3, DoneInv
<1>4. CASE /\ at' \in {"direct", "clone"} /\ todo' = (IF grouped = <<>> THEN <<fwElem>> ELSE grouped)
           /\ UNCHANGED <<sent, failed>>
  <2>1. UNCHANGED <<fwElem, grouped>> /\ Fwd!UnderWay' = Fwd!UnderWay
    BY <1>1 DEF fwFixed, Fwd!UnderWay, Fwd!Range
  <2>2. /\ fwElem \in Fwd!Messages /\ grouped \in Seq(Fwd!Messages) /\ fwElem \in Fwd!UnderWay
        /\ grouped # <<>> => Fwd!UnderWay = Fwd!Range(grouped)
    BY <1>1, UnderWayFacts DEF ForwardInv, FwTypes
  <2>3. todo' \in Seq(Fwd!Messages) /\ Fwd!Range(todo') \subseteq Fwd!UnderWay
        /\ (grouped # <<>> => Fwd!UnderWay = Fwd!Range(todo'))
    <3>1. CASE grouped = <<>>
      <4>1. todo' = <<fwElem>>
        BY <1>4, <3>1
      <4>2. \A T : \A m \in T : <<m>> \in Seq(T) /\ Fwd!Range(<<m>>) = {m}
        BY DEF Fwd!Range
      <4> QED
        BY <2>2, <3>1, <4>1, <4>2
    <3>2. CASE grouped # <<>>
      BY <1>4, <2>2, <3>2
    <3> QED
      BY <3>1, <3>2
  <2>4. FwCopy'
    BY <1>1, <1>2, <1>4, <2>1, <2>3 DEF FwCopy
  <2> QED
    BY <1>1, <1>2, <1>4, <2>3, <2>4, InFlightInv
<1> QED
  BY <1>3, <1>4 DEF Fwd!Begin

\* Telegram forwards what is under way, or a copy will be sent.
LEMMA ForwardDirectInv ==
    ASSUME ForwardInv, Fwd!ForwardDirect
    PROVE  ForwardInv'
<1>1. /\ at = "direct" /\ InFlight
      /\ UNCHANGED <<fwFixed, todo, media, split, dropped>>
  BY DEF Fwd!ForwardDirect, InFlight, fwFixed, Fwd!fwOptions, Fwd!fwIter, Fwd!fwElem
<1>2. todo \in Seq(Fwd!Messages) /\ lost \subseteq Fwd!Messages /\ media \subseteq Fwd!Messages /\ dropped \subseteq Fwd!Messages
  BY DEF ForwardInv, FwTypes
<1>3. Fwd!UnderWay \subseteq Fwd!Messages /\ \A m \in Fwd!Messages : copies[m] \in Nat
  BY <1>1, UnderWayFacts DEF ForwardInv, FwTypes
<1>4. CASE Fwd!Answered(Fwd!UnderWay) /\ Fwd!Done(FALSE)
  <2>1. Fwd!Arrive(Fwd!UnderWay) /\ UNCHANGED lost
    BY <1>4 DEF Fwd!Answered
  <2>2. /\ copies' \in [Fwd!Messages -> Nat]
        /\ \A m \in Fwd!Messages : copies'[m] = IF m \in Fwd!UnderWay /\ ~dry THEN copies[m] + 1 ELSE copies[m]
    BY <1>3, <2>1, ArriveFacts
  <2>3. \A m \in Fwd!UnderWay : dry \/ copies'[m] > 0
    BY <1>3, <2>2
  <2> QED
    BY <1>1, <1>2, <1>4, <2>1, <2>2, <2>3, DoneInv
<1>5. CASE Fwd!NotAnswered(Fwd!UnderWay) /\ at' = "clone" /\ UNCHANGED <<sent, failed>>
  <2>1. /\ copies' \in [Fwd!Messages -> Nat] /\ lost \subseteq lost' /\ lost' \subseteq Fwd!Messages /\ ~dry
        /\ \A m \in Fwd!Messages : \/ copies'[m] = copies[m]
                                   \/ m \in Fwd!UnderWay \cap lost' /\ copies'[m] = copies[m] + 1
    BY <1>3, <1>5, NotAnsweredFacts
  <2>2. FwCopy'
    <3>1. UNCHANGED <<fwElem, grouped>> /\ Fwd!UnderWay' = Fwd!UnderWay
      BY <1>1 DEF fwFixed, Fwd!UnderWay, Fwd!Range
    <3> QED
      BY <1>1, <1>5, <3>1 DEF ForwardInv, FwCopy
  <2> QED
    BY <1>1, <1>2, <1>5, <2>1, <2>2, InFlightInv
<1> QED
  BY <1>4, <1>5 DEF Fwd!ForwardDirect

\* A message is converted, or left out.
LEMMA ConvertInv ==
    ASSUME ForwardInv, Fwd!Convert
    PROVE  ForwardInv'
<1>1. /\ at = "clone" /\ InFlight /\ at' = "clone" /\ todo # <<>> /\ todo' = Tail(todo)
      /\ UNCHANGED <<fwFixed, sent, copies, lost, split, failed>>
  BY DEF Fwd!Convert, InFlight, fwFixed, Fwd!fwOptions, Fwd!fwIter
<1>2. /\ todo \in Seq(Fwd!Messages) /\ lost \subseteq Fwd!Messages /\ media \subseteq Fwd!Messages
      /\ dropped \subseteq Fwd!Messages /\ copies \in [Fwd!Messages -> Nat]
  BY DEF ForwardInv, FwTypes
<1>3. \/ media' = media \cup {Head(todo)} /\ UNCHANGED dropped
      \/ dropped' = (IF grouped = <<>> THEN dropped ELSE dropped \cup {Head(todo)}) /\ UNCHANGED media
  BY DEF Fwd!Convert
<1>4. /\ Head(todo) \in Fwd!Messages /\ Tail(todo) \in Seq(Fwd!Messages)
      /\ Fwd!Range(todo) = {Head(todo)} \cup Fwd!Range(Tail(todo))
  BY <1>1, <1>2, HeadTailSet, RangeIsSet
<1>5. FwCopy'
  <2>1. UNCHANGED <<fwElem, grouped>> /\ Fwd!UnderWay' = Fwd!UnderWay
    BY <1>1 DEF fwFixed, Fwd!UnderWay, Fwd!Range
  <2>2. /\ Fwd!Range(todo) \cup media \subseteq Fwd!UnderWay
        /\ grouped # <<>> => Fwd!UnderWay \subseteq Fwd!Range(todo) \cup media \cup dropped
    BY <1>1 DEF ForwardInv, FwCopy
  <2>3. /\ Fwd!Range(todo') \cup media' \subseteq Fwd!UnderWay
        /\ grouped # <<>> => Fwd!UnderWay \subseteq Fwd!Range(todo') \cup media' \cup dropped'
    BY <1>1, <1>3, <1>4, <2>2
  <2> QED
    BY <1>1, <2>1, <2>3 DEF FwCopy
<1>6. media' \subseteq Fwd!Messages /\ dropped' \subseteq Fwd!Messages /\ dropped \subseteq dropped'
  BY <1>2, <1>3, <1>4
<1> QED
  BY <1>1, <1>2, <1>4, <1>5, <1>6, InFlightInv

\* The copy is sent, or fails.
LEMMA SendCopyInv ==
    ASSUME ForwardInv, Fwd!SendCopy
    PROVE  ForwardInv'
<1> DEFINE msgs == IF media = {} THEN {fwElem} ELSE media
<1>1. /\ at = "clone" /\ InFlight /\ todo = <<>> /\ UNCHANGED <<fwFixed, todo, media, split, dropped>>
      /\ \/ Fwd!Answered(msgs) /\ Fwd!Done(FALSE)
         \/ Fwd!NotAnswered(msgs) /\ Fwd!Done(TRUE)
         \/ Fwd!Done(TRUE) /\ UNCHANGED <<copies, lost>>
  BY DEF Fwd!SendCopy, InFlight, fwFixed, Fwd!fwOptions, Fwd!fwIter, Fwd!fwElem
<1>2. /\ todo \in Seq(Fwd!Messages) /\ lost \subseteq Fwd!Messages /\ copies \in [Fwd!Messages -> Nat]
  BY DEF ForwardInv, FwTypes
<1>3. /\ Fwd!UnderWay \subseteq Fwd!Messages /\ fwElem \in Fwd!UnderWay
      /\ grouped = <<>> => Fwd!UnderWay = {fwElem}
  BY <1>1, UnderWayFacts
<1>4. /\ msgs \subseteq Fwd!UnderWay /\ msgs \subseteq Fwd!Messages
      /\ \A m \in Fwd!UnderWay : m \in msgs \/ m \in dropped
  <2>1. Fwd!Range(todo) = {}
    BY <1>1 DEF Fwd!Range
  <2>2. /\ media \subseteq Fwd!UnderWay
        /\ grouped # <<>> => Fwd!UnderWay \subseteq media \cup dropped
    BY <1>1, <2>1 DEF ForwardInv, FwCopy
  <2> QED
    BY <1>3, <2>2
<1> HIDE DEF msgs
<1>5. CASE Fwd!Answered(msgs) /\ Fwd!Done(FALSE)
  <2>1. Fwd!Arrive(msgs) /\ UNCHANGED lost
    BY <1>5 DEF Fwd!Answered
  <2>2. /\ copies' \in [Fwd!Messages -> Nat]
        /\ \A m \in Fwd!Messages : copies'[m] = IF m \in msgs /\ ~dry THEN copies[m] + 1 ELSE copies[m]
    BY <1>4, <2>1, ArriveFacts
  <2>3. \A m \in Fwd!UnderWay : dry \/ copies'[m] > 0 \/ m \in dropped
    <3>1. \A m \in Fwd!Messages : copies[m] \in Nat
      BY <1>2
    <3> QED
      BY <1>3, <1>4, <2>2, <3>1
  <2>4. \A m \in Fwd!Messages : \/ copies'[m] = copies[m]
                                \/ m \in Fwd!UnderWay /\ ~dry /\ copies'[m] = copies[m] + 1
    BY <1>4, <2>2
  <2> QED
    BY <1>1, <1>2, <1>5, <2>1, <2>2, <2>3, <2>4, DoneInv
<1>6. CASE Fwd!NotAnswered(msgs) /\ Fwd!Done(TRUE)
  <2>1. /\ copies' \in [Fwd!Messages -> Nat] /\ lost \subseteq lost' /\ lost' \subseteq Fwd!Messages /\ ~dry
        /\ \A m \in Fwd!Messages : \/ copies'[m] = copies[m]
                                   \/ m \in msgs \cap lost' /\ copies'[m] = copies[m] + 1
    BY <1>4, <1>6, NotAnsweredFacts
  <2>2. \A m \in Fwd!Messages : \/ copies'[m] = copies[m]
                                \/ m \in Fwd!UnderWay /\ ~dry /\ copies'[m] = copies[m] + 1
    BY <1>4, <2>1
  <2> QED
    BY <1>1, <1>2, <1>6, <2>1, <2>2, DoneInv
<1>7. CASE Fwd!Done(TRUE) /\ UNCHANGED <<copies, lost>>
  BY <1>1, <1>2, <1>7, DoneInv
<1> QED
  BY <1>1, <1>5, <1>6, <1>7

LEMMA ForwardStutterInv ==
    ASSUME ForwardInv, UNCHANGED forwardAll
    PROVE  ForwardInv'
<1>1. UNCHANGED <<dialogs, mode, single, dry, protected, i, j, iterErr, sent, fwElem, grouped, todo, media,
                  at, stopped, copies, lost, split, failed, dropped>>
  BY DEF forwardAll
<1>2. FwTypes'
  BY <1>1 DEF ForwardInv, FwTypes, InFlight, Fwd!Messages
<1>3. FwAlbum' /\ FwCopy' /\ FwHandled' /\ FwReached' /\ FwEnd' /\ Fwd!DryRunSendsNothing'
  BY <1>1 DEF ForwardInv, FwAlbum, FwCopy, FwHandled, FwReached, FwEnd, InFlight, Fwd!UnderWay, Fwd!DryRunSendsNothing, Fwd!Messages
<1>4. FwOnce' /\ FwBound'
  BY <1>1 DEF ForwardInv, FwOnce, FwBound, InHand, InFlight, AlbumSent, Fwd!UnderWay, Fwd!Messages
<1> QED
  BY <1>2, <1>3, <1>4 DEF ForwardInv

LEMMA ForwardStepInv == ForwardInv /\ [CommandsNext]_commandsVars => ForwardInv'
<1> SUFFICES ASSUME ForwardInv, [CommandsNext]_commandsVars PROVE ForwardInv'
  OBVIOUS
<1>1. Fwd!ForwardNext \/ UNCHANGED forwardAll
  BY DEF CommandsNext, Stopped, commandsVars
<1>2. CASE Fwd!ForwardNext
  BY <1>2, CancelInv, ForwardNextInv, SkipInv, GetGroupedInv, ForwardBeginInv, ForwardDirectInv, ConvertInv,
     SendCopyInv DEF Fwd!ForwardNext
<1> QED
  BY <1>1, <1>2, ForwardStutterInv

LEMMA ForwardRight == ForwardInv => ForwardIsRight /\ Fwd!TypeOK
<1> SUFFICES ASSUME ForwardInv
             PROVE  Fwd!ForwardedOnce /\ Fwd!AllHandled /\ Fwd!DryRunSendsNothing /\ Fwd!TypeOK
  BY DEF ForwardIsRight
<1>1. Fwd!ForwardedOnce
  BY DEF ForwardInv, FwOnce, Fwd!ForwardedOnce
<1>2. Fwd!AllHandled
  <2> SUFFICES ASSUME at = "ended", ~iterErr, ~stopped, NEW k \in DOMAIN dialogs, NEW m \in Fwd!Range(dialogs[k])
               PROVE  m \in sent /\ (dry \/ copies[m] > 0 \/ m \in failed \cup dropped)
    BY DEF Fwd!AllHandled
  <2>1. k \in 1..Len(dialogs) /\ Len(dialogs) \in Nat /\ i \in Nat /\ i > Len(dialogs)
    BY DEF ForwardInv, FwTypes, FwEnd
  <2>2. PICK l \in DOMAIN dialogs[k] : m = dialogs[k][l]
    BY DEF Fwd!Range
  <2>3. dialogs[k] \in Seq(Fwd!Messages) /\ l \in 1..Len(dialogs[k]) /\ k < i
    BY <2>1, <2>2 DEF ForwardInv, FwTypes
  <2>4. m \in sent
    BY <2>1, <2>2, <2>3 DEF ForwardInv, FwReached, InFlight
  <2> QED
    BY <2>4 DEF ForwardInv, FwHandled
<1>3. Fwd!TypeOK
  <2>1. \A m \in Fwd!Messages : copies[m] \in 0..4
    <3> SUFFICES ASSUME NEW m \in Fwd!Messages PROVE copies[m] \in 0..4
      OBVIOUS
    <3>1. copies[m] \in Nat
      BY DEF ForwardInv, FwTypes
    <3>2. copies[m] <= 4
      BY <3>1 DEF ForwardInv, FwBound
    <3> QED
      BY <3>1, <3>2
  <2>2. copies \in [Fwd!Messages -> 0..4]
    BY <2>1 DEF ForwardInv, FwTypes
  <2> QED
    BY <2>2 DEF ForwardInv, FwTypes, Fwd!TypeOK
<1> QED
  BY <1>1, <1>2, <1>3 DEF ForwardInv

\* However a message is listed, alone or by its album, it is forwarded once, unless
\* an answer was lost or its album could not be read; a command that ends by itself
\* has come to every listed message; --dry-run sends nothing (core/forwarder,
\* app/forward).
THEOREM ForwardsAreRight == CommandsSpec => []ForwardIsRight
<1>1. CommandsSpec => []ForwardInv
  BY ForwardInitInv, ForwardStepInv, PTL DEF CommandsSpec
<1>2. ForwardInv => ForwardIsRight
  BY ForwardRight
<1> QED
  BY <1>1, <1>2, PTL

-----------------------------------------------------------------------------
(* The key-value storage: what KeyValuesKept rests on. *)

Pairs == [Names -> Values \cup {None}]
Metas == [Namespaces -> {None} \cup Pairs]

KvTypes ==
    /\ db \in [Kv!Storages -> Metas] /\ torn \in BOOLEAN /\ dirMade \in BOOLEAN
    /\ backup \in [whole : BOOLEAN, copy : Metas]
    /\ proc \in [at : {"off", "auto", "use", "backup", "copy", "copied"}, storage : Kv!Storages,
                 ns : Namespaces \cup {None}, copy : Metas, left : SUBSET Namespaces, to : Kv!Storages]
    /\ client \in [KvClients -> [at : {"idle", "write"}, meta : Metas, name : Names \cup {None},
                                 value : Values \cup {None}]]
    /\ promised \in [Kv!Storages -> [Namespaces -> Pairs]]
    /\ unsure \subseteq Kv!Storages

\* What a storage is used for, it was made for: its directory, its namespace.
KvOpened ==
    /\ proc.at # "off" /\ proc.storage = "bolt" => dirMade
    /\ Kv!Copying /\ proc.to = "bolt" => dirMade
    /\ proc.at = "use" /\ proc.ns # None => db[proc.storage][proc.ns] # None
    /\ \A c \in KvClients : client[c] # Kv!Idle =>
          /\ proc.at = "use" /\ proc.ns # None /\ proc.storage = "file" /\ ~torn
          /\ client[c].at = "write" /\ client[c].meta[proc.ns] # None /\ client[c].name \in Names

\* Nothing was put into bolt before its directory was made, nor in the migration
\* that makes it.
KvFresh ==
    ~dirMade \/ proc.at = "auto" =>
        \A s \in Namespaces, n \in Names : promised["bolt"][s][n] = None

\* The goroutine that writes the file has read what is there.
KvWriters ==
    \/ "file" \in unsure
    \/ \A c, e \in KvClients : client[c] # Kv!Idle =>
          client[c].meta = db["file"] /\ (client[e] # Kv!Idle => c = e)

\* How far a copy has come.
Landed(s) == s \notin proc.left /\ (proc.to = "bolt" \/ proc.at = "copied")
KvCopy ==
    /\ proc.at = "auto" => proc.to = "bolt"
    /\ proc.at = "copied" => proc.to # "bolt" /\ proc.left = {}
    /\ Kv!Copying => proc.left \subseteq Kv!Present(proc.copy)
    /\ Kv!Copying /\ proc.to \notin unsure =>
          \A s \in Namespaces, n \in Names :
              IF proc.to = "file"
              THEN proc.at = "copied" => Kv!Get(db["file"], s, n) = Kv!Get(proc.copy, s, n)
              ELSE Kv!Get(db[proc.to], s, n) =
                       IF Landed(s) /\ Kv!Get(proc.copy, s, n) # None THEN Kv!Get(proc.copy, s, n)
                       ELSE promised[proc.to][s][n]

KeyValueInv == KvTypes /\ KvOpened /\ KvFresh /\ KvWriters /\ KvCopy /\ Kv!KeyValuesKept

LEMMA NoneApart == None \notin Namespaces /\ None \notin Values /\ None \notin Pairs
BY KeyValueAssumption DEF Pairs

LEMMA GetFacts ==
    ASSUME NEW meta \in Metas, NEW s \in Namespaces
    PROVE  /\ meta[s] # None => meta[s] \in Pairs
           /\ \A n \in Names : Kv!Get(meta, s, n) \in Values \cup {None}
BY DEF Metas, Pairs, Kv!Get

\* Put adds its pairs to one namespace, and makes it.
LEMMA PutFacts ==
    ASSUME NEW meta \in Metas, NEW s \in Namespaces, NEW pairs \in Pairs
    PROVE  /\ Kv!Put(meta, s, pairs) \in Metas /\ Kv!Put(meta, s, pairs)[s] # None
           /\ \A t \in Namespaces : t # s => Kv!Put(meta, s, pairs)[t] = meta[t]
           /\ \A t \in Namespaces, n \in Names :
                 Kv!Get(Kv!Put(meta, s, pairs), t, n) =
                     IF t = s /\ pairs[n] # None THEN pairs[n] ELSE Kv!Get(meta, t, n)
<1> DEFINE new == [n \in Names |-> IF pairs[n] # None THEN pairs[n] ELSE Kv!Get(meta, s, n)]
<1>1. new \in Pairs /\ new # None /\ \A n \in Names : new[n] = IF pairs[n] # None THEN pairs[n] ELSE Kv!Get(meta, s, n)
  <2>1. \A n \in Names : pairs[n] \in Values \cup {None} /\ Kv!Get(meta, s, n) \in Values \cup {None}
    BY GetFacts DEF Pairs
  <2>2. new \in Pairs
    BY <2>1 DEF Pairs
  <2> QED
    BY <2>2, NoneApart
<1>2. Kv!Put(meta, s, pairs) = [meta EXCEPT ![s] = new]
  BY DEF Kv!Put
<1> HIDE DEF new
<1>3. /\ Kv!Put(meta, s, pairs) \in Metas /\ Kv!Put(meta, s, pairs)[s] = new
      /\ \A t \in Namespaces : t # s => Kv!Put(meta, s, pairs)[t] = meta[t]
  BY <1>1, <1>2 DEF Metas
<1> QED
  BY <1>1, <1>3 DEF Kv!Get

LEMMA PutAllFacts ==
    ASSUME NEW meta \in Metas, NEW copy \in Metas
    PROVE  /\ Kv!PutAll(meta, copy) \in Metas
           /\ \A s \in Namespaces, n \in Names :
                 Kv!Get(Kv!PutAll(meta, copy), s, n) =
                     IF Kv!Get(copy, s, n) # None THEN Kv!Get(copy, s, n) ELSE Kv!Get(meta, s, n)
<1> DEFINE all == Kv!PutAll(meta, copy)
<1>1. \A s \in Namespaces : all[s] = IF copy[s] = None THEN meta[s] ELSE Kv!Put(meta, s, copy[s])[s]
  BY DEF Kv!PutAll
<1>2. DOMAIN all = Namespaces /\ all = [s \in Namespaces |-> all[s]]
  BY DEF Kv!PutAll
<1> HIDE DEF all
<1>3. ASSUME NEW s \in Namespaces
      PROVE  /\ all[s] \in {None} \cup Pairs
             /\ \A n \in Names : Kv!Get(all, s, n) =
                    IF Kv!Get(copy, s, n) # None THEN Kv!Get(copy, s, n) ELSE Kv!Get(meta, s, n)
  <2>1. CASE copy[s] = None
    BY <1>1, <2>1 DEF Kv!Get, Metas
  <2>2. CASE copy[s] # None
    <3>1. copy[s] \in Pairs
      BY <2>2, GetFacts
    <3>2. /\ Kv!Put(meta, s, copy[s])[s] \in {None} \cup Pairs
          /\ \A n \in Names : Kv!Get(Kv!Put(meta, s, copy[s]), s, n) =
                 IF copy[s][n] # None THEN copy[s][n] ELSE Kv!Get(meta, s, n)
      BY <3>1, PutFacts DEF Metas
    <3>3. all[s] = Kv!Put(meta, s, copy[s])[s]
      BY <1>1, <2>2
    <3>4. \A n \in Names : Kv!Get(all, s, n) = Kv!Get(Kv!Put(meta, s, copy[s]), s, n)
      BY <3>3 DEF Kv!Get
    <3>5. \A n \in Names : Kv!Get(copy, s, n) = copy[s][n]
      BY <2>2 DEF Kv!Get
    <3> QED
      BY <3>2, <3>3, <3>4, <3>5
  <2> QED
    BY <2>1, <2>2
<1>4. all \in Metas
  BY <1>2, <1>3 DEF Metas
<1> QED
  BY <1>3, <1>4 DEF all

\* Set and Delete change one pair of a namespace that is there.
LEMMA ChangedFacts ==
    ASSUME NEW meta \in Metas, NEW s \in Namespaces, meta[s] # None, NEW n \in Names, NEW v \in Values \cup {None}
    PROVE  /\ Kv!Changed(meta, s, n, v) \in Metas
           /\ \A t \in Namespaces : meta[t] # None => Kv!Changed(meta, s, n, v)[t] # None
           /\ \A t \in Namespaces, x \in Names :
                 Kv!Get(Kv!Changed(meta, s, n, v), t, x) = IF t = s /\ x = n THEN v ELSE Kv!Get(meta, t, x)
<1> DEFINE new == [meta[s] EXCEPT ![n] = v]
<1>1. meta[s] \in Pairs
  BY GetFacts
<1>2. new \in Pairs /\ \A x \in Names : new[x] = IF x = n THEN v ELSE meta[s][x]
  BY <1>1 DEF Pairs
<1>3. Kv!Changed(meta, s, n, v) = [meta EXCEPT ![s] = new]
  BY DEF Kv!Changed
<1> HIDE DEF new
<1>4. /\ Kv!Changed(meta, s, n, v) \in Metas /\ Kv!Changed(meta, s, n, v)[s] = new
      /\ \A t \in Namespaces : t # s => Kv!Changed(meta, s, n, v)[t] = meta[t]
  BY <1>2, <1>3 DEF Metas
<1>5. new # None
  BY <1>2, NoneApart
<1> QED
  BY <1>2, <1>4, <1>5 DEF Kv!Get

\* What the invariant says of a storage.
Kept(d) == \A s \in Namespaces, n \in Names : Kv!Get(db[d], s, n) = promised[d][s][n]
Excused(d) == d \in unsure \/ (d = "file" /\ torn) \/ (Kv!Copying /\ proc.to = d)

LEMMA KeptFacts ==
    /\ Kv!KeyValuesKept <=> \A d \in Kv!Storages : Excused(d) \/ Kept(d)
    /\ Kv!KeyValuesKept' <=> \A d \in Kv!Storages : Excused(d)' \/ Kept(d)'
BY DEF Kv!KeyValuesKept, Kept, Excused

LEMMA EmptyFacts ==
    /\ Kv!Empty \in Metas /\ Kv!Off.at = "off" /\ Kv!Off.storage = "bolt" /\ Kv!Off.ns = None /\ Kv!Off.left = {}
    /\ Kv!Off.to = "bolt" /\ Kv!Off.copy = Kv!Empty
    /\ Kv!Off \in [at : {"off", "auto", "use", "backup", "copy", "copied"}, storage : Kv!Storages,
                   ns : Namespaces \cup {None}, copy : Metas, left : SUBSET Namespaces, to : Kv!Storages]
    /\ Kv!Idle \in [at : {"idle", "write"}, meta : Metas, name : Names \cup {None}, value : Values \cup {None}]
    /\ \A s \in Namespaces, n \in Names : Kv!Get(Kv!Empty, s, n) = None
<1>1. Kv!Empty \in Metas /\ \A s \in Namespaces, n \in Names : Kv!Get(Kv!Empty, s, n) = None
  BY DEF Kv!Empty, Metas, Kv!Get
<1> QED
  BY <1>1 DEF Kv!Off, Kv!Idle, Kv!Storages

LEMMA KeyValueInitInv == CommandsInit => KeyValueInv
<1> SUFFICES ASSUME Kv!KeyValueInit PROVE KeyValueInv
  BY DEF CommandsInit
<1>1. PICK old \in Values \cup {None}, s \in Namespaces :
         db = [d \in Kv!Storages |->
                 IF d = "legacy" /\ old # None THEN [Kv!Empty EXCEPT ![s] = [n \in Names |-> old]] ELSE Kv!Empty]
  BY DEF Kv!KeyValueInit
<1>2. db \in [Kv!Storages -> Metas] /\ db["bolt"] = Kv!Empty
  <2>1. [n \in Names |-> old] \in Pairs
    BY DEF Pairs
  <2>2. [Kv!Empty EXCEPT ![s] = [n \in Names |-> old]] \in Metas
    BY <2>1 DEF Metas, Kv!Empty
  <2> QED
    BY <1>1, <2>2, EmptyFacts DEF Kv!Storages
<1>3. promised = [d \in Kv!Storages |-> [t \in Namespaces |-> [n \in Names |-> Kv!Get(db[d], t, n)]]]
  BY DEF Kv!KeyValueInit
<1>4. promised \in [Kv!Storages -> [Namespaces -> Pairs]]
  <2>1. \A d \in Kv!Storages : \A t \in Namespaces : \A n \in Names : Kv!Get(db[d], t, n) \in Values \cup {None}
    BY <1>2, GetFacts
  <2> QED
    BY <1>3, <2>1 DEF Pairs
<1>5. \A d \in Kv!Storages : Kept(d)
  BY <1>3 DEF Kept
<1>6. KvTypes
  BY <1>2, <1>4, EmptyFacts DEF Kv!KeyValueInit, KvTypes
<1>7. KvOpened /\ KvWriters /\ KvCopy
  BY EmptyFacts DEF Kv!KeyValueInit, KvOpened, KvWriters, KvCopy, Kv!Copying
<1>8. KvFresh
  <2>1. \A t \in Namespaces, n \in Names : promised["bolt"][t][n] = Kv!Get(Kv!Empty, t, n)
    BY <1>2, <1>3 DEF Kv!Storages
  <2> QED
    BY <2>1, EmptyFacts DEF KvFresh
<1> QED
  BY <1>5, <1>6, <1>7, <1>8, KeptFacts DEF KeyValueInv

-----------------------------------------------------------------------------
(* Steps of the storage. *)

\* A step that changes neither what is stored nor what is promised keeps both.
LEMMA KeptStays ==
    ASSUME KeyValueInv, UNCHANGED <<db, promised>>,
           \A d \in Kv!Storages : Excused(d) => Excused(d)'
    PROVE  Kv!KeyValuesKept'
<1>1. \A d \in Kv!Storages : Kept(d) => Kept(d)'
  BY DEF Kept
<1> QED
  BY <1>1, KeptFacts DEF KeyValueInv

\* Outside of a command's work no goroutine uses the storage.
LEMMA KvIdle ==
    ASSUME KeyValueInv, proc.at # "use" \/ proc.ns = None \/ proc.storage # "file"
    PROVE  \A c \in KvClients : client[c] = Kv!Idle
BY DEF KeyValueInv, KvOpened

LEMMA KvQuiet ==
    (\A c \in KvClients : client[c] = Kv!Idle)' => KvWriters'
BY DEF KvWriters

LEMMA KvNoCopy == proc.at \in {"off", "use", "backup"} => KvCopy /\ ~Kv!Copying
BY DEF KvCopy, Kv!Copying

\* A copy begins: nothing of it is there, and its namespaces are left.
LEMMA KvCopyBegins ==
    ASSUME KeyValueInv, ~Kv!Copying, proc.to' \in Kv!Storages, proc.copy' \in Metas,
           proc.at' \in {"auto", "copy"}, proc.at' = "auto" => proc.to' = "bolt",
           proc.left' = Kv!Present(proc.copy'),
           UNCHANGED <<db, torn, promised, unsure>>
    PROVE  KvCopy' /\ Kv!KeyValuesKept'
<1>1. Kv!KeyValuesKept'
  <2>1. \A d \in Kv!Storages : Excused(d) => Excused(d)'
    BY DEF Excused
  <2> QED
    BY <2>1, KeptStays
<1>2. ASSUME proc.to' \notin unsure, proc.to' # "file", NEW s \in Namespaces, NEW n \in Names
      PROVE  Kv!Get(db[proc.to'], s, n) = promised[proc.to'][s][n]
  <2>1. Kept(proc.to')
    BY <1>2, KeptFacts DEF KeyValueInv, Excused
  <2> QED
    BY <2>1 DEF Kept
<1>3. ASSUME NEW s \in Namespaces, NEW n \in Names, s \notin proc.left'
      PROVE  Kv!Get(proc.copy', s, n) = None
  BY <1>3 DEF Kv!Present, Kv!Get
<1>4. Kv!Copying' /\ proc.to' \notin unsure' =>
          \A s \in Namespaces, n \in Names :
              IF proc.to' = "file"
              THEN proc.at' = "copied" => Kv!Get(db'["file"], s, n) = Kv!Get(proc.copy', s, n)
              ELSE Kv!Get(db'[proc.to'], s, n) =
                       IF Landed(s)' /\ Kv!Get(proc.copy', s, n) # None THEN Kv!Get(proc.copy', s, n)
                       ELSE promised'[proc.to'][s][n]
  BY <1>2, <1>3 DEF Landed
<1>5. KvCopy'
  BY <1>4 DEF KvCopy, Kv!Get
<1> QED
  BY <1>1, <1>5

LEMMA StartDefaultInv == KeyValueInv /\ Kv!StartDefault => KeyValueInv'
<1> SUFFICES ASSUME KeyValueInv, Kv!StartDefault PROVE KeyValueInv'
  OBVIOUS
<1>1. /\ proc.at = "off" /\ \A c \in KvClients : client[c] = Kv!Idle
      /\ UNCHANGED <<db, torn, backup, client, promised, unsure>>
  BY KvIdle DEF Kv!StartDefault, Kv!Counted
<1>2. ~Kv!Copying
  BY <1>1, KvNoCopy
<1>3. CASE dirMade
  <2>1. dirMade' = dirMade /\ proc' = [Kv!Off EXCEPT !.at = "use"]
    BY <1>3 DEF Kv!StartDefault, Kv!MustMigrate
  <2>2. proc'.at = "use" /\ proc'.ns = None
    BY <2>1, EmptyFacts
  <2>3. KvTypes'
    BY <1>1, <2>1, EmptyFacts DEF KeyValueInv, KvTypes
  <2>4. KvOpened' /\ KvFresh' /\ KvWriters' /\ KvCopy'
    BY <1>1, <1>3, <2>1, <2>2, KvQuiet DEF KvOpened, KvFresh, KvCopy, Kv!Copying
  <2>5. Kv!KeyValuesKept'
    <3>1. \A d \in Kv!Storages : Excused(d) => Excused(d)'
      BY <1>1, <1>2 DEF Excused
    <3> QED
      BY <1>1, <3>1, KeptStays
  <2> QED
    BY <2>3, <2>4, <2>5 DEF KeyValueInv
<1>4. CASE ~dirMade
  <2> DEFINE old == db["legacy"]
  <2>1. /\ dirMade' = TRUE
        /\ proc' = [Kv!Off EXCEPT !.at = "auto", !.copy = old, !.left = Kv!Present(old)]
    BY <1>4 DEF Kv!StartDefault, Kv!MustMigrate
  <2>2. old \in Metas /\ Kv!Present(old) \subseteq Namespaces
    BY DEF KeyValueInv, KvTypes, Kv!Storages, Kv!Present
  <2> HIDE DEF old
  <2>3. /\ proc'.at = "auto" /\ proc'.copy = old /\ proc'.left = Kv!Present(old) /\ proc'.to = "bolt"
        /\ proc'.storage = "bolt" /\ proc'.ns = None
    BY <2>1, EmptyFacts
  <2>4. KvTypes'
    BY <1>1, <2>1, <2>2, EmptyFacts DEF KeyValueInv, KvTypes
  <2>5. KvOpened' /\ KvFresh' /\ KvWriters'
    BY <1>1, <1>4, <2>1, <2>3, KvQuiet DEF KeyValueInv, KvOpened, KvFresh
  <2>6. KvCopy' /\ Kv!KeyValuesKept'
    BY <1>1, <1>2, <2>2, <2>3, KvCopyBegins DEF Kv!Storages
  <2> QED
    BY <2>4, <2>5, <2>6 DEF KeyValueInv
<1> QED
  BY <1>3, <1>4

LEMMA StartWithInv ==
    ASSUME KeyValueInv, NEW d \in Kv!Storages, Kv!StartWith(d)
    PROVE  KeyValueInv'
<1>1. /\ proc.at = "off" /\ \A c \in KvClients : client[c] = Kv!Idle
      /\ proc' = [Kv!Off EXCEPT !.at = "use", !.storage = d] /\ dirMade' = (dirMade \/ d = "bolt")
      /\ UNCHANGED <<db, torn, backup, client, promised, unsure>>
  BY KvIdle DEF Kv!StartWith, Kv!Counted
<1>2. proc'.at = "use" /\ proc'.ns = None /\ proc'.storage = d
  BY <1>1, EmptyFacts
<1>3. KvTypes'
  BY <1>1, EmptyFacts DEF KeyValueInv, KvTypes
<1>4. KvOpened' /\ KvFresh' /\ KvWriters' /\ KvCopy'
  BY <1>1, <1>2, KvQuiet DEF KeyValueInv, KvOpened, KvFresh, KvCopy, Kv!Copying
<1>5. Kv!KeyValuesKept'
  <2>1. \A e \in Kv!Storages : Excused(e) => Excused(e)'
    BY <1>1, KvNoCopy DEF Excused
  <2> QED
    BY <1>1, <2>1, KeptStays
<1> QED
  BY <1>3, <1>4, <1>5 DEF KeyValueInv

LEMMA MigrateInv ==
    ASSUME KeyValueInv, NEW d \in Kv!Storages, Kv!Migrate(d)
    PROVE  KeyValueInv'
<1> DEFINE from == db[proc.storage]
<1>1. /\ proc.at = "use" /\ proc.ns = None /\ \A c \in KvClients : client[c] = Kv!Idle
      /\ proc' = [proc EXCEPT !.at = "copy", !.copy = from, !.left = Kv!Present(from), !.to = d]
      /\ dirMade' = (dirMade \/ d = "bolt")
      /\ UNCHANGED <<db, torn, backup, client, promised, unsure>>
  BY KvIdle DEF Kv!Migrate, Kv!Fresh
<1>2. from \in Metas /\ Kv!Present(from) \subseteq Namespaces
  BY DEF KeyValueInv, KvTypes, Kv!Present
<1> HIDE DEF from
<1>3. /\ proc'.at = "copy" /\ proc'.copy = from /\ proc'.left = Kv!Present(from) /\ proc'.to = d
      /\ proc'.storage = proc.storage
  BY <1>1 DEF KeyValueInv, KvTypes
<1>4. KvTypes'
  BY <1>1, <1>2 DEF KeyValueInv, KvTypes
<1>5. KvOpened' /\ KvFresh' /\ KvWriters'
  BY <1>1, <1>3, KvQuiet DEF KeyValueInv, KvOpened, KvFresh
<1>6. KvCopy' /\ Kv!KeyValuesKept'
  BY <1>1, <1>2, <1>3, KvNoCopy, KvCopyBegins
<1> QED
  BY <1>4, <1>5, <1>6 DEF KeyValueInv

LEMMA RecoverInv ==
    ASSUME KeyValueInv, Kv!Recover
    PROVE  KeyValueInv'
<1> DEFINE whole == backup.copy
<1>1. /\ proc.at = "use" /\ proc.ns = None /\ \A c \in KvClients : client[c] = Kv!Idle
      /\ proc' = [proc EXCEPT !.at = "copy", !.copy = whole, !.left = Kv!Present(whole), !.to = proc.storage]
      /\ UNCHANGED <<db, torn, dirMade, backup, client, promised, unsure>>
  BY KvIdle DEF Kv!Recover, Kv!Fresh
<1>2. whole \in Metas /\ Kv!Present(whole) \subseteq Namespaces /\ proc.storage \in Kv!Storages
  BY DEF KeyValueInv, KvTypes, Kv!Present
<1> HIDE DEF whole
<1>3. /\ proc'.at = "copy" /\ proc'.copy = whole /\ proc'.left = Kv!Present(whole)
      /\ proc'.to = proc.storage /\ proc'.storage = proc.storage
  BY <1>1 DEF KeyValueInv, KvTypes
<1>4. KvTypes'
  BY <1>1, <1>2 DEF KeyValueInv, KvTypes
<1>5. KvOpened' /\ KvFresh' /\ KvWriters'
  BY <1>1, <1>3, KvQuiet DEF KeyValueInv, KvOpened, KvFresh
<1>6. KvCopy' /\ Kv!KeyValuesKept'
  BY <1>1, <1>2, <1>3, KvNoCopy, KvCopyBegins
<1> QED
  BY <1>4, <1>5, <1>6 DEF KeyValueInv

\* `tdl backup` reads the storage, and writes its file.
LEMMA BackupInv == KeyValueInv /\ (Kv!Backup \/ Kv!BackupWritten) => KeyValueInv'
<1> SUFFICES ASSUME KeyValueInv, Kv!Backup \/ Kv!BackupWritten PROVE KeyValueInv'
  OBVIOUS
<1>1. /\ proc.at \in {"use", "backup"} /\ proc'.at \in {"backup", "off"}
      /\ proc'.storage \in {proc.storage, "bolt"} /\ proc'.at # "off" => proc'.storage = proc.storage
      /\ \A c \in KvClients : client[c] = Kv!Idle
      /\ UNCHANGED <<db, torn, dirMade, client, promised, unsure>>
  BY KvIdle, EmptyFacts DEF Kv!Backup, Kv!BackupWritten, Kv!Fresh, KeyValueInv, KvTypes
<1>2. db[proc.storage] \in Metas
  BY DEF KeyValueInv, KvTypes
<1>3. KvTypes'
  <2>1. CASE Kv!Backup
    <3>1. /\ proc' = [proc EXCEPT !.at = "backup", !.copy = db[proc.storage]]
          /\ backup' = [whole |-> FALSE, copy |-> Kv!Empty]
      BY <2>1 DEF Kv!Backup
    <3> QED
      BY <1>1, <1>2, <3>1, EmptyFacts DEF KeyValueInv, KvTypes
  <2>2. CASE Kv!BackupWritten
    <3>1. proc' = Kv!Off /\ backup' = [whole |-> TRUE, copy |-> proc.copy]
      BY <2>2 DEF Kv!BackupWritten
    <3> QED
      BY <1>1, <3>1, EmptyFacts DEF KeyValueInv, KvTypes
  <2> QED
    BY <2>1, <2>2
<1>4. KvOpened' /\ KvFresh' /\ KvWriters' /\ KvCopy'
  BY <1>1, KvQuiet DEF KeyValueInv, KvOpened, KvFresh, KvCopy, Kv!Copying
<1>5. Kv!KeyValuesKept'
  <2>1. \A e \in Kv!Storages : Excused(e) => Excused(e)'
    BY <1>1, KvNoCopy DEF Excused
  <2> QED
    BY <1>1, <2>1, KeptStays
<1> QED
  BY <1>3, <1>4, <1>5 DEF KeyValueInv

LEMMA EndInv == KeyValueInv /\ Kv!End => KeyValueInv'
<1> SUFFICES ASSUME KeyValueInv, Kv!End PROVE KeyValueInv'
  OBVIOUS
<1>1. /\ proc' = Kv!Off /\ client' = [c \in KvClients |-> Kv!Idle]
      /\ unsure' = IF Kv!Copying THEN unsure \cup {proc.to} ELSE unsure
      /\ torn' \in {torn, TRUE} /\ UNCHANGED <<db, dirMade, backup, promised>>
  BY DEF Kv!End
<1>2. proc'.at = "off" /\ (\A c \in KvClients : client[c] = Kv!Idle)'
  BY <1>1, EmptyFacts
<1>3. KvTypes'
  BY <1>1, EmptyFacts DEF KeyValueInv, KvTypes
<1>4. KvOpened' /\ KvFresh' /\ KvWriters' /\ KvCopy'
  BY <1>1, <1>2, KvQuiet DEF KeyValueInv, KvOpened, KvFresh, KvCopy, Kv!Copying
<1>5. Kv!KeyValuesKept'
  <2>1. \A e \in Kv!Storages : Excused(e) => Excused(e)'
    BY <1>1 DEF Excused
  <2> QED
    BY <1>1, <2>1, KeptStays
<1> QED
  BY <1>3, <1>4, <1>5 DEF KeyValueInv

\* Open makes the namespace, and leaves every pair as it is.
LEMMA OpenInv ==
    ASSUME KeyValueInv, NEW s \in Namespaces, Kv!Open(s)
    PROVE  KeyValueInv'
<1> DEFINE meta == db[proc.storage]
           made == Kv!Put(meta, s, Kv!NoPairs)
<1>1. /\ proc.at = "use" /\ proc.ns = None /\ \A c \in KvClients : client[c] = Kv!Idle
      /\ proc' = [proc EXCEPT !.ns = s] /\ db' = [db EXCEPT ![proc.storage] = made]
      /\ UNCHANGED <<torn, dirMade, backup, client, promised, unsure>>
  BY KvIdle DEF Kv!Open, Kv!Opened
<1>2. meta \in Metas /\ proc.storage \in Kv!Storages /\ Kv!NoPairs \in Pairs /\ \A n \in Names : Kv!NoPairs[n] = None
  BY DEF KeyValueInv, KvTypes, Kv!NoPairs, Pairs
<1>3. /\ made \in Metas /\ made[s] # None
      /\ \A t \in Namespaces, n \in Names : Kv!Get(made, t, n) = Kv!Get(meta, t, n)
  BY <1>2, PutFacts
<1> HIDE DEF made
<1>4. /\ proc'.at = "use" /\ proc'.ns = s /\ proc'.storage = proc.storage /\ proc'.to = proc.to
      /\ db'[proc.storage] = made /\ \A d \in Kv!Storages : d # proc.storage => db'[d] = db[d]
  BY <1>1, <1>2 DEF KeyValueInv, KvTypes
<1> HIDE DEF meta
<1>5. KvTypes'
  BY <1>1, <1>2, <1>3 DEF KeyValueInv, KvTypes
<1>6. KvOpened' /\ KvFresh' /\ KvWriters' /\ KvCopy'
  BY <1>1, <1>3, <1>4, KvQuiet DEF KeyValueInv, KvOpened, KvFresh, KvCopy, Kv!Copying
<1>7. Kv!KeyValuesKept'
  <2>1. \A d \in Kv!Storages : Kept(d) => Kept(d)'
    BY <1>1, <1>3, <1>4 DEF Kept, meta
  <2>2. \A d \in Kv!Storages : Excused(d) => Excused(d)'
    BY <1>1, KvNoCopy DEF Excused
  <2> QED
    BY <2>1, <2>2, KeptFacts DEF KeyValueInv
<1> QED
  BY <1>5, <1>6, <1>7 DEF KeyValueInv

\* What a goroutine sets is promised, in the storage it set it in.
LEMMA PromiseFacts ==
    ASSUME KeyValueInv, proc.ns \in Namespaces, NEW n \in Names, NEW v \in Values \cup {None}, Kv!Promise(n, v)
    PROVE  /\ promised' \in [Kv!Storages -> [Namespaces -> Pairs]]
           /\ \A d \in Kv!Storages, t \in Namespaces, x \in Names :
                 promised'[d][t][x] =
                     IF d = proc.storage /\ t = proc.ns /\ x = n THEN v ELSE promised[d][t][x]
<1>1. promised \in [Kv!Storages -> [Namespaces -> [Names -> Values \cup {None}]]] /\ proc.storage \in Kv!Storages
  BY DEF KeyValueInv, KvTypes, Pairs
<1>2. promised' = [promised EXCEPT ![proc.storage][proc.ns][n] = v]
  BY DEF Kv!Promise
<1>3. promised' \in [Kv!Storages -> [Namespaces -> [Names -> Values \cup {None}]]]
  BY <1>1, <1>2
<1> QED
  BY <1>1, <1>2, <1>3 DEF Pairs

LEMMA SetInTransactionInv ==
    ASSUME KeyValueInv, NEW n \in Names, NEW v \in Values \cup {None}, Kv!SetInTransaction(n, v)
    PROVE  KeyValueInv'
<1> DEFINE meta == db[proc.storage]
           new == Kv!Changed(meta, proc.ns, n, v)
<1>1. /\ proc.at = "use" /\ proc.ns # None /\ proc.storage # "file" /\ \A c \in KvClients : client[c] = Kv!Idle
      /\ db' = [db EXCEPT ![proc.storage] = new] /\ Kv!Promise(n, v)
      /\ UNCHANGED <<torn, dirMade, backup, proc, client, unsure>>
  BY KvIdle DEF Kv!SetInTransaction
<1>2. meta \in Metas /\ proc.storage \in Kv!Storages /\ proc.ns \in Namespaces /\ meta[proc.ns] # None
  BY <1>1 DEF KeyValueInv, KvTypes, KvOpened
<1>3. /\ new \in Metas /\ new[proc.ns] # None
      /\ \A t \in Namespaces, x \in Names :
            Kv!Get(new, t, x) = IF t = proc.ns /\ x = n THEN v ELSE Kv!Get(meta, t, x)
  BY <1>2, ChangedFacts
<1> HIDE DEF new
<1>4. db'[proc.storage] = new /\ \A d \in Kv!Storages : d # proc.storage => db'[d] = db[d]
  BY <1>1, <1>2 DEF KeyValueInv, KvTypes
<1> HIDE DEF meta
<1>5. /\ promised' \in [Kv!Storages -> [Namespaces -> Pairs]]
      /\ \A d \in Kv!Storages, t \in Namespaces, x \in Names :
            promised'[d][t][x] = IF d = proc.storage /\ t = proc.ns /\ x = n THEN v ELSE promised[d][t][x]
  BY <1>1, <1>2, PromiseFacts
<1>6. KvTypes'
  BY <1>1, <1>3, <1>5 DEF KeyValueInv, KvTypes
<1>7. KvOpened' /\ KvWriters' /\ KvCopy'
  BY <1>1, <1>3, <1>4, KvQuiet DEF KeyValueInv, KvOpened, KvCopy, Kv!Copying
<1>8. KvFresh'
  <2>1. SUFFICES ASSUME ~dirMade PROVE (\A s \in Namespaces, x \in Names : promised["bolt"][s][x] = None)'
    BY <1>1 DEF KvFresh
  <2>2. proc.storage # "bolt" /\ "bolt" \in Kv!Storages
    BY <1>1, <2>1 DEF KeyValueInv, KvOpened, Kv!Storages
  <2> QED
    BY <1>5, <2>1, <2>2 DEF KeyValueInv, KvFresh
<1>9. Kv!KeyValuesKept'
  <2>1. \A d \in Kv!Storages : Kept(d) => Kept(d)'
    BY <1>3, <1>4, <1>5 DEF Kept, meta
  <2>2. \A d \in Kv!Storages : Excused(d) => Excused(d)'
    BY <1>1, KvNoCopy DEF Excused
  <2> QED
    BY <2>1, <2>2, KeptFacts DEF KeyValueInv
<1> QED
  BY <1>6, <1>7, <1>8, <1>9 DEF KeyValueInv

\* A goroutine that reads the file while another is to write it may undo that.
LEMMA FileReadInv ==
    ASSUME KeyValueInv, NEW c \in KvClients, NEW n \in Names, NEW v \in Values \cup {None}, Kv!FileRead(c, n, v)
    PROVE  KeyValueInv'
<1> DEFINE hand == [at |-> "write", meta |-> db["file"], name |-> n, value |-> v]
<1>1. /\ proc.at = "use" /\ proc.ns # None /\ proc.storage = "file" /\ ~torn
      /\ client' = [client EXCEPT ![c] = hand]
      /\ unsure' = IF \E e \in KvClients : client[e] # Kv!Idle THEN unsure \cup {"file"} ELSE unsure
      /\ UNCHANGED <<db, torn, dirMade, backup, proc, promised>>
  BY DEF Kv!FileRead, Kv!Readable
<1>2. /\ "file" \in Kv!Storages /\ db["file"] \in Metas /\ db["file"][proc.ns] # None
  BY <1>1 DEF KeyValueInv, KvTypes, KvOpened, Kv!Storages
<1>3. /\ hand \in [at : {"idle", "write"}, meta : Metas, name : Names \cup {None}, value : Values \cup {None}]
      /\ hand.at = "write" /\ hand.meta = db["file"] /\ hand.name = n
  BY <1>2
<1> HIDE DEF hand
<1>4. client'[c] = hand /\ \A e \in KvClients : e # c => client'[e] = client[e]
  BY <1>1 DEF KeyValueInv, KvTypes
<1>5. KvTypes'
  BY <1>1, <1>2, <1>3 DEF KeyValueInv, KvTypes
<1>6. KvOpened'
  <2>1. ~Kv!Copying'
    BY <1>1 DEF Kv!Copying
  <2>2. ASSUME NEW e \in KvClients, client'[e] # Kv!Idle
        PROVE  client'[e].at = "write" /\ client'[e].meta[proc.ns] # None /\ client'[e].name \in Names
    <3>1. CASE e = c
      BY <1>2, <1>3, <1>4, <3>1
    <3>2. CASE e # c
      BY <1>4, <2>2, <3>2 DEF KeyValueInv, KvOpened
    <3> QED
      BY <3>1, <3>2
  <2> QED
    BY <1>1, <1>2, <2>1, <2>2 DEF KvOpened
<1>7. KvWriters'
  <2>1. CASE \E e \in KvClients : client[e] # Kv!Idle
    BY <1>1, <2>1 DEF KvWriters
  <2>2. CASE \A e \in KvClients : client[e] = Kv!Idle
    BY <1>1, <1>3, <1>4, <2>2 DEF KvWriters
  <2> QED
    BY <2>1, <2>2
<1>8. KvFresh' /\ KvCopy'
  BY <1>1 DEF KeyValueInv, KvFresh, KvCopy, Kv!Copying
<1>9. Kv!KeyValuesKept'
  <2>1. \A d \in Kv!Storages : Excused(d) => Excused(d)'
    BY <1>1, KvNoCopy DEF Excused
  <2> QED
    BY <1>1, <2>1, KeptStays
<1> QED
  BY <1>5, <1>6, <1>7, <1>8, <1>9 DEF KeyValueInv

LEMMA FileWriteInv ==
    ASSUME KeyValueInv, NEW c \in KvClients, Kv!FileWrite(c)
    PROVE  KeyValueInv'
<1> DEFINE meta == client[c].meta
           n == client[c].name
           v == client[c].value
           new == Kv!Changed(meta, proc.ns, n, v)
<1>1. client[c] # Kv!Idle
  BY DEF Kv!FileWrite, Kv!Idle
<1>2. /\ proc.at = "use" /\ proc.ns # None /\ proc.storage = "file" /\ ~torn
      /\ meta[proc.ns] # None /\ n \in Names
  BY <1>1 DEF KeyValueInv, KvOpened
<1>3. meta \in Metas /\ v \in Values \cup {None} /\ proc.ns \in Namespaces /\ "file" \in Kv!Storages
  BY <1>2 DEF KeyValueInv, KvTypes, Kv!Storages
<1>4. /\ client' = [client EXCEPT ![c] = Kv!Idle] /\ db' = [db EXCEPT !["file"] = new] /\ Kv!Promise(n, v)
      /\ UNCHANGED <<torn, dirMade, backup, proc, unsure>>
  BY DEF Kv!FileWrite
<1>5. /\ new \in Metas /\ new[proc.ns] # None
      /\ \A t \in Namespaces, x \in Names :
            Kv!Get(new, t, x) = IF t = proc.ns /\ x = n THEN v ELSE Kv!Get(meta, t, x)
  BY <1>2, <1>3, ChangedFacts
<1>6. /\ promised' \in [Kv!Storages -> [Namespaces -> Pairs]]
      /\ \A d \in Kv!Storages, t \in Namespaces, x \in Names :
            promised'[d][t][x] = IF d = proc.storage /\ t = proc.ns /\ x = n THEN v ELSE promised[d][t][x]
  BY <1>2, <1>3, <1>4, PromiseFacts
<1>7. "file" \in unsure \/ (meta = db["file"] /\ \A e \in KvClients : client[e] # Kv!Idle => e = c)
  BY <1>1 DEF KeyValueInv, KvWriters
<1> HIDE DEF meta, n, v, new
<1>8. /\ db'["file"] = new /\ \A d \in Kv!Storages : d # "file" => db'[d] = db[d]
      /\ client'[c] = Kv!Idle /\ \A e \in KvClients : e # c => client'[e] = client[e]
  BY <1>3, <1>4 DEF KeyValueInv, KvTypes
<1>9. KvTypes'
  BY <1>4, <1>5, <1>6, EmptyFacts DEF KeyValueInv, KvTypes
<1>10. KvOpened'
  <2>1. ~Kv!Copying'
    BY <1>2, <1>4 DEF Kv!Copying
  <2>2. ASSUME NEW e \in KvClients, client'[e] # Kv!Idle
        PROVE  client'[e].at = "write" /\ client'[e].meta[proc.ns] # None /\ client'[e].name \in Names
    BY <1>8, <2>2 DEF KeyValueInv, KvOpened
  <2> QED
    BY <1>2, <1>4, <1>5, <1>8, <2>1, <2>2 DEF KvOpened
<1>11. KvWriters'
  BY <1>4, <1>7, <1>8 DEF KvWriters
<1>12. KvFresh' /\ KvCopy'
  <2>1. \A s \in Namespaces, x \in Names : promised'["bolt"][s][x] = promised["bolt"][s][x]
    BY <1>2, <1>6 DEF Kv!Storages
  <2> QED
    BY <1>2, <1>4, <2>1 DEF KeyValueInv, KvFresh, KvCopy, Kv!Copying
<1>13. Kv!KeyValuesKept'
  <2>1. ASSUME NEW d \in Kv!Storages, d # "file", Kept(d) PROVE Kept(d)'
    BY <1>2, <1>6, <1>8, <2>1 DEF Kept
  <2>2. "file" \in unsure \/ (Kept("file") => Kept("file")')
    BY <1>2, <1>3, <1>5, <1>6, <1>7, <1>8 DEF Kept
  <2>3. \A d \in Kv!Storages : Excused(d) <=> d \in unsure
    BY <1>2, KvNoCopy DEF Excused
  <2>4. \A d \in Kv!Storages : d \in unsure => Excused(d)'
    BY <1>4 DEF Excused
  <2> QED
    BY <2>1, <2>2, <2>3, <2>4, KeptFacts DEF KeyValueInv
<1> QED
  BY <1>9, <1>10, <1>11, <1>12, <1>13 DEF KeyValueInv

\* A namespace of a copy is put into bolt: what it had besides stays.
LEMMA CopyNamespaceInv ==
    ASSUME KeyValueInv, NEW s \in Namespaces, Kv!CopyNamespace(s)
    PROVE  KeyValueInv'
<1> DEFINE meta == db["bolt"]
           copy == proc.copy
           pairs == copy[s]
           new == Kv!Put(meta, s, pairs)
<1>1. /\ proc.at \in {"auto", "copy"} /\ proc.to = "bolt" /\ s \in proc.left
      /\ db' = [db EXCEPT !["bolt"] = new] /\ proc' = [proc EXCEPT !.left = @ \ {s}]
      /\ UNCHANGED <<torn, dirMade, backup, client, promised, unsure>>
  BY DEF Kv!CopyNamespace, Kv!PutNamespace
<1>2. Kv!Copying /\ \A c \in KvClients : client[c] = Kv!Idle
  BY <1>1, KvIdle DEF Kv!Copying
<1>3. meta \in Metas /\ copy \in Metas /\ copy[s] # None /\ "bolt" \in Kv!Storages
  BY <1>1, <1>2 DEF KeyValueInv, KvTypes, KvCopy, Kv!Present, Kv!Storages
<1>4. pairs \in Pairs /\ \A n \in Names : Kv!Get(copy, s, n) = pairs[n]
  BY <1>3, GetFacts DEF Kv!Get
<1>5. /\ new \in Metas
      /\ \A t \in Namespaces, n \in Names :
            Kv!Get(new, t, n) = IF t = s /\ pairs[n] # None THEN pairs[n] ELSE Kv!Get(meta, t, n)
  BY <1>3, <1>4, PutFacts
<1> HIDE DEF new, pairs
<1>6. /\ db'["bolt"] = new /\ \A d \in Kv!Storages : d # "bolt" => db'[d] = db[d]
      /\ proc'.at = proc.at /\ proc'.to = "bolt" /\ proc'.copy = copy /\ proc'.left = proc.left \ {s}
      /\ proc'.storage = proc.storage
  BY <1>1, <1>3 DEF KeyValueInv, KvTypes
<1>7. KvTypes'
  BY <1>1, <1>5 DEF KeyValueInv, KvTypes
<1>8. KvOpened' /\ KvFresh' /\ KvWriters'
  BY <1>1, <1>2, <1>6, KvQuiet DEF KeyValueInv, KvOpened, KvFresh, Kv!Copying
<1>9. KvCopy'
  <2>1. ASSUME "bolt" \notin unsure, NEW t \in Namespaces, NEW n \in Names
        PROVE  Kv!Get(new, t, n) = IF t \notin proc'.left /\ Kv!Get(copy, t, n) # None THEN Kv!Get(copy, t, n)
                                   ELSE promised["bolt"][t][n]
    <3>1. Kv!Get(meta, t, n) = IF t \notin proc.left /\ Kv!Get(copy, t, n) # None THEN Kv!Get(copy, t, n)
                               ELSE promised["bolt"][t][n]
      BY <1>1, <1>2, <2>1 DEF KeyValueInv, KvCopy, Landed
    <3>2. CASE t = s
      BY <1>1, <1>4, <1>5, <1>6, <3>1, <3>2
    <3>3. CASE t # s
      BY <1>5, <1>6, <3>1, <3>3
    <3> QED
      BY <3>2, <3>3
  <2>2. proc'.left \subseteq Kv!Present(copy)
    BY <1>2, <1>6 DEF KeyValueInv, KvCopy
  <2>3. Kv!Present(proc.copy)' = Kv!Present(copy)
    BY <1>6 DEF Kv!Present
  <2>4. \A t \in Namespaces, n \in Names : Kv!Get(db["bolt"], t, n)' = Kv!Get(new, t, n)
    BY <1>6 DEF Kv!Get
  <2>5. \A t \in Namespaces, n \in Names : Kv!Get(proc.copy, t, n)' = Kv!Get(copy, t, n)
    BY <1>6 DEF Kv!Get
  <2> HIDE DEF copy
  <2>6. proc'.to = "bolt" /\ proc'.at \in {"auto", "copy"} /\ unsure' = unsure /\ promised' = promised
    BY <1>1, <1>6
  <2> QED
    BY <2>1, <2>2, <2>3, <2>4, <2>5, <2>6 DEF KvCopy, Landed
<1>10. Kv!KeyValuesKept'
  <2>1. \A d \in Kv!Storages : d # "bolt" => (Kept(d) => Kept(d)')
    BY <1>1, <1>6 DEF Kept
  <2>2. \A d \in Kv!Storages : Excused(d) => Excused(d)'
    BY <1>1, <1>6 DEF Excused, Kv!Copying
  <2>3. Excused("bolt")'
    BY <1>1, <1>6 DEF Excused, Kv!Copying
  <2> QED
    BY <2>1, <2>2, <2>3, KeptFacts DEF KeyValueInv
<1> QED
  BY <1>7, <1>8, <1>9, <1>10 DEF KeyValueInv

\* The whole of a copy: legacy gets its pairs besides its own, the file those alone.
LEMMA CopyWholeInv == KeyValueInv /\ Kv!CopyWhole => KeyValueInv'
<1> SUFFICES ASSUME KeyValueInv, Kv!CopyWhole PROVE KeyValueInv'
  OBVIOUS
<1> DEFINE meta == db[proc.to]
           copy == proc.copy
           new == IF proc.to = "file" THEN copy ELSE Kv!PutAll(meta, copy)
<1>1. /\ proc.at = "copy" /\ proc.to # "bolt" /\ proc' = [proc EXCEPT !.at = "copied", !.left = {}]
      /\ db' = [db EXCEPT ![proc.to] = new] /\ torn' = (torn /\ proc.to # "file")
      /\ UNCHANGED <<dirMade, backup, client, promised, unsure>>
  BY DEF Kv!CopyWhole
<1>2. Kv!Copying /\ \A c \in KvClients : client[c] = Kv!Idle
  BY <1>1, KvIdle DEF Kv!Copying
<1>3. meta \in Metas /\ copy \in Metas /\ proc.to \in Kv!Storages
  BY DEF KeyValueInv, KvTypes
<1>4. /\ new \in Metas
      /\ \A t \in Namespaces, n \in Names :
            Kv!Get(new, t, n) = IF proc.to = "file" \/ Kv!Get(copy, t, n) # None THEN Kv!Get(copy, t, n)
                                ELSE Kv!Get(meta, t, n)
  BY <1>3, PutAllFacts
<1> HIDE DEF new
<1>5. /\ db'[proc.to] = new /\ \A d \in Kv!Storages : d # proc.to => db'[d] = db[d]
      /\ proc'.at = "copied" /\ proc'.to = proc.to /\ proc'.copy = copy /\ proc'.left = {}
      /\ proc'.storage = proc.storage
  BY <1>1, <1>3 DEF KeyValueInv, KvTypes
<1> HIDE DEF meta
<1>6. KvTypes'
  BY <1>1, <1>4 DEF KeyValueInv, KvTypes
<1>7. KvOpened' /\ KvFresh' /\ KvWriters'
  BY <1>1, <1>2, <1>5, KvQuiet DEF KeyValueInv, KvOpened, KvFresh, Kv!Copying
<1>8. KvCopy'
  <2>1. ASSUME proc.to \notin unsure, proc.to # "file", NEW t \in Namespaces, NEW n \in Names
        PROVE  Kv!Get(meta, t, n) = promised[proc.to][t][n]
    BY <1>1, <1>2, <2>1 DEF KeyValueInv, KvCopy, Landed, meta
  <2>2. \A t \in Namespaces, n \in Names : Kv!Get(db[proc.to], t, n)' = Kv!Get(new, t, n)
    BY <1>5 DEF Kv!Get
  <2>3. \A t \in Namespaces, n \in Names : Kv!Get(proc.copy, t, n)' = Kv!Get(copy, t, n)
    BY <1>5 DEF Kv!Get
  <2>4. proc.to = "file" => \A t \in Namespaces, n \in Names : Kv!Get(db["file"], t, n)' = Kv!Get(copy, t, n)
    BY <1>4, <1>5 DEF Kv!Get
  <2> HIDE DEF copy
  <2>5. \A t \in Namespaces : Landed(t)'
    BY <1>5 DEF Landed
  <2>6. ASSUME proc.to \notin unsure, proc.to # "file", NEW t \in Namespaces, NEW n \in Names
        PROVE  Kv!Get(new, t, n) = IF Kv!Get(copy, t, n) # None THEN Kv!Get(copy, t, n)
                                   ELSE promised[proc.to][t][n]
    BY <1>4, <2>1, <2>6
  <2>7. proc'.to = proc.to /\ proc'.at = "copied" /\ proc'.left = {} /\ unsure' = unsure /\ promised' = promised
    BY <1>1, <1>5
  <2> QED
    BY <1>1, <2>2, <2>3, <2>4, <2>5, <2>6, <2>7 DEF KvCopy
<1>9. Kv!KeyValuesKept'
  <2>1. \A d \in Kv!Storages : d # proc.to => (Kept(d) => Kept(d)')
    BY <1>1, <1>5 DEF Kept
  <2>2. \A d \in Kv!Storages : d # proc.to => (Excused(d) => Excused(d)')
    BY <1>1, <1>5 DEF Excused, Kv!Copying
  <2>3. \A d \in Kv!Storages : d = proc.to => Excused(d)'
    BY <1>5 DEF Excused, Kv!Copying
  <2> QED
    BY <2>1, <2>2, <2>3, KeptFacts DEF KeyValueInv
<1> QED
  BY <1>6, <1>7, <1>8, <1>9 DEF KeyValueInv

\* The copy is there: its storage has what it promises, and no more.
LEMMA CopyDoneInv == KeyValueInv /\ Kv!CopyDone => KeyValueInv'
<1> SUFFICES ASSUME KeyValueInv, Kv!CopyDone PROVE KeyValueInv'
  OBVIOUS
<1> DEFINE now == [s \in Namespaces |-> [n \in Names |-> Kv!CopyPromise(s, n)]]
<1>1. /\ Kv!Copying /\ proc.left = {} /\ (proc.to = "bolt" \/ proc.at = "copied")
      /\ promised' = [promised EXCEPT ![proc.to] = now]
      /\ proc' = IF proc.at = "auto" THEN [Kv!Off EXCEPT !.at = "use"] ELSE Kv!Off
      /\ UNCHANGED <<db, torn, dirMade, backup, client, unsure>>
  BY DEF Kv!CopyDone
<1>2. \A c \in KvClients : client[c] = Kv!Idle
  BY <1>1, KvIdle DEF Kv!Copying
<1>3. proc.to \in Kv!Storages /\ proc.copy \in Metas
  BY DEF KeyValueInv, KvTypes
<1>4. now \in [Namespaces -> Pairs] /\ \A s \in Namespaces, n \in Names : now[s][n] = Kv!CopyPromise(s, n)
  <2>1. ASSUME NEW s \in Namespaces, NEW n \in Names PROVE Kv!CopyPromise(s, n) \in Values \cup {None}
    <3>1. Kv!Get(proc.copy, s, n) \in Values \cup {None}
      BY <1>3, GetFacts
    <3>2. promised[proc.to][s][n] \in Values \cup {None}
      BY <1>3 DEF KeyValueInv, KvTypes, Pairs
    <3> QED
      BY <3>1, <3>2 DEF Kv!CopyPromise
  <2> QED
    BY <2>1 DEF Pairs
<1> HIDE DEF now
<1>5. promised'[proc.to] = now /\ \A d \in Kv!Storages : d # proc.to => promised'[d] = promised[d]
  BY <1>1, <1>3 DEF KeyValueInv, KvTypes
<1>6. /\ proc'.at \in {"off", "use"} /\ proc'.ns = None /\ proc'.storage = "bolt"
      /\ proc'.at = "use" => proc.at = "auto"
  BY <1>1, EmptyFacts
<1>7. KvTypes'
  <2>1. proc' \in [at : {"off", "auto", "use", "backup", "copy", "copied"}, storage : Kv!Storages,
                   ns : Namespaces \cup {None}, copy : Metas, left : SUBSET Namespaces, to : Kv!Storages]
    BY <1>1, EmptyFacts
  <2>2. promised' \in [Kv!Storages -> [Namespaces -> Pairs]]
    BY <1>1, <1>3, <1>4 DEF KeyValueInv, KvTypes
  <2> QED
    BY <1>1, <2>1, <2>2 DEF KeyValueInv, KvTypes
<1>8. KvOpened' /\ KvWriters' /\ KvCopy'
  <2>1. proc.at = "auto" => dirMade
    BY <1>1 DEF KeyValueInv, KvOpened, KvCopy
  <2> QED
    BY <1>1, <1>2, <1>6, <2>1, KvQuiet DEF KvOpened, KvCopy, Kv!Copying
<1>9. KvFresh'
  <2>1. SUFFICES ASSUME ~dirMade PROVE (\A s \in Namespaces, n \in Names : promised["bolt"][s][n] = None)'
    BY <1>1, <1>6 DEF KvFresh
  <2>2. proc.to # "bolt" /\ "bolt" \in Kv!Storages
    BY <1>1, <2>1 DEF KeyValueInv, KvOpened, Kv!Storages
  <2> QED
    BY <1>5, <2>1, <2>2 DEF KeyValueInv, KvFresh
<1>10. proc.to \in unsure \/ \A d \in Kv!Storages : d = proc.to => Kept(d)'
  <2>1. SUFFICES ASSUME proc.to \notin unsure, NEW s \in Namespaces, NEW n \in Names
                 PROVE  Kv!Get(db[proc.to], s, n) = now[s][n]
    BY <1>1, <1>3, <1>5, <2>1 DEF Kept
  <2> DEFINE fresh == Kv!Get(proc.copy, s, n)
             was == promised[proc.to][s][n]
  <2>2. now[s][n] = IF proc.at = "auto" THEN (IF was = None THEN fresh ELSE was)
                    ELSE IF fresh # None \/ proc.to = "file" THEN fresh ELSE was
    BY <1>4 DEF Kv!CopyPromise
  <2>3. proc.at = "auto" => proc.to = "bolt" /\ was = None
    BY DEF KeyValueInv, KvCopy, KvFresh
  <2>4. CASE proc.to = "file"
    <3>1. proc.at = "copied"
      BY <1>1, <2>4
    <3>2. Kv!Get(db["file"], s, n) = fresh
      BY <1>1, <2>1, <2>4, <3>1 DEF KeyValueInv, KvCopy
    <3> QED
      BY <2>2, <2>4, <3>1, <3>2
  <2>5. CASE proc.to # "file"
    <3>1. Landed(s)
      BY <1>1 DEF Landed
    <3>2. Kv!Get(db[proc.to], s, n) = IF fresh # None THEN fresh ELSE was
      BY <1>1, <2>1, <2>5, <3>1 DEF KeyValueInv, KvCopy
    <3> HIDE DEF fresh, was
    <3> QED
      BY <2>2, <2>3, <2>5, <3>2
  <2> QED
    BY <2>4, <2>5
<1>11. Kv!KeyValuesKept'
  <2>1. \A d \in Kv!Storages : d # proc.to => (Kept(d) => Kept(d)')
    BY <1>1, <1>5 DEF Kept
  <2>2. \A d \in Kv!Storages : d # proc.to => (Excused(d) => Excused(d)')
    BY <1>1 DEF Excused
  <2>3. proc.to \in unsure => \A d \in Kv!Storages : d = proc.to => Excused(d)'
    BY <1>1 DEF Excused
  <2> QED
    BY <1>10, <2>1, <2>2, <2>3, KeptFacts DEF KeyValueInv
<1> QED
  BY <1>7, <1>8, <1>9, <1>11 DEF KeyValueInv

LEMMA KeyValueStutterInv == KeyValueInv /\ UNCHANGED kvAll => KeyValueInv'
<1> SUFFICES ASSUME KeyValueInv, UNCHANGED kvAll PROVE KeyValueInv'
  OBVIOUS
<1>1. UNCHANGED <<db, torn, dirMade, backup, proc, client, promised, unsure>>
  BY DEF kvAll
<1>2. KvTypes' /\ KvOpened' /\ KvFresh' /\ KvWriters'
  BY <1>1 DEF KeyValueInv, KvTypes, KvOpened, KvFresh, KvWriters, Kv!Copying
<1>3. KvCopy'
  BY <1>1 DEF KeyValueInv, KvCopy, Landed, Kv!Copying, Kv!Present, Kv!Get
<1>4. Kv!KeyValuesKept'
  <2>1. \A d \in Kv!Storages : Excused(d) => Excused(d)'
    BY <1>1 DEF Excused, Kv!Copying
  <2> QED
    BY <1>1, <2>1, KeptStays
<1> QED
  BY <1>2, <1>3, <1>4 DEF KeyValueInv

LEMMA KeyValueStepInv == KeyValueInv /\ [CommandsNext]_commandsVars => KeyValueInv'
<1> SUFFICES ASSUME KeyValueInv, [CommandsNext]_commandsVars PROVE KeyValueInv'
  OBVIOUS
<1>1. Kv!KeyValueNext \/ UNCHANGED kvAll
  BY DEF CommandsNext, Stopped, commandsVars
<1>2. CASE Kv!KeyValueNext
  <2>1. ASSUME NEW d \in Kv!Storages, Kv!StartWith(d) \/ Kv!Migrate(d) PROVE KeyValueInv'
    BY <2>1, StartWithInv, MigrateInv
  <2>2. ASSUME NEW s \in Namespaces, Kv!Open(s) \/ Kv!CopyNamespace(s) PROVE KeyValueInv'
    BY <2>2, OpenInv, CopyNamespaceInv
  <2>3. ASSUME NEW n \in Names, NEW v \in Values \cup {None},
               Kv!SetInTransaction(n, v) \/ \E c \in KvClients : Kv!FileRead(c, n, v)
        PROVE  KeyValueInv'
    BY <2>3, SetInTransactionInv, FileReadInv
  <2>4. ASSUME NEW c \in KvClients, Kv!FileWrite(c) PROVE KeyValueInv'
    BY <2>4, FileWriteInv
  <2>5. Kv!StartDefault \/ Kv!Backup \/ Kv!BackupWritten \/ Kv!Recover \/ Kv!CopyWhole \/ Kv!CopyDone \/ Kv!End
           => KeyValueInv'
    BY StartDefaultInv, BackupInv, RecoverInv, CopyWholeInv, CopyDoneInv, EndInv
  <2> QED
    BY <1>2, <2>1, <2>2, <2>3, <2>4, <2>5 DEF Kv!KeyValueNext
<1> QED
  BY <1>1, <1>2, KeyValueStutterInv

LEMMA KeyValueRight == KeyValueInv => KeyValuesKept /\ Kv!TypeOK
BY DEF KeyValueInv, KeyValuesKept, Kv!TypeOK, KvTypes, Metas, Pairs

(* Over any number of commands, killed at any point, a storage has what was set, *)
(* migrated or recovered with success, and nothing else (pkg/kv, app/migrate).   *)
THEOREM KeyValuesAreKept == CommandsSpec => []KeyValuesKept
<1>1. CommandsSpec => []KeyValueInv
  BY KeyValueInitInv, KeyValueStepInv, PTL DEF CommandsSpec
<1>2. KeyValueInv => KeyValuesKept
  BY KeyValueRight
<1> QED
  BY <1>1, <1>2, PTL

-----------------------------------------------------------------------------
(* Types. *)

\* The invariants of the four commands together.
CommandsInv == turn \in Turns /\ Types /\ ForwardInv /\ UploadInv /\ KeyValueInv

LEMMA CommandsStepInv == CommandsInv /\ [CommandsNext]_commandsVars => CommandsInv'
<1> SUFFICES ASSUME CommandsInv, [CommandsNext]_commandsVars PROVE CommandsInv'
  OBVIOUS
<1>1. [Step]_vars /\ turn' = turn
  BY DEF CommandsNext, Stopped, commandsVars, downloadVars
<1>2. Types'
  BY <1>1, TypesStep DEF CommandsInv
<1> QED
  BY <1>1, <1>2, ForwardStepInv, UploadStepInv, KeyValueStepInv DEF CommandsInv

(* The state of the command that runs is what its fields, its storage and the    *)
(* files can hold (TypeOK of the four components).                              *)
THEOREM CommandsTypes == CommandsSpec => []CommandsTypeOK
<1>1. CommandsInit => CommandsInv
  <2>1. CommandsInit => Init /\ turn \in Turns
    BY DEF CommandsInit
  <2> QED
    BY <2>1, TypesInit, ForwardInitInv, UploadInitInv, KeyValueInitInv DEF CommandsInv
<1>2. CommandsInv => CommandsTypeOK
  <2> SUFFICES ASSUME CommandsInv PROVE CommandsTypeOK
    OBVIOUS
  <2>1. TypeOK /\ Fwd!TypeOK /\ Up!TypeOK /\ Kv!TypeOK
    BY ForwardRight, UploadRight, KeyValueRight DEF CommandsInv, Types
  <2>2. turn \in {"download", "forward", "upload", "storage"}
    BY TurnsAssumption DEF CommandsInv
  <2> QED
    BY <2>1, <2>2 DEF CommandsTypeOK
<1> QED
  BY <1>1, <1>2, CommandsStepInv, PTL DEF CommandsSpec
=============================================================================
