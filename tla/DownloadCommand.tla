-------------------------- MODULE DownloadCommand --------------------------
(* `tdl download`: the message iterator of app/dl/iter.go, the worker pool of  *)
(* core/downloader, the completion callbacks of app/dl/progress.go and the     *)
(* resume record of app/dl/dl.go, over several runs of the command with the    *)
(* same messages.                                                              *)
(*                                                                             *)
(* A message stands for its file as well: the default template names files     *)
(* after dialog and message.  Positions count from 0 as in the code, indices   *)
(* into Dialogs from 1.  No file has two positions (of an album one message is *)
(* listed), as two descriptors of one path are not distinguished.              *)
EXTENDS Integers, FiniteSets, SequencesExt, SeqKeep

CONSTANTS
    Msgs,        \* the messages of the dialogs, listed ones and album members
    Dialogs,     \* i.dialogs: a sequence of sequences of messages, sorted
    Album,       \* with --group, the members of a message's album; <<>> if none
    Filtered,    \* messages without media, or left out by --include/--exclude
    SkipSame,    \* --skip-same
    Workers,     \* the slots of the errgroup: --limit of them
    MayFail,     \* a request, a download or the creation of a file fails
    FilesFail,   \* closing or renaming a file fails
    MayKill,     \* the process is killed at any point
    MayRestart,  \* the user also runs the command with --restart
    Deletable,   \* the messages that can be deleted in the chat between runs
    MaxRuns      \* bound: how often the command is run

ASSUME CommandAssumption ==
    /\ Dialogs \in Seq(Seq(Msgs))
    /\ Album \in [Msgs -> Seq(Msgs)]
    /\ Filtered \subseteq Msgs /\ Deletable \subseteq Msgs
    /\ IsFiniteSet(Workers) /\ Workers # {}
    /\ MaxRuns \in Nat

VARIABLES
    deleted,     \* in the chat: messages that are gone
    record,      \* key-value store: the resume record, {} when there is none
    final, tmp,  \* disk: the file of a message, and its .tmp
    runs,        \* how often the command was started
    main,        \* the main goroutine, see MainStates
    canceled,    \* the context of the command was cancelled by the user
    finished,    \* i.finished
    dlg, num,    \* i.dialogIndex, i.messageIndex
    logicalPos,  \* i.logicalPos
    err,         \* i.err is set
    elem,        \* i.elem: elements that Next made and Value did not take
    work,        \* the goroutines of the errgroup
    trackers,    \* positions whose progress tracker is still active
    groupErr,    \* a goroutine has returned an error
    unclosed,    \* history: positions of this run whose file could not be closed
    rerr         \* what Download returned: TRUE is an error

disk == <<deleted, record, final, tmp>>
iterator == <<finished, dlg, num, logicalPos, err, elem>>
pool == <<work, trackers, groupErr, unclosed>>
vars == <<disk, runs, main, canceled, iterator, pool, rerr>>

Elems == [msg : Msgs, pos : Nat]
MainStates == {"off", "next", "process", "spawn", "wait", "progress", "save", "exit"}
WorkStates == {"add", "download", "finish", "rename", "remove"}
FileStates == {"none", "partial", "full"}
Idle == [at |-> "idle"]
Tasks == [at : WorkStates, e : Elems]

TypeOK ==
    /\ deleted \subseteq Msgs /\ record \subseteq Nat /\ finished \subseteq Nat
    /\ final \in [Msgs -> FileStates] /\ tmp \in [Msgs -> FileStates]
    /\ runs \in 0..MaxRuns /\ main \in MainStates
    /\ dlg \in Nat /\ num \in Nat /\ logicalPos \in Nat
    /\ elem \in Seq(Elems)
    /\ work \in [Workers -> {Idle} \cup Tasks]
    /\ trackers \subseteq Nat /\ unclosed \subseteq Nat
    /\ {canceled, err, groupErr, rerr} \subseteq BOOLEAN

\* What a process that is not running has: nothing.
NoProcess(fin) ==
    /\ canceled' = FALSE /\ finished' = fin
    /\ dlg' = 1 /\ num' = 1 /\ logicalPos' = 0 /\ err' = FALSE /\ elem' = <<>>
    /\ work' = [w \in Workers |-> Idle] /\ trackers' = {}
    /\ groupErr' = FALSE /\ unclosed' = {} /\ rerr' = FALSE

Init ==
    /\ deleted = {} /\ record = {} /\ runs = 0 /\ main = "off"
    /\ final = [m \in Msgs |-> "none"] /\ tmp = [m \in Msgs |-> "none"]
    /\ canceled = FALSE /\ finished = {}
    /\ dlg = 1 /\ num = 1 /\ logicalPos = 0 /\ err = FALSE /\ elem = <<>>
    /\ work = [w \in Workers |-> Idle] /\ trackers = {}
    /\ groupErr = FALSE /\ unclosed = {} /\ rerr = FALSE

-----------------------------------------------------------------------------
(* Run and resume.  The user continues, declines to (the record is deleted),  *)
(* or restarts (the record is not looked at).                                 *)
Start(fin, rec) ==
    /\ main = "off" /\ runs < MaxRuns
    /\ runs' = runs + 1 /\ main' = "next"
    /\ record' = rec /\ NoProcess(fin)
    /\ UNCHANGED <<deleted, final, tmp>>

Continue == Start(record, record)
Decline  == record # {} /\ Start({}, {})
Restart  == MayRestart /\ record # {} /\ Start({}, record)

\* Mutation: Next ends without an error when the context is cancelled.
Next_NoErr ==
    /\ main = "next"
    /\ main' = CASE canceled -> "wait"
                 [] ~canceled /\ elem # <<>> -> "spawn"
                 [] OTHER -> "process"
    /\ UNCHANGED <<disk, runs, canceled, iterator, pool, rerr>>

(* Next, as far as the loop around process. *)
Next ==
    /\ main = "next"
    /\ main' = CASE canceled -> "progress"
                 [] ~canceled /\ elem # <<>> -> "spawn"
                 [] OTHER -> "process"
    /\ err' = (err \/ canceled)
    /\ rerr' = canceled       \* Download returns Iter.Err() and does not wait
    /\ UNCHANGED <<disk, runs, canceled, finished, dlg, num, logicalPos, elem, pool>>

AtEnd == err \/ dlg \notin DOMAIN Dialogs \/ (dlg \in DOMAIN Dialogs /\ num > Len(Dialogs[dlg]))

\* Mutation: Download does not wait for its goroutines.
ProcessEnd_NoWait ==
    /\ main = "process" /\ AtEnd
    /\ main' = "progress"
    /\ rerr' = err
    /\ UNCHANGED <<disk, runs, canceled, iterator, pool>>

(* process at the end of the iteration: Next returns false, and Download      *)
(* waits for its goroutines only when the iterator has no error.              *)
ProcessEnd ==
    /\ main = "process" /\ AtEnd
    /\ main' = IF err THEN "progress" ELSE "wait"
    /\ rerr' = err
    /\ UNCHANGED <<disk, runs, canceled, iterator, pool>>

\* The deferred increment of the physical position.
Advance ==
    IF num + 1 > Len(Dialogs[dlg])
    THEN dlg' = dlg + 1 /\ num' = 1
    ELSE num' = num + 1 /\ UNCHANGED dlg

\* What GetGroupedMessages finds of the album of m.
Members(m) == Keep(Album[m], Msgs \ deleted)

\* Mutation: positions are numbered from the one before.
Candidates_Before(m) ==
    IF Album[m] = <<>>
    THEN <<[msg |-> m, pos |-> logicalPos - 1]>>
    ELSE [k \in 1..Len(Members(m)) |-> [msg |-> Members(m)[k], pos |-> logicalPos + k - 2]]

\* The messages one call of process handles, with their logical positions.
Candidates(m) ==
    IF Album[m] = <<>>
    THEN <<[msg |-> m, pos |-> logicalPos]>>
    ELSE [k \in 1..Len(Members(m)) |-> [msg |-> Members(m)[k], pos |-> logicalPos + k - 1]]

Wanted(m) == m \notin Filtered /\ ~(SkipSame /\ final[m] = "full")

Todo(m) ==
    Keep(Candidates(m), {e \in Range(Candidates(m)) : e.pos \notin finished /\ Wanted(e.msg)})

(* os.Create in processSingle: the temporary file is empty again. *)
Created(es) == [m \in Msgs |-> IF \E k \in 1..Len(es) : es[k].msg = m THEN "partial" ELSE tmp[m]]

\* Mutation: a deleted message does not count.
Process_DeletedUncounted ==
    /\ main = "process" /\ ~AtEnd
    /\ ~canceled
    /\ LET m == Dialogs[dlg][num] IN
       IF m \in deleted
       THEN UNCHANGED <<logicalPos, main, elem, tmp>>
       ELSE /\ logicalPos' = logicalPos + Len(Candidates(m))
            /\ elem' = Todo(m)
            /\ tmp' = Created(Todo(m))
            /\ main' = IF Todo(m) = <<>> THEN "process" ELSE "spawn"
    /\ Advance
    /\ UNCHANGED <<deleted, record, final, runs, canceled, finished, err, pool, rerr>>

(* process for one listed message, which holds i.mu throughout. *)
Process ==
    /\ main = "process" /\ ~AtEnd
    /\ ~canceled
    /\ LET m == Dialogs[dlg][num] IN
       IF m \in deleted
       THEN /\ logicalPos' = logicalPos + 1
            /\ UNCHANGED <<main, elem, tmp>>
       ELSE /\ logicalPos' = logicalPos + Len(Candidates(m))
            /\ elem' = Todo(m)
            /\ tmp' = Created(Todo(m))
            /\ main' = IF Todo(m) = <<>> THEN "process" ELSE "spawn"
    /\ Advance
    /\ UNCHANGED <<deleted, record, final, runs, canceled, finished, err, pool, rerr>>

(* A request of process fails, as all do once the context is cancelled, or a   *)
(* file cannot be created.  The elements already made are never taken.         *)
ProcessError ==
    /\ main = "process" /\ ~AtEnd
    /\ canceled \/ MayFail
    /\ \E k \in 0..(IF Dialogs[dlg][num] \in deleted THEN 0 ELSE Len(Todo(Dialogs[dlg][num]))) :
          /\ elem' = SubSeq(Todo(Dialogs[dlg][num]), 1, k)
          /\ tmp' = Created(elem')
    /\ err' = TRUE /\ rerr' = TRUE /\ main' = "progress"
    /\ Advance
    /\ UNCHANGED <<deleted, record, final, runs, canceled, finished, logicalPos, pool>>

\* Mutation: the element stays in i.elem.
Spawn_Peek(w) ==
    /\ main = "spawn" /\ work[w] = Idle
    /\ work' = [work EXCEPT ![w] = [at |-> "add", e |-> Head(elem)]]
    /\ main' = "next"
    /\ UNCHANGED <<disk, runs, canceled, iterator, trackers, groupErr, unclosed, rerr>>

(* Value and wg.Go, which waits for a free slot. *)
Spawn(w) ==
    /\ main = "spawn" /\ work[w] = Idle
    /\ work' = [work EXCEPT ![w] = [at |-> "add", e |-> Head(elem)]]
    /\ elem' = Tail(elem) /\ main' = "next"
    /\ UNCHANGED <<disk, runs, canceled, finished, dlg, num, logicalPos, err,
                   trackers, groupErr, unclosed, rerr>>

-----------------------------------------------------------------------------
(* The goroutine of an element. *)
Moves(w, from, to) ==
    /\ work[w].at = from
    /\ work' = [work EXCEPT ![w] = IF to = "idle" THEN Idle ELSE [@ EXCEPT !.at = to]]
    /\ UNCHANGED <<deleted, record, runs, canceled, dlg, num, logicalPos, err, elem, rerr>>

OnAdd(w) ==
    /\ Moves(w, "add", "download")
    /\ trackers' = trackers \cup {work[w].e.pos}
    /\ UNCHANGED <<final, tmp, main, finished, groupErr, unclosed>>

\* The last part is written: the tracker reaches its total.
DownloadDone(w) ==
    /\ Moves(w, "download", "finish")
    /\ trackers' = trackers \ {work[w].e.pos}
    /\ tmp' = [tmp EXCEPT ![work[w].e.msg] = "full"]
    /\ UNCHANGED <<final, main, finished, groupErr, unclosed>>

\* "don't return error, just log it": OnDone is called with a nil error.
DownloadFails(w) ==
    /\ MayFail
    /\ Moves(w, "download", "finish")
    /\ UNCHANGED <<final, tmp, trackers, main, finished, groupErr, unclosed>>

\* Mutation: OnDone does not look at the error.
DownloadCanceled_Finishes(w) ==
    /\ canceled
    /\ Moves(w, "download", "finish")
    /\ UNCHANGED <<final, tmp, trackers, main, finished, groupErr, unclosed>>

DownloadCanceled(w) ==
    /\ canceled
    /\ Moves(w, "download", "remove")
    /\ UNCHANGED <<final, tmp, trackers, main, finished, groupErr, unclosed>>

(* OnDone when Close fails, whatever became of the download: it returns, and   *)
(* the goroutine returns what it would have returned.  What was written last   *)
(* may not be on disk; p.fail ends the tracker.                                *)
CloseFails(w) ==
    /\ FilesFail
    /\ \E at \in {"finish", "remove"} :
          Moves(w, at, "idle") /\ groupErr' = (groupErr \/ at = "remove")
    /\ unclosed' = unclosed \cup {work[w].e.pos}
    /\ trackers' = trackers \ {work[w].e.pos}
    /\ tmp' \in {tmp, [tmp EXCEPT ![work[w].e.msg] = "partial"]}
    /\ UNCHANGED <<final, main, finished>>

(* ... and when it does not: p.it.Finish, then donePost renames the file. *)
Finish(w) ==
    /\ Moves(w, "finish", "rename")
    /\ finished' = finished \cup {work[w].e.pos}
    /\ UNCHANGED <<final, tmp, trackers, main, groupErr, unclosed>>

Rename(w) ==
    /\ Moves(w, "rename", "idle")
    /\ final' = [final EXCEPT ![work[w].e.msg] = tmp[work[w].e.msg]]
    /\ tmp' = [tmp EXCEPT ![work[w].e.msg] = "none"]
    /\ UNCHANGED <<trackers, main, finished, groupErr, unclosed>>

\* The .tmp stays where it is; p.fail ends the tracker.
RenameFails(w) ==
    /\ FilesFail
    /\ Moves(w, "rename", "idle")
    /\ trackers' = trackers \ {work[w].e.pos}
    /\ UNCHANGED <<final, tmp, main, finished, groupErr, unclosed>>

(* OnDone with a cancellation; then the goroutine returns the error. *)
RemoveTmp(w) ==
    /\ Moves(w, "remove", "idle")
    /\ tmp' = [tmp EXCEPT ![work[w].e.msg] = "none"]
    /\ groupErr' = TRUE
    /\ UNCHANGED <<final, trackers, main, finished, unclosed>>

Work(w) ==
    \/ OnAdd(w) \/ DownloadDone(w) \/ DownloadFails(w) \/ DownloadCanceled(w)
    \/ CloseFails(w) \/ Finish(w) \/ Rename(w) \/ RenameFails(w) \/ RemoveTmp(w)

-----------------------------------------------------------------------------
(* The end of Run. *)
Wait ==
    /\ main = "wait" /\ \A w \in Workers : work[w] = Idle
    /\ rerr' = groupErr /\ main' = "progress"
    /\ UNCHANGED <<disk, runs, canceled, iterator, pool>>

\* Mutation: prog.Wait does not look at the context.
ProgressWait_Deaf ==
    /\ main = "progress" /\ trackers = {}
    /\ main' = "save"
    /\ UNCHANGED <<disk, runs, canceled, iterator, pool, rerr>>

(* prog.Wait *)
ProgressWait ==
    /\ main = "progress" /\ (canceled \/ trackers = {})
    /\ main' = "save"
    /\ UNCHANGED <<disk, runs, canceled, iterator, pool, rerr>>

(* The deferred saveProgress, or the deletion of the resume key. *)
Save ==
    /\ main = "save"
    /\ record' = IF rerr THEN finished ELSE {}
    /\ main' = "exit"
    /\ UNCHANGED <<deleted, final, tmp, runs, canceled, iterator, pool, rerr>>

Exit ==
    /\ main = "exit" /\ main' = "off"
    /\ NoProcess({})
    /\ UNCHANGED <<disk, runs>>

(* saveProgress marshals i.finished without i.mu.  A Finish meanwhile writes   *)
(* the map that is being read, and the Go runtime may end the process for it.  *)
MapRace ==
    /\ main = "save" /\ rerr
    /\ \E w \in Workers : work[w].at = "finish"
    /\ main' = "off" /\ NoProcess({})
    /\ UNCHANGED <<disk, runs>>

-----------------------------------------------------------------------------
(* The environment. *)
UserCancel ==
    /\ main \notin {"off", "exit"} /\ ~canceled
    /\ canceled' = TRUE
    /\ UNCHANGED <<disk, runs, main, iterator, pool, rerr>>

Kill ==
    /\ MayKill /\ main # "off"
    /\ main' = "off" /\ NoProcess({})
    /\ UNCHANGED <<disk, runs>>

Delete(m) ==
    /\ m \in Deletable \ deleted /\ runs > 0
    /\ deleted' = deleted \cup {m}
    /\ UNCHANGED <<record, final, tmp, runs, main, canceled, iterator, pool, rerr>>

Done == main = "off" /\ runs = MaxRuns /\ UNCHANGED vars

MainStep ==
    \/ Next \/ ProcessEnd \/ Process \/ ProcessError \/ \E w \in Workers : Spawn(w)
    \/ Wait \/ ProgressWait \/ Save \/ Exit \/ MapRace

Step ==
    \/ Continue \/ Decline \/ Restart
    \/ MainStep
    \/ \E w \in Workers : Work(w)
    \/ UserCancel \/ Kill \/ \E m \in Msgs : Delete(m)
    \/ Done

Spec == Init /\ [][Step]_vars

(* The goroutines that can run do run, and a request is answered or fails.  The *)
(* user may never press Ctrl-C and need not start the command.                  *)
FairSpec ==
    /\ Spec
    /\ WF_vars(MainStep)
    /\ \A w \in Workers : WF_vars(Work(w))

-----------------------------------------------------------------------------
\* A listed message, or the members of its album.
AlbumOf(m) == IF Album[m] = <<>> THEN <<m>> ELSE Album[m]

Listed == UNION {Range(Dialogs[d]) : d \in DOMAIN Dialogs}

\* The dialogs as one sequence of messages, albums expanded.
Expanded == LET all == FlattenSeq(Dialogs) IN FlattenSeq([k \in DOMAIN all |-> AlbumOf(all[k])])

\* Conditions on the constants that the theorems about the command name.  What
\* the user deletes is no part of an album (the positions behind it would move);
\* no file has two positions; no dialog is empty (the iteration would end there).
DeletableAlone == \A m \in Deletable : Album[m] = <<>> /\ \A x \in Msgs : m \notin ToSet(Album[x])
DistinctFiles == IsInjective(Expanded)
NoEmptyDialog == \A d \in DOMAIN Dialogs : Dialogs[d] # <<>>

Positions(m) == LET all == Expanded IN {p \in 0..(Len(all) - 1) : all[p + 1] = m}

\* The messages a run has to download, or to find downloaded.
Due == (UNION {Range(AlbumOf(m)) : m \in Listed \ deleted}) \ (deleted \cup Filtered)

Ready(m) == final[m] = "full" \/ tmp[m] = "full"

Succeeded == main = "exit" /\ ~rerr

(* Nothing is lost over interruptions, kills and resumed runs: when a run ends *)
(* without an error (Run of app/dl/dl.go clears the resume key), every message *)
(* that is wanted and still in the chat has been downloaded, by this run or by *)
(* one before it.                                                              *)
NothingLost ==
    Succeeded => \A m \in Due : Ready(m)

(* "if finished, we should clear resume key" (app/dl/dl.go:95): the key is     *)
(* cleared by a run without an error, and then the files are there, under      *)
(* their names and not as .tmp (donePost of app/dl/progress.go).               *)
ClearedWhenFinished ==
    Succeeded => \A m \in Due : final[m] = "full"

(* A run without an error has dealt with everything: each due message was      *)
(* finished by this run, is recorded as finished by one before, is there with  *)
(* --skip-same, or its file could not be closed, of which OnDone only logs     *)
(* (app/dl/progress.go:65); no other element that Next made was dropped        *)
(* (Download of core/downloader waits for its goroutines), also when downloads *)
(* fail and the user restarts.                                                 *)
AllVisited ==
    Succeeded => \A m \in Due : \/ Positions(m) \subseteq finished \cup unclosed
                                \/ SkipSame /\ final[m] = "full"

(* A position that the resume record or i.finished holds is skipped by every   *)
(* later run (process of app/dl/iter.go), so its file must have been completed. *)
RecordedIsReady ==
    LET all == Expanded IN \A p \in record \cup finished : p < Len(all) => Ready(all[p + 1])

(* The logical position of an element does not depend on what was skipped,     *)
(* finished or deleted before it, in this run and in the runs before it:       *)
(* process of app/dl/iter.go counts each listed message once.                  *)
PositionsStable ==
    LET all == Expanded
        Stable(e) == e.pos < Len(all) /\ all[e.pos + 1] = e.msg IN
    /\ \A k \in 1..Len(elem) : Stable(elem[k])
    /\ \A w \in Workers : work[w] # Idle => Stable(work[w].e)

(* No two goroutines download the same file at the same time, and none is      *)
(* about to write a file that an element still in i.elem will truncate.        *)
OneWriter ==
    /\ \A v, w \in Workers : v # w /\ work[v] # Idle /\ work[w] # Idle
            => work[v].e.msg # work[w].e.msg
    /\ \A w \in Workers : \A k \in 1..Len(elem) : work[w] # Idle => work[w].e.msg # elem[k].msg

(* A complete file is never replaced by an incomplete one (os.Rename in        *)
(* donePost), however often the command is run again.                          *)
CompleteFilesKept ==
    [][\A m \in Msgs : final[m] = "full" => final'[m] = "full"]_vars

\* A download failed: its tracker is active and no goroutine is left to end it.
Abandoned == {p \in trackers : \A w \in Workers : work[w] # Idle => work[w].e.pos # p}

(* The command ends, once it is interrupted or unless a download failed:       *)
(* neither the full errgroup (Download waits for a slot in wg.Go) nor prog.Wait *)
(* holds it forever.                                                           *)
CommandEnds == main # "off" ~> main = "off" \/ (~canceled /\ Abandoned # {})
=============================================================================
