------------------------------ MODULE ItemFile -------------------------------
(* The files of one item of `tdl web` (app/web/download.go, handlers.go): its  *)
(* download writes <target>.tmp, aligned to what Telegram can resume from, and *)
(* renames it when it is complete; playing the video serves the target or what *)
(* there is of the .tmp, and renames a .tmp it finds complete.  Nothing but    *)
(* the file system keeps these apart.  The size of the item is known.          *)
EXTENDS Integers, FiniteSets

CONSTANTS
    Size, Align,        \* units of the item, of a 1 KB block
    Chunk,              \* streamChunkMaxBytes
    Downloads, Promoters, Players,   \* goroutines, and requests that play it
    MaxFiles, MaxBusy, MaxRestarts, MaxPlays  \* bounds on files, busy renames, restarts, plays

VARIABLES
    disk,         \* the files there have been: [len, good], the units written
    tmp, target,  \* which of them has the name; 0 when none has
    status,       \* item.Status
    busy,         \* the item is in s.downloading
    threads,      \* download or promoter -> what it does
    players,      \* player -> what it reads
    shared,       \* two downloads of the item ran at once, of two imports
    stray,        \* a .tmp was renamed that was not the one found complete
    garbage,      \* a player was sent a unit nobody had written
    busyRenames, restarts, plays

fileVars == <<disk, tmp, target, status, busy, threads, players, shared, stray, garbage,
              busyRenames, restarts, plays>>

Threads == Downloads \cup Promoters
IdleThread == [at |-> "idle", fd |-> 0, off |-> 0, res |-> "none"]
IdlePlayer == [at |-> "idle", fd |-> 0, pos |-> 0, end |-> 0]
Units == 0 .. Size - 1

FileInit ==
    /\ disk = <<>> /\ tmp = 0 /\ target = 0 /\ status = "queued" /\ busy = FALSE
    /\ threads = [t \in Threads |-> IdleThread] /\ players = [p \in Players |-> IdlePlayer]
    /\ shared = FALSE /\ stray = FALSE /\ garbage = FALSE
    /\ busyRenames = 0 /\ restarts = 0 /\ plays = 0

-----------------------------------------------------------------------------
Smaller(a, b) == IF a < b THEN a ELSE b

Length(f) == IF f = 0 THEN 0 ELSE disk[f].len

\* sameFileExists, promotedFileExists
TargetExists == target # 0 /\ Length(target) = Size

\* Mutation: a part of the file will do.
TmpComplete_Part == tmp # 0 /\ Length(tmp) + Align >= Size

TmpComplete == tmp # 0 /\ Length(tmp) >= Size

TmpProgress == Smaller(Length(tmp), Size)

AlignDown(n) == n - (n % Align)

\* Truncate also makes a file longer: with units nobody wrote.
Truncated(f, n) == [len |-> n, good |-> f.good \cap 0 .. n - 1]
Written(f, unit) == [len |-> IF f.len > unit THEN f.len ELSE unit + 1, good |-> f.good \cup {unit}]

Goto(t, at) == threads' = [threads EXCEPT ![t].at = at]
Exits(t, res) == threads' = [threads EXCEPT ![t] = IF t \in Downloads
                                THEN [IdleThread EXCEPT !.at = "end", !.res = res]
                                ELSE IdleThread]

UnchangedRest == UNCHANGED <<players, garbage, busyRenames, restarts, plays>>
-----------------------------------------------------------------------------
(* startDownload *)
StartDownload(t) ==
    /\ threads[t].at = "idle" /\ ~busy /\ status # "completed"
    /\ busy' = TRUE /\ status' = "caching" /\ Goto(t, "check")
    /\ shared' = (shared \/ \E u \in Downloads \ {t} : threads[u].at \notin {"idle", "end"})
    /\ UnchangedRest /\ UNCHANGED <<disk, tmp, target, stray>>

(* downloadItem: is the file there? *)
CheckTarget(t) ==
    /\ threads[t].at = "check"
    /\ Goto(t, IF TargetExists THEN "mark" ELSE "progress")
    /\ UnchangedRest /\ UNCHANGED <<disk, tmp, target, status, busy, shared, stray>>

(* ... how much of the .tmp is there? *)
StartOffset(t) ==
    /\ threads[t].at = "progress"
    /\ threads' = [threads EXCEPT ![t].at = "open", ![t].off = TmpProgress]
    /\ UnchangedRest /\ UNCHANGED <<disk, tmp, target, status, busy, shared, stray>>

(* ... open it, or create it *)
OpenTmp(t) ==
    LET new == Cardinality(DOMAIN disk) + 1
        f == IF tmp = 0 THEN new ELSE tmp IN
    /\ threads[t].at = "open" /\ f <= MaxFiles
    /\ tmp' = f
    /\ disk' = IF tmp = 0 THEN [x \in 1 .. new |-> IF x = new THEN [len |-> 0, good |-> {}] ELSE disk[x]]
               ELSE disk
    /\ IF threads[t].off >= Size
       THEN Goto(t, "promote")
       ELSE threads' = [threads EXCEPT ![t].at = "truncate", ![t].fd = f]
    /\ UnchangedRest /\ UNCHANGED <<target, status, busy, shared, stray>>

\* Mutation: what is resumed from is not aligned.
Resume_Next(off) == Smaller(AlignDown(off) + Align, Size)

Resume(off) == AlignDown(off)

(* ... cut it to whole blocks, and go on from there *)
Truncate(t) ==
    LET off == Resume(threads[t].off) IN
    /\ threads[t].at = "truncate"
    /\ disk' = [disk EXCEPT ![threads[t].fd] = Truncated(@, off)]
    /\ threads' = [threads EXCEPT ![t].at = "write", ![t].off = off]
    /\ UnchangedRest /\ UNCHANGED <<tmp, target, status, busy, shared, stray>>

(* downloadProgressWriter *)
WriteUnit(t) ==
    /\ threads[t].at = "write" /\ threads[t].off < Size
    /\ disk' = [disk EXCEPT ![threads[t].fd] = Written(@, threads[t].off)]
    /\ threads' = [threads EXCEPT ![t].off = @ + 1]
    /\ UnchangedRest /\ UNCHANGED <<tmp, target, status, busy, shared, stray>>

CloseTmp(t) ==
    /\ threads[t].at = "write" /\ threads[t].off >= Size
    /\ threads' = [threads EXCEPT ![t] = [IdleThread EXCEPT !.at = "promote"]]
    /\ UnchangedRest /\ UNCHANGED <<disk, tmp, target, status, busy, shared, stray>>

(* It is canceled, preempted, or fails. *)
DownloadStops(t) ==
    /\ threads[t].at \in {"check", "truncate", "write"} /\ t \in Downloads
    /\ \E res \in {"paused", "queued", "error"} : Exits(t, res)
    /\ UnchangedRest /\ UNCHANGED <<disk, tmp, target, status, busy, shared, stray>>

(* promoteTmp: there already, complete, or not to be renamed *)
PromoteTmp(t) ==
    /\ threads[t].at = "promote"
    /\ IF TargetExists THEN Goto(t, "mark")
       ELSE IF TmpComplete THEN threads' = [threads EXCEPT ![t].at = "rename", ![t].fd = tmp]
       ELSE Exits(t, "paused")
    /\ UnchangedRest /\ UNCHANGED <<disk, tmp, target, status, busy, shared, stray>>

\* Mutation: what is in the way of the rename is removed, and the .tmp may be gone.
Rename_RemoveFirst(t) ==
    /\ threads[t].at = "rename"
    /\ IF tmp # 0
       THEN /\ target' = tmp /\ tmp' = 0 /\ stray' = (stray \/ tmp # threads[t].fd)
            /\ threads' = [threads EXCEPT ![t] = [IdleThread EXCEPT !.at = "mark"]]
       ELSE target' = 0 /\ Exits(t, "error") /\ UNCHANGED <<tmp, stray>>
    /\ UnchangedRest /\ UNCHANGED <<disk, status, busy, shared>>

(* ... renamed; gone, when somebody else has renamed it *)
Rename(t) ==
    /\ threads[t].at = "rename"
    /\ IF tmp # 0
       THEN /\ target' = tmp /\ tmp' = 0 /\ stray' = (stray \/ tmp # threads[t].fd)
            /\ threads' = [threads EXCEPT ![t] = [IdleThread EXCEPT !.at = "mark"]]
       ELSE /\ IF TargetExists THEN threads' = [threads EXCEPT ![t] = [IdleThread EXCEPT !.at = "mark"]]
               ELSE Exits(t, "error")
            /\ UNCHANGED <<tmp, target, stray>>
    /\ UnchangedRest /\ UNCHANGED <<disk, status, busy, shared>>

(* ... or in use in all attempts: put off, or of no use any more *)
RenameBusy(t) ==
    /\ threads[t].at = "rename" /\ tmp # 0 /\ busyRenames < MaxBusy
    /\ IF TargetExists THEN threads' = [threads EXCEPT ![t] = [IdleThread EXCEPT !.at = "mark"]]
       ELSE Exits(t, IF TmpComplete THEN "paused" ELSE "error")
    /\ busyRenames' = busyRenames + 1
    /\ UNCHANGED <<disk, tmp, target, status, busy, shared, stray, players, garbage,
                   restarts, plays>>

MarkCompleted(t) ==
    /\ threads[t].at = "mark" /\ status' = "completed" /\ Exits(t, "completed")
    /\ UnchangedRest /\ UNCHANGED <<disk, tmp, target, busy, shared, stray>>

(* The end of startDownload's goroutine *)
FinishDownload(t) ==
    /\ threads[t].at = "end"
    /\ status' = IF threads[t].res = "completed" THEN status ELSE threads[t].res
    /\ busy' = FALSE
    /\ threads' = [threads EXCEPT ![t] = IdleThread]
    /\ UnchangedRest /\ UNCHANGED <<disk, tmp, target, shared, stray>>

-----------------------------------------------------------------------------
(* handleStream *)
\* boundedStreamRange, boundedTmpRange: the end of what is sent from a start.
RangeEnd(start, length) == Smaller(start + Chunk, length)

Play(p, f, start) ==
    /\ players[p].at = "idle" /\ plays < MaxPlays /\ plays' = plays + 1
    /\ players' = [players EXCEPT ![p] = [at |-> "read", fd |-> f, pos |-> start,
                                          end |-> RangeEnd(start, Length(f))]]
    /\ UNCHANGED <<disk, tmp, target, status, busy, threads, shared, stray, garbage,
                   busyRenames, restarts>>

PlayTarget(p) == target # 0 /\ \E start \in 0 .. Length(target) - 1 : Play(p, target, start)

\* A range that begins past the end of the .tmp comes from Telegram.
PlayTmp(p) == target = 0 /\ tmp # 0 /\ \E start \in 0 .. Length(tmp) - 1 : Play(p, tmp, start)

(* A unit is read: what was written; a file that was cut since ends early. *)
ReadUnit(p) ==
    LET f == players[p].fd IN
    /\ players[p].at = "read" /\ players[p].pos < Smaller(players[p].end, Length(f))
    /\ players' = [players EXCEPT ![p].pos = @ + 1]
    /\ garbage' = (garbage \/ players[p].pos \notin disk[f].good)
    /\ UNCHANGED <<disk, tmp, target, status, busy, threads, shared, stray,
                   busyRenames, restarts, plays>>

(* The response ends, the player may close it early: promote a complete .tmp. *)
EndOfRange(p) ==
    /\ players[p].at = "read" /\ players' = [players EXCEPT ![p] = IdlePlayer]
    /\ IF TmpComplete
       THEN \/ \E t \in Promoters : threads[t].at = "idle" /\ Goto(t, "promote")
            \/ /\ \A t \in Promoters : threads[t].at # "idle"
               /\ UNCHANGED threads
       ELSE UNCHANGED threads   \* startDownloadNow: any queued item may start
    /\ UNCHANGED <<disk, tmp, target, status, busy, shared, stray, garbage,
                   busyRenames, restarts, plays>>

-----------------------------------------------------------------------------
(* applyDiskProgress *)
DiskStatus == IF TargetExists THEN "completed" ELSE IF TmpProgress > 0 THEN "paused" ELSE "queued"

(* The list is imported again: running downloads go on, and are forgotten. *)
Reimport ==
    /\ restarts < MaxRestarts /\ restarts' = restarts + 1
    /\ status' = DiskStatus /\ busy' = FALSE
    /\ UNCHANGED <<disk, tmp, target, threads, players, shared, stray, garbage, busyRenames, plays>>

(* The process ends, the files stay; the list is imported at the start. *)
Restart ==
    /\ restarts < MaxRestarts /\ restarts' = restarts + 1
    /\ threads' = [t \in Threads |-> IdleThread] /\ players' = [p \in Players |-> IdlePlayer]
    /\ status' = DiskStatus /\ busy' = FALSE
    /\ UNCHANGED <<disk, tmp, target, shared, stray, garbage, busyRenames, plays>>

ThreadStep(t) ==
    \/ t \in Downloads /\ (StartDownload(t) \/ FinishDownload(t))
    \/ CheckTarget(t) \/ StartOffset(t) \/ OpenTmp(t) \/ Truncate(t) \/ WriteUnit(t)
    \/ CloseTmp(t) \/ DownloadStops(t) \/ PromoteTmp(t) \/ Rename(t) \/ RenameBusy(t)
    \/ MarkCompleted(t)

(* Nothing is said of the files once shared or stray: the model stops there. *)
Alone == ~shared /\ ~stray

FileNext ==
    /\ Alone
    /\ \/ \E t \in Threads : ThreadStep(t)
       \/ \E p \in Players : PlayTarget(p) \/ PlayTmp(p) \/ ReadUnit(p) \/ EndOfRange(p)
       \/ Reimport \/ Restart

FileSpec == FileInit /\ [][FileNext]_fileVars
-----------------------------------------------------------------------------
Files == 0 .. Cardinality(DOMAIN disk)
TypeOK ==
    /\ \A f \in DOMAIN disk : disk[f].len \in 0 .. Size /\ disk[f].good \subseteq Units
    /\ tmp \in Files /\ target \in Files
    /\ status \in {"queued", "caching", "paused", "completed", "error"}
    /\ busy \in BOOLEAN
    /\ \A t \in Threads : threads[t].off \in 0 .. Size /\ threads[t].fd \in Files

Whole(f) == f # 0 /\ disk[f] = [len |-> Size, good |-> Units]

(* An item that is completed has its whole file in place, whatever downloads   *)
(* were cut off, resumed, put off or repeated and whoever renamed the .tmp.    *)
(* Two downloads of one path (of two imports of a list) and a .tmp created     *)
(* between the check and the rename of two promoters are left out: README.     *)
CompletedIsWhole == status = "completed" /\ Alone => Whole(target)

(* A player is only ever sent what was downloaded, from a file that grows, is  *)
(* cut back, and renamed while it is read.                                     *)
ServedWasWritten == Alone => ~garbage

(* A file that is whole keeps its name and its content, whatever download      *)
(* still believes it has to be made and however late a promoter renames.  Not  *)
(* said of the two steps in which the code does replace or cut it: a second    *)
(* download of the path truncates it (shared), a promoter renames a .tmp that  *)
(* was begun after it looked (stray).                                          *)
WholeStays ==
    [][Whole(target) /\ Alone' => target' = target /\ disk'[target] = disk[target]]_fileVars
=============================================================================
