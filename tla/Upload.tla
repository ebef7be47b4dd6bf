------------------------------- MODULE Upload -------------------------------
(* The command `tdl upload`: walk and iterator (app/up), the Uploader and its  *)
(* errgroup (core/uploader/uploader.go), and the progress that closes and      *)
(* removes the files (app/up/progress.go).                                     *)
EXTENDS Integers, SequencesExt, SeqKeep

CONSTANTS
    Paths,       \* what --path may give: sequences of files, which may overlap
    Excluded,    \* files that --include and --exclude leave out, and thumbnails
    UploadLimit  \* --limit

VARIABLES
    files,      \* iter.files
    remove,     \* --rm
    cur,        \* iter.cur
    upErr,      \* iter.err is set
    uploader,   \* the main goroutine
    upload,     \* position in files -> what became of it
    tracker,    \* file -> the position whose tracker OnUpload moves
    active,     \* positions whose tracker is not done
    upCanceled, \* the context of the command, that of the errgroup is canceled
    onDisk,     \* files that are there
    arrived, refused,  \* files that were sent; of which an upload failed
    leaked      \* positions of files left open by an iterator that failed

upIter == <<files, remove, cur, upErr>>
upShown == <<tracker, active>>
upSeen == <<arrived, refused, leaked>>
uploadVars == <<upIter, uploader, upload, upShown, upCanceled, onDisk, upSeen>>

AllFiles == UNION {Range(p) : p \in Paths}
Positions == DOMAIN files
At(s) == {k \in Positions : upload[k] = s}
Open == {k \in Positions : upload[k] \in {"opened", "added", "uploading", "sending"}} \cup leaked
Running == At("added") \cup At("uploading") \cup At("sending")

\* walk: the files of each path, without those left out
Walk(paths) == Keep(paths, Range(paths) \ Excluded)

UploadInit ==
    /\ \E paths \in Paths : files = Walk(paths)
    /\ remove \in BOOLEAN /\ cur = 1 /\ upErr = FALSE /\ uploader = "next"
    /\ upload = [k \in DOMAIN files |-> "listed"]
    /\ tracker = [f \in AllFiles |-> 0] /\ active = {}
    /\ upCanceled = [cmd |-> FALSE, group |-> FALSE]
    /\ onDisk = AllFiles /\ arrived = {} /\ refused = {} /\ leaked = {}

Ctrl_C ==
    /\ uploader # "ended" /\ ~upCanceled.cmd
    /\ upCanceled' = [cmd |-> TRUE, group |-> TRUE]
    /\ UNCHANGED <<upIter, uploader, upload, upShown, onDisk, upSeen>>

-----------------------------------------------------------------------------
(* The main goroutine *)

(* Iter.Next opens the file, then finds its destination, caption and thumbnail. *)
(* An error ends the loop, and Upload returns without waiting for the others;   *)
(* the file stays open.                                                         *)
IterNext ==
    /\ uploader = "next"
    /\ IF upCanceled.group THEN upErr' = TRUE /\ uploader' = "progress" /\ UNCHANGED <<cur, upload, leaked>>
       ELSE IF cur > Len(files) THEN uploader' = "wait" /\ UNCHANGED <<cur, upErr, upload, leaked>>
       ELSE /\ cur' = cur + 1
            /\ \/ /\ files[cur] \in onDisk /\ uploader' = "go"
                  /\ upload' = [upload EXCEPT ![cur] = "opened"] /\ UNCHANGED <<upErr, leaked>>
               \/ /\ upErr' = TRUE /\ uploader' = "progress" /\ UNCHANGED upload
                  /\ \/ UNCHANGED leaked
                     \/ files[cur] \in onDisk /\ leaked' = leaked \cup {cur}
    /\ UNCHANGED <<files, remove, upShown, upCanceled, onDisk, arrived, refused>>

\* Mutation: no limit.
SlotFree_Any == TRUE

\* errgroup.SetLimit
SlotFree == Cardinality(Running) < UploadLimit

(* wg.Go waits for a slot; the goroutine begins with OnAdd. *)
Go ==
    /\ uploader = "go" /\ SlotFree /\ uploader' = "next"
    /\ LET k == cur - 1 IN
       /\ upload' = [upload EXCEPT ![k] = "added"]
       /\ tracker' = [tracker EXCEPT ![files[k]] = k] /\ active' = active \cup {k}
    /\ UNCHANGED <<upIter, upCanceled, onDisk, upSeen>>

Wait ==
    /\ uploader = "wait" /\ Running = {} /\ uploader' = "progress"
    /\ UNCHANGED <<upIter, upload, upShown, upCanceled, onDisk, upSeen>>

(* prog.Wait: until no tracker is active, or the user gives up; then the process *)
(* ends, with whatever still runs.                                               *)
ProgressWait ==
    /\ uploader = "progress" /\ (active = {} \/ upCanceled.cmd) /\ uploader' = "ended"
    /\ UNCHANGED <<upIter, upload, upShown, upCanceled, onDisk, upSeen>>

-----------------------------------------------------------------------------
(* The goroutine of a file *)

\* OnUpload, after the last part: the tracker of the file is done.
Shown(k) == active' = active \ {tracker[files[k]]} /\ UNCHANGED tracker

\* Mutation: the file is removed whatever the error.
OnDone_Any(k, error, closed) ==
    onDisk' = IF closed /\ remove THEN onDisk \ {files[k]} ELSE onDisk

(* OnDone closes the file and, without an error, removes it. *)
OnDone(k, error, closed) ==
    onDisk' = IF closed /\ ~error /\ remove THEN onDisk \ {files[k]} ELSE onDisk

Fails(k, error, closed) == error \/ ~closed \/ (remove /\ files[k] \notin onDisk)

\* The goroutine returns: of the errors of upload, only a cancellation is passed on.
Return(k, canceled) ==
    /\ upload' = [upload EXCEPT ![k] = "ended"]
    /\ \E closed \in BOOLEAN :
          /\ OnDone(k, canceled, closed)
          /\ active' = IF Fails(k, canceled, closed) THEN active \ {tracker[files[k]]} ELSE active
    /\ upCanceled' = [upCanceled EXCEPT !.group = @ \/ canceled]
    /\ UNCHANGED <<upIter, uploader, tracker, leaked>>

Step(k, from, to) ==
    /\ uploader # "ended" /\ upload[k] = from
    /\ upload' = [upload EXCEPT ![k] = to]

Begin(k) ==
    /\ ~upCanceled.group /\ Step(k, "added", "uploading")
    /\ UNCHANGED <<upIter, uploader, upShown, upCanceled, onDisk, upSeen>>

\* All parts are there; MIME type, thumbnail and caption follow.
PartsSent(k) ==
    /\ Step(k, "uploading", "sending") /\ Shown(k)
    /\ UNCHANGED <<upIter, uploader, upCanceled, onDisk, upSeen>>

\* The message with the file is sent.
Sent(k) ==
    /\ uploader # "ended" /\ upload[k] = "sending" /\ arrived' = arrived \cup {files[k]}
    /\ Return(k, FALSE) /\ UNCHANGED refused

\* A part, the detection of the type or the message failed.
Refused(k) ==
    /\ uploader # "ended" /\ upload[k] \in {"uploading", "sending"}
    /\ refused' = refused \cup {files[k]}
    /\ Return(k, FALSE) /\ UNCHANGED arrived

Canceled(k) ==
    /\ uploader # "ended" /\ upCanceled.group /\ upload[k] \in {"added", "uploading", "sending"}
    /\ Return(k, TRUE) /\ UNCHANGED <<arrived, refused>>

UploadNext ==
    \/ Ctrl_C \/ IterNext \/ Go \/ Wait \/ ProgressWait
    \/ \E k \in Positions : Begin(k) \/ PartsSent(k) \/ Sent(k) \/ Refused(k) \/ Canceled(k)

UploadSpec == UploadInit /\ [][UploadNext]_uploadVars
-----------------------------------------------------------------------------
TypeOK ==
    /\ uploader \in {"next", "go", "wait", "progress", "ended"}
    /\ upload \in [Positions -> {"listed", "opened", "added", "uploading", "sending", "ended"}]
    /\ active \subseteq Positions /\ onDisk \subseteq AllFiles /\ cur \in 1 .. Len(files) + 1

(* Of all files at once, no more than --limit and the one that waits for a slot *)
(* are open, and one the iterator failed on: it runs no further ahead.          *)
FewAreOpen == Cardinality(Open) <= UploadLimit + 1

(* A file that was neither sent nor refused is there, with --rm too: those whose *)
(* upload was canceled, or never began.                                          *)
OnlyTriedIsRemoved == AllFiles \ onDisk \subseteq arrived \cup refused

(* When the iterator met no error the command ends with every file tried, and   *)
(* closed; without a cancellation, each one was sent or refused.                *)
AllTried ==
    uploader \in {"progress", "ended"} /\ ~upErr =>
        /\ Open = {}
        /\ ~upCanceled.group => Range(files) \subseteq arrived \cup refused

(* With --rm only what was sent is removed: "Delete the uploaded file after     *)
(* uploading successfully" (docs/content/en/guide/upload.md).                   *)
RemovedWasSent == AllFiles \ onDisk \subseteq arrived
=============================================================================
