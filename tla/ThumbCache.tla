------------------------------ MODULE ThumbCache -----------------------------
(* The thumbnail of one item of `tdl web`: a JPEG on disk that requests serve  *)
(* and that requests, previews and cover jobs build, one of them at a time,    *)
(* from an image Telegram sends or a frame of the video (app/web/handlers.go,  *)
(* thumb_cache.go, poster.go, cover.go), and the slots in which media are      *)
(* served from Telegram.  When a cover job runs is CoverScheduler's subject.   *)
EXTENDS Naturals, FiniteSets

CONSTANTS
    Requests, Builders,   \* HTTP requests; previews' and cover jobs' goroutines
    SharedLimit,          \* tgSharedLimit()
    MaxWork, MaxRestarts, \* bounds on requests and jobs, on restarts
    None

VARIABLES
    type,      \* "image" or "video"
    thumb,     \* what Telegram has for a thumbnail: [kind, valid]
    original,  \* how much of the original is on disk: "none", "part" or "whole"
    jpg,       \* the file at thumbPath: "none", "valid", "bad" or "torn"
    tmp,       \* <thumbPath>.tmp and .part.jpg: who writes it and how far, or None
    flight,    \* who builds, in thumbGroup; None
    actors,    \* request or builder -> what it does, and what comes next
    sharedSlots, streamSlots,   \* messages in the channels tgShared, tgStream
    sent,      \* what requests have been sent for a thumbnail
    work, restarts

thumbVars == <<type, thumb, original, jpg, tmp, flight, actors, sharedSlots, streamSlots,
               sent, work, restarts>>
kindVars == <<type, thumb>>

Actors == Requests \cup Builders
Idle == [at |-> "idle", ok |-> "idle", no |-> "idle", kind |-> "none",
         then |-> "idle", slot |-> "none"]
\* A thumbnail of the document, embedded in the message, too large, or none.
Thumbs == [kind : {"file", "inline"}, valid : BOOLEAN]
            \cup [kind : {"large", "none"}, valid : {TRUE}]

ThumbInit ==
    /\ type \in {"image", "video"} /\ thumb \in Thumbs
    /\ original = "none" /\ jpg = "none" /\ tmp = [k \in {"tmp", "part"} |-> None]
    /\ flight = None /\ actors = [a \in Actors |-> Idle]
    /\ sharedSlots = 0 /\ streamSlots = 0 /\ sent = {} /\ work = 0 /\ restarts = 0

Goto(a, at) == actors' = [actors EXCEPT ![a].at = at]
Begins(a, at, ok, no) ==
    /\ actors[a] = Idle /\ work < MaxWork /\ work' = work + 1
    /\ actors' = [actors EXCEPT ![a] = [Idle EXCEPT !.at = at, !.ok = ok, !.no = no]]
    /\ UNCHANGED <<kindVars, original, jpg, tmp, flight, sharedSlots, streamSlots, sent, restarts>>

UnchangedSlots == UNCHANGED <<sharedSlots, streamSlots, work, restarts>>
UnchangedFiles == UNCHANGED <<kindVars, original, jpg, tmp>>
OnlyActors == UnchangedFiles /\ UnchangedSlots /\ UNCHANGED <<flight, sent>>

\* Is the thumbnail at hand? Where to go if so, if not.
Look(a, ok, no) == actors' = [actors EXCEPT ![a].at = "look", ![a].ok = ok, ![a].no = no]
\* ensureThumbCache: as Look, and then the flight.
Ensure(a, kind, next) ==
    actors' = [actors EXCEPT ![a].at = "look", ![a].ok = next, ![a].no = "join", ![a].kind = kind]

-----------------------------------------------------------------------------
(* validThumbCacheFile: a file that is no JPEG is removed. A torn one passes. *)
LookJpg(a) ==
    /\ actors[a].at = "look"
    /\ Goto(a, IF jpg \in {"valid", "torn"} THEN actors[a].ok
               ELSE IF jpg = "bad" THEN "remove" ELSE actors[a].no)
    /\ OnlyActors

RemoveJpg(a) ==
    /\ actors[a].at = "remove" /\ jpg' = "none" /\ Goto(a, actors[a].no)
    /\ UnchangedSlots /\ UNCHANGED <<kindVars, original, tmp, flight, sent>>

\* Mutation: everyone who finds no thumbnail builds it.
Join_Any(a) ==
    /\ actors[a].at = "join" /\ flight' = a
    /\ Look(a, "leave", "build")
    /\ UnchangedFiles /\ UnchangedSlots /\ UNCHANGED sent

(* thumbGroup.Do: the first builds, after another look; the others wait. *)
Join(a) ==
    /\ actors[a].at = "join"
    /\ IF flight = None
       THEN /\ flight' = a
            /\ actors' = [actors EXCEPT ![a].at = "look", ![a].ok = "leave", ![a].no = "build",
                                        ![a].then = actors[a].ok]
       ELSE Goto(a, "wait") /\ UNCHANGED flight
    /\ UnchangedFiles /\ UnchangedSlots /\ UNCHANGED sent

(* ... and all go on with the one result *)
Leave(a) ==
    /\ actors[a].at = "leave" /\ flight' = None
    /\ actors' = [b \in Actors |->
          IF b = a THEN [actors[b] EXCEPT !.at = actors[b].then, !.then = "idle"]
          ELSE IF actors[b].at = "wait" THEN [actors[b] EXCEPT !.at = actors[b].ok]
          ELSE actors[b]]
    /\ UnchangedFiles /\ UnchangedSlots /\ UNCHANGED sent

File(a) == IF actors[a].kind = "frame" THEN "part" ELSE "tmp"

(* cacheMediaFile, writeInlineThumb, extractVideoPosterContext: what was left of *)
(* an earlier attempt is removed, the file is made, *)
BuildStart(a) ==
    /\ actors[a].at = "build"
    /\ IF actors[a].kind = "inline" /\ ~thumb.valid
       THEN Goto(a, "leave") /\ UNCHANGED tmp
       ELSE Goto(a, "fill") /\ tmp' = [tmp EXCEPT ![File(a)] = [by |-> a, full |-> FALSE]]
    /\ UnchangedSlots /\ UNCHANGED <<kindVars, original, jpg, flight, sent>>

(* ... filled, *)
BuildFill(a) ==
    /\ actors[a].at = "fill" /\ Goto(a, "rename")
    /\ tmp' = IF tmp[File(a)] # None /\ tmp[File(a)].by = a
              THEN [tmp EXCEPT ![File(a)].full = TRUE] ELSE tmp
    /\ UnchangedSlots /\ UNCHANGED <<kindVars, original, jpg, flight, sent>>

(* ... or given up, *)
BuildFails(a) ==
    /\ actors[a].at = "fill" /\ Goto(a, "leave")
    /\ tmp' = [tmp EXCEPT ![File(a)] = None]
    /\ UnchangedSlots /\ UNCHANGED <<kindVars, original, jpg, flight, sent>>

(* ... given its name, and looked at once more. *)
BuildRename(a) ==
    LET f == tmp[File(a)] IN
    /\ actors[a].at = "rename"
    /\ jpg' = IF f = None THEN jpg
              ELSE IF ~f.full THEN "torn"
              ELSE IF actors[a].kind = "file" /\ ~thumb.valid THEN "bad" ELSE "valid"
    /\ tmp' = [tmp EXCEPT ![File(a)] = None]
    /\ Look(a, "leave", "leave")
    /\ UnchangedSlots /\ UNCHANGED <<kindVars, original, flight, sent>>

-----------------------------------------------------------------------------
(* Requests. *)
Send(a, what) == /\ sent' = sent \cup {what} /\ actors' = [actors EXCEPT ![a] = Idle]
                 /\ UnchangedFiles /\ UnchangedSlots /\ UNCHANGED flight
Unavailable(a) == /\ actors' = [actors EXCEPT ![a] = Idle] /\ OnlyActors

(* handleThumb, handlePreview *)
Thumb(r) == Begins(r, "look", "open", "local")
Preview(r) == type = "image" /\ Begins(r, "preview", "", "")

(* The thumbnail that was there a moment ago is opened. *)
OpenJpg(r) ==
    /\ actors[r].at \in {"open", "open2", "open3"}
    /\ IF jpg # "none" THEN Send(r, jpg)
       ELSE /\ OnlyActors
            /\ Goto(r, IF actors[r].at = "open" THEN "local"
                       ELSE IF actors[r].at = "open2" THEN "remote" ELSE "idle")

(* The original image, or a frame of the video as far as it is there *)
ThumbLocal(r) ==
    /\ actors[r].at = "local"
    /\ IF type = "image" /\ original = "whole" THEN Unavailable(r)   \* it is sent itself
       ELSE /\ OnlyActors
            /\ IF type = "video" /\ original # "none" THEN Ensure(r, "frame", "again")
               ELSE Goto(r, "remote")

ThumbAgain(r) == actors[r].at = "again" /\ OnlyActors /\ Look(r, "open2", "remote")

(* Not allowed, the message is gone, too large: nothing; a cover job: wait for *)
(* it or for the time it may take; an image of its own: from Telegram.         *)
ThumbRemote(r) ==
    /\ actors[r].at = "remote"
    /\ \/ Unavailable(r)
       \/ OnlyActors /\ Look(r, "open3", "idle")
       \/ type = "image" /\ OnlyActors /\ Goto(r, "serve")

(* handlePreview: the original, the thumbnail, or from Telegram *)
PreviewLocal(r) ==
    /\ actors[r].at = "preview"
    /\ IF original = "whole" THEN Unavailable(r)
       ELSE OnlyActors /\ Look(r, "open3", "previewRemote")

\* A goroutine keeps the thumbnail for later.
PreviewRemote(r) ==
    /\ actors[r].at = "previewRemote"
    /\ \/ Unavailable(r)
       \/ /\ OnlyActors
          /\ \/ Goto(r, "serve")
             \/ \E b \in Builders :
                   /\ actors[b] = Idle /\ thumb.kind = "file"
                   /\ actors' = [actors EXCEPT ![r].at = "serve",
                          ![b] = [Idle EXCEPT !.at = "look", !.no = "join", !.kind = "file"]]

(* buildCoverFromTelegram, of a job the cover scheduler started; the file of a *)
(* video without a thumbnail is read in part (RangeTransfer)                   *)
BuildKind ==
    IF thumb.kind \in {"file", "inline"} THEN thumb.kind
    ELSE IF thumb.kind = "large" THEN "none"
    ELSE IF type = "video" THEN "frame" ELSE "file"

CoverJob(b) ==
    /\ BuildKind # "none" /\ actors[b] = Idle /\ work < MaxWork /\ work' = work + 1
    /\ Ensure(b, BuildKind, "idle")
    /\ UNCHANGED <<kindVars, original, jpg, tmp, flight, sharedSlots, streamSlots, sent, restarts>>

\* A builder, or a request that got nothing, is done.
Ends(a) == actors[a].at = "idle" /\ actors[a] # Idle /\ Unavailable(a)

-----------------------------------------------------------------------------
(* Slots for media that come from Telegram. *)
\* Mutation: the shared channel is twice as large.
SharedFree_Twice == sharedSlots < 2 * SharedLimit

SharedFree == sharedSlots < SharedLimit

Take(r, slot) ==
    /\ actors' = [actors EXCEPT ![r].at = "serving", ![r].slot = slot]
    /\ IF slot = "stream" THEN streamSlots' = streamSlots + 1 /\ UNCHANGED sharedSlots
       ELSE sharedSlots' = sharedSlots + 1 /\ UNCHANGED streamSlots
    /\ UnchangedFiles /\ UNCHANGED <<flight, sent, work, restarts>>

(* tryAcquireTGShared: one is free, or the request is refused *)
Serve(r) ==
    /\ actors[r].at = "serve"
    /\ IF SharedFree THEN Take(r, "shared") ELSE Unavailable(r)

(* handleStream: acquireTGStream takes the reserved slot, *)
Stream(r) == type = "video" /\ Begins(r, "stream", "", "")

AcquireTGStream(r) ==
    /\ actors[r].at = "stream"
    /\ IF streamSlots = 0 THEN Take(r, "stream") ELSE OnlyActors /\ Goto(r, "streamWait")

(* ... or waits for a shared one, as long as the player does *)
StreamWait(r) ==
    /\ actors[r].at = "streamWait"
    /\ (SharedFree /\ Take(r, "shared")) \/ Unavailable(r)

\* Mutation: what was taken from one channel is given back to the other.
Release_Shared(r) ==
    /\ actors[r].at = "serving"
    /\ sharedSlots' = IF sharedSlots > 0 THEN sharedSlots - 1 ELSE 0
    /\ UNCHANGED streamSlots
    /\ actors' = [actors EXCEPT ![r] = Idle]
    /\ UnchangedFiles /\ UNCHANGED <<flight, sent, work, restarts>>

Release(r) ==
    /\ actors[r].at = "serving"
    /\ IF actors[r].slot = "stream" THEN streamSlots' = streamSlots - 1 /\ UNCHANGED sharedSlots
       ELSE /\ sharedSlots' = IF sharedSlots > 0 THEN sharedSlots - 1 ELSE 0
            /\ UNCHANGED streamSlots
    /\ actors' = [actors EXCEPT ![r] = Idle]
    /\ UnchangedFiles /\ UNCHANGED <<flight, sent, work, restarts>>

-----------------------------------------------------------------------------
(* The original is downloaded meanwhile (ItemFile). *)
DownloadOriginal ==
    /\ original # "whole" /\ original' \in {"part", "whole"} \ {original}
    /\ UnchangedSlots /\ UNCHANGED <<kindVars, jpg, tmp, flight, actors, sent>>

RestartServer ==
    /\ restarts < MaxRestarts /\ restarts' = restarts + 1
    /\ flight' = None /\ actors' = [a \in Actors |-> Idle] /\ sharedSlots' = 0 /\ streamSlots' = 0
    /\ UnchangedFiles /\ UNCHANGED <<sent, work>>

ThumbNext ==
    \/ \E a \in Actors : LookJpg(a) \/ RemoveJpg(a) \/ Join(a) \/ Leave(a) \/ Ends(a)
                         \/ BuildStart(a) \/ BuildFill(a) \/ BuildFails(a) \/ BuildRename(a)
    \/ \E r \in Requests : Thumb(r) \/ Preview(r) \/ OpenJpg(r) \/ ThumbLocal(r) \/ ThumbAgain(r)
                           \/ ThumbRemote(r) \/ PreviewLocal(r) \/ PreviewRemote(r) \/ Serve(r)
                           \/ Stream(r) \/ AcquireTGStream(r) \/ StreamWait(r) \/ Release(r)
    \/ \E b \in Builders : CoverJob(b)
    \/ DownloadOriginal \/ RestartServer

ThumbSpec == ThumbInit /\ [][ThumbNext]_thumbVars
-----------------------------------------------------------------------------
TypeOK ==
    /\ jpg \in {"none", "valid", "bad", "torn"} /\ flight \in Actors \cup {None}
    /\ original \in {"none", "part", "whole"} /\ sharedSlots \in Nat /\ streamSlots \in Nat
    /\ \A a \in Actors : actors[a].slot = "none" => actors[a].at # "serving"

(* A thumbnail that is sent, and may be kept by the browser for ever, is a file *)
(* one builder wrote from its beginning to its end, whatever builders gave up,  *)
(* restarts left files behind and requests came in while it was built.          *)
SentIsWhole == "torn" \notin sent

(* A slot is taken as long as something is served in it, and no longer: playing *)
(* a video never shares the reserved one, and none is lost or counted twice.    *)
SlotsAreHeld ==
    LET holders(slot) == {r \in Requests : actors[r].at = "serving" /\ actors[r].slot = slot} IN
    /\ sharedSlots = Cardinality(holders("shared")) /\ sharedSlots <= SharedLimit
    /\ streamSlots = Cardinality(holders("stream")) /\ streamSlots <= 1
=============================================================================
