---------------------------- MODULE RangeTransfer ----------------------------
(* Parts of a file on their way to a player, to a .tmp or to the file a poster *)
(* is made of (app/web/handlers.go, poster.go, download.go): which range is    *)
(* asked for, and the writers that keep it of the pieces the streamer brings.  *)
(* A unit stands for 64 KB or so; a unit of the file is known by its number.   *)
EXTENDS Integers, Sequences, SequencesExt, FiniteSets

CONSTANTS
    Sizes,       \* sizes of the file
    Chunk,       \* streamChunkMaxBytes
    Align,       \* what a request's offset is a multiple of: 1 KB
    Part,        \* the largest piece that arrives at once
    MinLocal, PrefixMax, RemoteMax,  \* posterMinLocalBytes, posterPrefixMaxBytes, remotePosterMaxBytes
    Asks         \* ranges a player asks for: [first, last], to the end for last = 0

VARIABLES
    size, have,  \* units of the file, of them in the .tmp
    job,         \* "player", "tmp", "resume" or "poster"
    steps,       \* ranges still to be transferred, one after the other
    stream,      \* what of the current one: [next, place, skip, remain]
    out,         \* what is written, of the current file: place -> unit
    wanted,      \* the places to be written
    fetched,     \* units written for the poster, all attempts together
    at           \* "begin", "send", "done" or "refused"

transferVars == <<size, have, job, steps, stream, out, wanted, fetched, at>>

Smaller(a, b) == IF a < b THEN a ELSE b
AlignDown(n) == n - (n % Align)
Idle == [next |-> 0, place |-> 0, skip |-> 0, remain |-> 0]

Containers == {"mp4", "streamable", "mov", "mpg", "avi", "other"}

TransferInit ==
    /\ size \in Sizes /\ have \in 0 .. size
    /\ job \in {"player", "tmp", "resume", "poster"}
    /\ steps = <<>> /\ stream = Idle /\ out = <<>> /\ wanted = {} /\ fetched = 0 /\ at = "begin"

-----------------------------------------------------------------------------
\* Mutation: the length is cut, the end of the file left out of account.
BoundedStreamRange_Long(ask) ==
    [ok |-> ask.first < size, start |-> ask.first,
     length |-> Smaller((IF ask.last = 0 THEN size ELSE ask.last + 1) - ask.first, Chunk)]

(* boundedStreamRange: one range within the file, cut to a chunk *)
BoundedStreamRange(ask) ==
    LET last == IF ask.last = 0 THEN size - 1 ELSE Smaller(ask.last, size - 1) IN
    [ok |-> ask.first < size /\ ask.first <= last, start |-> ask.first,
     length |-> Smaller(last + 1 - ask.first, Chunk)]

(* boundedTmpRange: of that, what is there; else it comes from Telegram *)
BoundedTmpRange(ask) ==
    LET spec == BoundedStreamRange(ask) IN
    [spec EXCEPT !.ok = @ /\ spec.start < have, !.length = Smaller(@, have - spec.start)]

\* Mutation: as much as the budget allows, were it the whole file.
BoundedRemotePosterBytes_Whole(requested) == Smaller(Smaller(requested, RemoteMax), size)

BoundedRemotePosterBytes(requested) ==
    LET n == Smaller(requested, RemoteMax) IN IF n >= size THEN size \div 2 ELSE n

(* sparsePosterRanges: the length of the head and of the tail *)
SparseSpan(span) ==
    LET n == Smaller(span, RemoteMax \div 2) IN IF n * 2 >= size THEN size \div 4 ELSE n

FallbackSpan == (RemoteMax - PrefixMax) \div 2
Prefix(n) == [mode |-> "prefix", units |-> n]
Sparse(n) == [mode |-> "sparse", units |-> n]

(* remotePosterPlan: by the name or the MIME type *)
RemotePosterPlan(container) ==
    CASE container = "streamable" -> <<Prefix(PrefixMax), Sparse(FallbackSpan)>>
      [] container \in {"mp4", "mov"} -> <<Sparse(RemoteMax \div 2)>>
      [] container = "mpg" -> <<Prefix(RemoteMax \div 2)>>
      [] container = "avi" -> <<Prefix(RemoteMax)>>
      [] OTHER -> <<>>

(* What an attempt transfers to a file of its own; nothing when it is too small. *)
AttemptRanges(attempt) ==
    IF attempt.mode = "prefix"
    THEN LET n == BoundedRemotePosterBytes(attempt.units) IN
         IF n < MinLocal THEN <<>> ELSE <<[new |-> TRUE, start |-> 0, length |-> n]>>
    ELSE LET n == SparseSpan(attempt.units) IN
         IF n < MinLocal THEN <<>>
         ELSE <<[new |-> TRUE, start |-> 0, length |-> n],
                [new |-> FALSE, start |-> size - n, length |-> n]>>

AllRanges(plan) == FlattenSeq([i \in DOMAIN plan |-> AttemptRanges(plan[i])])

-----------------------------------------------------------------------------
Places(range) == range.start .. range.start + range.length - 1

\* Mutation: the place is not moved with what is skipped.
Opened_Shift(range) == [next |-> AlignDown(range.start), place |-> AlignDown(range.start),
                        skip |-> 0, remain |-> range.length]

(* downloadMediaRange, StreamAt: from an aligned offset, what is before is skipped *)
Opened(range) == [next |-> AlignDown(range.start), place |-> range.start,
                  skip |-> range.start - AlignDown(range.start), remain |-> range.length]

Starts(ranges) ==
    /\ at' = "send" /\ steps' = Tail(ranges) /\ stream' = Opened(Head(ranges))
    /\ wanted' = Places(Head(ranges)) /\ out' = <<>>
    /\ UNCHANGED <<size, have, job, fetched>>

Refuse == at' = "refused" /\ UNCHANGED <<size, have, job, steps, stream, out, wanted, fetched>>

\* serveTelegramStream or serveStreamFile, and serveTmpRange
PlayerAsks ==
    /\ at = "begin" /\ job \in {"player", "tmp"}
    /\ \E ask \in Asks :
          LET spec == IF job = "player" THEN BoundedStreamRange(ask) ELSE BoundedTmpRange(ask) IN
          IF spec.ok /\ spec.length > 0
          THEN Starts(<<[start |-> spec.start, length |-> spec.length]>>)
          ELSE Refuse

(* downloadItem goes on from an aligned offset *)
ResumeDownload ==
    /\ at = "begin" /\ job = "resume" /\ have < size
    /\ Starts(<<[start |-> AlignDown(have), length |-> size - AlignDown(have)]>>)

(* extractRemoteVideoPoster *)
ExtractPoster ==
    /\ at = "begin" /\ job = "poster"
    /\ \E container \in Containers :
          LET ranges == AllRanges(RemotePosterPlan(container)) IN
          IF ranges = <<>> THEN Refuse ELSE Starts(ranges)

(* A piece arrives: limitedStreamWriter, prefixLimitWriter, rangeFileWriter and *)
(* downloadProgressWriter drop what is skipped, and what is past the end.       *)
Write ==
    /\ at = "send" /\ stream.remain > 0 /\ stream.next < size
    /\ \E n \in 1 .. Smaller(Part, size - stream.next) :
          LET skipped == Smaller(n, stream.skip)
              kept == Smaller(n - skipped, stream.remain) IN
          /\ stream' = [next |-> stream.next + n, place |-> stream.place + kept,
                        skip |-> stream.skip - skipped, remain |-> stream.remain - kept]
          /\ out' = [p \in DOMAIN out \cup stream.place .. stream.place + kept - 1 |->
                        IF p \in DOMAIN out THEN out[p]
                        ELSE stream.next + skipped + (p - stream.place)]
          /\ fetched' = fetched + kept
    /\ UNCHANGED <<size, have, job, steps, wanted, at>>

(* The range is there: the tail after the head; another attempt when no frame *)
(* could be made of this one, which is removed; or the poster is made.        *)
NextRange ==
    /\ at = "send" /\ stream.remain = 0
    /\ \/ /\ steps # <<>>
          /\ stream' = Opened(Head(steps)) /\ steps' = Tail(steps)
          /\ IF Head(steps).new THEN out' = <<>> /\ wanted' = Places(Head(steps))
             ELSE wanted' = wanted \cup Places(Head(steps)) /\ UNCHANGED out
          /\ UNCHANGED at
       \/ /\ (steps # <<>> => Head(steps).new)
          /\ at' = "done" /\ UNCHANGED <<steps, stream, out, wanted>>
    /\ UNCHANGED <<size, have, job, fetched>>

TransferNext == PlayerAsks \/ ResumeDownload \/ ExtractPoster \/ Write \/ NextRange

TransferSpec == TransferInit /\ [][TransferNext]_transferVars
-----------------------------------------------------------------------------
TypeOK ==
    /\ at \in {"begin", "send", "done", "refused"}
    /\ stream \in [next : 0 .. size, place : 0 .. size, skip : 0 .. Align, remain : 0 .. size]
    /\ fetched \in Nat

(* What is written is what was asked for, each unit in its place, in whatever  *)
(* pieces it arrives: nothing is shifted by the alignment, lost at the limit   *)
(* of a piece, or read past the end of the file, and a range that is served    *)
(* is never empty.                                                             *)
TransferIsExact ==
    /\ wanted \subseteq 0 .. size - 1
    /\ \A p \in DOMAIN out : p \in wanted /\ out[p] = p
    /\ stream.remain = 0 /\ at \in {"send", "done"} => DOMAIN out = wanted
    /\ at = "done" /\ job # "resume" => wanted # {}

(* Making a poster never reads the whole file, and no more over all attempts    *)
(* than remotePosterMaxBytes (poster.go, extractRemoteVideoPoster).             *)
PosterIsCheap ==
    job = "poster" => Cardinality(DOMAIN out) < size /\ fetched <= RemoteMax
=============================================================================
