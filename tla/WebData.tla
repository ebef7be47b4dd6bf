------------------------------- MODULE WebData -------------------------------
(* The data `tdl web` handles: the list that is imported, the pages of a chat,  *)
(* the file of an item, its thumbnail, and the ranges that are transferred.     *)
(* They share no state here, so in a behaviour one of them takes steps and the  *)
(* others stay where they begin.                                                *)
EXTENDS WebImport

CONSTANTS
    Turns,                                              \* which may take steps
    PageSize, Batch, Histories, MaxNew, ChatImports, Sources,   \* ChatPaging
    FileUnits, FileAlign, FileChunk, Downloads, Promoters, Players,
    MaxFiles, MaxBusy, MaxRestarts, MaxPlays,           \* ItemFile
    Requests, Builders, SharedLimit, MaxWork, ThumbRestarts,    \* ThumbCache
    Sizes, Chunk, Align, Part, MinLocal, PrefixMax, RemoteMax, Asks   \* RangeTransfer

VARIABLES
    turn,
    \* ChatPaging
    kind, source, split, posted, updates, active, shown, cursor, chatDone, loader, saved,
    takeout, known, live, cut, reimports,
    \* ItemFile
    disk, itemTmp, target, status, busy, threads, players, shared, stray, garbage, busyRenames,
    restarts, plays,
    \* ThumbCache
    type, thumb, original, jpg, thumbTmp, flight, actors, sharedSlots, streamSlots, sent,
    work, thumbRestarts,
    \* RangeTransfer
    size, have, job, steps, stream, out, wanted, fetched, at

Chat == INSTANCE ChatPaging WITH MaxImports <- ChatImports

Files == INSTANCE ItemFile WITH
    Size <- FileUnits, Align <- FileAlign, Chunk <- FileChunk, tmp <- itemTmp

Thumbs == INSTANCE ThumbCache WITH
    MaxRestarts <- ThumbRestarts, tmp <- thumbTmp, restarts <- thumbRestarts

Transfer == INSTANCE RangeTransfer

ASSUME TurnsAssumption == Turns \subseteq {"import", "chat", "file", "thumb", "transfer"}

\* Pages and batches hold messages, one of the histories is the longest, and None is
\* nothing that is known of sources or ranges.
ASSUME ChatAssumption ==
    /\ {PageSize, Batch} \subseteq Nat \ {0} /\ MaxNew \in Nat
    /\ Histories \subseteq Nat /\ \E m \in Histories : \A n \in Histories : n <= m
    /\ None \notin [Sources -> [cursor : Nat, done : BOOLEAN, pending : SUBSET Nat]]
    /\ None \notin [index : Nat, cursor : Nat]

\* Requests are no builders, and None is neither, nor what is known of a file.
ASSUME ThumbAssumption ==
    /\ Requests \cap Builders = {} /\ SharedLimit \in Nat
    /\ None \notin Requests \cup Builders
    /\ None \notin [by : Requests \cup Builders, full : BOOLEAN]

\* A file has at least one unit; it is cut and served in blocks of some.
ASSUME FileAssumption == {FileUnits, FileAlign, FileChunk} \subseteq Nat \ {0}

\* The size of a file is known, the limits are positive, and the prefix of a poster
\* is within its budget.
ASSUME TransferAssumption ==
    /\ Sizes \subseteq Nat \ {0} /\ Asks \subseteq [first : Nat, last : Nat]
    /\ {Chunk, Align, Part, MinLocal} \subseteq Nat \ {0}
    /\ PrefixMax \in Nat /\ RemoteMax \in Nat /\ PrefixMax <= RemoteMax

chatAll == <<kind, source, split, posted, updates, active, shown, cursor, chatDone, loader,
    saved, takeout, known, live, cut, reimports>>
fileAll == <<disk, itemTmp, target, status, busy, threads, players, shared, stray, garbage,
    busyRenames, restarts, plays>>
thumbAll == <<type, thumb, original, jpg, thumbTmp, flight, actors, sharedSlots, streamSlots,
    sent, work, thumbRestarts>>
transferAll == <<size, have, job, steps, stream, out, wanted, fetched, at>>
webVars == <<turn, importVars, chatAll, fileAll, thumbAll, transferAll>>

WebInit ==
    /\ turn \in Turns
    /\ ImportInit /\ Chat!ChatInit /\ Files!FileInit /\ Thumbs!ThumbInit /\ Transfer!TransferInit

WebNext ==
    /\ UNCHANGED turn
    /\ \/ /\ turn = "import" /\ ImportNext
          /\ UNCHANGED <<chatAll, fileAll, thumbAll, transferAll>>
       \/ /\ turn = "chat" /\ Chat!ChatNext
          /\ UNCHANGED <<importVars, fileAll, thumbAll, transferAll>>
       \/ /\ turn = "file" /\ Files!FileNext
          /\ UNCHANGED <<importVars, chatAll, thumbAll, transferAll>>
       \/ /\ turn = "thumb" /\ Thumbs!ThumbNext
          /\ UNCHANGED <<importVars, chatAll, fileAll, transferAll>>
       \/ /\ turn = "transfer" /\ Transfer!TransferNext
          /\ UNCHANGED <<importVars, chatAll, fileAll, thumbAll>>

WebSpec == WebInit /\ [][WebNext]_webVars
-----------------------------------------------------------------------------
(* The types of all of them. *)
WebTypeOK ==
    CASE turn = "import" -> TypeOK
      [] turn = "chat" -> Chat!TypeOK
      [] turn = "file" -> Files!TypeOK
      [] turn = "thumb" -> Thumbs!TypeOK
      [] turn = "transfer" -> Transfer!TypeOK

(* A chat without older messages shows each message once (chats.go). *)
HistoryComplete == turn = "chat" => Chat!HistoryComplete

(* Saved messages are shown newest first over all sources (saved.go). *)
SavedNewestFirst == turn = "chat" => Chat!SavedNewestFirst

(* A completed item has its whole file, and a player is sent only what was     *)
(* downloaded (download.go, handlers.go).                                      *)
FilesAreRight == turn = "file" => Files!CompletedIsWhole /\ Files!ServedWasWritten

(* The whole file of an item is not replaced by a worse one (download.go), but *)
(* by the two accidents that ItemFile calls shared and stray.                  *)
WholeStays == Files!WholeStays

(* A thumbnail that is sent is whole, and the connections to Telegram stay     *)
(* within the slots held for them (thumb_cache.go, handlers.go).               *)
ThumbsAreRight == turn = "thumb" => Thumbs!SentIsWhole /\ Thumbs!SlotsAreHeld

(* What is transferred is what was asked for, and a poster reads but a part of *)
(* the file (handlers.go, poster.go).                                          *)
TransfersAreRight == turn = "transfer" => Transfer!TransferIsExact /\ Transfer!PosterIsCheap
=============================================================================
