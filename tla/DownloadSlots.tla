--------------------------- MODULE DownloadSlots ---------------------------
(***************************************************************************)
(* What the download scheduler promises, without queues, locks or          *)
(* goroutines: at most Limit items are downloaded at once, each by one     *)
(* download (downloadLimit and startDownload of app/web/download.go).      *)
(***************************************************************************)
EXTENDS Naturals, FiniteSets

CONSTANTS Ids, Limit

VARIABLE running  \* the items being downloaded

Init == running = {}

Start(id) ==
    /\ id \notin running
    /\ Cardinality(running) < Limit
    /\ running' = running \cup {id}

Stop(id) ==
    /\ id \in running
    /\ running' = running \ {id}

Next == \E id \in Ids : Start(id) \/ Stop(id)

Spec == Init /\ [][Next]_running
=============================================================================
