------------------------ MODULE MCDownloadScheduler ------------------------
(* Small instances of DownloadScheduler.                                   *)
EXTENDS DownloadScheduler, TLC

\* the goroutines and the ids are interchangeable
Symmetry == Permutations(Ids) \cup Permutations(Clients)
            \cup Permutations(SlotRuns) \cup Permutations(Workers)
            \cup Permutations(CoverJobs)
=============================================================================
