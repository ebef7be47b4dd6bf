------------------------- MODULE MCDownloadCommand -------------------------
(* Small instances of DownloadCommand: four messages in two dialogs, one of    *)
(* them the first of an album of two.                                          *)
EXTENDS DownloadCommand, TLC

CONSTANTS a1, a2, b, c

TwoDialogs == << <<a1, b>>, <<c>> >>
NoAlbum == [m \in Msgs |-> <<>>]
OneAlbum == [m \in Msgs |-> IF m \in {a1, a2} THEN <<a1, a2>> ELSE <<>>]

\* The instances meet the conditions of the theorems in DownloadCommandProofs.
ASSUME InstancesAreCovered == DeletableAlone /\ DistinctFiles /\ NoEmptyDialog

AllMsgs == {a1, a2, b, c}
Symmetric == Permutations(Workers)
=============================================================================
