-------------------------- MODULE MCCoverScheduler --------------------------
(* A small instance of CoverScheduler: two items, one of them a video.         *)
EXTENDS CoverScheduler, TLC
=============================================================================
