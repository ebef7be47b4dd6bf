-------------------------- MODULE DownloadReimport --------------------------
(***************************************************************************)
(* The download scheduler while the user imports again                     *)
(* (POST /api/import, app/web/handlers.go): resetImportState replaces the  *)
(* items and the maps of the running downloads, but neither the queues nor *)
(* s.cancels, and it does not wait for the running goroutines.             *)
(***************************************************************************)
EXTENDS DownloadScheduler

\* Mutation: the slots are forgotten with the downloads that hold them.
ResetImportState_ClearsSlots ==
    /\ items' = {}
    /\ completed' = {}
    /\ manualPaused' = {}
    /\ downloading' = {}
    /\ dlPriority' = {}
    /\ preempted' = {}
    /\ dlActive' = 0
    /\ dlActivePri' = 0
    /\ UNCHANGED <<cancels, queueVars, coverBandwidthHold, dlWake, sched, slot,
                   worker, client, cover>>

\* Mutation: the queues are emptied and dlPending is not.
ResetImportState_KeepsPending ==
    /\ items' = {}
    /\ completed' = {}
    /\ manualPaused' = {}
    /\ downloading' = {}
    /\ dlPriority' = {}
    /\ preempted' = {}
    /\ dlQueue' = <<>>
    /\ dlPriQueue' = <<>>
    /\ UNCHANGED <<cancels, dlPending, slotVars, dlWake, sched, slot, worker,
                   client, cover>>

\* resetImportState
ResetImportState ==
    /\ items' = {}
    /\ completed' = {}
    /\ manualPaused' = {}
    /\ downloading' = {}
    /\ dlPriority' = {}
    /\ preempted' = {}
    /\ UNCHANGED <<cancels, queueVars, slotVars, dlWake, sched, slot, worker,
                   client, cover>>

ReimportNext == Next \/ ResetImportState

ReimportSpec == Init /\ [][ReimportNext]_vars
=============================================================================
