------------------------------ MODULE MCOtaTask ------------------------------
(***************************************************************************)
(* The durations keep the order of the real ones: PENDING_OTA_RETRY (10 s) *)
(* before OTA_CHECK_INTERVAL = OTA_BACKOFF_MIN = RECOVERY_OTA_INTERVAL     *)
(* (60 s) before OTA_BACKOFF_MAX = REJECTED_RETRY_DELAY =                  *)
(* RECOVERY_NORMAL_RETRY (600 s).  REBOOT_AFTER (2 s) lasts long enough    *)
(* for several rounds of the loop (250 ms).                                *)
(***************************************************************************)
EXTENDS OtaTask
=============================================================================
