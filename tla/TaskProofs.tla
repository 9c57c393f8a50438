----------------------------- MODULE TaskProofs -----------------------------
(***************************************************************************)
(* Safety of the two tasks that share the network and of what shows them:  *)
(* the update checks (the first part, module OtaTask), for all durations   *)
(* and numbers of versions; the power meter (the second, module Power),    *)
(* for all sizes of the rings and the graph, all steps, timeouts and       *)
(* readings; and the places of the texts on the LCD (the third, Screen),   *)
(* for all texts of the assumed lengths.                                   *)
(***************************************************************************)
EXTENDS OtaTask, MCPower, FiniteSetTheorems, WellFoundedInduction, TLAPS

-----------------------------------------------------------------------------
(* The operations of OtaState: their types, and the parts they leave alone. *)

LEMMA LaterType ==
    ASSUME NEW o \in OtaStates
    PROVE  /\ Later(o) \in OtaStates
           /\ Later(o).phase.is = o.phase.is /\ Later(o).phase.v = o.phase.v
           /\ Later(o).checked = o.checked
           /\ Later(o).next_check = Sooner(o.next_check)
<1>1. \A t \in Time : Sooner(t) \in Time
  BY DEF Time, Sooner, Never
<1>2. /\ AtSooner(o.phase) \in OtaPhase
      /\ AtSooner(o.phase).is = o.phase.is /\ AtSooner(o.phase).v = o.phase.v
  BY <1>1 DEF OtaStates, OtaPhase, AtSooner
<1>3. AtSooner(o.rejected) \in [v : Version, at : Time]
  BY <1>1 DEF OtaStates, AtSooner
<1> QED  BY <1>1, <1>2, <1>3 DEF Later, OtaStates

LEMMA PhaseType ==
    ASSUME NEW k \in Kinds, NEW v \in Version, NEW t \in Time
    PROVE  /\ Phase(k, v, t) \in OtaPhase
           /\ Phase(k, v, t).is = k /\ Phase(k, v, t).v = v
  BY DEF Phase, OtaPhase

LEMMA FreshType == /\ Fresh \in OtaStates
                   /\ Fresh.phase.is = "Idle" /\ ~Fresh.checked
                   /\ Fresh.next_check = Never
  BY OtaStateAssumption DEF Fresh, OtaStates, OtaPhase, Phase, NotRejected,
     Kinds, Version, Time, Never

LEMMA ScheduledType ==
    ASSUME TypeOK
    PROVE  /\ Scheduled \in OtaStates
           /\ Scheduled.phase = ota.phase /\ Scheduled.checked = ota.checked
           /\ ota.checked => Scheduled.next_check \in {ota.next_check, 0}
           /\ ota_possible /\ ~reboot_requested
                /\ (OTA_NOW \/ ota.next_check = 0) => Scheduled.next_check = 0
<1> DEFINE first == IF NET_READY THEN schedule_first_check_in(ota) ELSE ota
<1>1. /\ first \in OtaStates
      /\ first.phase = ota.phase /\ first.checked = ota.checked
      /\ ota.checked => first.next_check = ota.next_check
      /\ ota.next_check = 0 => first.next_check = 0
  BY DEF TypeOK, OtaStates, schedule_first_check_in, Time
<1>2. /\ Asked(first) \in OtaStates
      /\ Asked(first).phase = first.phase /\ Asked(first).checked = first.checked
      /\ Asked(first).next_check \in {first.next_check, 0}
      /\ OTA_NOW /\ ~reboot_requested => Asked(first).next_check = 0
  <2> HIDE DEF first
  <2> QED  BY <1>1 DEF TypeOK, OtaStates, Asked, Time
<1>3. Scheduled = IF ~ota_possible THEN ota ELSE Asked(first)
  BY DEF Scheduled
<1> HIDE DEF first
<1> QED  BY <1>1, <1>2, <1>3 DEF TypeOK

LEMMA BegunType ==
    ASSUME TypeOK, NEW o, o \in OtaStates,
           NEW b, b = [begin_check(o) EXCEPT !.phase = Phase("Checking", 0, Never)]
    PROVE  b \in OtaStates /\ b.phase.is = "Checking" /\ b.checked
<1>1. begin_check(o) \in OtaStates /\ begin_check(o).checked
  BY DEF begin_check, OtaStates, Time
<1>2. /\ Phase("Checking", 0, Never) \in OtaPhase
      /\ Phase("Checking", 0, Never).is = "Checking"
  BY OtaStateAssumption, PhaseType DEF Kinds, Version, Time
<1> QED  BY <1>1, <1>2 DEF OtaStates

LEMMA AppliedType ==
    ASSUME NEW o \in OtaStates, NEW v \in Version,
           NEW k \in {"UpToDate", "Blocked", "NewerAvailable", "Rejected",
                      "Rebooting", "Failed"}
    PROVE  /\ apply(o, k, v) \in OtaStates
           /\ apply(o, k, v).phase.is = k
           /\ k \in {"Rejected", "Rebooting"} => apply(o, k, v).phase.v = v
           /\ apply(o, k, v).checked = o.checked
<1>1. /\ OTA_CHECK_INTERVAL \in Time /\ REBOOT_AFTER \in Time /\ Never \in Time
      /\ REJECTED_RETRY_DELAY \in Time
      /\ OTA_BACKOFF_MIN \in OTA_BACKOFF_MIN .. OTA_BACKOFF_MAX
      /\ o.backoff \in Time /\ 0 \in Version
  BY OtaStateAssumption DEF Time, Never, Version, OtaStates
<1>2. Least(2 * o.backoff, OTA_BACKOFF_MAX) \in OTA_BACKOFF_MIN .. OTA_BACKOFF_MAX
  BY OtaStateAssumption DEF OtaStates, Least
<1>3. RetryAt(o, v) \in Time
  BY <1>1 DEF RetryAt, OtaStates
<1>4. NotRejected \in [v : Version, at : Time]
  BY <1>1 DEF NotRejected
<1>5. CASE k = "Rejected"
  <2>1. apply(o, k, v) = AppliedRejected(o, v)
    BY <1>5 DEF apply
  <2>2. Phase("Rejected", v, RetryAt(o, v)) \in OtaPhase
        /\ Phase("Rejected", v, RetryAt(o, v)).is = "Rejected"
        /\ Phase("Rejected", v, RetryAt(o, v)).v = v
    BY <1>3, PhaseType DEF Kinds
  <2>3. [v |-> v, at |-> RetryAt(o, v)] \in [v : Version, at : Time]
    BY <1>3
  <2>4. AppliedRejected(o, v) \in OtaStates
    BY <1>1, <2>2, <2>3 DEF AppliedRejected, OtaStates
  <2>5. AppliedRejected(o, v).phase = Phase("Rejected", v, RetryAt(o, v))
        /\ AppliedRejected(o, v).checked = o.checked
    BY DEF AppliedRejected, OtaStates
  <2> QED  BY <1>5, <2>1, <2>2, <2>4, <2>5
<1>6. CASE k = "Rebooting"
  <2>1. apply(o, k, v) = AppliedRebooting(o, v)
    BY <1>6 DEF apply
  <2>2. Phase("Rebooting", v, REBOOT_AFTER) \in OtaPhase
        /\ Phase("Rebooting", v, REBOOT_AFTER).is = "Rebooting"
        /\ Phase("Rebooting", v, REBOOT_AFTER).v = v
    BY <1>1, PhaseType DEF Kinds
  <2> QED  BY <1>4, <1>6, <2>1, <2>2 DEF AppliedRebooting, OtaStates
<1>7. CASE k = "Failed"
  <2>1. apply(o, k, v) = AppliedError(o)
    BY <1>7 DEF apply
  <2>2. Phase("Failed", 0, o.backoff) \in OtaPhase
        /\ Phase("Failed", 0, o.backoff).is = "Failed"
    BY <1>1, PhaseType DEF Kinds
  <2> QED  BY <1>1, <1>2, <1>7, <2>1, <2>2 DEF AppliedError, OtaStates
<1>8. CASE k \in {"UpToDate", "Blocked", "NewerAvailable"}
  <2>1. apply(o, k, v) = AppliedOther(o, k, v)
    BY <1>8 DEF apply
  <2>2. Phase(k, v, Never) \in OtaPhase /\ Phase(k, v, Never).is = k
    BY <1>1, <1>8, PhaseType DEF Kinds
  <2> QED  BY <1>1, <1>4, <1>8, <2>1, <2>2 DEF AppliedOther, OtaStates
<1> QED  BY <1>5, <1>6, <1>7, <1>8

LEMMA RescheduledType ==
    ASSUME TypeOK, NEW o \in OtaStates, NEW proved \in BOOLEAN
    PROVE  /\ Rescheduled(o, proved) \in OtaStates
           /\ Rescheduled(o, proved).phase = o.phase
           /\ Rescheduled(o, proved).checked = o.checked
           /\ mode = "recovery" =>
                Rescheduled(o, proved).next_check \in 0 .. RECOVERY_OTA_INTERVAL
<1>1. PENDING_OTA_RETRY \in Time /\ RECOVERY_OTA_INTERVAL \in Time
  BY OtaTaskAssumption DEF Time
<1>2. CASE mode = "recovery" /\ o.next_check = Never
  BY <1>1, <1>2, OtaTaskAssumption DEF Rescheduled, OtaStates
<1>3. CASE mode = "recovery" /\ o.next_check # Never
  <2>1. Least(o.next_check, RECOVERY_OTA_INTERVAL) \in 0 .. RECOVERY_OTA_INTERVAL
    BY <1>3, OtaTaskAssumption DEF Least, OtaStates, Time
  <2>2. Least(o.next_check, RECOVERY_OTA_INTERVAL) \in Time
    BY <2>1, OtaTaskAssumption DEF Time
  <2>3. Rescheduled(o, proved) =
          [o EXCEPT !.next_check = Least(@, RECOVERY_OTA_INTERVAL)]
    BY <1>3 DEF Rescheduled
  <2> QED  BY <1>3, <2>1, <2>2, <2>3 DEF OtaStates
<1>4. CASE mode = "normal"
  BY <1>1, <1>4 DEF Rescheduled, OtaStates
<1> QED  BY <1>2, <1>3, <1>4 DEF TypeOK

LEMMA EndedType ==
    ASSUME TypeOK, NEW v \in Version, NEW proved \in BOOLEAN,
           NEW k \in {"UpToDate", "Blocked", "NewerAvailable", "Rejected",
                      "Rebooting", "Failed"},
           ota' = Rescheduled(apply(ota, k, v), proved)
    PROVE  /\ ota' \in OtaStates
           /\ ota'.phase.is = k
           /\ k \in {"Rejected", "Rebooting"} => ota'.phase.v = v
           /\ mode = "recovery" => ota'.next_check \in 0 .. RECOVERY_OTA_INTERVAL
<1>1. ota \in OtaStates
  BY DEF TypeOK
<1>2. apply(ota, k, v) \in OtaStates
  BY <1>1, AppliedType
<1>3. apply(ota, k, v).phase.is = k
  BY ZenonT(40), <1>1, AppliedType
<1>4. k \in {"Rejected", "Rebooting"} => apply(ota, k, v).phase.v = v
  BY ZenonT(40), <1>1, AppliedType
<1>5. PICK a \in OtaStates : a = apply(ota, k, v)
  BY <1>2
<1>6. /\ Rescheduled(a, proved) \in OtaStates
      /\ Rescheduled(a, proved).phase = a.phase
      /\ mode = "recovery" =>
           Rescheduled(a, proved).next_check \in 0 .. RECOVERY_OTA_INTERVAL
  BY RescheduledType
<1> QED  BY <1>3, <1>4, <1>5, <1>6

LEMMA ZeroIsSoon == 0 \in 0 .. RECOVERY_OTA_INTERVAL
  BY OtaTaskAssumption

-----------------------------------------------------------------------------
(* The invariant.                                                          *)

(* What a check that is running has established when it began.             *)
CheckRuns ==
    /\ pc = "manifest" => /\ ota_possible /\ ~reboot_requested
                          /\ check_only \/ DOWNLOAD_OK
                          /\ ota.phase.is = "Checking" /\ ota.checked
    /\ pc = "download" => /\ ota_possible /\ ~reboot_requested
                          /\ ~check_only /\ DOWNLOAD_OK
                          /\ ota.phase.is = "Downloading" /\ ota.checked
                          /\ want > BlockedUpTo

(* A version that is bought and has not checked since: what is running is  *)
(* a check of the trial, and the next round will begin another one.        *)
OwedIsAsked ==
    owed => /\ ota_possible /\ DOWNLOAD_OK /\ ~reboot_requested
            /\ ota.phase.is \notin {"Rebooting", "Rejected"}
            /\ pc \notin {"download", "rebooted"}
            /\ pc = "manifest" => check_only
            /\ OTA_NOW \/ (pc # "manifest" /\ ota.next_check = 0)

ProvedIsPossible == OTA_PROVED => ota_possible

ModeFits == /\ mode = "recovery" => pc # "other work"
            /\ reboot_requested => pc \notin {"manifest", "download", "other work"}

IInv == /\ TypeOK /\ RebootsIntoWhole /\ RecoveryChecksOften
        /\ CheckRuns /\ OwedIsAsked /\ ProvedIsPossible /\ ModeFits

LEMMA IInit == Init => IInv
<1> SUFFICES ASSUME Init PROVE IInv
  OBVIOUS
<1>1. 0 \in Version /\ Never \in Time /\ RECOVERY_NORMAL_RETRY \in Time
  BY OtaStateAssumption, OtaTaskAssumption DEF Version, Time
<1>2. TypeOK
  BY <1>1, FreshType DEF Init, TypeOK
<1> QED
  BY <1>2, FreshType DEF Init, IInv, RebootsIntoWhole, RecoveryChecksOften, CheckRuns,
     OwedIsAsked, ProvedIsPossible, ModeFits

(* The end of a check, whatever it found.                                  *)
LEMMA EndKeeps ==
    ASSUME IInv,
           NEW k \in {"UpToDate", "Blocked", "NewerAvailable", "Rejected",
                      "Rebooting", "Failed"},
           NEW v \in Version, NEW proved \in BOOLEAN,
           pc \in {"manifest", "download"}, CheckEnds(k, v, proved),
           slot' \in Version,
           k \in {"Rejected", "Rebooting"} =>
              v > BlockedUpTo /\ slot' = v /\ ~check_only
    PROVE  IInv'
<1>1. /\ ota' \in OtaStates
      /\ ota'.phase.is = k
      /\ k \in {"Rejected", "Rebooting"} => ota'.phase.v = v
      /\ mode = "recovery" => ota'.next_check \in 0 .. RECOVERY_OTA_INTERVAL
  BY EndedType DEF IInv, CheckEnds
<1> USE DEF IInv, CheckEnds, boot, check
<1>2. normal_retry_at' \in Time
  BY OtaTaskAssumption DEF NormalRetryAt, TypeOK, Time
<1>3. TypeOK'
  BY <1>1, <1>2 DEF TypeOK
<1>4. ~reboot_requested /\ ota_possible /\ (check_only \/ DOWNLOAD_OK)
  BY DEF CheckRuns
<1>5. RebootsIntoWhole'
  BY <1>1, <1>4 DEF RebootsIntoWhole
<1>6. RecoveryChecksOften'
  BY <1>1 DEF RecoveryChecksOften
<1>7. OwedIsAsked'
  BY <1>1, <1>4 DEF OwedIsAsked
<1>8. (CheckRuns /\ ProvedIsPossible /\ ModeFits)'
  BY <1>4 DEF CheckRuns, ProvedIsPossible, ModeFits
<1> QED  BY <1>3, <1>5, <1>6, <1>7, <1>8

LEMMA BootedKeeps ==
    ASSUME IInv, NEW m \in {"normal", "recovery"}, Booted(m),
           UNCHANGED <<ota_possible, world>>
    PROVE  IInv'
<1> USE DEF IInv, Booted, world
<1>1. 0 \in Version /\ Never \in Time /\ RECOVERY_NORMAL_RETRY \in Time
  BY OtaStateAssumption, OtaTaskAssumption DEF Version, Time
<1>2. TypeOK'
  BY <1>1, FreshType DEF TypeOK
<1> QED
  BY <1>2, FreshType DEF RebootsIntoWhole, RecoveryChecksOften, CheckRuns,
     OwedIsAsked, ProvedIsPossible, ModeFits

(* A round that begins no check.                                           *)
LEMMA NoCheckKeeps ==
    ASSUME IInv, pc = "top", ~CheckIsDue, ota' = Scheduled, OTA_NOW' = FALSE,
           pc' \in {"other work", "bottom"},
           pc' = "other work" => mode = "normal" /\ ~reboot_requested,
           UNCHANGED <<boot, check, reboot_requested, normal_retry_at,
                       NET_READY, DOWNLOAD_OK, OTA_PROVED, world, owed>>
    PROVE  IInv'
<1> USE DEF IInv, boot, check, world
<1>1. /\ ota' \in OtaStates
      /\ ota'.phase = ota.phase /\ ota'.checked = ota.checked
      /\ ota.checked => ota'.next_check \in {ota.next_check, 0}
      /\ ota_possible /\ ~reboot_requested /\ (OTA_NOW \/ ota.next_check = 0)
            => ota'.next_check = 0
  BY ScheduledType
<1>2. TypeOK'
  BY <1>1 DEF TypeOK, Awaiting
<1>3. RebootsIntoWhole'
  BY <1>1 DEF RebootsIntoWhole
<1>4. RecoveryChecksOften'
  <2> SUFFICES ASSUME mode = "recovery", ota'.checked
               PROVE  ota'.next_check \in 0 .. RECOVERY_OTA_INTERVAL
    BY DEF RecoveryChecksOften
  <2>1. ota.checked /\ ota'.next_check \in {ota.next_check, 0}
    BY <1>1
  <2>2. ota.next_check \in 0 .. RECOVERY_OTA_INTERVAL
    BY <2>1 DEF RecoveryChecksOften
  <2> QED  BY <2>1, <2>2, ZeroIsSoon
<1>5. OwedIsAsked'
  <2> SUFFICES ASSUME owed PROVE OwedIsAsked'
    BY DEF OwedIsAsked
  <2>1. /\ ota_possible /\ DOWNLOAD_OK /\ ~reboot_requested
        /\ ota.phase.is \notin {"Rebooting", "Rejected"}
        /\ OTA_NOW \/ ota.next_check = 0
    BY DEF OwedIsAsked
  <2>2. ota'.next_check = 0 /\ ota'.phase = ota.phase
    BY <1>1, <2>1
  <2> QED  BY <2>1, <2>2 DEF OwedIsAsked
<1>6. (CheckRuns /\ ProvedIsPossible /\ ModeFits)'
  BY DEF CheckRuns, ProvedIsPossible, ModeFits
<1> QED  BY <1>2, <1>3, <1>4, <1>5, <1>6

LEMMA INext == IInv /\ [Next]_vars => IInv'
<1> SUFFICES ASSUME IInv, [Next]_vars PROVE IInv'
  OBVIOUS
<1> USE DEF IInv
<1>1. ASSUME BeginCheck PROVE IInv'
  <2>1. Scheduled \in OtaStates /\ Scheduled.phase = ota.phase
    BY ScheduledType
  <2>2. ota' \in OtaStates /\ ota'.phase.is = "Checking" /\ ota'.checked
    BY <1>1, <2>1, BegunType DEF BeginCheck
  <2>3. TypeOK'
    BY <1>1, <2>2 DEF BeginCheck, TypeOK, boot, world, Awaiting
  <2>4. (RebootsIntoWhole /\ RecoveryChecksOften /\ ProvedIsPossible /\ ModeFits)'
    BY <1>1, <2>2 DEF BeginCheck, CheckIsDue, RebootsIntoWhole, RecoveryChecksOften,
       ProvedIsPossible, ModeFits, boot, world
  <2>5. CheckRuns'
    BY <1>1, <2>2 DEF BeginCheck, CheckIsDue, CheckRuns, TypeOK, boot, world
  <2>6. OwedIsAsked'
    BY <1>1 DEF BeginCheck, OwedIsAsked
  <2> QED  BY <2>3, <2>4, <2>5, <2>6
<1>2. ASSUME BeginOtherWork PROVE IInv'
  BY <1>2, NoCheckKeeps DEF BeginOtherWork
<1>3. ASSUME Nothing PROVE IInv'
  BY <1>3, NoCheckKeeps DEF Nothing
<1>4. ASSUME CheckNow PROVE IInv'
  BY <1>4 DEF CheckNow, TypeOK, RebootsIntoWhole, RecoveryChecksOften, CheckRuns,
     OwedIsAsked, ProvedIsPossible, ModeFits, boot, check, world
<1>5. ASSUME OtherWorkDone \/ EndOfRound \/ Wake PROVE IInv'
  <2>1. TypeOK'
    BY <1>5 DEF OtherWorkDone, EndOfRound, Wake, TypeOK, Awaiting, boot, check, flags, world
  <2>a. UNCHANGED <<mode, ota_possible, ota, check_only, want, reboot_requested,
                    NET_READY, DOWNLOAD_OK, OTA_NOW, OTA_PROVED, published, slot, owed>>
    BY <1>5 DEF OtherWorkDone, EndOfRound, Wake, boot, check, flags, world
  <2>b. pc \notin {"manifest", "download"} /\ pc' \in {"bottom", "wait", "top"}
    BY <1>5 DEF OtherWorkDone, EndOfRound, Wake
  <2>2. RebootsIntoWhole' /\ ProvedIsPossible'
    BY <2>a DEF RebootsIntoWhole, ProvedIsPossible
  <2>3. RecoveryChecksOften' /\ ModeFits'
    BY <1>5 DEF OtherWorkDone, EndOfRound, Wake, RecoveryChecksOften, ModeFits,
       boot, check, flags, world
  <2>4. CheckRuns' /\ OwedIsAsked'
    BY <2>a, <2>b DEF CheckRuns, OwedIsAsked
  <2> QED  BY <2>1, <2>2, <2>3, <2>4
<1>51. ASSUME RequestReboot \/ RecoveryReboot \/ MainReboots PROVE IInv'
  <2>1. /\ ota.phase.is \in {"Rebooting", "Rejected"} \/ reboot_requested
        /\ UNCHANGED <<mode, ota_possible, ota, check_only, want, normal_retry_at,
                       NET_READY, DOWNLOAD_OK, OTA_NOW, OTA_PROVED, published, slot, owed>>
    BY <1>51 DEF RequestReboot, RecoveryReboot, MainReboots, reboot_due, boot, check,
       flags, world
  <2>2. /\ reboot_requested' \in BOOLEAN
        /\ pc' \in {"wait", "rebooted"} /\ (mode = "recovery" => pc' = "rebooted")
    BY <1>51, <2>1 DEF RequestReboot, RecoveryReboot, MainReboots, TypeOK, CheckRuns, ModeFits
  <2>3. TypeOK' /\ RebootsIntoWhole'
    BY <2>1, <2>2 DEF TypeOK, RebootsIntoWhole, Awaiting
  <2>4. ~owed
    BY <2>1 DEF OwedIsAsked
  <2> QED
    BY <2>1, <2>2, <2>3, <2>4 DEF RecoveryChecksOften, CheckRuns, OwedIsAsked,
       ProvedIsPossible, ModeFits
<1>6. ASSUME RetryNormalMode \/ RolledBack PROVE IInv'
  BY <1>6, BootedKeeps DEF RetryNormalMode, RolledBack
<1>7. ASSUME NEW proved \in BOOLEAN, ManifestFails(proved) PROVE IInv'
  <2>1. 0 \in Version
    BY OtaStateAssumption DEF Version
  <2> QED  BY <1>7, <2>1, EndKeeps DEF ManifestFails, TypeOK
<1>8. ASSUME NEW kind \in {"UpToDate", "Blocked", "NewerAvailable", "Rejected"},
             NothingToFetch(kind)
      PROVE  IInv'
  <2>1. kind = "Rejected" => published > BlockedUpTo /\ slot = published /\ ~check_only
    BY <1>8, OtaStateAssumption DEF NothingToFetch, Found, TypeOK, Version
  <2>2. kind # "Rebooting"
    BY <1>8
  <2> QED  BY <1>8, <2>1, <2>2, EndKeeps DEF NothingToFetch, TypeOK
<1>9. ASSUME BeginDownload PROVE IInv'
  <2>1. published > BlockedUpTo /\ ~check_only
    BY <1>9, OtaStateAssumption DEF BeginDownload, Found, TypeOK, Version
  <2>2. 0 \in Version /\ Never \in Time /\ "Downloading" \in Kinds
    BY OtaStateAssumption DEF Version, Time, Kinds
  <2>3. /\ ota' \in OtaStates /\ ota'.phase.is = "Downloading"
        /\ ota'.checked = ota.checked
    BY <1>9, <2>2, PhaseType DEF BeginDownload, TypeOK, OtaStates
  <2>4. TypeOK'
    BY <1>9, <2>2, <2>3 DEF BeginDownload, TypeOK, Awaiting, boot, flags
  <2>5. pc = "manifest" /\ ~reboot_requested /\ ota_possible /\ DOWNLOAD_OK /\ ota.checked
    BY <1>9, <2>1 DEF BeginDownload, CheckRuns
  <2>6. (RebootsIntoWhole /\ RecoveryChecksOften /\ ProvedIsPossible /\ ModeFits)'
    BY <1>9, <2>3, <2>5 DEF BeginDownload, RebootsIntoWhole, RecoveryChecksOften,
       ProvedIsPossible, ModeFits, boot, flags
  <2>7. CheckRuns'
    BY <1>9, <2>1, <2>3, <2>5 DEF BeginDownload, CheckRuns, boot, flags
  <2>8. OwedIsAsked'
    BY <1>9, <2>1, <2>5 DEF BeginDownload, OwedIsAsked, boot, flags
  <2> QED  BY <2>4, <2>6, <2>7, <2>8
<1>10. ASSUME DownloadFails PROVE IInv'
  <2>1. 0 \in Version
    BY OtaStateAssumption DEF Version
  <2> QED  BY <1>10, <2>1, EndKeeps DEF DownloadFails
<1>11. ASSUME DownloadVerified PROVE IInv'
  <2>1. want \in Version /\ want > BlockedUpTo /\ ~check_only
    BY <1>11 DEF DownloadVerified, TypeOK, CheckRuns
  <2> QED  BY <1>11, <2>1, EndKeeps DEF DownloadVerified
<1>12. ASSUME Buy PROVE IInv'
  <2>1. TypeOK'
    BY <1>12 DEF Buy, TypeOK, boot, check, world
  <2>2. ~reboot_requested /\ ota.phase.is \notin {"Rebooting", "Rejected"}
        /\ pc # "download" /\ (pc = "manifest" => check_only) /\ ota_possible
    BY <1>12 DEF Buy, RebootsIntoWhole, CheckRuns, ProvedIsPossible
  <2>3. (RebootsIntoWhole /\ RecoveryChecksOften /\ ProvedIsPossible /\ ModeFits)'
    BY <1>12 DEF Buy, RebootsIntoWhole, RecoveryChecksOften, ProvedIsPossible, ModeFits,
       boot, check, world
  <2>4. CheckRuns' /\ OwedIsAsked'
    BY <1>12, <2>2 DEF Buy, Awaiting, CheckRuns, OwedIsAsked, boot, check, world
  <2> QED  BY <2>1, <2>3, <2>4
<1>13. ASSUME Network \/ Publish PROVE IInv'
  <2>1. TypeOK'
    BY <1>13 DEF Network, Publish, TypeOK, boot, check, flags, world
  <2>2. (RebootsIntoWhole /\ RecoveryChecksOften /\ CheckRuns)'
    BY <1>13 DEF Network, Publish, RebootsIntoWhole, RecoveryChecksOften, CheckRuns,
       boot, check, flags, world
  <2>a. UNCHANGED <<mode, ota_possible, pc, ota, check_only, reboot_requested,
                    DOWNLOAD_OK, OTA_NOW, OTA_PROVED, owed>>
    BY <1>13 DEF Network, Publish, boot, check, flags
  <2>3. (OwedIsAsked /\ ProvedIsPossible /\ ModeFits)'
    BY <2>a DEF OwedIsAsked, ProvedIsPossible, ModeFits
  <2> QED  BY <2>1, <2>2, <2>3
<1>14. ASSUME Tick PROVE IInv'
  <2>1. /\ ota' \in OtaStates
        /\ ota'.phase.is = ota.phase.is /\ ota'.phase.v = ota.phase.v
        /\ ota'.checked = ota.checked
        /\ ota'.next_check = Sooner(ota.next_check)
    BY <1>14, LaterType DEF Tick, TypeOK
  <2>2. normal_retry_at' \in Time
    BY <1>14 DEF Tick, TypeOK, Sooner, Time, Never
  <2>3. TypeOK'
    BY <1>14, <2>1, <2>2 DEF Tick, TypeOK, Awaiting, boot, check, flags, world
  <2>4. (RebootsIntoWhole /\ ProvedIsPossible /\ ModeFits)'
    BY <1>14, <2>1 DEF Tick, Awaiting, RebootsIntoWhole, ProvedIsPossible, ModeFits,
       boot, check, flags, world
  <2>5. RecoveryChecksOften'
    <3>1. mode = "recovery" /\ pc' \in {"top", "bottom", "wait"} => pc' = pc
      BY <1>14 DEF Tick
    <3>2. ota.next_check \in 0 .. RECOVERY_OTA_INTERVAL =>
             Sooner(ota.next_check) \in 0 .. RECOVERY_OTA_INTERVAL
      BY OtaTaskAssumption DEF Sooner
    <3> QED  BY <1>14, <2>1, <3>1, <3>2 DEF Tick, RecoveryChecksOften, boot
  <2>6. CheckRuns'
    BY <1>14, <2>1 DEF Tick, CheckRuns, boot, check, flags
  <2>7. OwedIsAsked'
    BY <1>14, <2>1 DEF Tick, OwedIsAsked, Sooner, boot, check, flags
  <2> QED  BY <2>3, <2>4, <2>5, <2>6, <2>7
<1>15. ASSUME UNCHANGED vars PROVE IInv'
  BY ZenonT(40), <1>15 DEF vars, TypeOK, RebootsIntoWhole, RecoveryChecksOften, CheckRuns,
     OwedIsAsked, ProvedIsPossible, ModeFits
<1> QED
  BY <1>1, <1>2, <1>3, <1>4, <1>5, <1>51, <1>6, <1>7, <1>8, <1>9, <1>10, <1>11, <1>12, <1>13,
     <1>14, <1>15
  DEF Next, Round, Outcome, Main

THEOREM Invariance == Spec => []IInv
  BY IInit, INext, PTL DEF Spec

-----------------------------------------------------------------------------
(* The types of the OtaState and of what jobs_task and main share.         *)
THEOREM TypeOKHolds == Spec => []TypeOK
<1>1. IInv => TypeOK
  BY DEF IInv
<1> QED  BY Invariance, <1>1, PTL

(* A version that is announced for the reboot is whole in the other slot,  *)
(* newer than the blocked ones, and announced by a bought version only.    *)
THEOREM RebootsIntoWholeHolds == Spec => []RebootsIntoWhole
<1>1. IInv => RebootsIntoWhole
  BY DEF IInv
<1> QED  BY Invariance, <1>1, PTL

(* Recovery mode never waits longer than its interval for the next check.  *)
THEOREM RecoveryChecksOftenHolds == Spec => []RecoveryChecksOften
<1>1. IInv => RecoveryChecksOften
  BY DEF IInv
<1> QED  BY Invariance, <1>1, PTL

(* A check of a trial never writes the other slot, whenever the buy comes. *)
THEOREM TrialKeepsTheSlotHolds == Spec => TrialKeepsTheSlot
<1>1. IInv /\ [Next]_vars => [slot' # slot => DOWNLOAD_OK /\ ~check_only]_vars
  <2> SUFFICES ASSUME IInv, [Next]_vars, slot' # slot
               PROVE  DOWNLOAD_OK /\ ~check_only
    OBVIOUS
  <2>1. BeginDownload \/ DownloadFails \/ DownloadVerified
    BY DEF Next, Round, Outcome, Main, BeginCheck, BeginOtherWork, Nothing, CheckNow,
       OtherWorkDone, RequestReboot, RecoveryReboot, RetryNormalMode, EndOfRound, Wake,
       ManifestFails, NothingToFetch, Buy, MainReboots, Network, RolledBack, Publish,
       Tick, world, vars
  <2>2. CASE BeginDownload
    BY <2>2, OtaStateAssumption DEF BeginDownload, Found, IInv, CheckRuns, TypeOK, Version
  <2>3. CASE DownloadFails \/ DownloadVerified
    BY <2>3 DEF DownloadFails, DownloadVerified, IInv, CheckRuns
  <2> QED  BY <2>1, <2>2, <2>3
<1> QED  BY Invariance, <1>1, PTL DEF Spec, TrialKeepsTheSlot

(* The version that has bought itself begins a full check in the first     *)
(* round the network allows.                                               *)
THEOREM AfterBuyAtOnceHolds == Spec => AfterBuyAtOnce
<1> DEFINE A == owed /\ pc = "top" /\ NET_READY /\ pc' # "top" =>
                   pc' = "manifest" /\ ~check_only'
<1>1. IInv /\ [Next]_vars => [A]_vars
  <2> SUFFICES ASSUME IInv, [Next]_vars, owed, pc = "top", NET_READY, pc' # "top"
               PROVE  pc' = "manifest" /\ ~check_only'
    OBVIOUS
  <2>1. /\ ota_possible /\ DOWNLOAD_OK /\ ~reboot_requested
        /\ OTA_NOW \/ ota.next_check = 0
    BY DEF IInv, OwedIsAsked
  <2>2. Scheduled.next_check = 0
    BY <2>1, ScheduledType DEF IInv
  <2>3. CheckIsDue
    BY <2>1, <2>2 DEF CheckIsDue, is_due
  <2>4. BeginCheck
    BY <2>3 DEF Next, Round, Outcome, Main, BeginOtherWork, Nothing, CheckNow,
       OtherWorkDone, RequestReboot, RecoveryReboot, RetryNormalMode, EndOfRound, Wake,
       ManifestFails, NothingToFetch, BeginDownload, DownloadFails, DownloadVerified, Buy,
       MainReboots, Network, RolledBack, Publish, Tick, Awaiting, vars
  <2> QED  BY <2>1, <2>4 DEF BeginCheck
<1> QED  BY Invariance, <1>1, PTL DEF Spec, AfterBuyAtOnce

-----------------------------------------------------------------------------
(***************************************************************************)
(* The power meter.  First induction over the naturals, from the library's *)
(* theorem that they are well founded, and what it gives about sums.       *)
(***************************************************************************)
LEMMA SetInduction ==
  ASSUME NEW T, 0 \in T, \A n \in Nat : n \in T => n + 1 \in T
  PROVE  Nat \subseteq T
<1> DEFINE Out == Nat \ T
           Less == {mn \in Nat \X Nat : mn[1] < mn[2]}
<1>1. IsWellFoundedOn(Less, Nat)
  <2>1. Less = OpToRel(<, Nat)
    BY Zenon DEF OpToRel
  <2> QED
    BY Zenon, <2>1, NatLessThanWellFounded
<1>2. SUFFICES ASSUME Out # {} PROVE FALSE
  OBVIOUS
<1>3. PICK n \in Out : \A m \in Out : ~ (<<m, n>> \in Less)
  BY <1>1, <1>2, WFMin
<1>4. n # 0 /\ n \in Nat /\ n - 1 \in Nat
  OBVIOUS
<1>5. n - 1 \in T
  <2>1. <<n - 1, n>> \in Less
    BY <1>4
  <2> QED
    BY <1>3, <1>4, <2>1
<1> QED
  BY <1>4, <1>5

-----------------------------------------------------------------------------
(* Sums over finite sets: the library adds in the order of a CHOOSE.       *)
Any(s) == CHOOSE x \in s : TRUE
SumOf(f, s, g) == IF s = {} THEN 0 ELSE f[Any(s)] + g[s \ {Any(s)}]
Adds(f, S, g) == g = [s \in SUBSET S |-> SumOf(f, s, g)]

LEMMA AnyIs == ASSUME NEW s, s # {} PROVE Any(s) \in s
BY DEF Any

LEMMA WithoutAny ==
  ASSUME NEW s, IsFiniteSet(s), NEW x \in s
  PROVE  /\ IsFiniteSet(s \ {x}) /\ s \ {x} \subseteq s
         /\ Cardinality(s) \in Nat /\ Cardinality(s \ {x}) = Cardinality(s) - 1 /\ Cardinality(s) > 0
<1>1. /\ IsFiniteSet(s \ {x}) /\ Cardinality(s \ {x}) = Cardinality(s) - 1
  BY FS_RemoveElement
<1>2. Cardinality(s) \in Nat /\ Cardinality(s \ {x}) \in Nat
  BY <1>1, FS_CardinalityType
<1> QED
  BY <1>1, <1>2

LEMMA AddsExists ==
  ASSUME NEW f, NEW S, IsFiniteSet(S)
  PROVE  \E g : Adds(f, S, g)
<1> DEFINE Fewer(n) == {s \in SUBSET S : Cardinality(s) <= n}
           Good == {n \in Nat : \E g : g = [s \in Fewer(n) |-> SumOf(f, s, g)]}
<1>0. \A s \in SUBSET S : IsFiniteSet(s) /\ Cardinality(s) \in Nat /\ Cardinality(s) <= Cardinality(S)
  BY FS_Subset, FS_CardinalityType
<1>1. 0 \in Good
  <2>1. \A s \in Fewer(0) : s = {}
    BY <1>0, FS_EmptySet
  <2> DEFINE g == [s \in Fewer(0) |-> 0]
  <2>2. g = [s \in Fewer(0) |-> SumOf(f, s, g)]
    BY Zenon, <2>1 DEF SumOf
  <2> QED
    BY Zenon, <2>2
<1>2. \A n \in Nat : n \in Good => n + 1 \in Good
  <2> SUFFICES ASSUME NEW n \in Nat, n \in Good PROVE n + 1 \in Good
    OBVIOUS
  <2>1. PICK g : g = [s \in Fewer(n) |-> SumOf(f, s, g)]
    OBVIOUS
  <2> DEFINE h == [s \in Fewer(n + 1) |-> SumOf(f, s, g)]
  <2>2. \A s \in Fewer(n) : s \in Fewer(n + 1) /\ h[s] = g[s]
    BY <1>0, <2>1
  <2>3. ASSUME NEW s \in Fewer(n + 1) PROVE SumOf(f, s, g) = SumOf(f, s, h)
    <3>1. CASE s = {}
      BY <3>1 DEF SumOf
    <3>2. CASE s # {}
      <4>1. s \ {Any(s)} \in Fewer(n)
        BY <1>0, <3>2, AnyIs, WithoutAny
      <4>2. h[s \ {Any(s)}] = g[s \ {Any(s)}]
        BY Zenon, <2>2, <4>1
      <4> QED
        BY Zenon, <4>2 DEF SumOf
    <3> QED
      BY <3>1, <3>2
  <2>4. h = [s \in Fewer(n + 1) |-> SumOf(f, s, h)]
    BY Zenon, <2>3
  <2>5. \E k : k = [s \in Fewer(n + 1) |-> SumOf(f, s, k)]
    BY Zenon, <2>4
  <2>6. n + 1 \in Nat
    OBVIOUS
  <2> HIDE DEF h
  <2> QED
    BY Zenon, <2>5, <2>6
<1>3. Cardinality(S) \in Good
  <2>1. Nat \subseteq Good
    <3> HIDE DEF Good
    <3> QED
      BY <1>1, <1>2, SetInduction
  <2> QED
    BY <2>1, FS_CardinalityType
<1>4. Fewer(Cardinality(S)) = SUBSET S
  BY <1>0
<1> QED
  BY <1>3, <1>4 DEF Adds

LEMMA AddsOnce ==
  ASSUME NEW f, NEW S, NEW T \in SUBSET S, IsFiniteSet(S), NEW g, NEW h, Adds(f, S, g), Adds(f, T, h)
  PROVE  h[T] = g[T]
<1> DEFINE Good == {n \in Nat : \A s \in SUBSET T : Cardinality(s) <= n => h[s] = g[s]}
<1>0. \A s \in SUBSET T : IsFiniteSet(s) /\ Cardinality(s) \in Nat
  BY FS_Subset, FS_CardinalityType
<1>1. \A s \in SUBSET T : h[s] = SumOf(f, s, h) /\ g[s] = SumOf(f, s, g)
  <2>1. h = [s \in SUBSET T |-> SumOf(f, s, h)] /\ g = [s \in SUBSET S |-> SumOf(f, s, g)]
    BY Zenon DEF Adds
  <2>2. \A s \in SUBSET T : h[s] = SumOf(f, s, h)
    BY Zenon, <2>1
  <2>3. \A s \in SUBSET S : g[s] = SumOf(f, s, g)
    BY Zenon, <2>1
  <2> QED
    BY <2>2, <2>3
<1>2. 0 \in Good
  <2>1. \A s \in SUBSET T : Cardinality(s) <= 0 => s = {}
    BY <1>0, FS_EmptySet
  <2> QED
    BY <1>1, <2>1 DEF SumOf
<1>3. \A n \in Nat : n \in Good => n + 1 \in Good
  <2> SUFFICES ASSUME NEW n \in Nat, n \in Good, NEW s \in SUBSET T, Cardinality(s) <= n + 1
               PROVE  h[s] = g[s]
    OBVIOUS
  <2>1. CASE s = {}
    BY <1>1, <2>1 DEF SumOf
  <2>2. CASE s # {}
    <3>1. s \ {Any(s)} \in SUBSET T /\ Cardinality(s \ {Any(s)}) <= n
      BY <1>0, <2>2, AnyIs, WithoutAny
    <3>2. h[s \ {Any(s)}] = g[s \ {Any(s)}]
      BY <3>1
    <3> QED
      BY Zenon, <1>1, <3>2 DEF SumOf
  <2> QED
    BY <2>1, <2>2
<1>4. Cardinality(T) \in Good
  <2>1. Nat \subseteq Good
    <3> HIDE DEF Good
    <3> QED
      BY <1>2, <1>3, SetInduction
  <2> QED
    BY <1>0, <2>1
<1> QED
  BY <1>0, <1>4

LEMMA SumStep ==
  ASSUME NEW f, NEW S, IsFiniteSet(S)
  PROVE  SumFunctionOnSet(f, S) =
           IF S = {} THEN 0 ELSE f[Any(S)] + SumFunctionOnSet(f, S \ {Any(S)})
<1> DEFINE G(T) == CHOOSE g : Adds(f, T, g)
<1>1. ASSUME NEW T PROVE SumFunctionOnSet(f, T) = G(T)[T]
  BY DEF SumFunctionOnSet, FoldFunctionOnSet, MapThenFoldSet, Adds, SumOf, Any
<1>2. ASSUME NEW T, IsFiniteSet(T) PROVE Adds(f, T, G(T))
  BY <1>2, AddsExists, Zenon
<1> HIDE DEF G
<1>3. G(S)[S] = SumOf(f, S, G(S))
  <2>1. G(S) = [s \in SUBSET S |-> SumOf(f, s, G(S))]
    BY Zenon, <1>2 DEF Adds
  <2>2. S \in SUBSET S
    OBVIOUS
  <2> QED
    BY Zenon, <2>1, <2>2
<1>4. CASE S = {}
  BY Zenon, <1>1, <1>3, <1>4 DEF SumOf
<1>5. CASE S # {}
  <2> DEFINE T == S \ {Any(S)}
  <2>1. IsFiniteSet(T) /\ T \in SUBSET S
    BY <1>5, AnyIs, WithoutAny
  <2>2. G(T)[T] = G(S)[T]
    <3> HIDE DEF T
    <3> QED
      BY <1>2, <2>1, AddsOnce
  <2>3. G(S)[S] = f[Any(S)] + G(S)[T]
    BY Zenon, <1>3, <1>5 DEF SumOf
  <2> QED
    BY Zenon, <1>1, <1>5, <2>2, <2>3
<1> QED
  BY <1>4, <1>5

LEMMA SumAny ==
  ASSUME NEW f, NEW U, IsFiniteSet(U), \A u \in U : f[u] \in Int
  PROVE  /\ SumFunctionOnSet(f, U) \in Int
         /\ \A y \in U : SumFunctionOnSet(f, U) = f[y] + SumFunctionOnSet(f, U \ {y})
<1> DEFINE Sum(s) == SumFunctionOnSet(f, s)
           Fine(s) == Sum(s) \in Int /\ \A y \in s : Sum(s) = f[y] + Sum(s \ {y})
           Good == {n \in Nat : \A s \in SUBSET U : Cardinality(s) <= n => Fine(s)}
<1>0. \A s \in SUBSET U : IsFiniteSet(s) /\ Cardinality(s) \in Nat
  BY FS_Subset, FS_CardinalityType
<1>1. Sum({}) = 0
  BY FS_EmptySet, SumStep
<1>2. ASSUME NEW s \in SUBSET U, s # {}
      PROVE  Any(s) \in s /\ Sum(s) = f[Any(s)] + Sum(s \ {Any(s)})
  BY <1>0, <1>2, AnyIs, SumStep
<1> HIDE DEF Sum
<1>3. 0 \in Good
  <2>1. \A s \in SUBSET U : Cardinality(s) <= 0 => s = {}
    BY <1>0, FS_EmptySet
  <2>2. Fine({})
    BY <1>1
  <2> HIDE DEF Fine
  <2> QED
    BY <2>1, <2>2
<1>4. \A n \in Nat : n \in Good => n + 1 \in Good
  <2> SUFFICES ASSUME NEW n \in Nat, n \in Good, NEW s \in SUBSET U, Cardinality(s) <= n + 1
               PROVE  Fine(s)
    OBVIOUS
  <2>1. CASE s = {}
    BY <1>1, <2>1
  <2>2. CASE s # {}
    <3> DEFINE x == Any(s)
    <3>1. x \in s /\ Sum(s) = f[x] + Sum(s \ {x})
      BY <1>2, <2>2
    <3> HIDE DEF x
    <3>2. \A t \in SUBSET s : \A y \in s : y \notin t => Fine(t)
      <4> SUFFICES ASSUME NEW t \in SUBSET s, NEW y \in s, y \notin t PROVE Fine(t)
        OBVIOUS
      <4>1. t \subseteq s \ {y} /\ IsFiniteSet(s \ {y}) /\ Cardinality(s \ {y}) <= n
        BY <1>0, WithoutAny
      <4>2. Cardinality(t) <= Cardinality(s \ {y}) /\ Cardinality(t) \in Nat /\ Cardinality(s \ {y}) \in Nat
        BY <1>0, <4>1, FS_Subset, FS_CardinalityType
      <4>3. Cardinality(t) <= n
        BY <4>1, <4>2
      <4> QED
        BY <4>3
    <3>3. Sum(s) \in Int
      <4>1. Sum(s \ {x}) \in Int
        BY <3>1, <3>2
      <4> QED
        BY <3>1, <4>1
    <3>4. ASSUME NEW y \in s PROVE Sum(s) = f[y] + Sum(s \ {y})
      <4>1. CASE y = x
        BY <3>1, <4>1
      <4>2. CASE y # x
        <5> DEFINE r == (s \ {x}) \ {y}
        <5>1. r = (s \ {y}) \ {x}
          OBVIOUS
        <5>2. Sum(s \ {x}) = f[y] + Sum(r)
          BY <3>1, <3>2, <4>2
        <5>3. Sum(s \ {y}) = f[x] + Sum(r)
          <6>1. Fine(s \ {y}) /\ x \in s \ {y}
            BY <3>1, <3>2, <4>2
          <6> QED
            BY <5>1, <6>1
        <5>4. Sum(r) \in Int
          BY <3>1, <3>2
        <5> HIDE DEF r
        <5> QED
          BY <3>1, <5>2, <5>3, <5>4
      <4> QED
        BY <4>1, <4>2
    <3> QED
      BY <3>3, <3>4
  <2> QED
    BY <2>1, <2>2
<1>5. Cardinality(U) \in Good
  <2>1. Nat \subseteq Good
    <3> HIDE DEF Good
    <3> QED
      BY <1>3, <1>4, SetInduction
  <2> QED
    BY <1>0, <2>1
<1>6. Fine(U)
  BY <1>0, <1>5
<1> QED
  BY <1>6 DEF Sum

LEMMA SumAdd ==
  ASSUME NEW f, NEW S, IsFiniteSet(S), NEW x, x \notin S, \A u \in S \cup {x} : f[u] \in Int
  PROVE  SumFunctionOnSet(f, S \cup {x}) = SumFunctionOnSet(f, S) + f[x]
<1>1. IsFiniteSet(S \cup {x}) /\ (S \cup {x}) \ {x} = S
  BY FS_AddElement
<1>2. SumFunctionOnSet(f, S \cup {x}) = f[x] + SumFunctionOnSet(f, S)
  BY <1>1, SumAny
<1>3. SumFunctionOnSet(f, S) \in Int
  BY SumAny
<1> QED
  BY <1>2, <1>3

LEMMA SumSame ==
  ASSUME NEW f, NEW g, NEW U, IsFiniteSet(U), \A u \in U : f[u] = g[u]
  PROVE  SumFunctionOnSet(f, U) = SumFunctionOnSet(g, U)
<1> DEFINE Same(s) == SumFunctionOnSet(f, s) = SumFunctionOnSet(g, s)
           Good == {n \in Nat : \A s \in SUBSET U : Cardinality(s) <= n => Same(s)}
<1>0. \A s \in SUBSET U : IsFiniteSet(s) /\ Cardinality(s) \in Nat
  BY FS_Subset, FS_CardinalityType
<1>1. Same({})
  BY FS_EmptySet, SumStep
<1>2. ASSUME NEW s \in SUBSET U, s # {}, Same(s \ {Any(s)}) PROVE Same(s)
  <2>1. Any(s) \in s /\ f[Any(s)] = g[Any(s)] /\ IsFiniteSet(s)
    BY <1>0, <1>2, AnyIs
  <2>2. SumFunctionOnSet(f, s) = f[Any(s)] + SumFunctionOnSet(f, s \ {Any(s)})
    BY Zenon, <1>2, <2>1, SumStep
  <2>3. SumFunctionOnSet(g, s) = g[Any(s)] + SumFunctionOnSet(g, s \ {Any(s)})
    BY Zenon, <1>2, <2>1, SumStep
  <2> QED
    BY Zenon, <1>2, <2>1, <2>2, <2>3
<1> HIDE DEF Same
<1>3. 0 \in Good
  <2>1. \A s \in SUBSET U : Cardinality(s) <= 0 => s = {}
    BY <1>0, FS_EmptySet
  <2> QED
    BY <1>1, <2>1
<1>4. \A n \in Nat : n \in Good => n + 1 \in Good
  <2> SUFFICES ASSUME NEW n \in Nat, n \in Good, NEW s \in SUBSET U, Cardinality(s) <= n + 1
               PROVE  Same(s)
    OBVIOUS
  <2>1. CASE s = {}
    BY <1>1, <2>1
  <2>2. CASE s # {}
    <3>1. s \ {Any(s)} \in SUBSET U /\ Cardinality(s \ {Any(s)}) <= n
      BY <1>0, <2>2, AnyIs, WithoutAny
    <3> QED
      BY <1>2, <2>2, <3>1
  <2> QED
    BY <2>1, <2>2
<1>5. Cardinality(U) \in Good
  <2>1. Nat \subseteq Good
    <3> HIDE DEF Good
    <3> QED
      BY <1>3, <1>4, SetInduction
  <2> QED
    BY <1>0, <2>1
<1> QED
  BY <1>0, <1>5 DEF Same

(* A mean lies between two of the values it is of.                         *)
Between(v, V) == \E a, b \in V : a <= v /\ v <= b
SumBetween(n, sum, V) == \E a, b \in V : a * n <= sum /\ sum <= b * n

LEMMA OneMore ==
  ASSUME NEW V, V \subseteq Int, NEW n \in Nat, NEW sum \in Int, NEW v \in V,
         n = 0 => sum = 0, n > 0 => SumBetween(n, sum, V)
  PROVE  SumBetween(n + 1, sum + v, V)
<1>1. CASE n = 0
  <2>1. v * (n + 1) = v /\ sum + v = v
    BY <1>1
  <2> QED
    BY <2>1 DEF SumBetween
<1>2. CASE n > 0
  <2>1. PICK a \in V, b \in V : a * n <= sum /\ sum <= b * n
    BY <1>2 DEF SumBetween
  <2> DEFINE c == IF a <= v THEN a ELSE v
             d == IF b >= v THEN b ELSE v
  <2>2. c \in V /\ d \in V /\ c <= a /\ c <= v /\ d >= b /\ d >= v
    OBVIOUS
  <2> HIDE DEF c, d
  <2>3. c * n <= a * n /\ b * n <= d * n
    BY <2>2, SMTT(30)
  <2>4. c * (n + 1) = c * n + c /\ d * (n + 1) = d * n + d
    BY <2>2
  <2>5. a * n \in Int /\ b * n \in Int /\ c * n \in Int /\ d * n \in Int
    BY <2>2
  <2>6. c * (n + 1) <= sum + v /\ sum + v <= d * (n + 1)
    BY <2>1, <2>2, <2>3, <2>4, <2>5
  <2> QED
    BY <2>2, <2>6 DEF SumBetween
<1> QED
  BY <1>1, <1>2

LEMMA SumIsBetween ==
  ASSUME NEW V, V \subseteq Int, NEW f, NEW U, IsFiniteSet(U), U # {}, \A u \in U : f[u] \in V
  PROVE  SumBetween(Cardinality(U), SumFunctionOnSet(f, U), V)
<1> DEFINE Holding(s) == s # {} => SumBetween(Cardinality(s), SumFunctionOnSet(f, s), V)
           Good == {n \in Nat : \A s \in SUBSET U : Cardinality(s) <= n => Holding(s)}
<1>0. \A s \in SUBSET U : IsFiniteSet(s) /\ Cardinality(s) \in Nat
  BY FS_Subset, FS_CardinalityType
<1>1. Holding({})
  OBVIOUS
<1>2. ASSUME NEW s \in SUBSET U, s # {}, Holding(s \ {Any(s)}) PROVE Holding(s)
  <2> DEFINE r == s \ {Any(s)}
             sum == SumFunctionOnSet(f, r)
             n == Cardinality(r)
             v == f[Any(s)]
  <2>1. Any(s) \in s /\ v \in V /\ IsFiniteSet(s)
    BY <1>0, <1>2, AnyIs
  <2>2. SumFunctionOnSet(f, s) = v + sum
    BY Zenon, <1>2, <2>1, SumStep
  <2>3. IsFiniteSet(r) /\ n \in Nat /\ Cardinality(s) \in Nat /\ n = Cardinality(s) - 1
    BY <2>1, WithoutAny
  <2>4. sum \in Int
    <3>1. \A u \in r : f[u] \in Int
      OBVIOUS
    <3> HIDE DEF r
    <3> QED
      BY <2>3, <3>1, SumAny
  <2>5. n = 0 => sum = 0
    <3>1. n = 0 => r = {}
      BY <2>3, FS_EmptySet
    <3> QED
      BY <2>3, <3>1, SumStep
  <2>6. n > 0 => SumBetween(n, sum, V)
    <3>1. r = {} => n = 0
      BY FS_EmptySet
    <3> QED
      BY <1>2, <3>1
  <2> HIDE DEF v, n, sum, r
  <2>7. SumBetween(n + 1, sum + v, V)
    BY <2>1, <2>3, <2>4, <2>5, <2>6, OneMore
  <2>8. n + 1 = Cardinality(s) /\ sum + v = SumFunctionOnSet(f, s)
    BY <2>1, <2>2, <2>3, <2>4
  <2> QED
    BY <2>7, <2>8
<1> HIDE DEF Holding
<1>3. 0 \in Good
  <2>1. \A s \in SUBSET U : Cardinality(s) <= 0 => s = {}
    BY <1>0, FS_EmptySet
  <2> QED
    BY <1>1, <2>1
<1>4. \A n \in Nat : n \in Good => n + 1 \in Good
  <2> SUFFICES ASSUME NEW n \in Nat, n \in Good, NEW s \in SUBSET U, Cardinality(s) <= n + 1
               PROVE  Holding(s)
    OBVIOUS
  <2>1. CASE s = {}
    BY <1>1, <2>1
  <2>2. CASE s # {}
    <3>1. s \ {Any(s)} \in SUBSET U /\ Cardinality(s \ {Any(s)}) <= n
      BY <1>0, <2>2, AnyIs, WithoutAny
    <3> QED
      BY <1>2, <2>2, <3>1
  <2> QED
    BY <2>1, <2>2
<1>5. Cardinality(U) \in Good
  <2>1. Nat \subseteq Good
    <3> HIDE DEF Good
    <3> QED
      BY <1>3, <1>4, SetInduction
  <2> QED
    BY <1>0, <2>1
<1> QED
  BY <1>0, <1>5 DEF Holding

LEMMA LeastMean ==
  ASSUME NEW a \in Int, NEW n \in Nat \ {0}, NEW sum \in Int, a * n <= sum, sum >= 0
  PROVE  a <= sum \div n
BY SMTT(30)

LEMMA MostMean ==
  ASSUME NEW b \in Int, NEW n \in Nat \ {0}, NEW sum \in Int, sum <= b * n, sum >= 0
  PROVE  sum \div n \in Nat /\ sum \div n <= b
BY SMTT(30)

LEMMA QuotientBetween ==
  ASSUME NEW V, V \subseteq Int, NEW n \in Nat \ {0}, NEW sum \in Int, SumBetween(n, sum, V)
  PROVE  Quotient(sum, n) \in Int /\ Between(Quotient(sum, n), V)
<1>1. PICK a \in V, b \in V : a * n <= sum /\ sum <= b * n
  BY DEF SumBetween
<1>2. CASE sum >= 0
  <2>1. Quotient(sum, n) = sum \div n
    BY <1>2 DEF Quotient
  <2> QED
    BY <1>1, <1>2, <2>1, LeastMean, MostMean DEF Between
<1>3. CASE sum < 0
  <2> DEFINE m == -sum
             q == m \div n
  <2>1. Quotient(sum, n) = -q
    BY <1>3 DEF Quotient
  <2>2. (-b) * n = -(b * n) /\ (-a) * n = -(a * n) /\ a * n \in Int /\ b * n \in Int
    OBVIOUS
  <2>3. m \in Nat /\ (-b) * n <= m /\ m <= (-a) * n
    BY <1>1, <1>3, <2>2
  <2> HIDE DEF m
  <2>4. q \in Nat /\ -b <= q /\ q <= -a
    BY SMTT(30), <2>3, LeastMean, MostMean
  <2> QED
    BY <2>1, <2>4 DEF Between
<1> QED
  BY <1>2, <1>3

LEMMA Sizes ==
  /\ LONG_STEP \in Nat \ {0} /\ HISTORY_SLOTS \in Nat \ {0} /\ TREND_POINTS \in Nat \ {0}
  /\ READ_TIMEOUT \in Nat \ {0} /\ CLOCK \in Nat \ {0} /\ STALE \in Nat /\ LIMIT \in Nat /\ NOW_MAX \in Nat
  /\ UNSUPPORTED_ROUNDS \in Nat /\ READ_TIMEOUT <= LIMIT /\ READ_TIMEOUT + 1 < CLOCK
  /\ Values \subseteq Int /\ \A v \in Values : v > MISSING
  /\ \A name \in Rings : Step(name) \in Nat \ {0}
  /\ MISSING \in Int
BY PowerAssumption DEF Step, Rings, MISSING

LEMMA DivIs ==
  ASSUME NEW a \in Int, NEW s \in Nat \ {0}
  PROVE  a \div s \in Int /\ s * (a \div s) <= a /\ a < s * (a \div s) + s
BY SMTT(30)

LEMMA ModIs ==
  ASSUME NEW a \in Int, NEW s \in Nat \ {0}
  PROVE  a % s \in 0 .. s - 1 /\ a = s * (a \div s) + (a % s)
<1>1. a % s \in 0 .. s - 1
  OBVIOUS
<1>2. a % s = a - s * (a \div s)
  BY SMTT(30)
<1>3. a \div s \in Int /\ s * (a \div s) \in Int
  BY DivIs
<1> QED
  BY <1>1, <1>2, <1>3

LEMMA Rounds ==
  ASSUME NEW s \in Nat \ {0}, NEW p \in Int, NEW q \in Int, NEW n \in Int, q - p >= n
  PROVE  s * q >= s * p + s * n
<1>1. PICK d \in Nat : q = p + n + d
  <2>1. q - p - n \in Nat /\ q = p + n + (q - p - n)
    OBVIOUS
  <2> QED
    BY <2>1
<1>2. s * q = s * p + s * n + s * d /\ s * d \in Nat /\ s * p \in Int /\ s * n \in Int
  BY <1>1, SMTT(30)
<1> QED
  BY <1>2

LEMMA ModApart ==
  ASSUME NEW s \in Nat \ {0}, NEW c \in Int, NEW d \in Int, c < d, d - c < s
  PROVE  c % s # d % s
<1> SUFFICES ASSUME c % s = d % s PROVE FALSE
  OBVIOUS
<1> DEFINE p == c \div s
           q == d \div s
           r == c % s
<1>1. p \in Int /\ q \in Int /\ r \in Int /\ c = s * p + r /\ d = s * q + r
  BY DivIs, ModIs
<1> HIDE DEF p, q, r
<1>2. s * p \in Int /\ s * q \in Int
  BY <1>1
<1>3. s * p < s * q /\ s * q < s * p + s
  BY <1>1, <1>2
<1>4. CASE q <= p
  <2>1. s * p >= s * q + s * 0
    BY <1>1, <1>4, Rounds
  <2> QED
    BY <1>2, <1>3, <2>1
<1>5. CASE q - p >= 1
  <2>1. s * q >= s * p + s * 1
    BY <1>1, <1>5, Rounds
  <2> QED
    BY <1>2, <1>3, <2>1
<1> QED
  BY <1>1, <1>4, <1>5

LEMMA DivGrows ==
  ASSUME NEW s \in Nat \ {0}, NEW a \in Int, NEW b \in Int, a <= b
  PROVE  a \div s <= b \div s
<1> DEFINE p == a \div s
           q == b \div s
<1>1. p \in Int /\ q \in Int /\ s * p <= a /\ b < s * q + s
  BY DivIs
<1> HIDE DEF p, q
<1>2. CASE p - q >= 1
  <2>1. s * p >= s * q + s * 1 /\ s * p \in Int /\ s * q \in Int
    BY <1>1, <1>2, Rounds
  <2> QED
    BY <1>1, <2>1
<1> QED
  BY <1>1, <1>2 DEF p, q

-----------------------------------------------------------------------------
(* The readings of a bucket and its mean.                                  *)
ReadIn(l, name, bucket) == Mean(l, Ticks(l, name, bucket))
Proper(v) == v = MISSING \/ Between(v, Values)
Logs == [0 .. NOW_MAX -> Values \cup {MISSING}]

LEMMA BetweenIsReal == ASSUME NEW v \in Int, Between(v, Values) PROVE v # MISSING
BY Sizes DEF Between

LEMMA TicksAre ==
  ASSUME NEW l \in Logs, NEW name \in Rings, NEW c
  PROVE  /\ IsFiniteSet(Ticks(l, name, c)) /\ Cardinality(Ticks(l, name, c)) \in Nat
         /\ \A t \in Ticks(l, name, c) : l[t] \in Values /\ l[t] \in Int
         /\ Cardinality(Ticks(l, name, c)) = 0 <=> Ticks(l, name, c) = {}
<1>1. Ticks(l, name, c) \subseteq 0 .. NOW_MAX
  BY DEF Ticks, Logs
<1>2. IsFiniteSet(0 .. NOW_MAX)
  BY Sizes, FS_Interval
<1>3. IsFiniteSet(Ticks(l, name, c)) /\ Cardinality(Ticks(l, name, c)) \in Nat
  BY <1>1, <1>2, FS_Subset, FS_CardinalityType
<1>4. \A t \in Ticks(l, name, c) : l[t] \in Values /\ l[t] \in Int
  BY Sizes DEF Ticks, Logs
<1> QED
  BY <1>3, <1>4, FS_EmptySet

LEMMA MeanOf ==
  ASSUME NEW l \in Logs, NEW name \in Rings, NEW c
  PROVE  /\ ReadIn(l, name, c) \in Int /\ Proper(ReadIn(l, name, c))
         /\ ReadIn(l, name, c) = MISSING <=> Ticks(l, name, c) = {}
<1> DEFINE S == Ticks(l, name, c)
<1>1. CASE S = {}
  BY <1>1, Sizes DEF ReadIn, Mean, Proper
<1>2. CASE S # {}
  <2> DEFINE n == Cardinality(S)
             sum == SumFunctionOnSet(l, S)
  <2>1. IsFiniteSet(S) /\ n \in Nat \ {0} /\ (\A t \in S : l[t] \in Values) /\ (\A t \in S : l[t] \in Int)
    BY <1>2, TicksAre
  <2> HIDE DEF S
  <2>2. SumBetween(n, sum, Values)
    BY <1>2, <2>1, Sizes, SumIsBetween
  <2>3. sum \in Int
    BY <2>1, SumAny
  <2> HIDE DEF n, sum
  <2>4. Quotient(sum, n) \in Int /\ Between(Quotient(sum, n), Values)
    BY <2>1, <2>2, <2>3, Sizes, QuotientBetween
  <2>5. ReadIn(l, name, c) = Quotient(sum, n)
    BY Zenon, <1>2 DEF ReadIn, Mean, S, n, sum
  <2> QED
    BY Zenon, <1>2, <2>4, <2>5, BetweenIsReal DEF Proper, S
<1> QED
  BY <1>1, <1>2

(* A reading of the tick `at' is the only change of a log.                *)
BucketOf(at, name) == at \div Step(name)
Adding(l, k, at, v) ==
  /\ l \in Logs /\ k \in Logs /\ at \in 0 .. NOW_MAX /\ l[at] = MISSING /\ v \in Values /\ k[at] = v
  /\ \A t \in 0 .. NOW_MAX : t # at => k[t] = l[t]

LEMMA AddingIs ==
  ASSUME NEW l \in Logs, NEW at \in 0 .. NOW_MAX, NEW v \in Values, l[at] = MISSING
  PROVE Adding(l, [l EXCEPT ![at] = v], at, v)
<1>1. DOMAIN l = 0 .. NOW_MAX /\ [l EXCEPT ![at] = v] \in Logs
  BY DEF Logs
<1> QED
  BY <1>1 DEF Adding

(* It changes its own bucket only.                                        *)
LEMMA OtherBucketAfter ==
  ASSUME NEW l, NEW k, NEW at, NEW v, Adding(l, k, at, v), NEW name \in Rings, NEW c, c # BucketOf(at, name)
  PROVE  Ticks(k, name, c) = Ticks(l, name, c) /\ ReadIn(k, name, c) = ReadIn(l, name, c)
<1> DEFINE S == Ticks(l, name, c)
<1>0. l \in Logs /\ k \in Logs /\ l[at] = MISSING /\ \A t \in 0 .. NOW_MAX : t # at => k[t] = l[t]
  BY DEF Adding
<1>1. DOMAIN k = 0 .. NOW_MAX /\ DOMAIN l = 0 .. NOW_MAX
  BY <1>0 DEF Logs
<1>2. Ticks(k, name, c) = S
  BY <1>0, <1>1 DEF Ticks, BucketOf
<1>3. IsFiniteSet(S) /\ \A t \in S : k[t] = l[t]
  <2>1. at \notin S /\ \A t \in S : t \in 0 .. NOW_MAX
    BY <1>0, <1>1 DEF Ticks
  <2> QED
    BY <1>0, <2>1, TicksAre
<1> HIDE DEF S
<1>4. SumFunctionOnSet(k, S) = SumFunctionOnSet(l, S)
  BY <1>3, SumSame
<1> QED
  BY Zenon, <1>2, <1>4 DEF ReadIn, Mean, S

LEMMA ItsBucketAfter ==
  ASSUME NEW l, NEW k, NEW at, NEW v, Adding(l, k, at, v), NEW name \in Rings
  PROVE  /\ Ticks(k, name, BucketOf(at, name)) = Ticks(l, name, BucketOf(at, name)) \cup {at}
         /\ SumFunctionOnSet(k, Ticks(k, name, BucketOf(at, name))) = SumFunctionOnSet(l, Ticks(l, name, BucketOf(at, name))) + v
         /\ Cardinality(Ticks(k, name, BucketOf(at, name))) = Cardinality(Ticks(l, name, BucketOf(at, name))) + 1
<1> DEFINE c == BucketOf(at, name)
           S == Ticks(l, name, c)
<1>1. k[at] = v /\ v # MISSING /\ DOMAIN k = 0 .. NOW_MAX /\ DOMAIN l = 0 .. NOW_MAX
      /\ l \in Logs /\ k \in Logs /\ l[at] = MISSING /\ at \in 0 .. NOW_MAX
      /\ \A t \in 0 .. NOW_MAX : t # at => k[t] = l[t]
  <2>1. l \in Logs /\ k \in Logs /\ v \in Values
    BY DEF Adding
  <2>2. DOMAIN k = 0 .. NOW_MAX /\ DOMAIN l = 0 .. NOW_MAX
    BY <2>1 DEF Logs
  <2> QED
    BY <2>1, <2>2, Sizes DEF Adding
<1>2. Ticks(k, name, c) = S \cup {at}
  BY <1>1 DEF Ticks, BucketOf
<1>3. at \notin S /\ \A t \in S : k[t] = l[t]
  BY <1>1 DEF Ticks
<1> HIDE DEF c
<1>4. IsFiniteSet(S) /\ \A t \in S : l[t] \in Int
  BY <1>1, TicksAre
<1> HIDE DEF S
<1>5. SumFunctionOnSet(k, S) = SumFunctionOnSet(l, S)
  BY <1>3, <1>4, SumSame
<1>6. \A t \in S \cup {at} : k[t] \in Int
  <2>1. k[at] \in Int
    BY <1>1, Sizes DEF Adding
  <2> QED
    BY <1>3, <1>4, <2>1
<1>7. SumFunctionOnSet(k, S \cup {at}) = SumFunctionOnSet(k, S) + k[at]
  BY <1>3, <1>4, <1>6, SumAdd
<1>8. Cardinality(S \cup {at}) = Cardinality(S) + 1
  BY <1>3, <1>4, FS_AddElement
<1> QED
  BY Zenon, <1>1, <1>2, <1>5, <1>7, <1>8 DEF S, c

-----------------------------------------------------------------------------
(* A ring holds the means of its last buckets, each in its place.           *)
Slots == 0 .. HISTORY_SLOTS - 1
RingType(ring) ==
  /\ ring \in [values : [Slots -> Int], bucket : {None} \cup {<<b>> : b \in Nat}, sum : Int, count : Nat]
  /\ \A i \in Slots : Proper(ring.values[i])
Unused(ring, l) ==
  /\ \A i \in Slots : ring.values[i] = MISSING
  /\ \A t \in 0 .. NOW_MAX : l[t] = MISSING
HoldsUpTo(ring, l, name, b) ==
  /\ b \in Nat /\ ring.bucket = <<b>>
  /\ \A t \in 0 .. NOW_MAX : l[t] # MISSING => t \div Step(name) <= b
  /\ \A c \in Nat : (b - HISTORY_SLOTS < c /\ c <= b) => ring.values[c % HISTORY_SLOTS] = ReadIn(l, name, c)
  /\ ring.count = Cardinality(Ticks(l, name, b))
  /\ ring.sum = SumFunctionOnSet(l, Ticks(l, name, b))
Holds(ring, l, name) ==
  /\ RingType(ring)
  /\ IF ring.bucket = None THEN Unused(ring, l) ELSE \E b \in Nat : HoldsUpTo(ring, l, name, b)

LEMMA NoTicks ==
  ASSUME NEW l \in Logs, NEW name \in Rings, NEW c,
         \A t \in 0 .. NOW_MAX : l[t] # MISSING => t \div Step(name) # c
  PROVE  /\ Ticks(l, name, c) = {} /\ ReadIn(l, name, c) = MISSING
         /\ Cardinality(Ticks(l, name, c)) = 0 /\ SumFunctionOnSet(l, Ticks(l, name, c)) = 0
<1>1. Ticks(l, name, c) = {}
  BY DEF Ticks, Logs
<1>2. IsFiniteSet({}) /\ Cardinality({}) = 0
  BY FS_EmptySet
<1>3. SumFunctionOnSet(l, {}) = 0
  BY <1>2, SumStep
<1>4. ReadIn(l, name, c) = MISSING
  BY <1>1, MeanOf
<1> QED
  BY Zenon, <1>1, <1>2, <1>3, <1>4

LEMMA SlotIs == ASSUME NEW c \in Int PROVE c % HISTORY_SLOTS \in Slots
BY Sizes, ModIs DEF Slots

LEMMA AdvanceHolds ==
  ASSUME NEW ring, NEW l \in Logs, NEW name \in Rings, Holds(ring, l, name), NEW n \in Nat,
         ring.bucket # None => ring.bucket[1] <= n,
         \A t \in 0 .. NOW_MAX : l[t] # MISSING => t \div Step(name) <= n
  PROVE  /\ RingType(Advance(ring, n)) /\ HoldsUpTo(Advance(ring, n), l, name, n)
<1> DEFINE H == HISTORY_SLOTS
           r == Advance(ring, n)
<1>0. H \in Nat \ {0} /\ MISSING \in Int
  BY Sizes
<1>1. ring.values \in [Slots -> Int] /\ ring.count \in Nat /\ ring.sum \in Int
      /\ (\A i \in Slots : Proper(ring.values[i])) /\ ring.bucket \in {None} \cup {<<b>> : b \in Nat}
  BY DEF Holds, RingType
<1>2. CASE ring.bucket # None /\ n <= ring.bucket[1]
  <2>1. r = ring
    BY <1>2 DEF Advance
  <2>2. PICK b \in Nat : HoldsUpTo(ring, l, name, b)
    BY <1>2 DEF Holds
  <2>3. b = n
    <3>1. ring.bucket = <<b>>
      BY <2>2 DEF HoldsUpTo
    <3>2. ring.bucket[1] = b
      BY <3>1
    <3> QED
      BY <1>2, <3>2
  <2> QED
    BY Zenon, <2>1, <2>2, <2>3 DEF Holds
<1>3. CASE ~(ring.bucket # None /\ n <= ring.bucket[1])
  <2> DEFINE gone(i) == ring.bucket # None /\ i \in Cleared(ring, n)
             values == [i \in Slots |-> IF gone(i) THEN MISSING ELSE ring.values[i]]
  <2>1. r = [values |-> values, bucket |-> <<n>>, sum |-> 0, count |-> 0]
    <3>1. DOMAIN ring.values = Slots
      BY <1>1
    <3> QED
      BY Zenon, <1>3, <3>1 DEF Advance
  <2>2. r.values = values /\ r.bucket = <<n>> /\ r.sum = 0 /\ r.count = 0
    BY <2>1
  <2>3. values \in [Slots -> Int] /\ \A i \in Slots : values[i] = IF gone(i) THEN MISSING ELSE ring.values[i]
    <3> HIDE DEF gone
    <3> QED
      BY <1>0, <1>1
  <2> HIDE DEF values
  <2>4. RingType(r)
    <3>1. r \in [values : [Slots -> Int], bucket : {None} \cup {<<b>> : b \in Nat}, sum : Int, count : Nat]
      BY <2>1, <2>3
    <3>2. \A i \in Slots : Proper(r.values[i])
      <4> HIDE DEF gone
      <4> QED
        BY <1>1, <2>2, <2>3 DEF Proper
    <3> QED
      BY <3>1, <3>2 DEF RingType
  <2>5. \A c \in Nat : (n - H < c /\ c <= n) => values[c % H] = ReadIn(l, name, c)
    <3> SUFFICES ASSUME NEW c \in Nat, n - H < c, c <= n PROVE values[c % H] = ReadIn(l, name, c)
      OBVIOUS
    <3>0. c % H \in Slots
      BY SlotIs
    <3>1. CASE ring.bucket = None
      <4>1. (\A i \in Slots : ring.values[i] = MISSING) /\ \A t \in 0 .. NOW_MAX : l[t] = MISSING
        BY <3>1 DEF Holds, Unused
      <4>2. ReadIn(l, name, c) = MISSING
        BY <4>1, NoTicks
      <4> QED
        BY <2>3, <3>0, <3>1, <4>1, <4>2
    <3>2. CASE ring.bucket # None
      <4>1. PICK b \in Nat : HoldsUpTo(ring, l, name, b)
        BY <3>2 DEF Holds
      <4>2. ring.bucket = <<b>> /\ ring.bucket[1] = b /\ b < n
        <5>1. ring.bucket = <<b>>
          BY <4>1 DEF HoldsUpTo
        <5>2. ring.bucket[1] = b
          BY <5>1
        <5> QED
          BY <1>3, <3>2, <5>1, <5>2
      <4>3. Cleared(ring, n) = IF n - b >= H THEN Slots ELSE {d % H : d \in b + 1 .. n}
        BY Zenon, <4>2 DEF Cleared, Slots
      <4>4. CASE c <= b
        <5>1. n - b < H
          BY <1>0, <4>2, <4>4
        <5>2. c % H \notin Cleared(ring, n)
          <6>1. ASSUME NEW d \in b + 1 .. n PROVE c % H # d % H
            <7>1. d \in Int /\ c \in Int /\ c < d /\ d - c < H
              BY <1>0, <4>4
            <7> QED
              BY Zenon, <1>0, <7>1, ModApart
          <6>2. Cleared(ring, n) = {d % H : d \in b + 1 .. n}
            BY <1>0, <4>2, <4>3, <5>1
          <6> QED
            BY Zenon, <6>1, <6>2
        <5>3. ring.values[c % H] = ReadIn(l, name, c)
          <6>1. b - H < c
            BY <1>0, <4>2
          <6> QED
            BY Zenon, <4>1, <4>4, <6>1 DEF HoldsUpTo
        <5> QED
          BY Zenon, <2>3, <3>0, <5>2, <5>3
      <4>5. CASE c > b
        <5>1. c % H \in Cleared(ring, n)
          <6>1. CASE n - b >= H
            BY Zenon, <3>0, <4>3, <6>1
          <6>2. CASE ~(n - b >= H)
            <7>1. c \in b + 1 .. n
              BY <4>5
            <7> QED
              BY Zenon, <4>3, <6>2, <7>1
          <6> QED
            BY Zenon, <6>1, <6>2
        <5>2. \A t \in 0 .. NOW_MAX : l[t] # MISSING => t \div Step(name) # c
          <6>1. \A t \in 0 .. NOW_MAX : l[t] # MISSING => t \div Step(name) <= b
            BY Zenon, <4>1 DEF HoldsUpTo
          <6> QED
            BY <4>5, <6>1
        <5>3. ReadIn(l, name, c) = MISSING
          BY <5>2, NoTicks
        <5> QED
          BY Zenon, <2>3, <3>0, <3>2, <5>1, <5>3
      <4> QED
        BY <4>4, <4>5
    <3> QED
      BY <3>1, <3>2
  <2>6. r.count = Cardinality(Ticks(l, name, n)) /\ r.sum = SumFunctionOnSet(l, Ticks(l, name, n))
    <3>1. \A t \in 0 .. NOW_MAX : l[t] # MISSING => t \div Step(name) # n
      <4>1. CASE ring.bucket = None
        BY <4>1 DEF Holds, Unused
      <4>2. CASE ring.bucket # None
        <5>1. PICK b \in Nat : HoldsUpTo(ring, l, name, b)
          BY <4>2 DEF Holds
        <5>2. ring.bucket = <<b>> /\ \A t \in 0 .. NOW_MAX : l[t] # MISSING => t \div Step(name) <= b
          BY Zenon, <5>1 DEF HoldsUpTo
        <5>3. b < n
          <6>1. ring.bucket[1] = b
            BY <5>2
          <6> QED
            BY <1>3, <4>2, <6>1
        <5> QED
          BY <5>2, <5>3
      <4> QED
        BY <4>1, <4>2
    <3> QED
      BY <2>2, <3>1, NoTicks
  <2>7. HoldsUpTo(r, l, name, n)
    BY Zenon, <2>2, <2>5, <2>6 DEF HoldsUpTo
  <2> QED
    BY Zenon, <2>4, <2>7
<1> QED
  BY <1>2, <1>3

(* What is read of a bucket in the ring's reach, or before power-on.       *)
LEMMA GetIs ==
  ASSUME NEW ring, NEW l \in Logs, NEW name \in Rings, NEW n \in Nat, HoldsUpTo(ring, l, name, n),
         NEW c \in Int, n - HISTORY_SLOTS < c, c <= n
  PROVE  Get(ring, c) = ReadIn(l, name, c)
<1>1. ring.bucket = <<n>> /\ n \in Nat
  BY Zenon DEF HoldsUpTo
<1>2. ring.bucket # None /\ ring.bucket[1] = n
  BY <1>1 DEF None
<1>3. CASE c < 0
  <2>1. Get(ring, c) = MISSING
    BY <1>3 DEF Get
  <2>2. \A t \in 0 .. NOW_MAX : t \div Step(name) # c
    <3> SUFFICES ASSUME NEW t \in 0 .. NOW_MAX PROVE t \div Step(name) >= 0
      BY <1>3
    <3>1. t \in Nat /\ Step(name) \in Nat \ {0} /\ 0 \div Step(name) = 0
      BY Sizes, SMTT(30)
    <3>2. t \div Step(name) \in Int /\ 0 \div Step(name) <= t \div Step(name)
      BY <3>1, DivIs, DivGrows
    <3> QED
      BY <3>1, <3>2
  <2> QED
    BY <2>1, <2>2, NoTicks
<1>4. CASE c >= 0
  <2>1. c \in Nat /\ ~(c < 0) /\ ~(c > n) /\ ~(n - c >= HISTORY_SLOTS)
    BY <1>4, Sizes
  <2>2. Get(ring, c) = ring.values[c % HISTORY_SLOTS]
    BY Zenon, <1>2, <2>1 DEF Get
  <2> QED
    BY Zenon, <2>1, <2>2 DEF HoldsUpTo
<1> QED
  BY <1>3, <1>4

(* A reading at the tick `at', of which none was received before.          *)
LEMMA RecordHolds ==
  ASSUME NEW ring, NEW l \in Logs, NEW name \in Rings, Holds(ring, l, name),
         NEW at \in 0 .. NOW_MAX, \A t \in 0 .. NOW_MAX : t >= at => l[t] = MISSING,
         ring.bucket # None => ring.bucket[1] <= at \div Step(name),
         NEW v \in Values \cup {MISSING}
  PROVE  LET r == Record(ring, at \div Step(name), v)
         IN  /\ RingType(r)
             /\ HoldsUpTo(r, [l EXCEPT ![at] = v], name, at \div Step(name))
<1> DEFINE n == at \div Step(name)
           to == Advance(ring, n)
           r == Record(ring, n, v)
           k == [l EXCEPT ![at] = v]
           H == HISTORY_SLOTS
<1>0. H \in Nat \ {0} /\ Step(name) \in Nat \ {0} /\ MISSING \in Int /\ Values \subseteq Int
  BY Sizes
<1>1. n \in Nat
  <2>1. 0 \div Step(name) = 0
    BY <1>0, SMTT(30)
  <2>2. n \in Int /\ 0 \div Step(name) <= n
    BY <1>0, DivIs, DivGrows
  <2> QED
    BY <2>1, <2>2
<1>2. \A t \in 0 .. NOW_MAX : l[t] # MISSING => t \div Step(name) <= n
  <2> SUFFICES ASSUME NEW t \in 0 .. NOW_MAX, t <= at PROVE t \div Step(name) <= n
    BY Sizes
  <2> QED
    BY <1>0, DivGrows
<1> HIDE DEF n
<1>3. RingType(to) /\ HoldsUpTo(to, l, name, n)
  BY <1>1, <1>2, AdvanceHolds DEF n
<1>4. r = IF v = MISSING THEN to
          ELSE [to EXCEPT !.sum = to.sum + v, !.count = @ + 1,
                          !.values[n % H] = Quotient(to.sum + v, to.count + 1)]
  <2>1. ~(ring.bucket # None /\ n < ring.bucket[1])
    <3>1. CASE ring.bucket = None
      BY <3>1
    <3>2. CASE ring.bucket # None
      <4>1. PICK b \in Nat : ring.bucket = <<b>>
        BY <3>2 DEF Holds, RingType
      <4> QED
        BY <1>1, <4>1 DEF n
    <3> QED
      BY <3>1, <3>2
  <2> HIDE DEF to
  <2> QED
    BY Zenon, <2>1 DEF Record, to
<1>5. CASE v = MISSING
  <2>1. k = l
    BY <1>5 DEF Logs
  <2> QED
    BY Zenon, <1>3, <1>4, <1>5, <2>1 DEF n
<1>6. CASE v # MISSING
  <2>0. v \in Values /\ v \in Int /\ l[at] = MISSING
    BY <1>0, <1>6
  <2> DEFINE sum == to.sum + v
             many == to.count + 1
             place == n % H
             mean == Quotient(sum, many)
             S == Ticks(l, name, n)
             U == Ticks(k, name, n)
  <2>1. place \in Slots
    BY <1>1, SlotIs
  <2>2. to \in [values : [Slots -> Int], bucket : {None} \cup {<<b>> : b \in Nat}, sum : Int, count : Nat]
    BY <1>3 DEF RingType
  <2>3. to.values \in [Slots -> Int] /\ to.sum \in Int /\ to.count \in Nat
        /\ (\A i \in Slots : Proper(to.values[i]))
    BY <1>3 DEF RingType
  <2>4. to.bucket = <<n>> /\ to.count = Cardinality(S) /\ to.sum = SumFunctionOnSet(l, S)
    BY Zenon, <1>3 DEF HoldsUpTo
  <2>5. k \in Logs
        /\ (\A c \in Int : c # n => ReadIn(k, name, c) = ReadIn(l, name, c))
        /\ U = S \cup {at} /\ SumFunctionOnSet(k, U) = sum /\ Cardinality(U) = many
    <3>1. Adding(l, k, at, v) /\ n = BucketOf(at, name)
      BY Zenon, <2>0, AddingIs DEF n, BucketOf
    <3>2. k \in Logs
      BY <3>1 DEF Adding
    <3> HIDE DEF k
    <3>3. \A c \in Int : c # n => ReadIn(k, name, c) = ReadIn(l, name, c)
      BY <3>1, OtherBucketAfter
    <3>4. U = S \cup {at}
          /\ SumFunctionOnSet(k, U) = SumFunctionOnSet(l, S) + v /\ Cardinality(U) = Cardinality(S) + 1
      BY <3>1, ItsBucketAfter
    <3> QED
      BY Zenon, <2>4, <3>2, <3>3, <3>4
  <2>6. ReadIn(k, name, n) = mean
    <3>1. U # {}
      BY <2>5
    <3> QED
      BY Zenon, <2>5, <3>1 DEF ReadIn, Mean
  <2>7. mean \in Int /\ Proper(mean)
    <3> HIDE DEF mean, k
    <3> QED
      BY <2>5, <2>6, MeanOf
  <2> HIDE DEF sum, many, place, mean, to, k, S, U
  <2>8. r = [to EXCEPT !.sum = sum, !.count = many, !.values = [to.values EXCEPT ![place] = mean]]
    <3>1. r = [to EXCEPT !.sum = sum, !.count = @ + 1, !.values[place] = mean]
      BY Zenon, <1>4, <1>6 DEF sum, place, mean, many
    <3> HIDE DEF r
    <3> QED
      BY <2>2, <3>1 DEF many
  <2>9. r = [values |-> [to.values EXCEPT ![place] = mean], bucket |-> to.bucket, sum |-> sum, count |-> many]
    <3> HIDE DEF r
    <3> QED
      BY <2>2, <2>8
  <2> HIDE DEF r
  <2>10. sum \in Int /\ many \in Nat
    BY <2>0, <2>3 DEF sum, many
  <2>11. r.values = [to.values EXCEPT ![place] = mean] /\ r.bucket = <<n>> /\ r.sum = sum /\ r.count = many
    BY <2>4, <2>9
  <2>12. \A i \in Slots : r.values[i] = IF i = place THEN mean ELSE to.values[i]
    BY <2>3, <2>11
  <2>13. RingType(r)
    <3>1. [to.values EXCEPT ![place] = mean] \in [Slots -> Int]
      BY <2>3, <2>7
    <3>2. r \in [values : [Slots -> Int], bucket : {None} \cup {<<b>> : b \in Nat}, sum : Int, count : Nat]
      BY <1>1, <2>4, <2>9, <2>10, <3>1
    <3>3. \A i \in Slots : Proper(r.values[i])
      BY <2>3, <2>7, <2>12
    <3> QED
      BY <3>2, <3>3 DEF RingType
  <2>14. \A t \in 0 .. NOW_MAX : k[t] # MISSING => t \div Step(name) <= n
    <3>1. \A t \in 0 .. NOW_MAX : t # at => k[t] = l[t]
      BY DEF k, Logs
    <3>2. at \div Step(name) <= n
      BY <1>1 DEF n
    <3> QED
      BY <1>2, <3>1, <3>2
  <2>15. \A c \in Nat : (n - H < c /\ c <= n) => r.values[c % H] = ReadIn(k, name, c)
    <3> SUFFICES ASSUME NEW c \in Nat, n - H < c, c <= n PROVE r.values[c % H] = ReadIn(k, name, c)
      OBVIOUS
    <3>0. c % H \in Slots
      BY SlotIs
    <3>1. CASE c = n
      BY Zenon, <2>6, <2>12, <3>0, <3>1 DEF place
    <3>2. CASE c # n
      <4>1. c % H # place
        <5>1. c < n /\ n - c < H /\ c \in Int /\ n \in Int
          BY <1>0, <1>1, <3>2
        <5> QED
          BY <1>0, <5>1, ModApart DEF place
      <4>2. r.values[c % H] = to.values[c % H]
        BY Zenon, <2>12, <3>0, <4>1
      <4>3. to.values[c % H] = ReadIn(l, name, c)
        BY Zenon, <1>3 DEF HoldsUpTo
      <4>4. ReadIn(k, name, c) = ReadIn(l, name, c)
        BY <2>5, <3>2
      <4> QED
        BY Zenon, <4>2, <4>3, <4>4
    <3> QED
      BY <3>1, <3>2
  <2>16. HoldsUpTo(r, k, name, n)
    BY Zenon, <1>1, <2>5, <2>11, <2>14, <2>15 DEF HoldsUpTo, U
  <2> QED
    BY Zenon, <2>13, <2>16 DEF n, r, k
<1> QED
  BY <1>5, <1>6

-----------------------------------------------------------------------------
(* The window of the graph is within the ring's reach.                     *)
LEMMA DivAtMost ==
  ASSUME NEW s \in Nat \ {0}, NEW a \in Int, NEW q \in Int, s * q <= a
  PROVE  q <= a \div s
<1>1. a \div s \in Int /\ a < s * (a \div s) + s /\ s * (a \div s) \in Int
  BY DivIs
<1> DEFINE d == a \div s
<1> HIDE DEF d
<1>2. CASE q - d >= 1
  <2>1. s * q >= s * d + s * 1
    BY <1>1, <1>2, Rounds DEF d
  <2> QED
    BY <1>1, <2>1 DEF d
<1> QED
  BY <1>1, <1>2 DEF d

LEMMA DivBelow ==
  ASSUME NEW s \in Nat \ {0}, NEW a \in Int, NEW q \in Int, a <= s * q
  PROVE  a \div s <= q
<1>1. a \div s \in Int /\ s * (a \div s) <= a /\ s * (a \div s) \in Int /\ s * q \in Int
  BY DivIs
<1> DEFINE d == a \div s
<1> HIDE DEF d
<1>2. CASE d - q >= 1
  <2>1. s * d >= s * q + s * 1
    BY <1>1, <1>2, Rounds DEF d
  <2> QED
    BY <1>1, <2>1 DEF d
<1> QED
  BY <1>1, <1>2 DEF d

Reach == ShortRanges \cup LongRanges
LEMMA RangeIs ==
  ASSUME NEW span \in Reach
  PROVE  /\ RingOf(span) \in Rings /\ span \in Nat \ {0}
         /\ span <= Step(RingOf(span)) * (HISTORY_SLOTS - 1)
<1>1. CASE span \in ShortRanges
  BY <1>1, PowerAssumption DEF RingOf, Rings, Step
<1>2. CASE span \notin ShortRanges
  <2>1. span \in 1 .. (HISTORY_SLOTS - 1) * LONG_STEP
    BY <1>2, PowerAssumption DEF Reach
  <2>2. HISTORY_SLOTS - 1 \in Int /\ LONG_STEP \in Nat
    BY Sizes
  <2>3. (HISTORY_SLOTS - 1) * LONG_STEP = LONG_STEP * (HISTORY_SLOTS - 1)
        /\ (HISTORY_SLOTS - 1) * LONG_STEP \in Int
    BY <2>2
  <2>4. RingOf(span) = "long" /\ Step("long") = LONG_STEP
    BY <1>2 DEF RingOf, Step
  <2> HIDE DEF RingOf
  <2> QED
    BY <2>1, <2>3, <2>4 DEF Rings
<1> QED
  BY <1>1, <1>2

LEMMA WindowIsKept ==
  ASSUME NEW at \in Nat, NEW span \in Reach, NEW c \in Window(at, span)
  PROVE  /\ c \in Int /\ c <= BucketOf(at, RingOf(span)) /\ BucketOf(at, RingOf(span)) \in Nat
         /\ BucketOf(at, RingOf(span)) - HISTORY_SLOTS < c
<1> DEFINE s == Step(RingOf(span))
           n == at \div s
           P == TREND_POINTS
           from == at + 1 - span
<1>1. s \in Nat \ {0} /\ P \in Nat \ {0} /\ HISTORY_SLOTS \in Nat \ {0} /\ span \in Nat \ {0}
      /\ span <= s * (HISTORY_SLOTS - 1)
  BY Sizes, RangeIs
<1> HIDE DEF s
<1>2. n \in Int /\ s * n <= at /\ s * n \in Int /\ n >= 0
  BY <1>1, DivIs, DivAtMost
<1>3. PICK i \in Columns : c \in Buckets(at, span, i)
  BY Zenon DEF Window
<1> DEFINE first == from + (i * span) \div P
           next == from + ((i + 1) * span) \div P - 1
           last == IF next > first THEN next ELSE first
<1>4. c \in first \div s .. last \div s
  BY Zenon, <1>3 DEF Buckets, s
<1>5. i \in 0 .. P - 1 /\ i \in Int
  BY <1>1, <1>3 DEF Columns
<1>6. i * span \in Nat /\ (i + 1) * span \in Nat /\ i * span < P * span /\ (i + 1) * span <= P * span
      /\ P * span \in Nat
  <2>1. PICK d \in Nat : P = i + 1 + d
    <3>1. P - 1 - i \in Nat /\ P = i + 1 + (P - 1 - i)
      BY <1>1, <1>5
    <3> QED
      BY <3>1
  <2>2. P * span = i * span + span + d * span /\ d * span \in Nat /\ i * span \in Nat
        /\ (i + 1) * span = i * span + span
    BY <1>1, <1>5, <2>1, SMTT(30)
  <2> QED
    BY <1>1, <2>2
<1>7. (i * span) \div P \in Int /\ 0 <= (i * span) \div P
  <2>1. P * 0 <= i * span
    BY <1>1, <1>6
  <2> HIDE DEF P
  <2> QED
    BY <1>1, <1>6, <2>1, DivIs, DivAtMost
<1>8. (i * span) \div P <= span - 1
  <2> DEFINE e == i * span
             q == e \div P
  <2>1. q \in Int /\ P * q <= e /\ e < P * span
    BY <1>1, <1>6, DivIs
  <2> HIDE DEF q, e, P
  <2>2. CASE q - span >= 0
    <3>1. P * q >= P * span + P * 0
      BY <1>1, <2>1, <2>2, Rounds
    <3> QED
      BY <1>1, <1>6, <2>1, <3>1
  <2> QED
    BY <1>1, <2>1, <2>2 DEF q, e
<1>9. ((i + 1) * span) \div P \in Int /\ ((i + 1) * span) \div P <= span
  <2> HIDE DEF P
  <2> QED
    BY <1>1, <1>6, DivIs, DivBelow
<1>10. first \in Int /\ last \in Int /\ from \in Int /\ from <= first /\ first <= at /\ last <= at
  BY <1>1, <1>7, <1>8, <1>9
<1> HIDE DEF first, last
<1>11. first \div s \in Int /\ last \div s \in Int /\ last \div s <= n
  BY <1>1, <1>10, DivIs, DivGrows
<1>12. n - HISTORY_SLOTS + 1 <= first \div s
  <2>1. s * (n - (HISTORY_SLOTS - 1)) = s * n - s * (HISTORY_SLOTS - 1) /\ s * (HISTORY_SLOTS - 1) \in Int
    BY <1>1, <1>2, SMTT(30)
  <2>2. n - (HISTORY_SLOTS - 1) \in Int /\ s * (n - (HISTORY_SLOTS - 1)) <= first
    BY <1>1, <1>2, <1>10, <2>1
  <2> HIDE DEF n
  <2> QED
    BY <1>1, <1>2, <1>10, <1>11, <2>2, DivAtMost
<1> HIDE DEF n
<1> QED
  BY <1>1, <1>2, <1>4, <1>11, <1>12 DEF BucketOf, s, n

(* The age of a reading, from a clock that wraps.                          *)
LEMMA AgeIs ==
  ASSUME NEW C \in Nat \ {0}, NEW t \in Nat, NEW u \in Nat, t <= u, u - t < C
  PROVE  ((u % C) - (t % C)) % C = u - t
<1> DEFINE p == t \div C
           q == u \div C
           x == t % C
           y == u % C
           d == y - x
           e == d \div C
           r == d % C
<1>1. /\ p \in Int /\ q \in Int /\ x \in 0 .. C - 1 /\ y \in 0 .. C - 1
      /\ t = C * p + x /\ u = C * q + y
  BY DivIs, ModIs
<1> HIDE DEF p, q, x, y
<1>2. d \in Int
  BY <1>1
<1>3. e \in Int /\ r \in 0 .. C - 1 /\ d = C * e + r
  BY <1>2, DivIs, ModIs
<1> HIDE DEF d, e, r
<1>4. C * p \in Int /\ C * q \in Int /\ C * e \in Int
  BY <1>1, <1>3
<1> DEFINE j == q - p
           f == j + e
<1>5. j \in Int /\ f \in Int /\ C * j = C * q - C * p /\ C * f = C * j + C * e
  BY <1>1, <1>3, SMTT(30)
<1>6. u - t = C * f + r
  <2>1. d = y - x
    BY DEF d
  <2> QED
    BY <1>1, <1>2, <1>3, <1>4, <1>5, <2>1
<1> HIDE DEF j, f
<1>7. f = 0
  <2>1. CASE f - 0 >= 1
    <3>1. C * f >= C * 0 + C * 1
      BY <1>5, <2>1, Rounds
    <3> QED
      BY <1>3, <1>5, <1>6, <3>1
  <2>2. CASE 0 - f >= 1
    <3>1. C * 0 >= C * f + C * 1
      BY <1>5, <2>2, Rounds
    <3> QED
      BY <1>3, <1>5, <1>6, <3>1
  <2> QED
    BY <1>5, <2>1, <2>2
<1> QED
  BY <1>3, <1>6, <1>7 DEF r, d, x, y

-----------------------------------------------------------------------------
(* The inductive invariant of the meter.                                   *)
Waits == {"wait", "failed", "down", "lookup", "unsupported", "read", "rest", "again"}
Parked == {"wait", "failed", "down"}
TaskInv ==
  /\ now \in 0 .. NOW_MAX /\ asked \in 0 .. now
  /\ start \in BOOLEAN /\ ready \in BOOLEAN /\ firstDone \in BOOLEAN /\ news \in BOOLEAN
  /\ waits \in Waits /\ left \in 0 .. READ_TIMEOUT /\ count \in 0 .. UNSUPPORTED_ROUNDS + 3
  /\ waits \in {"read", "rest"} => count <= 2
  /\ waits = "unsupported" => count <= UNSUPPORTED_ROUNDS
  /\ silence \in {None} \cup {<<n>> : n \in Nat} /\ (silence = None) = (waits \in Parked)
  /\ silence # None => silence[1] + left <= READ_TIMEOUT
  /\ ~firstDone => \/ waits \in {"wait", "down"} /\ asked = 0
                   \/ waits = "lookup" /\ asked + left <= READ_TIMEOUT
                   \/ waits = "read" /\ asked + left <= 2 * READ_TIMEOUT
LogInv ==
  /\ log \in Logs /\ \A t \in 0 .. NOW_MAX : t > now => log[t] = MISSING
  /\ log[now] # MISSING => waits \in {"rest", "again"} /\ left > 0
RingOk(ring, l, name, n) ==
  /\ Holds(ring, l, name)
  /\ ring.bucket # None => ring.bucket[1] <= BucketOf(n, name)
RingInv == rings = [name \in Rings |-> rings[name]] /\ \A name \in Rings : RingOk(rings[name], log, name, now)
PlotOf(l, k) ==
  Plot([b \in Window(k.at, k.span) |-> ReadIn(l, RingOf(k.span), b)], k.at, k.span)
Known(l, k, i) ==
  \A b \in Buckets(k.at, k.span, i - 1) \cup Buckets(k.at, k.span, i) :
    Ticks(l, RingOf(k.span), b) # {}
TrendInv ==
  /\ range \in Reach
  /\ ~news => trend = PlotOf(log, key)
  /\ \A i \in Columns : Joined(trend, i) => Known(log, key, i)
Since(t) ==
  /\ log[t] = power.sample[1] /\ t % CLOCK = power.sample[2]
  /\ \/ waits = "rest" /\ now - t + left <= 1
     \/ waits = "read" /\ now - t + left <= READ_TIMEOUT + 1
MeterReadings == [status : Statuses, sample : {None} \cup (Values \X (0 .. CLOCK - 1))]
FreshInv ==
  /\ power \in MeterReadings
  /\ power.status = "Fresh" => power.sample # None /\ \E t \in 0 .. now : Since(t)
PowerInv == TaskInv /\ LogInv /\ RingInv /\ TrendInv /\ FreshInv

-----------------------------------------------------------------------------
LEMMA BucketIs ==
  ASSUME NEW name \in Rings, NEW n \in Nat
  PROVE  BucketOf(n, name) \in Nat
<1>1. Step(name) \in Nat \ {0} /\ Step(name) * 0 <= n
  BY Sizes
<1> QED
  BY <1>1, DivIs, DivAtMost DEF BucketOf

LEMMA TaskStarts == PowerInit => TaskInv
<1> SUFFICES ASSUME PowerInit PROVE TaskInv
  OBVIOUS
<1>1. /\ now = 0 /\ start = FALSE /\ ready \in BOOLEAN /\ asked = 0 /\ news = TRUE
      /\ waits = "wait" /\ left = 0 /\ count = 0 /\ silence = None /\ firstDone = FALSE
  BY Zenon DEF PowerInit
<1>2. /\ now \in 0 .. NOW_MAX /\ asked \in 0 .. now /\ left \in 0 .. READ_TIMEOUT
      /\ count \in 0 .. UNSUPPORTED_ROUNDS + 3 /\ count <= 2
  BY <1>1, Sizes
<1>3. /\ start \in BOOLEAN /\ ready \in BOOLEAN /\ firstDone \in BOOLEAN /\ news \in BOOLEAN
      /\ waits \in Waits /\ waits \in Parked /\ waits \notin {"read", "rest"} /\ waits # "unsupported"
      /\ silence \in {None} \cup {<<n>> : n \in Nat}
  BY <1>1 DEF Waits, Parked
<1>4. ~firstDone => waits \in {"wait", "down"} /\ asked = 0
  BY <1>1
<1>5. (silence = None) = (waits \in Parked)
  BY <1>1, <1>3
<1> QED
  BY Zenon, <1>1, <1>2, <1>3, <1>4, <1>5 DEF TaskInv

LEMMA TaskStep == TaskInv /\ [PowerNext]_powerVars => TaskInv'
<1> SUFFICES ASSUME TaskInv, [PowerNext]_powerVars PROVE TaskInv'
  OBVIOUS
<1>0. NOW_MAX \in Nat /\ READ_TIMEOUT \in Nat \ {0} /\ UNSUPPORTED_ROUNDS \in Nat
  BY Sizes
<1> USE <1>0 DEF DoneAfterError, TaskInv, Waits, Parked, None, WaitsAt, Parks, meter, screen, task
<1>1. CASE Started
  BY <1>1 DEF Started
<1>2. CASE NoIdentity
  BY <1>2 DEF NoIdentity, Publishes
<1>3. CASE Connects
  BY <1>3 DEF Connects
<1>4. CASE TransportFails
  BY <1>4 DEF TransportFails, CycleFails, Publishes
<1>5. CASE Again
  BY <1>5 DEF Again
<1>6. CASE DeviceFound
  <2>1. CASE ready
    BY <1>6, <2>1 DEF DeviceFound, Reads
  <2>2. CASE ~ready
    <3>1. CycleFails
      BY Zenon, <1>6, <2>2 DEF DeviceFound, Reads
    <3> QED
      BY <3>1 DEF CycleFails, Publishes
  <2> QED
    BY <2>1, <2>2
<1>7. CASE LookupFails
  BY <1>7 DEF LookupFails, CycleFails, Publishes
<1>8. CASE NotFound
  BY <1>8 DEF NotFound, Publishes
<1>9. CASE RestsUnsupported
  BY <1>9 DEF RestsUnsupported, RoundLeft
<1>10. CASE AnyReading
  <2>1. PICK value \in Values \cup {MISSING} : Sample(value)
    BY <1>10 DEF AnyReading
  <2> QED
    BY <2>1 DEF Sample, PublishesSample
<1>11. CASE ReadFails
  <2>1. CASE CycleFails
    BY <2>1 DEF CycleFails, Publishes
  <2>2. CASE ~CycleFails
    <3>1. /\ waits = "read" /\ ~(count + 1 >= 3) /\ news' = TRUE /\ firstDone' = TRUE
          /\ WaitsAt("rest", 1, count + 1) /\ UNCHANGED <<now, start, ready, asked>>
      BY Zenon, <1>11, <2>2 DEF ReadFails, Publishes
    <3> QED
      BY <3>1
  <2> QED
    BY <2>1, <2>2
<1>12. CASE Rested
  <2>1. CASE ready
    BY <1>12, <2>1 DEF Rested, Reads
  <2>2. CASE ~ready
    <3>1. CycleFails
      BY Zenon, <1>12, <2>2 DEF Rested, Reads
    <3> QED
      BY <3>1 DEF CycleFails, Publishes
  <2> QED
    BY <2>1, <2>2
<1>13. CASE PlotsGraph
  BY <1>13 DEF PlotsGraph
<1>14. CASE AnyRange
  BY <1>14 DEF AnyRange, RangeSaved
<1>15. CASE Starts
  BY <1>15 DEF Starts
<1>16. CASE NetworkChanges
  BY <1>16 DEF NetworkChanges
<1>17. CASE Passes
  BY <1>17 DEF Passes
<1>18. CASE UNCHANGED powerVars
  BY <1>18 DEF powerVars
<1> QED
  BY Zenon, <1>1, <1>2, <1>3, <1>4, <1>5, <1>6, <1>7, <1>8, <1>9, <1>10, <1>11, <1>12, <1>13, <1>14, <1>15, <1>16,
     <1>17, <1>18 DEF PowerNext

(* The steps that leave the rings and the graph alone.                     *)
Resting == waits \in {"rest", "again"} /\ left > 0
Elsewhere ==
  /\ UNCHANGED <<now, rings, log, key, trend>> /\ (news' = TRUE \/ news' = news)
  /\ range \in Reach => range' \in Reach
  /\ Resting => waits' \in {"rest", "again"} /\ left' > 0
  /\ \/ power' \in MeterReadings /\ power'.status # "Fresh"
     \/ /\ power' = power
        /\ \/ waits \notin {"rest", "read"}
           \/ waits' = waits /\ left' = left
           \/ waits = "rest" /\ left = 0 /\ waits' = "read" /\ left' = READ_TIMEOUT

LEMMA FailedIs ==
  ASSUME NEW p \in MeterReadings
  PROVE  Failed(p) \in MeterReadings /\ Failed(p).status # "Fresh"
BY DEF Failed, MeterReadings, Statuses

LEMMA CycleIsElsewhere ==
  ASSUME TaskInv, power \in MeterReadings, CycleFails
  PROVE  Elsewhere
<1>1. power' = Failed(power) /\ news' = TRUE /\ UNCHANGED <<rings, log>> /\ waits' = "again" /\ left' = 1
      /\ UNCHANGED <<now, range, key, trend>>
  BY Zenon DEF CycleFails, Publishes, WaitsAt, screen
<1>2. power' \in MeterReadings /\ power'.status # "Fresh"
  BY <1>1, FailedIs
<1> QED
  BY <1>1, <1>2 DEF Elsewhere

LEMMA StepKinds ==
  ASSUME TaskInv, power \in MeterReadings, [PowerNext]_powerVars
  PROVE  AnyReading \/ PlotsGraph \/ Passes \/ Elsewhere
<1> USE DEF Elsewhere, Resting, WaitsAt, Parks, meter, screen, task
<1>1. CASE Started
  BY <1>1 DEF Started
<1>2. CASE NoIdentity
  <2>1. power' = Failed(power)
    BY <1>2 DEF NoIdentity, Publishes
  <2>2. power' \in MeterReadings /\ power'.status # "Fresh"
    BY <2>1, FailedIs
  <2> QED
    BY <1>2, <2>2 DEF NoIdentity, Publishes
<1>3. CASE Connects
  BY <1>3 DEF Connects
<1>4. CASE TransportFails
  BY Zenon, <1>4, CycleIsElsewhere DEF TransportFails
<1>5. CASE Again
  BY <1>5 DEF Again
<1>6. CASE DeviceFound
  <2>1. CASE ready
    BY <1>6, <2>1 DEF DeviceFound, Reads
  <2>2. CASE ~ready
    BY Zenon, <1>6, <2>2, CycleIsElsewhere DEF DeviceFound, Reads
  <2> QED
    BY <2>1, <2>2
<1>7. CASE LookupFails
  BY Zenon, <1>7, CycleIsElsewhere DEF LookupFails
<1>8. CASE NotFound
  <2>1. power' = [power EXCEPT !.status = "Unsupported"]
    BY <1>8 DEF NotFound, Publishes
  <2>2. power' \in MeterReadings /\ power'.status # "Fresh"
    BY <2>1 DEF MeterReadings, Statuses
  <2> QED
    BY <1>8, <2>2 DEF NotFound, Publishes
<1>9. CASE RestsUnsupported
  BY <1>9 DEF RestsUnsupported
<1>11. CASE ReadFails
  <2>1. CASE CycleFails
    BY Zenon, <2>1, CycleIsElsewhere
  <2>2. CASE ~CycleFails
    <3>1. waits = "read" /\ Publishes(Failed(power)) /\ UNCHANGED <<now, screen>>
      BY Zenon, <1>11, <2>2 DEF ReadFails
    <3>2. power' \in MeterReadings /\ power'.status # "Fresh"
      BY <3>1, FailedIs DEF Publishes
    <3> QED
      BY <3>1, <3>2 DEF Publishes
  <2> QED
    BY <2>1, <2>2
<1>12. CASE Rested
  <2>1. CASE ready
    BY <1>12, <2>1 DEF Rested, Reads
  <2>2. CASE ~ready
    BY Zenon, <1>12, <2>2, CycleIsElsewhere DEF Rested, Reads
  <2> QED
    BY <2>1, <2>2
<1>14. CASE AnyRange
  BY <1>14 DEF AnyRange, RangeSaved, Reach
<1>15. CASE Starts
  BY <1>15 DEF Starts
<1>16. CASE NetworkChanges
  BY <1>16 DEF NetworkChanges
<1>18. CASE UNCHANGED powerVars
  BY <1>18 DEF powerVars
<1> QED
  BY Zenon, <1>1, <1>2, <1>3, <1>4, <1>5, <1>6, <1>7, <1>8, <1>9, <1>11, <1>12, <1>14, <1>15, <1>16,
     <1>18 DEF PowerNext

-----------------------------------------------------------------------------
LEMMA LogStarts == PowerInit => LogInv
<1> SUFFICES ASSUME PowerInit PROVE LogInv
  OBVIOUS
<1>1. log = [t \in 0 .. NOW_MAX |-> MISSING] /\ now = 0
  BY Zenon DEF PowerInit
<1>2. NOW_MAX \in Nat /\ MISSING \in Int
  BY Sizes
<1> QED
  BY <1>1, <1>2 DEF LogInv, Logs

LEMMA LogStep ==
  ASSUME TaskInv, LogInv, power \in MeterReadings, [PowerNext]_powerVars
  PROVE  LogInv'
<1>0. /\ now \in 0 .. NOW_MAX /\ NOW_MAX \in Nat /\ log \in Logs /\ (\A t \in 0 .. NOW_MAX : t > now => log[t] = MISSING)
      /\ log[now] # MISSING => Resting
  BY Sizes DEF TaskInv, LogInv, Resting
<1>1. CASE AnyReading
  <2>1. PICK value \in Values \cup {MISSING} : Sample(value)
    BY <1>1 DEF AnyReading
  <2>2. log' = [log EXCEPT ![now] = value] /\ now' = now /\ waits' = "rest" /\ left' = 1
    BY Zenon, <2>1 DEF Sample, PublishesSample, WaitsAt
  <2>3. log' \in Logs /\ \A t \in 0 .. NOW_MAX : t # now => log'[t] = log[t]
    BY <1>0, <2>2 DEF Logs
  <2> QED
    BY <1>0, <2>2, <2>3 DEF LogInv
<1>2. CASE PlotsGraph
  <2>1. log' = log /\ now' = now /\ waits' = waits /\ left' = left
    BY <1>2 DEF PlotsGraph, task
  <2> QED
    BY Zenon, <1>0, <2>1 DEF LogInv, Resting
<1>3. CASE Passes
  <2>1. log' = log /\ now' = now + 1 /\ now < NOW_MAX
    BY <1>3 DEF Passes, meter
  <2> QED
    BY <1>0, <2>1 DEF LogInv
<1>4. CASE Elsewhere
  <2>1. log' = log /\ now' = now /\ (Resting => waits' \in {"rest", "again"} /\ left' > 0)
    BY <1>4 DEF Elsewhere
  <2> QED
    BY Zenon, <1>0, <2>1 DEF LogInv
<1> QED
  BY <1>1, <1>2, <1>3, <1>4, StepKinds

-----------------------------------------------------------------------------
LEMMA RingsStart == PowerInit => RingInv
<1> SUFFICES ASSUME PowerInit PROVE RingInv
  OBVIOUS
<1>1. log = [t \in 0 .. NOW_MAX |-> MISSING] /\ now = 0 /\ rings = [name \in Rings |-> NewRing]
  BY Zenon DEF PowerInit
<1>2. NOW_MAX \in Nat /\ MISSING \in Int /\ HISTORY_SLOTS \in Nat
  BY Sizes
<1>3. NewRing = [values |-> [i \in Slots |-> MISSING], bucket |-> None, sum |-> 0, count |-> 0]
  BY DEF NewRing, Slots
<1>4. RingType(NewRing)
  BY <1>2, <1>3 DEF RingType, Proper
<1>5. Unused(NewRing, log) /\ NewRing.bucket = None
  BY <1>1, <1>3 DEF Unused
<1>6. \A name \in Rings : RingOk(NewRing, log, name, now)
  BY Zenon, <1>4, <1>5 DEF RingOk, Holds
<1> QED
  BY <1>1, <1>6 DEF RingInv

LEMMA RingLater ==
  ASSUME NEW ring, NEW l, NEW name \in Rings, NEW n \in Nat, NEW m \in Nat, n <= m, RingOk(ring, l, name, n)
  PROVE  RingOk(ring, l, name, m)
<1>1. BucketOf(n, name) <= BucketOf(m, name) /\ BucketOf(n, name) \in Nat /\ BucketOf(m, name) \in Nat
  <2>1. Step(name) \in Nat \ {0}
    BY Sizes
  <2> QED
    BY <2>1, DivGrows, BucketIs DEF BucketOf
<1>2. CASE ring.bucket = None
  BY Zenon, <1>2 DEF RingOk
<1>3. CASE ring.bucket # None
  <2>1. PICK b \in Nat : ring.bucket = <<b>>
    BY <1>3 DEF RingOk, Holds, RingType
  <2>2. ring.bucket[1] = b
    BY <2>1
  <2>3. b <= BucketOf(n, name)
    BY <1>3, <2>2 DEF RingOk
  <2>4. b <= BucketOf(m, name)
    BY <1>1, <2>3
  <2> QED
    BY Zenon, <2>2, <2>4 DEF RingOk
<1> QED
  BY <1>2, <1>3

LEMMA RingHeld ==
  ASSUME NEW ring, NEW l, NEW name \in Rings, NEW n \in Nat,
         RingType(ring), HoldsUpTo(ring, l, name, BucketOf(n, name))
  PROVE  RingOk(ring, l, name, n)
<1>1. ring.bucket = <<BucketOf(n, name)>> /\ BucketOf(n, name) \in Nat
  BY DEF HoldsUpTo
<1>2. ring.bucket # None /\ ring.bucket[1] = BucketOf(n, name)
  BY <1>1 DEF None
<1>3. Holds(ring, l, name)
  BY Zenon, <1>1, <1>2 DEF Holds
<1>4. BucketOf(n, name) <= BucketOf(n, name)
  BY <1>1
<1> QED
  BY Zenon, <1>2, <1>3, <1>4 DEF RingOk

LEMMA RingsStep ==
  ASSUME TaskInv, LogInv, RingInv, power \in MeterReadings, [PowerNext]_powerVars
  PROVE  RingInv'
<1>0. /\ now \in 0 .. NOW_MAX /\ NOW_MAX \in Nat /\ now \in Nat /\ log \in Logs
      /\ (\A t \in 0 .. NOW_MAX : t > now => log[t] = MISSING) /\ (log[now] # MISSING => Resting)
      /\ rings = [name \in Rings |-> rings[name]] /\ (\A name \in Rings : RingOk(rings[name], log, name, now))
  BY Sizes DEF TaskInv, LogInv, RingInv, Resting
<1>1. CASE AnyReading
  <2>1. PICK value \in Values \cup {MISSING} : Sample(value)
    BY <1>1 DEF AnyReading
  <2>2. log' = [log EXCEPT ![now] = value] /\ now' = now /\ waits = "read"
        /\ rings' = [name \in Rings |-> Record(rings[name], now \div Step(name), value)]
    BY Zenon, <2>1 DEF Sample, PublishesSample
  <2>3. \A t \in 0 .. NOW_MAX : t >= now => log[t] = MISSING
    <3>1. log[now] = MISSING
      BY <1>0, <2>2 DEF Resting
    <3> QED
      BY <1>0, <3>1
  <2>4. ASSUME NEW name \in Rings PROVE RingOk(Record(rings[name], now \div Step(name), value), log', name, now)
    <3> DEFINE ring == rings[name]
               r == Record(ring, now \div Step(name), value)
    <3>1. Holds(ring, log, name) /\ (ring.bucket # None => ring.bucket[1] <= now \div Step(name))
      BY Zenon, <1>0 DEF RingOk, BucketOf
    <3> HIDE DEF ring
    <3>2. RingType(r) /\ HoldsUpTo(r, [log EXCEPT ![now] = value], name, now \div Step(name))
      BY <1>0, <2>3, <3>1, RecordHolds
    <3> HIDE DEF r
    <3>3. HoldsUpTo(r, log', name, BucketOf(now, name))
      BY Zenon, <2>2, <3>2 DEF BucketOf
    <3> QED
      BY Zenon, <1>0, <3>2, <3>3, RingHeld DEF r, ring
  <2> QED
    BY <2>2, <2>4 DEF RingInv
<1>2. CASE PlotsGraph
  <2> DEFINE name == RingOf(range)
             ring == Advance(rings[name], now \div Step(name))
  <2>1. log' = log /\ now' = now /\ rings' = [rings EXCEPT ![name] = ring]
    BY Zenon, <1>2 DEF PlotsGraph
  <2>2. name \in Rings
    BY DEF RingOf, Rings
  <2> HIDE DEF name
  <2>3. RingOk(ring, log, name, now)
    <3>1. Holds(rings[name], log, name)
          /\ (rings[name].bucket # None => rings[name].bucket[1] <= BucketOf(now, name))
      BY Zenon, <1>0, <2>2 DEF RingOk
    <3>2. BucketOf(now, name) \in Nat
      BY <1>0, <2>2, BucketIs
    <3>3. \A t \in 0 .. NOW_MAX : log[t] # MISSING => t \div Step(name) <= BucketOf(now, name)
      <4>1. Step(name) \in Nat \ {0} /\ \A t \in 0 .. NOW_MAX : log[t] # MISSING => t <= now
        BY <1>0, <2>2, Sizes
      <4> QED
        BY <1>0, <4>1, DivGrows DEF BucketOf
    <3>4. RingType(Advance(rings[name], BucketOf(now, name)))
          /\ HoldsUpTo(Advance(rings[name], BucketOf(now, name)), log, name, BucketOf(now, name))
      BY Zenon, <1>0, <2>2, <3>1, <3>2, <3>3, AdvanceHolds
    <3> QED
      BY Zenon, <1>0, <2>2, <3>4, RingHeld DEF BucketOf
  <2> HIDE DEF ring
  <2>4. \A n \in Rings : rings'[n] = IF n = name THEN ring ELSE rings[n]
    BY <1>0, <2>1, <2>2
  <2>5. rings' = [n \in Rings |-> rings'[n]]
    BY <1>0, <2>1
  <2>6. \A n \in Rings : RingOk(rings'[n], log', n, now')
    BY Zenon, <1>0, <2>1, <2>3, <2>4
  <2> QED
    BY Zenon, <2>5, <2>6 DEF RingInv
<1>3. CASE Passes
  <2>1. log' = log /\ now' = now + 1 /\ rings' = rings
    BY <1>3 DEF Passes, meter
  <2>2. now' \in Nat /\ now <= now'
    BY <1>0, <2>1
  <2>3. \A name \in Rings : RingOk(rings[name], log, name, now')
    BY <1>0, <2>2, RingLater
  <2> QED
    BY Zenon, <1>0, <2>1, <2>3 DEF RingInv
<1>4. CASE Elsewhere
  <2>1. log' = log /\ now' = now /\ rings' = rings
    BY <1>4 DEF Elsewhere
  <2> QED
    BY Zenon, <1>0, <2>1 DEF RingInv
<1> QED
  BY <1>1, <1>2, <1>3, <1>4, StepKinds

-----------------------------------------------------------------------------
LEMMA TrendStarts == PowerInit => TrendInv
<1> SUFFICES ASSUME PowerInit PROVE TrendInv
  OBVIOUS
<1>1. trend = NewTrend /\ news = TRUE /\ range \in Reach
  BY Zenon DEF PowerInit, Reach
<1>2. \A i \in Columns : ~NewTrend.complete[i]
  BY DEF NewTrend
<1>3. \A i \in Columns : ~Joined(trend, i)
  BY Zenon, <1>1, <1>2 DEF Joined
<1> QED
  BY Zenon, <1>1, <1>3 DEF TrendInv

(* What is known of a bucket stays known as readings are added.            *)
LEMMA KnownLater ==
  ASSUME NEW l \in Logs, NEW m \in Logs, NEW k, NEW i, Known(l, k, i),
         \A t \in 0 .. NOW_MAX : l[t] # MISSING => m[t] # MISSING
  PROVE  Known(m, k, i)
<1>1. ASSUME NEW name, NEW b, Ticks(l, name, b) # {} PROVE Ticks(m, name, b) # {}
  <2>1. DOMAIN l = 0 .. NOW_MAX /\ DOMAIN m = 0 .. NOW_MAX
    BY DEF Logs
  <2>2. PICK t \in 0 .. NOW_MAX : t \div Step(name) = b /\ l[t] # MISSING
    BY Zenon, <1>1, <2>1 DEF Ticks
  <2>3. t \in Ticks(m, name, b)
    BY Zenon, <2>1, <2>2 DEF Ticks
  <2> QED
    BY <2>3
<1> QED
  BY Zenon, <1>1 DEF Known

(* A column that is complete has every reading.                            *)
LEMMA PlotIsWhole ==
  ASSUME NEW value, NEW at, NEW span, NEW i \in Columns,
         Plot(value, at, span).complete[i]
  PROVE  \A b \in Buckets(at, span, i) : value[b] # MISSING
<1> DEFINE known(j) == {b \in Buckets(at, span, j) : value[b] # MISSING}
           complete == [j \in Columns |-> Complete(known(j), Buckets(at, span, j))]
<1>1. Plot(value, at, span).complete = complete
  BY DEF Plot
<1>2. complete[i] = Complete(known(i), Buckets(at, span, i))
  BY Zenon
<1>3. known(i) = Buckets(at, span, i)
  BY Zenon, <1>1, <1>2 DEF Complete
<1> QED
  BY Zenon, <1>3

LEMMA DrawnIsKnown ==
  ASSUME NEW l \in Logs, NEW k, RingOf(k.span) \in Rings, NEW i \in Columns, Joined(PlotOf(l, k), i)
  PROVE  Known(l, k, i)
<1> DEFINE value == [b \in Window(k.at, k.span) |-> ReadIn(l, RingOf(k.span), b)]
<1>1. PlotOf(l, k) = Plot(value, k.at, k.span)
  BY Zenon DEF PlotOf
<1>2. i - 1 \in Columns
  BY Sizes DEF Joined, Columns
<1>3. ASSUME NEW j \in Columns, Plot(value, k.at, k.span).complete[j], NEW b \in Buckets(k.at, k.span, j)
      PROVE  Ticks(l, RingOf(k.span), b) # {}
  <2>1. value[b] # MISSING
    <3> HIDE DEF value
    <3> QED
      BY Zenon, <1>3, PlotIsWhole
  <2>2. b \in Window(k.at, k.span)
    BY Zenon DEF Window
  <2>3. ReadIn(l, RingOf(k.span), b) # MISSING
    BY Zenon, <2>1, <2>2
  <2> QED
    BY <2>3, MeanOf
<1>4. Plot(value, k.at, k.span).complete[i] /\ Plot(value, k.at, k.span).complete[i - 1]
  BY Zenon, <1>1 DEF Joined
<1> HIDE DEF value
<1> QED
  BY Zenon, <1>2, <1>3, <1>4 DEF Known

LEMMA TrendStep ==
  ASSUME TaskInv, LogInv, RingInv, TrendInv, power \in MeterReadings, [PowerNext]_powerVars
  PROVE  TrendInv'
<1>0. /\ now \in 0 .. NOW_MAX /\ NOW_MAX \in Nat /\ now \in Nat /\ log \in Logs
      /\ (\A t \in 0 .. NOW_MAX : t > now => log[t] = MISSING) /\ (log[now] # MISSING => Resting)
      /\ rings = [name \in Rings |-> rings[name]] /\ (\A name \in Rings : RingOk(rings[name], log, name, now))
      /\ range \in Reach /\ (~news => trend = PlotOf(log, key))
      /\ \A i \in Columns : Joined(trend, i) => Known(log, key, i)
  BY Sizes DEF TaskInv, LogInv, RingInv, TrendInv, Resting
<1>1. CASE AnyReading
  <2>1. PICK value \in Values \cup {MISSING} : Sample(value)
    BY <1>1 DEF AnyReading
  <2>2. log' = [log EXCEPT ![now] = value] /\ waits = "read" /\ news' = TRUE
        /\ range' = range /\ key' = key /\ trend' = trend
    BY <2>1 DEF Sample, PublishesSample, screen
  <2>3. log[now] = MISSING
    BY <1>0, <2>2 DEF Resting
  <2>4. log' \in Logs /\ \A t \in 0 .. NOW_MAX : log[t] # MISSING => log'[t] # MISSING
    BY <1>0, <2>2, <2>3 DEF Logs
  <2>5. \A i \in Columns : Joined(trend, i) => Known(log', key, i)
    BY <1>0, <2>4, KnownLater
  <2> QED
    BY Zenon, <1>0, <2>2, <2>5 DEF TrendInv
<1>2. CASE PlotsGraph
  <2> DEFINE name == RingOf(range)
             ring == Advance(rings[name], now \div Step(name))
             got == [b \in Window(now, range) |-> Get(ring, b)]
             real == [b \in Window(now, range) |-> ReadIn(log, name, b)]
  <2>1. log' = log /\ range' = range /\ key' = [at |-> now, span |-> range]
        /\ trend' = Plot(got, now, range)
    BY Zenon, <1>2 DEF PlotsGraph
  <2>2. name \in Rings
    BY DEF RingOf, Rings
  <2>3. HoldsUpTo(ring, log, name, BucketOf(now, name)) /\ BucketOf(now, name) \in Nat
    <3> HIDE DEF name
    <3>1. Holds(rings[name], log, name)
          /\ (rings[name].bucket # None => rings[name].bucket[1] <= BucketOf(now, name))
      BY Zenon, <1>0, <2>2 DEF RingOk
    <3>2. BucketOf(now, name) \in Nat
      BY <1>0, <2>2, BucketIs
    <3>3. \A t \in 0 .. NOW_MAX : log[t] # MISSING => t \div Step(name) <= BucketOf(now, name)
      <4>1. Step(name) \in Nat \ {0} /\ \A t \in 0 .. NOW_MAX : log[t] # MISSING => t <= now
        BY <1>0, <2>2, Sizes
      <4> QED
        BY <1>0, <4>1, DivGrows DEF BucketOf
    <3>4. HoldsUpTo(Advance(rings[name], BucketOf(now, name)), log, name, BucketOf(now, name))
      BY Zenon, <1>0, <2>2, <3>1, <3>2, <3>3, AdvanceHolds
    <3> QED
      BY Zenon, <3>2, <3>4 DEF BucketOf
  <2> HIDE DEF ring
  <2>4. ASSUME NEW b \in Window(now, range) PROVE Get(ring, b) = ReadIn(log, name, b)
    <3>1. b \in Int /\ b <= BucketOf(now, name) /\ BucketOf(now, name) - HISTORY_SLOTS < b
      BY <1>0, WindowIsKept
    <3> HIDE DEF name
    <3> QED
      BY <1>0, <2>2, <2>3, <3>1, GetIs
  <2>5. got = real
    <3> HIDE DEF name
    <3> QED
      BY <2>4
  <2>6. key'.at = now /\ key'.span = range
    BY <2>1
  <2>7. trend' = PlotOf(log', key')
    <3> HIDE DEF got
    <3> QED
      BY Zenon, <2>1, <2>5, <2>6 DEF PlotOf
  <2>8. \A i \in Columns : Joined(trend', i) => Known(log', key', i)
    <3>1. RingOf(key'.span) \in Rings
      BY Zenon, <2>2, <2>6
    <3> QED
      BY Zenon, <1>0, <2>1, <2>7, <3>1, DrawnIsKnown
  <2> QED
    BY Zenon, <1>0, <2>1, <2>7, <2>8 DEF TrendInv
<1>3. CASE Passes
  <2>1. log' = log /\ news' = news /\ range' = range /\ key' = key /\ trend' = trend
    BY <1>3 DEF Passes, meter, screen
  <2> QED
    BY Zenon, <1>0, <2>1 DEF TrendInv
<1>4. CASE Elsewhere
  <2>1. log' = log /\ key' = key /\ trend' = trend /\ (news' = TRUE \/ news' = news) /\ range' \in Reach
    BY <1>0, <1>4 DEF Elsewhere
  <2>2. ~news' => ~news
    BY <2>1
  <2> QED
    BY Zenon, <1>0, <2>1, <2>2 DEF TrendInv
<1> QED
  BY <1>1, <1>2, <1>3, <1>4, StepKinds

-----------------------------------------------------------------------------
LEMMA FreshStarts == PowerInit => FreshInv
<1> SUFFICES ASSUME PowerInit PROVE FreshInv
  OBVIOUS
<1>1. power = [status |-> "Waiting", sample |-> None]
  BY Zenon DEF PowerInit
<1> QED
  BY <1>1 DEF FreshInv, MeterReadings, Statuses

LEMMA FreshStep ==
  ASSUME TaskInv, LogInv, FreshInv, [PowerNext]_powerVars
  PROVE  FreshInv'
<1>0. /\ now \in 0 .. NOW_MAX /\ NOW_MAX \in Nat /\ now \in Nat /\ log \in Logs
      /\ power \in MeterReadings /\ left \in Nat /\ READ_TIMEOUT \in Nat \ {0}
      /\ power.status = "Fresh" => power.sample # None /\ \E t \in 0 .. now : Since(t)
  BY Sizes DEF TaskInv, LogInv, FreshInv
<1>1. CASE AnyReading
  <2>1. PICK value \in Values \cup {MISSING} : Sample(value)
    BY <1>1 DEF AnyReading
  <2>2. log' = [log EXCEPT ![now] = value] /\ now' = now /\ waits' = "rest" /\ left' = 1
        /\ power' = Received(value, ms)
    BY Zenon, <2>1 DEF Sample, PublishesSample, WaitsAt
  <2>3. CASE value = MISSING
    <3>1. power' = [status |-> "Unavailable", sample |-> None]
      BY Zenon, <2>2, <2>3 DEF Received
    <3> QED
      BY <3>1 DEF FreshInv, MeterReadings, Statuses
  <2>4. CASE value # MISSING
    <3>1. power' = [status |-> "Fresh", sample |-> <<value, ms>>]
      BY Zenon, <2>2, <2>4 DEF Received
    <3>2. value \in Values /\ ms \in 0 .. CLOCK - 1
      <4>1. CLOCK \in Nat \ {0}
        BY Sizes
      <4> QED
        BY <1>0, <2>4, <4>1, ModIs DEF ms
    <3>3. power' \in MeterReadings /\ power'.sample # None /\ power'.sample[1] = value /\ power'.sample[2] = ms
      BY <3>1, <3>2 DEF MeterReadings, Statuses, None
    <3>4. log'[now] = value
      BY <1>0, <2>2 DEF Logs
    <3>5. now' \in 0 .. now' /\ now' - now' + left' <= 1
      BY <1>0, <2>2
    <3>6. Since(now)'
      BY Zenon, <2>2, <3>3, <3>4, <3>5 DEF Since, ms
    <3> QED
      BY Zenon, <3>3, <3>5, <3>6 DEF FreshInv
  <2> QED
    BY <2>3, <2>4
<1>2. CASE PlotsGraph
  <2>1. log' = log /\ now' = now /\ waits' = waits /\ left' = left /\ power' = power
    BY <1>2 DEF PlotsGraph, task
  <2> QED
    BY Zenon, <1>0, <2>1 DEF FreshInv, Since
<1>3. CASE Passes
  <2>1. log' = log /\ now' = now + 1 /\ waits' = waits /\ power' = power
        /\ left' = (IF left > 0 THEN left - 1 ELSE 0)
        /\ (waits \in {"read", "rest"} => left > 0)
    BY <1>3 DEF Passes, meter
  <2>2. ASSUME NEW t \in 0 .. now, Since(t) PROVE t \in 0 .. now' /\ Since(t)'
    <3>1. waits \in {"read", "rest"}
      BY Zenon, <2>2 DEF Since
    <3>2. left > 0 /\ left' = left - 1
      BY <2>1, <3>1
    <3>3. now' - t + left' = now - t + left /\ t \in 0 .. now'
      BY <1>0, <2>1, <3>2
    <3> QED
      BY Zenon, <2>1, <2>2, <3>3 DEF Since
  <2> QED
    BY Zenon, <1>0, <2>1, <2>2 DEF FreshInv
<1>4. CASE Elsewhere
  <2>1. log' = log /\ now' = now
    BY <1>4 DEF Elsewhere
  <2>2. CASE power' \in MeterReadings /\ power'.status # "Fresh"
    BY Zenon, <2>2 DEF FreshInv
  <2>3. CASE power' = power /\ waits \notin {"rest", "read"}
    <3>1. power.status # "Fresh"
      BY Zenon, <1>0, <2>3 DEF Since
    <3> QED
      BY Zenon, <1>0, <2>3, <3>1 DEF FreshInv
  <2>4. CASE power' = power /\ waits' = waits /\ left' = left
    BY Zenon, <1>0, <2>1, <2>4 DEF FreshInv, Since
  <2>5. CASE power' = power /\ waits = "rest" /\ left = 0 /\ waits' = "read" /\ left' = READ_TIMEOUT
    <3>1. ASSUME NEW t \in 0 .. now, Since(t) PROVE Since(t)'
      <4>1. now - t + left <= 1
        BY <2>5, <3>1 DEF Since
      <4>2. now' - t + left' <= READ_TIMEOUT + 1
        BY <1>0, <2>1, <2>5, <4>1
      <4> QED
        BY Zenon, <2>1, <2>5, <3>1, <4>2 DEF Since
    <3> QED
      BY Zenon, <1>0, <2>1, <2>5, <3>1 DEF FreshInv
  <2> QED
    BY Zenon, <1>4, <2>2, <2>3, <2>4, <2>5 DEF Elsewhere
<1>5. power \in MeterReadings
  BY <1>0
<1> QED
  BY <1>1, <1>2, <1>3, <1>4, <1>5, StepKinds

-----------------------------------------------------------------------------
THEOREM PowerInvHolds == PowerSpec => []PowerInv
<1>1. PowerInit => PowerInv
  BY TaskStarts, LogStarts, RingsStart, TrendStarts, FreshStarts DEF PowerInv
<1>2. PowerInv /\ [PowerNext]_powerVars => PowerInv'
  <2> SUFFICES ASSUME PowerInv, [PowerNext]_powerVars PROVE PowerInv'
    OBVIOUS
  <2>1. TaskInv /\ LogInv /\ RingInv /\ TrendInv /\ FreshInv /\ power \in MeterReadings
    BY DEF PowerInv, FreshInv
  <2>2. TaskInv'
    BY Zenon, <2>1, TaskStep
  <2>3. LogInv'
    BY Zenon, <2>1, LogStep
  <2>4. RingInv'
    BY Zenon, <2>1, RingsStep
  <2>5. TrendInv'
    BY Zenon, <2>1, TrendStep
  <2>6. FreshInv'
    BY Zenon, <2>1, FreshStep
  <2> QED
    BY Zenon, <2>2, <2>3, <2>4, <2>5, <2>6 DEF PowerInv
<1> QED
  BY <1>1, <1>2, PTL DEF PowerSpec

LEMMA GraphIsTrueFollows == PowerInv => GraphIsTrue
<1> SUFFICES ASSUME PowerInv PROVE GraphIsTrue
  OBVIOUS
<1>1. /\ log \in Logs /\ range \in Reach /\ (~news => trend = PlotOf(log, key))
      /\ \A i \in Columns : Joined(trend, i) => Known(log, key, i)
  BY Zenon DEF PowerInv, LogInv, TrendInv
<1>2. TrendIsTrue
  <2> SUFFICES ASSUME ~Outdated
               PROVE  trend = Plot([b \in Window(key.at, key.span) |-> Read(RingOf(key.span), b)], key.at, key.span)
    BY Zenon DEF TrendIsTrue
  <2>1. ~news
    BY Zenon DEF Outdated
  <2>2. [b \in Window(key.at, key.span) |-> Read(RingOf(key.span), b)]
        = [b \in Window(key.at, key.span) |-> ReadIn(log, RingOf(key.span), b)]
    BY Zenon DEF Read, ReadIn
  <2> QED
    BY Zenon, <1>1, <2>1, <2>2 DEF PlotOf
<1>3. NoLineOverGap
  <2>1. RingOf(key.span) \in Rings
    BY DEF RingOf, Rings
  <2>2. ASSUME NEW b, Ticks(log, RingOf(key.span), b) # {} PROVE Read(RingOf(key.span), b) # MISSING
    <3>1. ReadIn(log, RingOf(key.span), b) # MISSING
      BY <1>1, <2>1, <2>2, MeanOf
    <3> QED
      BY Zenon, <3>1 DEF Read, ReadIn
  <2> QED
    BY Zenon, <1>1, <2>2 DEF NoLineOverGap, Known
<1> QED
  BY <1>2, <1>3 DEF GraphIsTrue

THEOREM GraphIsTrueHolds == PowerSpec => []GraphIsTrue
BY PowerInvHolds, GraphIsTrueFollows, PTL

LEMMA MeterIsSoundFollows == PowerInv => MeterIsSound
<1> SUFFICES ASSUME PowerInv PROVE MeterIsSound
  OBVIOUS
<1>1. TaskInv /\ LogInv /\ RingInv /\ FreshInv
  BY DEF PowerInv
<1>2. MeterTypes
  <2>1. \A name \in Rings : \A i \in DOMAIN rings[name].values :
          \/ rings[name].values[i] = MISSING
          \/ \E a, b \in Values : a <= rings[name].values[i] /\ rings[name].values[i] <= b
    <3> SUFFICES ASSUME NEW name \in Rings, NEW i \in DOMAIN rings[name].values
                 PROVE  Proper(rings[name].values[i])
      BY Zenon DEF Proper, Between
    <3>1. RingType(rings[name])
      BY Zenon, <1>1 DEF RingInv, RingOk, Holds
    <3>2. DOMAIN rings[name].values = Slots
      BY <3>1 DEF RingType
    <3> QED
      BY Zenon, <3>1, <3>2 DEF RingType
  <2>2. power.status \in Statuses
    BY <1>1 DEF FreshInv, MeterReadings
  <2>3. asked \in 0 .. NOW_MAX
    BY <1>1, Sizes DEF TaskInv
  <2> QED
    BY Zenon, <1>1, <2>1, <2>2, <2>3 DEF MeterTypes, TaskInv, Waits, Parked
<1>3. FreshIsFresh
  <2> SUFFICES ASSUME View(power, ms) = "Fresh"
               PROVE  \E t \in 0 .. now :
                        now - t <= STALE /\ t % CLOCK = power.sample[2] /\ log[t] = power.sample[1]
    BY Zenon DEF FreshIsFresh
  <2>1. power.status = "Fresh" /\ ~(Age(power, ms) > STALE)
    BY DEF View
  <2>2. PICK t \in 0 .. now : Since(t)
    BY Zenon, <1>1, <2>1 DEF FreshInv
  <2>3. power.sample # None
    BY Zenon, <1>1, <2>1 DEF FreshInv
  <2>4. now \in Nat /\ t \in Nat /\ t <= now /\ left \in Nat /\ CLOCK \in Nat \ {0} /\ STALE \in Nat
        /\ READ_TIMEOUT \in Nat \ {0} /\ READ_TIMEOUT + 1 < CLOCK
    BY <1>1, Sizes DEF TaskInv
  <2>5. now - t < CLOCK
    BY <2>2, <2>4 DEF Since
  <2>6. Age(power, ms) = ((now % CLOCK) - (t % CLOCK)) % CLOCK
    BY Zenon, <2>2, <2>3 DEF Age, ms, Since
  <2>7. now - t <= STALE
    <3>1. ((now % CLOCK) - (t % CLOCK)) % CLOCK = now - t
      BY Zenon, <2>4, <2>5, AgeIs
    <3>2. Age(power, ms) = now - t
      BY Zenon, <2>6, <3>1
    <3> HIDE DEF Age, ms
    <3> QED
      BY <2>1, <2>4, <3>2
  <2> QED
    BY Zenon, <2>2, <2>7 DEF Since
<1>4. NeverTooSilent
  <2>1. ASSUME silence # None PROVE silence[1] <= LIMIT
    <3>1. PICK n \in Nat : silence = <<n>>
      BY Zenon, <1>1, <2>1 DEF TaskInv
    <3>2. silence[1] = n /\ silence[1] + left <= READ_TIMEOUT /\ left \in Nat
      BY <1>1, <2>1, <3>1, Sizes DEF TaskInv
    <3> QED
      BY <3>2, Sizes
  <2> QED
    BY Zenon, <2>1 DEF NeverTooSilent
<1>5. FirstDoneInTime
  BY <1>1, Sizes DEF TaskInv, FirstDoneInTime
<1> QED
  BY <1>2, <1>3, <1>4, <1>5 DEF MeterIsSound

THEOREM MeterIsSoundHolds == PowerSpec => []MeterIsSound
BY PowerInvHolds, MeterIsSoundFollows, PTL
-----------------------------------------------------------------------------
(***************************************************************************)
(* The places of the texts (module Screen).                                *)
(***************************************************************************)
Views ==
    [layout : Layouts, display : Displays, place : 0 .. 32, meter : Meters, clock : Clocks,
     weather : Weathers \cup {NoWeather}, trend : {<<>>} \cup {<<end>> : end \in Axis},
     expanded : BOOLEAN]

Boxes == [x0 : Int, y0 : Int, x1 : Int, y1 : Int]

(* An item keeps to its room, and to the part r of the screen.             *)
InPlace(i, r) ==
    i.box \in Boxes /\ Within(i.box, i.room) /\ Within(i.room, FULL) /\ Within(i.box, r)

(* So do all of some items, and none covers another.                       *)
Tidy(items, r) ==
    /\ r \in Boxes /\ \A i \in items : InPlace(i, r)
    /\ \A i, j \in items : i.name # j.name => Apart(i.box, j.box)

LEMMA BoxIs ==
  ASSUME NEW x \in Int, NEW y \in Int, NEW w \in Int, NEW h \in Int
  PROVE  /\ Box(x, y, w, h) \in Boxes
         /\ Box(x, y, w, h).x0 = x /\ Box(x, y, w, h).y0 = y
         /\ Box(x, y, w, h).x1 = x + w /\ Box(x, y, w, h).y1 = y + h
BY DEF Box, Boxes

LEMMA WithinTrans ==
  ASSUME NEW a \in Boxes, NEW b \in Boxes, NEW c \in Boxes, Within(a, b), Within(b, c)
  PROVE  Within(a, c)
BY DEF Within, Boxes

(* Parts of parts that are apart are apart.                                *)
LEMMA ApartParts ==
  ASSUME NEW a \in Boxes, NEW b \in Boxes, NEW p \in Boxes, NEW q \in Boxes,
         Within(a, p), Within(b, q), Apart(p, q)
  PROVE  Apart(a, b) /\ Apart(b, a)
BY DEF Within, Apart, Boxes

LEMMA TidyNone ==
  ASSUME NEW r \in Boxes PROVE Tidy({}, r)
BY DEF Tidy

LEMMA TidyIn ==
  ASSUME NEW A, NEW p, NEW r \in Boxes, Tidy(A, p), Within(p, r)
  PROVE  Tidy(A, r)
<1>1. ASSUME NEW i \in A PROVE InPlace(i, r)
  BY WithinTrans DEF Tidy, InPlace
<1> QED
  BY <1>1 DEF Tidy

LEMMA TidyUnion ==
  ASSUME NEW A, NEW B, NEW p, NEW q, NEW r \in Boxes, Tidy(A, p), Tidy(B, q), Apart(p, q),
         Within(p, r), Within(q, r)
  PROVE  Tidy(A \cup B, r)
<1>1. Tidy(A, r) /\ Tidy(B, r) /\ p \in Boxes /\ q \in Boxes
  BY TidyIn DEF Tidy
<1>2. ASSUME NEW i \in A, NEW j \in B PROVE Apart(i.box, j.box) /\ Apart(j.box, i.box)
  BY <1>1, ApartParts DEF Tidy, InPlace
<1> QED
  BY <1>1, <1>2 DEF Tidy

(* A few items, left and right of each other or one below the other.       *)
LEMMA ApartBack ==
  ASSUME NEW a, NEW b, Apart(a, b) PROVE Apart(b, a)
BY DEF Apart

LEMMA TidyOne ==
  ASSUME NEW a, NEW r \in Boxes, InPlace(a, r)
  PROVE  Tidy({a}, r)
BY DEF Tidy

LEMMA TidyTwo ==
  ASSUME NEW a, NEW b, NEW r \in Boxes, InPlace(a, r), InPlace(b, r), Apart(a.box, b.box)
  PROVE  Tidy({a, b}, r)
<1>1. Apart(b.box, a.box)
  BY ApartBack
<1> QED
  BY <1>1 DEF Tidy

LEMMA TidyThree ==
  ASSUME NEW a, NEW b, NEW c, NEW r \in Boxes, InPlace(a, r), InPlace(b, r), InPlace(c, r),
         Apart(a.box, b.box), Apart(a.box, c.box), Apart(b.box, c.box)
  PROVE  Tidy({a, b, c}, r)
<1>1. Apart(b.box, a.box) /\ Apart(c.box, a.box) /\ Apart(c.box, b.box)
  BY ApartBack
<1> QED
  BY <1>1 DEF Tidy

LEMMA TidyFour ==
  ASSUME NEW a, NEW b, NEW c, NEW d, NEW r \in Boxes,
         InPlace(a, r), InPlace(b, r), InPlace(c, r), InPlace(d, r),
         Apart(a.box, b.box), Apart(a.box, c.box), Apart(b.box, c.box),
         Apart(a.box, d.box), Apart(b.box, d.box), Apart(c.box, d.box)
  PROVE  Tidy({a, b, c, d}, r)
<1>1. /\ Apart(b.box, a.box) /\ Apart(c.box, a.box) /\ Apart(c.box, b.box)
      /\ Apart(d.box, a.box) /\ Apart(d.box, b.box) /\ Apart(d.box, c.box)
  BY ApartBack
<1> QED
  BY <1>1 DEF Tidy

-----------------------------------------------------------------------------
(* The widths of the texts.                                                *)
Temperatures == Degrees \cup {Missing}

LEMMA GlyphsAre ==
  ASSUME NEW t \in Temperatures
  PROVE  /\ TextWidth(SMALL, t) \in 10 .. 33 /\ TextWidth(MEDIUM, t) \in 14 .. 52
         /\ Chars(t) \in 2 .. 5
<1>1. CASE t = Missing
  BY <1>1 DEF Missing, Glyphs, TextWidth, SMALL, MEDIUM, Chars
<1>2. CASE t \in [digits : 2 .. 3, points : {1}, dashes : 0 .. 1]
  <2>1. t.digits \in 2 .. 3 /\ t.points = 1 /\ t.dashes \in 0 .. 1
    BY <1>2
  <2> QED
    BY <2>1 DEF TextWidth, SMALL, MEDIUM, Chars
<1> QED
  BY <1>1, <1>2, ScreenAssumption DEF Temperatures

LEMMA RainIs ==
  ASSUME NEW w \in Weathers
  PROVE  /\ RainWidth(w) \in 20 .. 36 /\ PillWidth(w) = 18 + RainWidth(w)
         /\ RainTile(w) = 18 + RainWidth(w) /\ Chars(w.rain) \in 1 .. 3
<1>1. w.rain \in Rains
  BY DEF Weathers
<1>2. TextWidth(SMALL, w.rain) \in 8 .. 24 /\ Chars(w.rain) \in 1 .. 3
  BY <1>1 DEF Rains, Missing, Glyphs, TextWidth, SMALL, Chars
<1>3. RainWidth(w) = TextWidth(SMALL, w.rain) + 12
  BY DEF RainWidth, SMALL
<1>4. RainWidth(w) \in 20 .. 36
  BY <1>2, <1>3
<1> QED
  BY <1>2, <1>4 DEF PillWidth, RainTile

LEMMA WeatherIs ==
  ASSUME NEW w \in Weathers
  PROVE  /\ w.now \in Temperatures /\ w.max \in Temperatures /\ w.min \in Temperatures
         /\ w.condition \in 1 .. 7 /\ w # NoWeather
<1>1. w.condition \in 1 .. 7
  BY ScreenAssumption DEF Weathers
<1>2. NoWeather.condition = 0
  BY DEF NoWeather
<1> QED
  BY <1>1, <1>2 DEF Weathers, Temperatures

LEMMA ReadingIs ==
  ASSUME NEW p \in Powers \cup {Missing}
  PROVE  /\ p.digits \in 0 .. 17 /\ p.points \in 0 .. 1 /\ p.dashes \in 0 .. 2
         /\ p = Missing \/ (p.points = 1 /\ p.dashes \in 0 .. 1)
         /\ p = Missing => p.digits = 0 /\ p.points = 0 /\ p.dashes = 2
<1>1. CASE p = Missing
  BY <1>1 DEF Missing, Glyphs
<1>2. CASE p \in Powers
  <2>1. p \in [digits : 2 .. 17, points : {1}, dashes : 0 .. 1]
    BY <1>2, ScreenAssumption
  <2>2. p.digits \in 2 .. 17 /\ p.points = 1 /\ p.dashes \in 0 .. 1
    BY <2>1
  <2>3. p # Missing
    BY <2>2 DEF Missing, Glyphs
  <2> QED
    BY <2>2, <2>3
<1> QED
  BY <1>1, <1>2

LEMMA DateIs ==
  ASSUME NEW v \in Views
  PROVE  DateWidth(v) \in 70 .. 84
BY DEF Views, Clocks, DateWidth, Full, Half

-----------------------------------------------------------------------------
(* The parts that the layouts share.                                       *)
LEMMA BigClockTidy ==
  ASSUME NEW v \in Views, NEW x \in 0 .. 20, NEW y \in 0 .. 20
  PROVE  /\ BigClockEnd(v, x) \in x + 74 .. x + 156
         /\ Tidy(BigClock(v, x, y), Box(x, y, BigClockEnd(v, x) - x, 32))
<1> DEFINE r == Box(x, y, BigClockEnd(v, x) - x, 32)
<1>1. /\ v.clock = 0 => BigClockEnd(v, x) = x + 74
      /\ v.clock # 0 => BigClockEnd(v, x) = x + 156
  BY DEF BigClockEnd, CLOCK_FONT, MEDIUM
<1>4. BigClockEnd(v, x) \in x + 74 .. x + 156 /\ r \in Boxes
  BY <1>1 DEF Box, Boxes
<1>2. CASE v.clock = 0
  <2> DEFINE a == Aa("clock", CLOCK_FONT, x, y, 4 * CLOCK_FONT.dash + CLOCK_FONT.colon, FULL)
  <2>1. BigClock(v, x, y) = {a}
    BY <1>2 DEF BigClock
  <2>2. InPlace(a, r)
    BY <1>1, <1>2 DEF Aa, Item, Box, Boxes, InPlace, Within, FULL, WIDTH, HEIGHT, CLOCK_FONT
  <2> HIDE DEF a, r
  <2>3. Tidy({a}, r)
    BY <1>4, <2>2, TidyOne
  <2> QED
    BY <1>4, <2>1, <2>3 DEF r
<1>3. CASE v.clock # 0
  <2> DEFINE a == Aa("clock", CLOCK_FONT, x, y, 4 * CLOCK_FONT.digit + CLOCK_FONT.colon, FULL)
             b == Aa("seconds", MEDIUM, x + (4 * CLOCK_FONT.digit + CLOCK_FONT.colon) + 1,
                     y + CLOCK_FONT.base - MEDIUM.base, MEDIUM.colon + 2 * MEDIUM.digit, FULL)
  <2>1. BigClock(v, x, y) = {a, b}
    BY <1>3 DEF BigClock
  <2>2. InPlace(a, r) /\ InPlace(b, r) /\ Apart(a.box, b.box)
    BY <1>1, <1>3 DEF Aa, Item, Box, Boxes, InPlace, Within, Apart, FULL, WIDTH, HEIGHT, CLOCK_FONT, MEDIUM
  <2> HIDE DEF a, b, r
  <2>3. Tidy({a, b}, r)
    BY <1>4, <2>2, TidyTwo
  <2> QED
    BY <1>4, <2>1, <2>3 DEF r
<1> QED
  BY <1>2, <1>3

MeterStates == {"Disabled", "Waiting", "ConfigError", "Unavailable", "Unsupported", "Fresh", "Stale"}

LEMMA MeterIs ==
  ASSUME NEW v \in Views
  PROVE  /\ v.meter.status \in MeterStates /\ v.meter.value \in Powers \cup {Missing}
         /\ Label[v.meter.status] \in 0 .. 8 /\ StatusChars(v) \in 0 .. 12
<1>1. v.meter \in Meters
  BY DEF Views
<1>2. v.meter.status \in MeterStates /\ v.meter.value \in Powers \cup {Missing}
  BY <1>1 DEF Meters, MeterStates
<1>3. /\ Label[v.meter.status] \in 0 .. 8
      /\ v.meter.status = "Stale" => Label[v.meter.status] = 3
  BY <1>2 DEF MeterStates, Label
<1>4. StatusChars(v) \in 0 .. 12
  BY <1>3 DEF StatusChars, SAMPLE_AGE
<1> QED
  BY <1>2, <1>3, <1>4

LEMMA ShortReadingIs ==
  ASSUME NEW v \in Views, v.meter.value.digits <= BAR_DIGITS
  PROVE  TextWidth(SMALL, v.meter.value) \in 10 .. 89 /\ Chars(v.meter.value) \in 2 .. 12
<1> DEFINE p == v.meter.value
<1>1. p \in Powers \cup {Missing} /\ p.digits <= 10
  BY MeterIs, ReadingIs, ScreenAssumption
<1>2. /\ p.digits \in 0 .. 17 /\ p.points \in 0 .. 1 /\ p.dashes \in 0 .. 2
      /\ p.digits = 0 => p.dashes = 2 /\ p.points = 0
      /\ p.dashes = 2 => p.digits = 0
      /\ p.digits # 0 => p.digits >= 2 /\ p.points = 1 /\ p.dashes \in 0 .. 1
  <2>1. CASE p = Missing
    BY <2>1, ReadingIs, MeterIs
  <2>2. CASE p # Missing
    <3>1. p \in [digits : 2 .. 17, points : {1}, dashes : 0 .. 1]
      BY <1>1, <2>2, ScreenAssumption
    <3>2. p.digits \in 2 .. 17 /\ p.points = 1 /\ p.dashes \in 0 .. 1
      BY <3>1
    <3> QED
      BY <3>2
  <2> QED
    BY <2>1, <2>2
<1> HIDE DEF p
<1>3. TextWidth(SMALL, p) \in 10 .. 89 /\ Chars(p) \in 2 .. 12
  BY <1>1, <1>2 DEF TextWidth, SMALL, Chars
<1> QED
  BY <1>3 DEF p

LEMMA CompactBarTidy ==
  ASSUME NEW v \in Views, v.meter.value.digits <= BAR_DIGITS,
         NEW x \in 0 .. 200, NEW y \in 0 .. 60, NEW most \in 86 .. 230,
         x + most <= 400
  PROVE  Tidy(Bar(v, x, y, most, TRUE), Box(x, y, most, 15))
<1> DEFINE r == Box(x, y, most, 15)
           number == TextWidth(SMALL, v.meter.value)
           chars == Chars(v.meter.value)
           odd == StatusChars(v)
<1>1. number \in 10 .. 89 /\ chars \in 2 .. 12 /\ odd \in 0 .. 12
  BY ShortReadingIs, MeterIs
<1>2. r \in Boxes
  BY DEF Box, Boxes
<1> HIDE DEF number, chars, odd
<1>3. CASE v.meter.status = "Disabled"
  <2>1. Bar(v, x, y, most, TRUE) = {}
    BY <1>3 DEF Bar
  <2> QED
    BY <1>2, <2>1, TidyNone
<1>4. CASE v.meter.status # "Disabled"
  <2> DEFINE value == 4 + 5 * (chars + 2)
             width == Narrower(value + (IF odd = 0 THEN 0 ELSE 4 + 5 * odd) + 4, most)
             room == Box(x, y, width, 15)
             at == x + value + 4
             a == Tiny("value", x + 4, y + 4, chars + 2, room)
             b == Tiny("state", at, y + 4, odd, room)
             fits == odd # 0 /\ at + 5 * odd <= x + width - 4
  <2>1. Bar(v, x, y, most, TRUE) = {a} \cup (IF fits THEN {b} ELSE {})
    BY <1>4 DEF Bar, number, chars, odd
  <2>2. width \in value .. most /\ value \in 24 .. 74
    BY <1>1 DEF Narrower
  <2> HIDE DEF width
  <2>3. InPlace(a, r)
    BY <1>1, <2>2 DEF Tiny, Item, Box, Boxes, InPlace, Within, FULL, WIDTH, HEIGHT
  <2>4. CASE fits
    <3>1. InPlace(b, r) /\ Apart(a.box, b.box)
      BY <1>1, <1>4, <2>2, <2>4 DEF Tiny, Item, Box, Boxes, InPlace, Within, Apart, FULL, WIDTH, HEIGHT
    <3>2. Bar(v, x, y, most, TRUE) = {a, b}
      BY <2>1, <2>4
    <3> HIDE DEF a, b, r
    <3>3. Tidy({a, b}, r)
      BY <1>2, <2>3, <3>1, TidyTwo
    <3> QED
      BY <3>2, <3>3 DEF r
  <2>5. CASE ~fits
    <3>1. Bar(v, x, y, most, TRUE) = {a}
      BY <2>1, <2>5
    <3> HIDE DEF a, r
    <3>2. Tidy({a}, r)
      BY <1>2, <2>3, TidyOne
    <3> QED
      BY <3>1, <3>2 DEF r
  <2> QED
    BY <2>4, <2>5
<1> QED
  BY <1>3, <1>4

LEMMA WideBarTidy ==
  ASSUME NEW v \in Views, v.meter.value.digits <= BAR_DIGITS,
         NEW x \in 0 .. 10, NEW y \in 0 .. 60, NEW most \in 210 .. 230
  PROVE  Tidy(Bar(v, x, y, most, FALSE), Box(x, y, most, 15))
<1> DEFINE r == Box(x, y, most, 15)
           number == TextWidth(SMALL, v.meter.value)
           chars == Chars(v.meter.value)
           odd == StatusChars(v)
<1>1. number \in 10 .. 89 /\ chars \in 2 .. 12 /\ odd \in 0 .. 12
  BY ShortReadingIs, MeterIs
<1>2. r \in Boxes
  BY DEF Box, Boxes
<1> HIDE DEF number, chars, odd
<1>3. CASE v.meter.status = "Disabled"
  <2>1. Bar(v, x, y, most, FALSE) = {}
    BY <1>3 DEF Bar
  <2> QED
    BY <1>2, <2>1, TidyNone
<1>4. CASE v.meter.status # "Disabled"
  <2> DEFINE value == 40 + number + 3 + 5
             width == Narrower(value + (IF odd = 0 THEN 0 ELSE 8 + 5 * odd) + 6, most)
             room == Box(x, y, width, 15)
             a == Tiny("P110M", x + 6, y + 4, 5, room)
             b == Aa("value", SMALL, x + 40, IF v.meter.value = Missing THEN y ELSE y + 3, number, room)
             c == Tiny("W", x + 40 + number + 3, y + 4, 1, room)
             d == Tiny("state", x + value + 8, y + 4, odd, room)
  <2>1. Bar(v, x, y, most, FALSE) = {a, b, c} \cup (IF odd # 0 THEN {d} ELSE {})
    BY <1>4 DEF Bar, number, chars, odd
  <2>2. /\ width \in value .. most /\ value \in 58 .. 137 /\ value = number + 48
        /\ odd # 0 => value + 8 + 5 * odd <= width
    BY <1>1, <1>4 DEF Narrower
  <2> HIDE DEF width, value
  <2>3. InPlace(a, r) /\ InPlace(b, r) /\ InPlace(c, r)
    <3>1. InPlace(a, r) /\ InPlace(c, r)
      BY <1>1, <1>4, <2>2 DEF Tiny, Item, Box, Boxes, InPlace, Within, FULL, WIDTH, HEIGHT
    <3>2. InPlace(b, r)
      BY <1>1, <1>4, <2>2 DEF Aa, SMALL, Item, Box, Boxes, InPlace, Within, FULL, WIDTH, HEIGHT
    <3> QED
      BY <3>1, <3>2
  <2>4. Apart(a.box, b.box) /\ Apart(a.box, c.box) /\ Apart(b.box, c.box)
    BY <1>1, <2>2 DEF Tiny, Aa, SMALL, Item, Box, Apart
  <2>5. CASE odd # 0
    <3>1. InPlace(d, r)
      BY <1>1, <1>4, <2>2, <2>5 DEF Tiny, Item, Box, Boxes, InPlace, Within, FULL, WIDTH, HEIGHT
    <3>2. Apart(a.box, d.box) /\ Apart(c.box, d.box)
      BY <1>1, <2>2 DEF Tiny, Item, Box, Apart
    <3>4. Apart(b.box, d.box)
      BY <1>1, <2>2 DEF Tiny, Aa, SMALL, Item, Box, Apart
    <3>3. Bar(v, x, y, most, FALSE) = {a, b, c, d}
      BY <2>1, <2>5
    <3> HIDE DEF a, b, c, d, r
    <3>5. Tidy({a, b, c, d}, r)
      BY <1>2, <2>3, <2>4, <3>1, <3>2, <3>4, TidyFour
    <3> QED
      BY <3>3, <3>5 DEF r
  <2>6. CASE odd = 0
    <3>1. Bar(v, x, y, most, FALSE) = {a, b, c}
      BY <2>1, <2>6
    <3> HIDE DEF a, b, c, r
    <3>2. Tidy({a, b, c}, r)
      BY <1>2, <2>3, <2>4, TidyThree
    <3> QED
      BY <3>1, <3>2 DEF r
  <2> QED
    BY <2>5, <2>6
<1> QED
  BY <1>3, <1>4

LEMMA StatusLinesTidy ==
  ASSUME NEW x \in 0 .. 20, NEW y \in 0 .. 69, NEW room \in Boxes, Within(room, FULL),
         Within(Box(x, y, 6, 27), room)
  PROVE  Tidy(StatusLines(x, y, room), Box(x, y, 6, 27))
<1> DEFINE r == Box(x, y, 6, 27)
           a == Item("line 1", Box(x, y, 6, 9), room)
           b == Item("line 2", Box(x, y + 9, 6, 9), room)
           c == Item("line 3", Box(x, y + 18, 6, 9), room)
<1>1. StatusLines(x, y, room) = {a, b, c}
  <2>1. 1 .. 3 = {1, 2, 3}
    OBVIOUS
  <2>2. /\ <<"line 1", "line 2", "line 3">>[1] = "line 1"
        /\ <<"line 1", "line 2", "line 3">>[2] = "line 2"
        /\ <<"line 1", "line 2", "line 3">>[3] = "line 3"
    OBVIOUS
  <2>3. y + 9 * (1 - 1) = y /\ y + 9 * (2 - 1) = y + 9 /\ y + 9 * (3 - 1) = y + 18
    OBVIOUS
  <2> QED
    BY <2>1, <2>2, <2>3, Zenon DEF StatusLines
<1>2. InPlace(a, r) /\ InPlace(b, r) /\ InPlace(c, r)
  BY DEF Item, Box, Boxes, InPlace, Within
<1>3. Apart(a.box, b.box) /\ Apart(a.box, c.box) /\ Apart(b.box, c.box)
  BY DEF Item, Box, Apart
<1>4. r \in Boxes
  BY DEF Box, Boxes
<1> HIDE DEF a, b, c, r
<1>5. Tidy({a, b, c}, r)
  BY <1>2, <1>3, <1>4, TidyThree
<1> QED
  BY <1>1, <1>5 DEF r

LEMMA ChipTidy ==
  ASSUME NEW right \in 95 .. 400, NEW y \in 0 .. 89, NEW room \in Boxes, Within(room, FULL),
         Within(Box(right - 95, y, 95, 7), room)
  PROVE  Tidy(Chip(right, y, room), Box(right - 95, y, 95, 7))
<1> DEFINE r == Box(right - 95, y, 95, 7)
           a == Item("chip", Box(right - CHIP, y, CHIP, 7), room)
<1>1. InPlace(a, r)
  BY DEF Item, Box, Boxes, InPlace, Within, CHIP
<1>2. r \in Boxes
  BY DEF Box, Boxes
<1> HIDE DEF a, r
<1>3. Tidy({a}, r)
  BY <1>1, <1>2, TidyOne
<1> QED
  BY <1>3 DEF Chip, a, r

(* The forecast: at most 146 pixels wide.                                  *)
LEMMA ForecastIs ==
  ASSUME NEW w \in Weathers
  PROVE  /\ ForecastWidth(w) = 44 + TextWidth(SMALL, w.max) + TextWidth(SMALL, w.min) + RainWidth(w)
         /\ ForecastWidth(w) \in 84 .. 146
<1> DEFINE max == TextWidth(SMALL, w.max)
           min == TextWidth(SMALL, w.min)
           rain == RainWidth(w)
<1>1. max \in 10 .. 33 /\ min \in 10 .. 33 /\ rain \in 20 .. 36 /\ PillWidth(w) = 18 + rain
  BY GlyphsAre, WeatherIs, RainIs
<1>2. ForecastWidth(w) = 7 + max + 6 + 7 + min + 6 + PillWidth(w)
  BY DEF ForecastWidth
<1> HIDE DEF max, min, rain
<1>3. ForecastWidth(w) = 44 + max + min + rain /\ ForecastWidth(w) \in 84 .. 146
  BY <1>1, <1>2
<1> QED
  BY <1>3 DEF max, min, rain

LEMMA ForecastTidy ==
  ASSUME NEW w \in Weathers, NEW x \in 0 .. 400, NEW y \in 1 .. 80, NEW room \in Boxes,
         Within(room, FULL), Within(Box(x, y - 1, ForecastWidth(w), 13), room)
  PROVE  Tidy(Forecast(w, x, y, room), Box(x, y - 1, ForecastWidth(w), 13))
<1> DEFINE high == TextWidth(SMALL, w.max)
           low == TextWidth(SMALL, w.min)
           pill == PillWidth(w)
           wide == ForecastWidth(w)
           down == x + 7 + high + 6
           r == Box(x, y - 1, wide, 13)
           p == Box(x, y - 1, 7 + high + 6 + 7, 13)
           q == Box(down + 7, y - 1, low + 6 + pill, 13)
           a == Item("up", Box(x, y + 4, 5, 3), room)
           b == Aa("max", SMALL, x + 7, y, (x + 7) - x - 7 + high, room)
           c == Item("down", Box(down, y + 4, 5, 3), room)
           d == Aa("min", SMALL, down + 7, y, low, room)
           e == Item("pill", Box(down + 7 + low + 6, y - 1, pill, 13), room)
<1>1. high \in 10 .. 33 /\ low \in 10 .. 33 /\ pill \in 38 .. 54
  BY GlyphsAre, WeatherIs, RainIs
<1>2. wide = 7 + high + 6 + 7 + low + 6 + pill
  BY DEF ForecastWidth
<1>3. Forecast(w, x, y, room) = {a, b, c} \cup {d, e}
  BY DEF Forecast
<1> HIDE DEF high, low, pill, wide
<1>4. r \in Boxes /\ p \in Boxes /\ q \in Boxes
  BY <1>1, <1>2 DEF Box, Boxes
<1>5. Within(p, r) /\ Within(q, r) /\ Apart(p, q)
  BY <1>1, <1>2 DEF Box, Within, Apart
<1>6. Within(r, room)
  BY DEF wide
<1>7. InPlace(a, p) /\ InPlace(b, p) /\ InPlace(c, p)
  BY <1>1, <1>2, <1>6 DEF Item, Aa, SMALL, Box, Boxes, InPlace, Within
<1>8. InPlace(d, q) /\ InPlace(e, q)
  BY <1>1, <1>2, <1>6 DEF Item, Aa, SMALL, Box, Boxes, InPlace, Within
<1>9. /\ Apart(a.box, b.box) /\ Apart(a.box, c.box) /\ Apart(b.box, c.box)
      /\ Apart(d.box, e.box)
  BY <1>1 DEF Item, Aa, SMALL, Box, Apart
<1> HIDE DEF a, b, c, d, e, p, q, r
<1>10. Tidy({a, b, c}, p) /\ Tidy({d, e}, q)
  BY <1>4, <1>7, <1>8, <1>9, TidyThree, TidyTwo
<1>11. Tidy({a, b, c} \cup {d, e}, r)
  BY <1>4, <1>5, <1>10, TidyUnion
<1> QED
  BY <1>3, <1>11 DEF r, wide

BandTop(v) == IF v.expanded THEN 61 ELSE 74

LEMMA GlassBandTidy ==
  ASSUME NEW v \in Views
  PROVE  Tidy(GlassBand(v), Box(0, BandTop(v), 400, 96 - BandTop(v)))
<1> DEFINE r == Box(0, BandTop(v), 400, 96 - BandTop(v))
<1>1. r \in Boxes
  BY DEF Box, Boxes, BandTop
<1>2. CASE v.expanded
  <2> DEFINE room == Box(2, 61, WIDTH - 4, HEIGHT - 62)
             p == Box(6, 64, 6, 27)
  <2>1. room \in Boxes /\ Within(room, FULL) /\ Within(p, room) /\ Within(p, r)
    BY <1>2 DEF BandTop, Box, Boxes, Within, FULL, WIDTH, HEIGHT
  <2>2. GlassBand(v) = StatusLines(6, 64, room)
    BY <1>2 DEF GlassBand
  <2> HIDE DEF room
  <2>3. Tidy(StatusLines(6, 64, room), p)
    BY <2>1, StatusLinesTidy
  <2> HIDE DEF p, r
  <2> QED
    BY <1>1, <2>1, <2>2, <2>3, TidyIn DEF r
<1>3. CASE ~v.expanded
  <2> DEFINE room == Box(4, 74, GLASS_BAND_W - GLASS_CHIP_W, 19)
             rest == Box(4 + GLASS_BAND_W - GLASS_CHIP_W, 74, GLASS_CHIP_W, 19)
             a == Item("scroll", Box(ScrollArea["Glass"].x, 77 - 1, ScrollArea["Glass"].w, 16), room)
             b == Item("chip", Box((4 + GLASS_BAND_W - 6) - CHIP, 80, CHIP, 7), rest)
  <2>1. GlassBand(v) = {a, b}
    <3>1. ScrollBand("Glass", 77, room) = {a}
      BY Zenon DEF ScrollBand
    <3>3. Chip(4 + GLASS_BAND_W - 6, 80, rest) = {b}
      BY Zenon DEF Chip
    <3>2. GlassBand(v) = ScrollBand("Glass", 77, room) \cup Chip(4 + GLASS_BAND_W - 6, 80, rest)
      BY <1>3, Zenon DEF GlassBand
    <3> HIDE DEF a, b, room, rest
    <3> QED
      BY <3>1, <3>2, <3>3
  <2>2. /\ InPlace(a, r) /\ InPlace(b, r) /\ Apart(a.box, b.box)
    BY <1>3 DEF BandTop, Item, Box, Boxes, InPlace, Within, Apart, FULL, WIDTH, HEIGHT,
           GLASS_BAND_W, GLASS_CHIP_W, ScrollArea, CHIP
  <2> HIDE DEF a, b, r
  <2> QED
    BY <1>1, <2>1, <2>2, TidyTwo DEF r
<1> QED
  BY <1>2, <1>3

-----------------------------------------------------------------------------
(* The layout Glass.                                                       *)
LEMMA PlaceIs ==
  ASSUME NEW v \in Views
  PROVE  /\ Half(v.place) \in 0 .. 224
         /\ v.place <= 8 => Half(v.place) \in 0 .. 56
         /\ v.place <= 5 => Half(v.place) \in 0 .. 35
<1>1. v.place \in 0 .. 32
  BY DEF Views
<1> QED
  BY <1>1 DEF Half

GlassCard == Box(234, 4, WIDTH - 238, 54)
GlassPlace(v) ==
    {Item("pin", Box(390 - Half(v.place) - 8, 11, 5, 7), GlassCard),
     Jp("place", 390 - Half(v.place), 8, Half(v.place), GlassCard)}
GlassWeather(v) ==
    IF v.weather = NoWeather
    THEN {Icon("weather", 240, 8, GlassCard), Jp("condition", 240, 26, Full(6), GlassCard)}
    ELSE {Icon("weather", 240, 8, GlassCard),
          Aa("degrees", MEDIUM, 259, 8, TextWidth(MEDIUM, v.weather.now) + MEDIUM.degree, GlassCard),
          Jp("condition", 240, 26, Full(v.weather.condition), GlassCard)}
         \cup Forecast(v.weather, 240, 44, GlassCard)

LEMMA GlassCardIs ==
  /\ GlassCard \in Boxes /\ Within(GlassCard, FULL)
  /\ GlassCard.x0 = 234 /\ GlassCard.y0 = 4 /\ GlassCard.x1 = 396 /\ GlassCard.y1 = 58
BY DEF GlassCard, Box, Boxes, Within, FULL, WIDTH, HEIGHT

LEMMA GlassPlaceTidy ==
  ASSUME NEW v \in Views, v.place <= 8
  PROVE  Tidy(GlassPlace(v), Box(326, 8, 64, 14))
<1> DEFINE w == Half(v.place)
           r == Box(326, 8, 64, 14)
           a == Item("pin", Box(390 - w - 8, 11, 5, 7), GlassCard)
           b == Jp("place", 390 - w, 8, w, GlassCard)
<1>1. w \in 0 .. 56
  BY PlaceIs
<1>2. GlassPlace(v) = {a, b}
  BY DEF GlassPlace
<1> HIDE DEF w
<1>3. r \in Boxes
  BY DEF Box, Boxes
<1>4. InPlace(a, r) /\ InPlace(b, r) /\ Apart(a.box, b.box)
  BY <1>1, GlassCardIs DEF Item, Jp, Box, Boxes, InPlace, Within, Apart
<1> HIDE DEF a, b, r
<1> QED
  BY <1>2, <1>3, <1>4, TidyTwo DEF r

LEMMA GlassCardTidy ==
  ASSUME NEW v \in Views, v.place <= 8
  PROVE  Tidy(GlassPlace(v) \cup GlassWeather(v), GlassCard)
<1> DEFINE place == Box(326, 8, 64, 14)
           p == Box(240, 8, 81, 15)
           top == Box(240, 8, 150, 15)
           kind == Box(240, 26, 98, 14)
           r == Box(240, 4, 156, 38)
           a == Icon("weather", 240, 8, GlassCard)
<1>1. /\ p \in Boxes /\ r \in Boxes /\ place \in Boxes /\ top \in Boxes /\ kind \in Boxes
      /\ GlassCard \in Boxes
  BY GlassCardIs DEF Box, Boxes
<1>2. /\ Within(p, top) /\ Within(place, top) /\ Apart(place, p)
      /\ Within(top, r) /\ Within(kind, r) /\ Apart(top, kind) /\ Within(r, GlassCard)
  BY GlassCardIs DEF Box, Within, Apart
<1>3. Tidy(GlassPlace(v), place)
  BY GlassPlaceTidy
<1>4. CASE v.weather = NoWeather
  <2> DEFINE c == Jp("condition", 240, 26, Full(6), GlassCard)
  <2>1. GlassWeather(v) = {a, c}
    BY <1>4 DEF GlassWeather
  <2>2. InPlace(a, p) /\ InPlace(c, kind)
    BY GlassCardIs DEF Item, Icon, Jp, Full, Box, Boxes, InPlace, Within
  <2> HIDE DEF a, c, p, r, place, top, kind
  <2>3. Tidy({a}, p) /\ Tidy({c}, kind)
    BY <1>1, <2>2, TidyOne
  <2>4. Tidy(GlassPlace(v) \cup {a}, top)
    BY <1>1, <1>2, <1>3, <2>3, TidyUnion
  <2>5. Tidy((GlassPlace(v) \cup {a}) \cup {c}, r)
    BY <1>1, <1>2, <2>3, <2>4, TidyUnion
  <2>6. Tidy((GlassPlace(v) \cup {a}) \cup {c}, GlassCard)
    BY <1>1, <1>2, <2>5, TidyIn
  <2>7. (GlassPlace(v) \cup {a}) \cup {c} = GlassPlace(v) \cup GlassWeather(v)
    BY <2>1
  <2> QED
    BY <2>6, <2>7
<1>5. CASE v.weather # NoWeather
  <2> DEFINE w == v.weather
             grade == TextWidth(MEDIUM, w.now)
             cond == Full(w.condition)
             wide == ForecastWidth(w)
             b == Aa("degrees", MEDIUM, 259, 8, grade + MEDIUM.degree, GlassCard)
             c == Jp("condition", 240, 26, cond, GlassCard)
             q == Box(240, 43, wide, 13)
  <2>1. w \in Weathers
    BY <1>5 DEF Views
  <2>2. grade \in 14 .. 52 /\ wide \in 84 .. 146
    BY <2>1, WeatherIs, GlyphsAre, ForecastIs
  <2>3. cond \in 14 .. 98
    <3>1. w.condition \in 1 .. 7
      BY <2>1, WeatherIs
    <3> QED
      BY <3>1 DEF Full
  <2>4. GlassWeather(v) = {a, b, c} \cup Forecast(w, 240, 44, GlassCard)
    BY <1>5 DEF GlassWeather
  <2> HIDE DEF w, grade, cond, wide
  <2>5. InPlace(a, p) /\ InPlace(b, p) /\ InPlace(c, kind) /\ Apart(a.box, b.box)
    BY <2>2, <2>3, GlassCardIs DEF Item, Icon, Jp, Aa, MEDIUM, Box, Boxes, InPlace, Within, Apart
  <2>6. q \in Boxes /\ Within(q, GlassCard) /\ Apart(r, q)
    BY <2>2, GlassCardIs DEF Box, Boxes, Within, Apart
  <2>7. Tidy(Forecast(w, 240, 44, GlassCard), q)
    <3>1. q = Box(240, 44 - 1, ForecastWidth(w), 13)
      BY DEF wide
    <3>2. 240 \in 0 .. 400 /\ 44 \in 1 .. 80 /\ Within(Box(240, 44 - 1, ForecastWidth(w), 13), GlassCard)
      BY <2>6, <3>1
    <3>3. Tidy(Forecast(w, 240, 44, GlassCard), Box(240, 44 - 1, ForecastWidth(w), 13))
      <4>1. GlassCard \in Boxes /\ Within(GlassCard, FULL)
        BY GlassCardIs
      <4> QED
        BY <2>1, <3>2, <4>1, ForecastTidy, ZenonT(30)
    <3> QED
      BY <3>1, <3>3
  <2> HIDE DEF a, b, c, p, q, r, place, top, kind
  <2>8. Tidy({a, b}, p) /\ Tidy({c}, kind)
    BY <1>1, <2>5, TidyOne, TidyTwo
  <2>9. Tidy(GlassPlace(v) \cup {a, b}, top)
    BY <1>1, <1>2, <1>3, <2>8, TidyUnion
  <2>10. Tidy((GlassPlace(v) \cup {a, b}) \cup {c}, r)
    BY <1>1, <1>2, <2>8, <2>9, TidyUnion
  <2>11. Tidy(((GlassPlace(v) \cup {a, b}) \cup {c}) \cup Forecast(w, 240, 44, GlassCard), GlassCard)
    BY <1>1, <1>2, <2>6, <2>7, <2>10, TidyUnion
  <2>12. ((GlassPlace(v) \cup {a, b}) \cup {c}) \cup Forecast(w, 240, 44, GlassCard)
           = GlassPlace(v) \cup GlassWeather(v)
    BY <2>4
  <2> QED
    BY <2>11, <2>12
<1> QED
  BY <1>4, <1>5

GlassBar(v) == IF v.expanded THEN Bar(v, 128, 39, 100, TRUE) ELSE Bar(v, 8, 56, 218, FALSE)

(* The date and the bar, below the clock.                                  *)
GlassDate(v) == Jp("date", 10, 40, DateWidth(v), FULL)
LEMMA GlassLowTidy ==
  ASSUME NEW v \in Views, v.meter.value.digits <= BAR_DIGITS
  PROVE  Tidy({GlassDate(v)} \cup GlassBar(v), Box(0, 37, 230, BandTop(v) - 37))
<1> DEFINE date == GlassDate(v)
           dateBox == Box(10, 40, 84, 14)
           barBox == IF v.expanded THEN Box(128, 39, 100, 15) ELSE Box(8, 56, 218, 15)
           lowBox == Box(0, 37, 230, BandTop(v) - 37)
<1>1. dateBox \in Boxes /\ barBox \in Boxes /\ lowBox \in Boxes
  BY DEF Box, Boxes, BandTop
<1>2. Within(dateBox, lowBox) /\ Within(barBox, lowBox) /\ Apart(dateBox, barBox)
  BY DEF Box, Within, Apart, BandTop
<1>3. Tidy({date}, dateBox)
  <2>1. InPlace(date, dateBox)
    BY DateIs DEF GlassDate, Jp, Item, Box, Boxes, InPlace, Within, FULL, WIDTH, HEIGHT
  <2> QED
    BY <1>1, <2>1, TidyOne
<1>4. Tidy(GlassBar(v), barBox)
  <2>1. CASE v.expanded
    <3>1. Tidy(Bar(v, 128, 39, 100, TRUE), Box(128, 39, 100, 15))
      <4>1. 128 \in 0 .. 200 /\ 39 \in 0 .. 60 /\ 100 \in 86 .. 230 /\ 128 + 100 <= 400
        OBVIOUS
      <4> QED
        BY <4>1, CompactBarTidy, Zenon
    <3> QED
      BY <2>1, <3>1 DEF GlassBar
  <2>2. CASE ~v.expanded
    <3>1. Tidy(Bar(v, 8, 56, 218, FALSE), Box(8, 56, 218, 15))
      <4>1. 8 \in 0 .. 10 /\ 56 \in 0 .. 60 /\ 218 \in 210 .. 230
        OBVIOUS
      <4> QED
        BY <4>1, WideBarTidy, Zenon
    <3> QED
      BY <2>2, <3>1 DEF GlassBar
  <2> QED
    BY <2>1, <2>2
<1> HIDE DEF date, dateBox, barBox, lowBox
<1>5. Tidy({date} \cup GlassBar(v), lowBox)
  BY <1>1, <1>2, <1>3, <1>4, TidyUnion
<1> QED
  BY <1>5 DEF date, lowBox

LEMMA GlassIs ==
  ASSUME NEW v
  PROVE  Glass(v) = ((BigClock(v, 8, 4) \cup ({GlassDate(v)} \cup GlassBar(v)))
                     \cup (GlassPlace(v) \cup GlassWeather(v))) \cup GlassBand(v)
<1>1. Glass(v) = BigClock(v, 8, 4) \cup {GlassDate(v)} \cup GlassBar(v) \cup GlassPlace(v)
                  \cup GlassWeather(v) \cup GlassBand(v)
  BY Zenon DEF Glass, GlassDate, GlassBar, GlassPlace, GlassWeather, GlassCard
<1> QED
  BY <1>1

LEMMA GlassTidy ==
  ASSUME NEW v \in Views, v.meter.value.digits <= BAR_DIGITS, v.place <= 8
  PROVE  Tidy(Glass(v), FULL)
<1> DEFINE top == BandTop(v)
           date == GlassDate(v)
           clockBox == Box(8, 4, 156, 32)
           lowBox == Box(0, 37, 230, top - 37)
           leftBox == Box(0, 0, 230, top)
           upBox == Box(0, 0, 400, top)
           bandBox == Box(0, top, 400, 96 - top)
<1>1. /\ clockBox \in Boxes /\ lowBox \in Boxes
      /\ leftBox \in Boxes /\ upBox \in Boxes /\ bandBox \in Boxes /\ FULL \in Boxes
  BY DEF Box, Boxes, BandTop, FULL, WIDTH, HEIGHT
<1>2. /\ Within(clockBox, leftBox)
      /\ Within(lowBox, leftBox) /\ Within(leftBox, upBox) /\ Within(GlassCard, upBox)
      /\ Within(upBox, FULL) /\ Within(bandBox, FULL)
  BY GlassCardIs DEF Box, Within, BandTop, FULL, WIDTH, HEIGHT
<1>3. /\ Apart(clockBox, lowBox) /\ Apart(leftBox, GlassCard)
      /\ Apart(upBox, bandBox)
  BY GlassCardIs DEF Box, Apart, BandTop
<1>4. Tidy(BigClock(v, 8, 4), clockBox) /\ Tidy(GlassBand(v), bandBox)
  <2> DEFINE end == BigClockEnd(v, 8)
  <2>1. 8 \in 0 .. 20 /\ 4 \in 0 .. 20
    OBVIOUS
  <2>2. end \in 8 + 74 .. 8 + 156 /\ Tidy(BigClock(v, 8, 4), Box(8, 4, end - 8, 32))
    BY <2>1, BigClockTidy, Zenon
  <2> HIDE DEF end
  <2>3. Within(Box(8, 4, end - 8, 32), clockBox)
    BY <2>2 DEF Within, Box
  <2> HIDE DEF clockBox, bandBox
  <2>4. Tidy(BigClock(v, 8, 4), clockBox)
    BY <1>1, <2>2, <2>3, TidyIn
  <2> QED
    BY <2>4, GlassBandTidy DEF bandBox
<1>5. Glass(v) = ((BigClock(v, 8, 4) \cup ({date} \cup GlassBar(v)))
                   \cup (GlassPlace(v) \cup GlassWeather(v))) \cup GlassBand(v)
  BY GlassIs, Zenon
<1>6. Tidy(GlassPlace(v) \cup GlassWeather(v), GlassCard)
  BY GlassCardTidy
<1> HIDE DEF date, clockBox, leftBox, upBox, bandBox
<1>7. Tidy({date} \cup GlassBar(v), lowBox)
  BY GlassLowTidy DEF date, lowBox
<1> HIDE DEF lowBox
<1>8. Tidy(BigClock(v, 8, 4) \cup ({date} \cup GlassBar(v)), leftBox)
  BY <1>1, <1>2, <1>3, <1>4, <1>7, TidyUnion
<1>9. Tidy((BigClock(v, 8, 4) \cup ({date} \cup GlassBar(v)))
            \cup (GlassPlace(v) \cup GlassWeather(v)), upBox)
  BY <1>1, <1>2, <1>3, <1>6, <1>8, TidyUnion
<1>10. Tidy(((BigClock(v, 8, 4) \cup ({date} \cup GlassBar(v)))
            \cup (GlassPlace(v) \cup GlassWeather(v))) \cup GlassBand(v), FULL)
  BY <1>1, <1>2, <1>3, <1>4, <1>9, TidyUnion
<1> QED
  BY <1>5, <1>10

-----------------------------------------------------------------------------
(* The layout Dock.                                                        *)
DockStand == Box(3, 52, WIDTH - 6, 41)
DockTemp(v) == TextWidth(MEDIUM, v.weather.now) + MEDIUM.degree
DockCond(v) == 28 + DockTemp(v) + 6
DockPlace(v) == DockCond(v) + Full(v.weather.condition) + 10
DockForecast(v) == Wider(391 - ForecastWidth(v.weather), DockPlace(v) + Half(v.place) + 8)
DockRow(v) ==
    {Icon("weather", 9, 55, DockStand)}
    \cup (IF v.weather = NoWeather
          THEN {Jp("condition", 28, 56, Full(6), DockStand),
                Jp("place", 28 + Full(6) + 10, 56, Half(v.place), DockStand)}
          ELSE {Aa("degrees", MEDIUM, 28, 55, DockTemp(v), DockStand),
                Jp("condition", DockCond(v), 56, Full(v.weather.condition), DockStand),
                Jp("place", DockPlace(v), 56, Half(v.place), DockStand)}
               \cup Forecast(v.weather, DockForecast(v), 58, DockStand))

LEMMA DockStandIs ==
  /\ DockStand \in Boxes /\ Within(DockStand, FULL)
  /\ DockStand.x0 = 3 /\ DockStand.y0 = 52 /\ DockStand.x1 = 397 /\ DockStand.y1 = 93
BY DEF DockStand, Box, Boxes, Within, FULL, WIDTH, HEIGHT

LEMMA DockRowTidy ==
  ASSUME NEW v \in Views, v.place <= 5
  PROVE  Tidy(DockRow(v), Box(3, 54, 394, 17))
<1> DEFINE r == Box(3, 54, 394, 17)
           a == Icon("weather", 9, 55, DockStand)
           place == Half(v.place)
<1>1. r \in Boxes
  BY DEF Box, Boxes
<1>2. place \in 0 .. 35
  BY PlaceIs
<1>3. CASE v.weather = NoWeather
  <2> DEFINE b == Jp("condition", 28, 56, Full(6), DockStand)
             c == Jp("place", 28 + Full(6) + 10, 56, place, DockStand)
  <2>1. DockRow(v) = {a} \cup {b, c}
    BY <1>3 DEF DockRow
  <2> HIDE DEF place
  <2>2. InPlace(a, r) /\ InPlace(b, r) /\ InPlace(c, r)
    BY <1>2, DockStandIs DEF Item, Icon, Jp, Full, Box, Boxes, InPlace, Within
  <2>3. Apart(a.box, b.box) /\ Apart(a.box, c.box) /\ Apart(b.box, c.box)
    BY <1>2 DEF Item, Icon, Jp, Full, Box, Apart
  <2> HIDE DEF a, b, c, r
  <2>4. Tidy({a, b, c}, r)
    BY <1>1, <2>2, <2>3, TidyThree
  <2>5. {a} \cup {b, c} = {a, b, c}
    OBVIOUS
  <2> QED
    BY <2>1, <2>4, <2>5 DEF r
<1>4. CASE v.weather # NoWeather
  <2> DEFINE w == v.weather
             temp == DockTemp(v)
             cond == Full(w.condition)
             wide == ForecastWidth(w)
             x == DockForecast(v)
             b == Aa("degrees", MEDIUM, 28, 55, temp, DockStand)
             c == Jp("condition", DockCond(v), 56, cond, DockStand)
             d == Jp("place", DockPlace(v), 56, place, DockStand)
             p == Box(9, 55, DockPlace(v) + place - 9, 15)
             q == Box(x, 57, wide, 13)
  <2>1. w \in Weathers
    BY <1>4 DEF Views
  <2>2. wide \in 84 .. 146 /\ temp \in 24 .. 62
    <3>1. TextWidth(MEDIUM, w.now) \in 14 .. 52 /\ wide \in 84 .. 146
      BY <2>1, WeatherIs, GlyphsAre, ForecastIs
    <3> QED
      BY <3>1 DEF DockTemp, MEDIUM
  <2>3. cond \in 14 .. 98
    <3>1. w.condition \in 1 .. 7
      BY <2>1, WeatherIs
    <3> QED
      BY <3>1 DEF Full
  <2>4. DockCond(v) = temp + 34 /\ DockPlace(v) = temp + 44 + cond
    <3>1. DockCond(v) = 28 + temp + 6 /\ DockPlace(v) = DockCond(v) + cond + 10
      BY DEF DockCond, DockPlace
    <3> HIDE DEF temp, cond
    <3> QED
      BY <3>1, <2>2, <2>3
  <2>5. DockPlace(v) + place + 8 <= x /\ x + wide <= 397 /\ x \in 0 .. 313
    <3>1. x = Wider(391 - wide, DockPlace(v) + place + 8)
      BY DEF DockForecast
    <3> HIDE DEF x, wide, place, temp, cond
    <3> QED
      BY <1>2, <2>2, <2>3, <2>4, <3>1 DEF Wider
  <2>6. DockRow(v) = {a} \cup ({b, c, d} \cup Forecast(w, x, 58, DockStand))
    BY <1>4 DEF DockRow
  <2> HIDE DEF w, temp, cond, wide, place, x
  <2>7. InPlace(a, p) /\ InPlace(b, p) /\ InPlace(c, p) /\ InPlace(d, p)
    BY <1>2, <2>2, <2>3, <2>4, DockStandIs
       DEF Item, Icon, Jp, Aa, MEDIUM, Box, Boxes, InPlace, Within
  <2>8. /\ Apart(a.box, b.box) /\ Apart(a.box, c.box) /\ Apart(b.box, c.box)
        /\ Apart(a.box, d.box) /\ Apart(b.box, d.box) /\ Apart(c.box, d.box)
    BY <1>2, <2>2, <2>3, <2>4 DEF Item, Icon, Jp, Aa, MEDIUM, Box, Apart
  <2>9. /\ p \in Boxes /\ q \in Boxes /\ Within(q, DockStand) /\ Within(q, r) /\ Within(p, r)
        /\ Apart(p, q)
    BY <1>2, <2>2, <2>3, <2>4, <2>5, DockStandIs DEF Box, Boxes, Within, Apart
  <2>10. Tidy(Forecast(w, x, 58, DockStand), q)
    <3>1. q = Box(x, 58 - 1, ForecastWidth(w), 13)
      BY DEF wide
    <3>2. /\ x \in 0 .. 400 /\ 58 \in 1 .. 80
          /\ Within(Box(x, 58 - 1, ForecastWidth(w), 13), DockStand)
      BY <2>2, <2>5, <2>9, <3>1
    <3>3. Tidy(Forecast(w, x, 58, DockStand), Box(x, 58 - 1, ForecastWidth(w), 13))
      <4>1. DockStand \in Boxes /\ Within(DockStand, FULL)
        BY DockStandIs
      <4> QED
        BY <2>1, <3>2, <4>1, ForecastTidy, ZenonT(30)
    <3> QED
      BY <3>1, <3>3
  <2> HIDE DEF a, b, c, d, p, q, r
  <2>11. Tidy({a, b, c, d}, p)
    BY <2>7, <2>8, <2>9, TidyFour
  <2>12. Tidy({a, b, c, d} \cup Forecast(w, x, 58, DockStand), r)
    BY <1>1, <2>9, <2>10, <2>11, TidyUnion
  <2>13. {a} \cup ({b, c, d} \cup Forecast(w, x, 58, DockStand))
           = {a, b, c, d} \cup Forecast(w, x, 58, DockStand)
    OBVIOUS
  <2> QED
    BY <2>6, <2>12, <2>13 DEF r
<1> QED
  BY <1>3, <1>4

(* The clock, the date and the bar, above the stand.                       *)
DockDate(v) == Jp("date", BigClockEnd(v, 8) + 10, 20, DateWidth(v), FULL)
DockWest(v) == (BigClock(v, 8, 4) \cup {DockDate(v)}) \cup Bar(v, 8, 36, 226, FALSE)
DockScroll == Item("scroll", Box(ScrollArea["Dock"].x, 75 - 1, ScrollArea["Dock"].w, 16), DockStand)
DockChip == Chip(391, 5, Box(WIDTH - 124, 2, 121, 13))
DockLines == StatusLines(7, 59, Box(3, 56, WIDTH - 6, 37))

LEMMA DockWestTidy ==
  ASSUME NEW v \in Views, v.meter.value.digits <= BAR_DIGITS
  PROVE  Tidy(DockWest(v), Box(0, 0, 290, 52))
<1> DEFINE end == BigClockEnd(v, 8)
           date == DockDate(v)
           clock == BigClock(v, 8, 4)
           bar == Bar(v, 8, 36, 226, FALSE)
           clockBox == Box(8, 4, end - 8, 32)
           dateBox == Box(end + 10, 20, 84, 14)
           bothBox == Box(8, 4, 270, 32)
           barBox == Box(8, 36, 226, 15)
           leftBox == Box(0, 0, 290, 52)
<1>1. end \in 82 .. 164 /\ Tidy(clock, clockBox)
  <2>1. 8 \in 0 .. 20 /\ 4 \in 0 .. 20
    OBVIOUS
  <2>2. end \in 8 + 74 .. 8 + 156 /\ Tidy(clock, clockBox)
    BY <2>1, BigClockTidy, Zenon
  <2> HIDE DEF end
  <2>3. end \in 82 .. 164
    BY <2>2
  <2> QED
    BY <2>2, <2>3
<1>2. date = Jp("date", end + 10, 20, DateWidth(v), FULL)
  BY DEF DockDate
<1> HIDE DEF end, date
<1>3. /\ clockBox \in Boxes /\ dateBox \in Boxes /\ bothBox \in Boxes /\ barBox \in Boxes
      /\ leftBox \in Boxes
  BY <1>1 DEF Box, Boxes
<1>4. /\ Within(clockBox, bothBox) /\ Within(dateBox, bothBox) /\ Within(bothBox, leftBox)
      /\ Within(barBox, leftBox) /\ Apart(clockBox, dateBox) /\ Apart(bothBox, barBox)
  BY <1>1 DEF Box, Within, Apart
<1>5. Tidy({date}, dateBox)
  <2>1. InPlace(date, dateBox)
    BY <1>1, <1>2, DateIs DEF Jp, Item, Box, Boxes, InPlace, Within, FULL, WIDTH, HEIGHT
  <2> QED
    BY <1>3, <2>1, TidyOne
<1>6. Tidy(bar, barBox)
  <2>1. 8 \in 0 .. 10 /\ 36 \in 0 .. 60 /\ 226 \in 210 .. 230
    OBVIOUS
  <2> QED
    BY <2>1, WideBarTidy, Zenon
<1> HIDE DEF clock, bar, clockBox, dateBox, bothBox, barBox, leftBox
<1>7. Tidy(clock \cup {date}, bothBox)
  BY <1>1, <1>3, <1>4, <1>5, TidyUnion
<1>8. Tidy((clock \cup {date}) \cup bar, leftBox)
  BY <1>3, <1>4, <1>6, <1>7, TidyUnion
<1> QED
  BY <1>8 DEF DockWest, clock, date, bar, leftBox

LEMMA DockIs ==
  ASSUME NEW v
  PROVE  Dock(v) = DockWest(v) \cup (IF v.expanded THEN DockLines
                                      ELSE DockChip \cup DockRow(v) \cup {DockScroll})
<1> DEFINE icon == Icon("weather", 9, 55, DockStand)
           texts ==
             IF v.weather = NoWeather
             THEN {Jp("condition", 28, 56, Full(6), DockStand),
                   Jp("place", 28 + Full(6) + 10, 56, Half(v.place), DockStand)}
             ELSE {Aa("degrees", MEDIUM, 28, 55, DockTemp(v), DockStand),
                   Jp("condition", DockCond(v), 56, Full(v.weather.condition), DockStand),
                   Jp("place", DockPlace(v), 56, Half(v.place), DockStand)}
                  \cup Forecast(v.weather, DockForecast(v), 58, DockStand)
<1>1. DockRow(v) = {icon} \cup texts
  BY Zenon DEF DockRow
<1>2. ScrollBand("Dock", 75, DockStand) = {DockScroll}
  BY Zenon DEF ScrollBand, DockScroll
<1>3. Dock(v) = DockWest(v)
                 \cup (IF v.expanded THEN DockLines
                       ELSE DockChip \cup {icon} \cup texts \cup ScrollBand("Dock", 75, DockStand))
  BY Zenon DEF Dock, DockWest, DockDate, DockLines, DockChip, DockStand, DockTemp, DockCond,
               DockPlace, DockForecast
<1> HIDE DEF icon, texts
<1> QED
  BY <1>1, <1>2, <1>3

LEMMA DockTidy ==
  ASSUME NEW v \in Views, v.meter.value.digits <= BAR_DIGITS, v.place <= 5
  PROVE  Tidy(Dock(v), FULL)
<1> DEFINE west == DockWest(v)
           row == DockRow(v)
           scroll == DockScroll
           chip == DockChip
           lines == DockLines
           leftBox == Box(0, 0, 290, 52)
           chipBox == Box(296, 5, 95, 7)
           upBox == Box(0, 0, 400, 52)
           rowBox == Box(3, 54, 394, 17)
           scrollBox == Box(9, 74, 382, 16)
           linesBox == Box(7, 59, 6, 27)
           downBox == Box(0, 54, 400, 42)
<1>1. /\ leftBox \in Boxes /\ chipBox \in Boxes /\ upBox \in Boxes /\ rowBox \in Boxes
      /\ scrollBox \in Boxes /\ linesBox \in Boxes /\ downBox \in Boxes /\ FULL \in Boxes
  BY DEF Box, Boxes, FULL, WIDTH, HEIGHT
<1>2. /\ Within(leftBox, upBox) /\ Within(chipBox, upBox)
      /\ Within(rowBox, downBox) /\ Within(scrollBox, downBox) /\ Within(upBox, FULL)
      /\ Within(downBox, FULL) /\ Within(linesBox, downBox)
  BY DEF Box, Within, FULL, WIDTH, HEIGHT
<1>3. Apart(leftBox, chipBox) /\ Apart(rowBox, scrollBox) /\ Apart(upBox, downBox)
  BY DEF Box, Apart
<1>4. Tidy({scroll}, scrollBox)
  <2>1. InPlace(scroll, scrollBox)
    BY DockStandIs DEF DockScroll, ScrollArea, Item, Box, Boxes, InPlace, Within, WIDTH
  <2> HIDE DEF scroll, scrollBox
  <2> QED
    BY <1>1, <2>1, TidyOne
<1>5. Tidy(chip, chipBox)
  <2> DEFINE room == Box(WIDTH - 124, 2, 121, 13)
  <2>1. /\ room \in Boxes /\ Within(room, FULL) /\ Within(Box(391 - 95, 5, 95, 7), room)
        /\ Box(391 - 95, 5, 95, 7) = chipBox /\ 391 \in 95 .. 400 /\ 5 \in 0 .. 89
    BY DEF Box, Boxes, Within, FULL, WIDTH, HEIGHT
  <2> HIDE DEF room, chipBox
  <2>2. Tidy(Chip(391, 5, room), Box(391 - 95, 5, 95, 7))
    BY <2>1, ChipTidy, ZenonT(30)
  <2> QED
    BY <2>1, <2>2 DEF room, DockChip
<1>6. Tidy(lines, linesBox)
  <2> DEFINE room == Box(3, 56, WIDTH - 6, 37)
  <2>1. /\ room \in Boxes /\ Within(room, FULL) /\ Within(linesBox, room)
        /\ 7 \in 0 .. 20 /\ 59 \in 0 .. 69
    BY DEF Box, Boxes, Within, FULL, WIDTH, HEIGHT
  <2> HIDE DEF room
  <2>2. Tidy(StatusLines(7, 59, room), linesBox)
    BY <2>1, StatusLinesTidy, ZenonT(30)
  <2> QED
    BY <2>2 DEF room, DockLines
<1>7. Tidy(row, rowBox) /\ Tidy(west, leftBox)
  BY DockRowTidy, DockWestTidy
<1>8. Dock(v) = west \cup (IF v.expanded THEN lines ELSE chip \cup row \cup {scroll})
  BY DockIs, Zenon
<1> HIDE DEF west, row, scroll, chip, lines, leftBox, chipBox, upBox, rowBox, scrollBox,
             linesBox, downBox
<1>9. CASE v.expanded
  <2>1. Tidy(west, upBox)
    BY <1>1, <1>2, <1>7, TidyIn
  <2>2. Tidy(lines, downBox)
    BY <1>1, <1>2, <1>6, TidyIn
  <2>3. Tidy(west \cup lines, FULL)
    BY <1>1, <1>2, <1>3, <2>1, <2>2, TidyUnion
  <2> QED
    BY <1>8, <1>9, <2>3
<1>10. CASE ~v.expanded
  <2>1. Tidy(west \cup chip, upBox)
    BY <1>1, <1>2, <1>3, <1>5, <1>7, TidyUnion
  <2>2. Tidy(row \cup {scroll}, downBox)
    BY <1>1, <1>2, <1>3, <1>4, <1>7, TidyUnion
  <2>3. Tidy((west \cup chip) \cup (row \cup {scroll}), FULL)
    BY <1>1, <1>2, <1>3, <2>1, <2>2, TidyUnion
  <2>4. Dock(v) = (west \cup chip) \cup (row \cup {scroll})
    BY <1>8, <1>10
  <2> QED
    BY <2>3, <2>4
<1> QED
  BY <1>9, <1>10

-----------------------------------------------------------------------------
(* The layout Classic.                                                     *)
ClassicInner == Box(1, 1, WIDTH - 2, HEIGHT - 2)
ClassicTemp(v) == 196 + Half(v.place) + 8
ClassicCond(v) == ClassicTemp(v) + Half(Chars(v.weather.now)) + Full(1) + 8
ClassicMax(v) == Full(2) + Half(1 + Chars(v.weather.max)) + Full(1)
ClassicMin(v) == Full(2) + Half(1 + Chars(v.weather.min)) + Full(1)
ClassicRow(v) ==
    IF v.weather = NoWeather
    THEN {Jp("place", 196, 19, Half(v.place), ClassicInner),
          Jp("condition", ClassicTemp(v), 19, Full(6), ClassicInner)}
    ELSE {Jp("place", 196, 19, Half(v.place), ClassicInner),
          Jp("degrees", ClassicTemp(v), 19, ClassicCond(v) - 8 - ClassicTemp(v), ClassicInner),
          Jp("condition", ClassicCond(v), 19, Full(v.weather.condition), ClassicInner)}
ClassicTemps(v) ==
    IF v.weather = NoWeather THEN {}
    ELSE {Jp("max", 6, 35, ClassicMax(v), ClassicInner),
          Jp("min", 6 + ClassicMax(v) + 12, 35, ClassicMin(v), ClassicInner),
          Jp("rain", 6 + ClassicMax(v) + 12 + ClassicMin(v) + 12, 35,
             Full(4) + Half(2 + Chars(v.weather.rain)), ClassicInner)}
ClassicDate(v) ==
    Jp("date", IF v.meter.status = "Disabled" THEN 196 ELSE 286, 3, DateWidth(v), ClassicInner)

LEMMA ClassicInnerIs ==
  /\ ClassicInner \in Boxes /\ Within(ClassicInner, FULL)
  /\ ClassicInner.x0 = 1 /\ ClassicInner.y0 = 1 /\ ClassicInner.x1 = 399 /\ ClassicInner.y1 = 95
BY DEF ClassicInner, Box, Boxes, Within, FULL, WIDTH, HEIGHT

LEMMA ClassicRowTidy ==
  ASSUME NEW v \in Views, v.place <= 5
  PROVE  Tidy(ClassicRow(v), Box(196, 19, 200, 15))
<1> DEFINE r == Box(196, 19, 200, 15)
           place == Half(v.place)
           temp == ClassicTemp(v)
           a == Jp("place", 196, 19, place, ClassicInner)
<1>1. r \in Boxes
  BY DEF Box, Boxes
<1>2. place \in 0 .. 35 /\ temp = place + 204
  <2>1. temp = 196 + place + 8
    BY DEF ClassicTemp
  <2>2. place \in 0 .. 35
    BY PlaceIs
  <2> HIDE DEF temp, place
  <2> QED
    BY <2>1, <2>2
<1>3. CASE v.weather = NoWeather
  <2> DEFINE b == Jp("condition", temp, 19, Full(6), ClassicInner)
  <2>1. ClassicRow(v) = {a, b}
    BY <1>3 DEF ClassicRow
  <2> HIDE DEF place, temp
  <2>2. InPlace(a, r) /\ InPlace(b, r) /\ Apart(a.box, b.box)
    BY <1>2, ClassicInnerIs DEF Item, Jp, Full, Box, Boxes, InPlace, Within, Apart
  <2> HIDE DEF a, b, r
  <2>3. Tidy({a, b}, r)
    BY <1>1, <2>2, TidyTwo
  <2> QED
    BY <2>1, <2>3 DEF r
<1>4. CASE v.weather # NoWeather
  <2> DEFINE w == v.weather
             cond == ClassicCond(v)
             kind == Full(w.condition)
             b == Jp("degrees", temp, 19, cond - 8 - temp, ClassicInner)
             c == Jp("condition", cond, 19, kind, ClassicInner)
  <2>1. w \in Weathers
    BY <1>4 DEF Views
  <2>2. kind \in 14 .. 98
    <3>1. w.condition \in 1 .. 7
      BY <2>1, WeatherIs
    <3> QED
      BY <3>1 DEF Full
  <2>3. cond \in temp + 36 .. temp + 57
    <3>1. Chars(w.now) \in 2 .. 5
      BY <2>1, WeatherIs, GlyphsAre
    <3>2. cond = temp + 7 * Chars(w.now) + 14 * 1 + 8
      BY DEF ClassicCond, Half, Full
    <3> HIDE DEF cond, temp, w
    <3> QED
      BY <1>2, <3>1, <3>2
  <2>4. ClassicRow(v) = {a, b, c}
    BY <1>4 DEF ClassicRow
  <2> HIDE DEF place, temp, cond, kind, w
  <2>5. InPlace(a, r) /\ InPlace(b, r) /\ InPlace(c, r)
    BY <1>2, <2>2, <2>3, ClassicInnerIs DEF Item, Jp, Box, Boxes, InPlace, Within
  <2>6. Apart(a.box, b.box) /\ Apart(a.box, c.box) /\ Apart(b.box, c.box)
    BY <1>2, <2>2, <2>3 DEF Item, Jp, Box, Apart
  <2> HIDE DEF a, b, c, r
  <2>7. Tidy({a, b, c}, r)
    BY <1>1, <2>5, <2>6, TidyThree
  <2> QED
    BY <2>4, <2>7 DEF r
<1> QED
  BY <1>3, <1>4

LEMMA ClassicTempsTidy ==
  ASSUME NEW v \in Views
  PROVE  Tidy(ClassicTemps(v), Box(6, 35, 380, 14))
<1> DEFINE r == Box(6, 35, 380, 14)
<1>1. r \in Boxes
  BY DEF Box, Boxes
<1>2. CASE v.weather = NoWeather
  <2>1. ClassicTemps(v) = {}
    BY <1>2 DEF ClassicTemps
  <2> HIDE DEF r
  <2>2. Tidy({}, r)
    BY <1>1, TidyNone
  <2> QED
    BY <2>1, <2>2 DEF r
<1>3. CASE v.weather # NoWeather
  <2> DEFINE w == v.weather
             max == ClassicMax(v)
             min == ClassicMin(v)
             rain == Full(4) + Half(2 + Chars(w.rain))
             a == Jp("max", 6, 35, max, ClassicInner)
             b == Jp("min", 6 + max + 12, 35, min, ClassicInner)
             c == Jp("rain", 6 + max + 12 + min + 12, 35, rain, ClassicInner)
  <2>1. w \in Weathers
    BY <1>3 DEF Views
  <2>2. max \in 63 .. 84 /\ min \in 63 .. 84
    <3>1. Chars(w.max) \in 2 .. 5 /\ Chars(w.min) \in 2 .. 5
      BY <2>1, WeatherIs, GlyphsAre
    <3> QED
      BY <3>1 DEF ClassicMax, ClassicMin, Full, Half
  <2>3. rain \in 77 .. 91
    <3>1. Chars(w.rain) \in 1 .. 3
      BY <2>1, RainIs
    <3> QED
      BY <3>1 DEF Full, Half
  <2>4. ClassicTemps(v) = {a, b, c}
    BY <1>3 DEF ClassicTemps
  <2> HIDE DEF w, max, min, rain
  <2>5. InPlace(a, r) /\ InPlace(b, r) /\ InPlace(c, r)
    BY <2>2, <2>3, ClassicInnerIs DEF Item, Jp, Box, Boxes, InPlace, Within
  <2>6. Apart(a.box, b.box) /\ Apart(a.box, c.box) /\ Apart(b.box, c.box)
    BY <2>2, <2>3 DEF Item, Jp, Box, Apart
  <2> HIDE DEF a, b, c, r
  <2>7. Tidy({a, b, c}, r)
    BY <1>1, <2>5, <2>6, TidyThree
  <2> QED
    BY <2>4, <2>7 DEF r
<1> QED
  BY <1>2, <1>3

(* The date is beside the bar, if there is one.                            *)
LEMMA ClassicHeadTidy ==
  ASSUME NEW v \in Views, v.meter.value.digits <= BAR_DIGITS
  PROVE  Tidy({ClassicDate(v)} \cup Bar(v, 196, 2, 86, TRUE), Box(196, 2, 180, 16))
<1> DEFINE r == Box(196, 2, 180, 16)
           leftBox == Box(196, 2, 86, 15)
           rightBox == Box(286, 3, 84, 14)
           date == ClassicDate(v)
           bar == Bar(v, 196, 2, 86, TRUE)
<1>1. r \in Boxes /\ leftBox \in Boxes /\ rightBox \in Boxes
  BY DEF Box, Boxes
<1>2. CASE v.meter.status = "Disabled"
  <2>1. bar = {}
    BY <1>2 DEF Bar
  <2>2. date = Jp("date", 196, 3, DateWidth(v), ClassicInner)
    BY <1>2 DEF ClassicDate
  <2> HIDE DEF date, bar
  <2>3. InPlace(date, r)
    BY <2>2, DateIs, ClassicInnerIs DEF Item, Jp, Box, Boxes, InPlace, Within
  <2> HIDE DEF r
  <2>4. Tidy({date}, r)
    BY <1>1, <2>3, TidyOne
  <2>5. Tidy({date} \cup bar, r)
    BY <2>1, <2>4
  <2> QED
    BY <2>5 DEF date, bar, r
<1>3. CASE v.meter.status # "Disabled"
  <2>1. date = Jp("date", 286, 3, DateWidth(v), ClassicInner)
    BY <1>3 DEF ClassicDate
  <2>2. Tidy(bar, leftBox)
    <3>1. 196 \in 0 .. 200 /\ 2 \in 0 .. 60 /\ 86 \in 86 .. 230 /\ 196 + 86 <= 400
      OBVIOUS
    <3> QED
      BY <3>1, CompactBarTidy, Zenon
  <2> HIDE DEF date, bar
  <2>3. InPlace(date, rightBox)
    BY <2>1, DateIs, ClassicInnerIs DEF Item, Jp, Box, Boxes, InPlace, Within
  <2>4. Within(leftBox, r) /\ Within(rightBox, r) /\ Apart(rightBox, leftBox)
    BY DEF Box, Within, Apart
  <2> HIDE DEF r, leftBox, rightBox
  <2>5. Tidy({date}, rightBox)
    BY <1>1, <2>3, TidyOne
  <2>6. Tidy({date} \cup bar, r)
    BY <1>1, <2>2, <2>4, <2>5, TidyUnion
  <2> QED
    BY <2>6 DEF date, bar, r
<1> QED
  BY <1>2, <1>3

(* The date and the bar, beside the clock; the area of the text; the lines. *)
ClassicHead(v) == {ClassicDate(v)} \cup Bar(v, 196, 2, 86, TRUE)
ClassicScroll == Item("scroll", Box(ScrollArea["Classic"].x, 52 - 1, ScrollArea["Classic"].w, 16), ClassicInner)
ClassicLines == StatusLines(2, 68, FULL)

LEMMA ClassicIs ==
  ASSUME NEW v
  PROVE  Classic(v) = (((BigClock(v, 6, 2) \cup (ClassicHead(v) \cup ClassicRow(v))) \cup ClassicTemps(v))
                       \cup {ClassicScroll}) \cup ClassicLines
<1> DEFINE date == ClassicDate(v)
           bar == Bar(v, 196, 2, 86, TRUE)
           place == Jp("place", 196, 19, Half(v.place), ClassicInner)
           none == Jp("condition", ClassicTemp(v), 19, Full(6), ClassicInner)
           degrees == Jp("degrees", ClassicTemp(v), 19, ClassicCond(v) - 8 - ClassicTemp(v), ClassicInner)
           condition == Jp("condition", ClassicCond(v), 19, Full(v.weather.condition), ClassicInner)
           max == Jp("max", 6, 35, ClassicMax(v), ClassicInner)
           min == Jp("min", 6 + ClassicMax(v) + 12, 35, ClassicMin(v), ClassicInner)
           rain == Jp("rain", 6 + ClassicMax(v) + 12 + ClassicMin(v) + 12, 35,
                      Full(4) + Half(2 + Chars(v.weather.rain)), ClassicInner)
           clock == BigClock(v, 6, 2)
           head == ClassicHead(v)
           row == ClassicRow(v)
           temps == ClassicTemps(v)
           scroll == ClassicScroll
           lines == ClassicLines
<1>1. Classic(v) = clock \cup {date} \cup bar \cup {place}
                    \cup (IF v.weather = NoWeather THEN {none}
                          ELSE {degrees, condition, max, min, rain})
                    \cup ScrollBand("Classic", 52, ClassicInner) \cup lines
  BY Zenon DEF Classic, ClassicInner, ClassicTemp, ClassicCond, ClassicMax, ClassicMin, ClassicDate,
               ClassicLines
<1>2. ScrollBand("Classic", 52, ClassicInner) = {scroll}
  BY Zenon DEF ScrollBand, ClassicScroll
<1>3. row = IF v.weather = NoWeather THEN {place, none} ELSE {place, degrees, condition}
  BY Zenon DEF ClassicRow
<1>4. temps = IF v.weather = NoWeather THEN {} ELSE {max, min, rain}
  BY Zenon DEF ClassicTemps
<1>5. head = {date} \cup bar
  BY Zenon DEF ClassicHead
<1> HIDE DEF date, bar, place, none, degrees, condition, max, min, rain, clock, head, row,
             temps, scroll, lines
<1>6. Classic(v) = (((clock \cup (head \cup row)) \cup temps) \cup {scroll}) \cup lines
  <2>1. CASE v.weather = NoWeather
    BY <1>1, <1>2, <1>3, <1>4, <1>5, <2>1
  <2>2. CASE v.weather # NoWeather
    BY <1>1, <1>2, <1>3, <1>4, <1>5, <2>2
  <2> QED
    BY <2>1, <2>2
<1> QED
  BY <1>6, Zenon DEF clock, head, row, temps, scroll, lines

LEMMA ClassicLinesTidy ==
  Tidy(ClassicLines, Box(2, 68, 6, 27))
<1>1. /\ FULL \in Boxes /\ Within(FULL, FULL) /\ Within(Box(2, 68, 6, 27), FULL)
      /\ 2 \in 0 .. 20 /\ 68 \in 0 .. 69
  BY DEF Within, Box, Boxes, FULL, WIDTH, HEIGHT
<1> QED
  BY <1>1, StatusLinesTidy, ZenonT(30) DEF ClassicLines

LEMMA ClassicTidy ==
  ASSUME NEW v \in Views, v.meter.value.digits <= BAR_DIGITS, v.place <= 5
  PROVE  Tidy(Classic(v), FULL)
<1> DEFINE end == BigClockEnd(v, 6)
           clock == BigClock(v, 6, 2)
           head == {ClassicDate(v)} \cup Bar(v, 196, 2, 86, TRUE)
           row == ClassicRow(v)
           temps == ClassicTemps(v)
           scroll == Item("scroll", Box(ScrollArea["Classic"].x, 52 - 1, ScrollArea["Classic"].w, 16), ClassicInner)
           lines == StatusLines(2, 68, FULL)
           clockBox == Box(6, 2, end - 6, 32)
           headBox == Box(196, 2, 180, 16)
           rowBox == Box(196, 19, 200, 15)
           rightBox == Box(196, 0, 204, 34)
           upBox == Box(0, 0, 400, 34)
           tempsBox == Box(6, 35, 380, 14)
           topBox == Box(0, 0, 400, 50)
           scrollBox == Box(1, 51, 398, 16)
           midBox == Box(0, 0, 400, 68)
           linesBox == Box(2, 68, 6, 27)
<1>1. end \in 80 .. 162 /\ Tidy(clock, clockBox)
  <2>1. 6 \in 0 .. 20 /\ 2 \in 0 .. 20
    OBVIOUS
  <2>2. end \in 6 + 74 .. 6 + 156 /\ Tidy(clock, clockBox)
    BY <2>1, BigClockTidy, Zenon
  <2> HIDE DEF end
  <2>3. end \in 80 .. 162
    BY <2>2
  <2> QED
    BY <2>2, <2>3
<1> HIDE DEF end
<1>2. /\ clockBox \in Boxes /\ headBox \in Boxes /\ rowBox \in Boxes /\ rightBox \in Boxes
      /\ upBox \in Boxes /\ tempsBox \in Boxes /\ topBox \in Boxes /\ scrollBox \in Boxes
      /\ midBox \in Boxes /\ linesBox \in Boxes /\ FULL \in Boxes
  BY <1>1 DEF Box, Boxes, FULL, WIDTH, HEIGHT
<1>3. /\ Within(headBox, rightBox) /\ Within(rowBox, rightBox) /\ Apart(headBox, rowBox)
      /\ Within(clockBox, upBox) /\ Within(rightBox, upBox) /\ Apart(clockBox, rightBox)
      /\ Within(upBox, topBox) /\ Within(tempsBox, topBox) /\ Apart(upBox, tempsBox)
  BY <1>1 DEF Box, Within, Apart
<1>4. /\ Within(topBox, midBox) /\ Within(scrollBox, midBox) /\ Apart(topBox, scrollBox)
      /\ Within(midBox, FULL) /\ Within(linesBox, FULL) /\ Apart(midBox, linesBox)
  BY DEF Box, Within, Apart, FULL, WIDTH, HEIGHT
<1>5. Tidy(head, headBox) /\ Tidy(row, rowBox) /\ Tidy(temps, tempsBox)
  BY ClassicHeadTidy, ClassicRowTidy, ClassicTempsTidy
<1>6. Tidy({scroll}, scrollBox)
  <2>1. InPlace(scroll, scrollBox)
    BY ClassicInnerIs DEF ScrollArea, Item, Box, Boxes, InPlace, Within, WIDTH
  <2> HIDE DEF scroll, scrollBox
  <2> QED
    BY <1>2, <2>1, TidyOne
<1>7. Tidy(lines, linesBox)
  BY ClassicLinesTidy DEF ClassicLines
<1>8. Classic(v) = (((clock \cup (head \cup row)) \cup temps) \cup {scroll}) \cup lines
  BY ClassicIs, Zenon DEF ClassicHead, ClassicScroll, ClassicLines
<1> HIDE DEF clock, head, row, temps, scroll, lines, clockBox, headBox, rowBox, rightBox, upBox,
             tempsBox, topBox, scrollBox, midBox, linesBox
<1>9. Tidy(head \cup row, rightBox)
  BY <1>2, <1>3, <1>5, TidyUnion
<1>10. Tidy(clock \cup (head \cup row), upBox)
  BY <1>1, <1>2, <1>3, <1>9, TidyUnion
<1>11. Tidy((clock \cup (head \cup row)) \cup temps, topBox)
  BY <1>2, <1>3, <1>5, <1>10, TidyUnion
<1>12. Tidy(((clock \cup (head \cup row)) \cup temps) \cup {scroll}, midBox)
  BY <1>2, <1>4, <1>6, <1>11, TidyUnion
<1>13. Tidy((((clock \cup (head \cup row)) \cup temps) \cup {scroll}) \cup lines, FULL)
  BY <1>2, <1>4, <1>7, <1>12, TidyUnion
<1> QED
  BY <1>8, <1>13

-----------------------------------------------------------------------------
(* The meter in front.                                                     *)
ReadingRoom(v) == Box(8, 6, PanelWidth(v) - 8, PanelHeight(v) - 3)
ReadingTop(font, v) == IF v.display = "Graph" THEN 23 - font.h ELSE 19
ReadingIn(font, v) ==
    {Aa("value", font, (4 + PanelWidth(v) - 6) - TextWidth(font, v.meter.value) - 10,
        ReadingTop(font, v), TextWidth(font, v.meter.value), ReadingRoom(v)),
     Small("W", (4 + PanelWidth(v) - 6) - 6, ReadingTop(font, v) + font.base - 10, 1, ReadingRoom(v))}
ReadingTiny(v) ==
    {Tiny("value", (4 + PanelWidth(v) - 6) - 5 * Chars(v.meter.value) - 10,
          IF v.display = "Graph" THEN 16 ELSE 25, Chars(v.meter.value), ReadingRoom(v)),
     Small("W", (4 + PanelWidth(v) - 6) - 6, (IF v.display = "Graph" THEN 16 ELSE 25) - 3, 1, ReadingRoom(v))}
ReadingValue(v) ==
    IF ~(v.display = "Graph") /\ ~v.expanded /\ Fits(CLOCK_FONT, v) THEN ReadingIn(CLOCK_FONT, v)
    ELSE IF Fits(MEDIUM, v) THEN ReadingIn(MEDIUM, v)
    ELSE IF Fits(SMALL, v) THEN ReadingIn(SMALL, v)
    ELSE ReadingTiny(v)
ReadingHeader(v) == IF v.display = "Graph" THEN 25 ELSE 9
ReadingHead(v) ==
    {Tiny("P110M", 11, ReadingHeader(v), 5, ReadingRoom(v)),
     Tiny("state", PanelWidth(v) - 5 * Label[v.meter.status], ReadingHeader(v),
          Label[v.meter.status], ReadingRoom(v))}
ReadingValueBox(v) ==
    IF v.display = "Graph" THEN Box(8, 6, PanelWidth(v) - 8, 18) ELSE Box(8, 17, PanelWidth(v) - 8, 34)
ReadingHeadBox(v) == Box(8, ReadingHeader(v), PanelWidth(v) - 8, 7)
ReadingBox(v) ==
    IF v.display = "Graph" THEN Box(8, 6, PanelWidth(v) - 8, 27) ELSE ReadingRoom(v)

LEMMA PanelIs ==
  ASSUME NEW v \in Views
  PROVE  /\ PanelWidth(v) \in {136, 250} /\ PanelHeight(v) \in {55, 68}
         /\ v.display = "Graph" <=> PanelWidth(v) = 136
         /\ v.expanded <=> PanelHeight(v) = 55
BY DEF PanelWidth, PanelHeight

LEMMA ReadingRoomIs ==
  ASSUME NEW v \in Views
  PROVE  /\ ReadingRoom(v) \in Boxes /\ Within(ReadingRoom(v), FULL)
         /\ ReadingRoom(v).x0 = 8 /\ ReadingRoom(v).y0 = 6
         /\ ReadingRoom(v).x1 = PanelWidth(v) /\ ReadingRoom(v).y1 = PanelHeight(v) + 3
BY PanelIs DEF ReadingRoom, Box, Boxes, Within, FULL, WIDTH, HEIGHT

(* What all readings have: digits that are not too many.                   *)
LEMMA LongReadingIs ==
  ASSUME NEW v \in Views
  PROVE  /\ Chars(v.meter.value) \in 2 .. 19
         /\ TextWidth(CLOCK_FONT, v.meter.value) \in Nat
         /\ TextWidth(MEDIUM, v.meter.value) \in Nat /\ TextWidth(SMALL, v.meter.value) \in Nat
<1> DEFINE p == v.meter.value
<1>1. p = Missing \/ p \in [digits : 2 .. 17, points : {1}, dashes : 0 .. 1]
  BY MeterIs, ScreenAssumption
<1>2. /\ p.digits \in 0 .. 17 /\ p.points \in 0 .. 1 /\ p.dashes \in 0 .. 2
      /\ p.digits + p.points + p.dashes \in 2 .. 19
  <2>1. CASE p = Missing
    BY <2>1 DEF Missing, Glyphs
  <2>2. CASE p \in [digits : 2 .. 17, points : {1}, dashes : 0 .. 1]
    <3>1. p.digits \in 2 .. 17 /\ p.points = 1 /\ p.dashes \in 0 .. 1
      BY <2>2
    <3> HIDE DEF p
    <3> QED
      BY <3>1
  <2> QED
    BY <1>1, <2>1, <2>2
<1> HIDE DEF p
<1>3. /\ Chars(p) \in 2 .. 19 /\ TextWidth(CLOCK_FONT, p) \in Nat
      /\ TextWidth(MEDIUM, p) \in Nat /\ TextWidth(SMALL, p) \in Nat
  <2>1. Chars(p) \in 2 .. 19
    BY <1>2 DEF Chars
  <2>2. TextWidth(CLOCK_FONT, p) \in Nat
    BY <1>2 DEF TextWidth, CLOCK_FONT
  <2>3. TextWidth(MEDIUM, p) \in Nat
    BY <1>2 DEF TextWidth, MEDIUM
  <2>4. TextWidth(SMALL, p) \in Nat
    BY <1>2 DEF TextWidth, SMALL
  <2> QED
    BY <2>1, <2>2, <2>3, <2>4
<1> QED
  BY <1>3 DEF p

LEMMA ReadingHeadTidy ==
  ASSUME NEW v \in Views
  PROVE  Tidy(ReadingHead(v), ReadingHeadBox(v))
<1> DEFINE r == ReadingHeadBox(v)
           room == ReadingRoom(v)
           w == PanelWidth(v)
           y == ReadingHeader(v)
           label == Label[v.meter.status]
           a == Tiny("P110M", 11, y, 5, room)
           b == Tiny("state", w - 5 * label, y, label, room)
<1>1. w \in {136, 250} /\ label \in 0 .. 8 /\ y \in {9, 25}
  BY PanelIs, MeterIs DEF ReadingHeader
<1>2. /\ room \in Boxes /\ Within(room, FULL) /\ room.x0 = 8 /\ room.y0 = 6 /\ room.x1 = w
      /\ room.y1 >= 58
  BY ReadingRoomIs, PanelIs
<1>3. r = Box(8, y, w - 8, 7)
  BY DEF ReadingHeadBox
<1>4. ReadingHead(v) = {a, b}
  BY DEF ReadingHead
<1> HIDE DEF r, room, w, y, label
<1>5. r \in Boxes
  BY <1>1, <1>3 DEF Box, Boxes
<1>6. InPlace(a, r) /\ InPlace(b, r) /\ Apart(a.box, b.box)
  BY <1>1, <1>2, <1>3 DEF Item, Tiny, Box, Boxes, InPlace, Within, Apart
<1> HIDE DEF a, b
<1>7. Tidy({a, b}, r)
  BY <1>5, <1>6, TidyTwo
<1> QED
  BY <1>4, <1>7 DEF r

(* A reading in a font that fits.                                          *)
LEMMA ReadingInTidy ==
  ASSUME NEW v \in Views, NEW font, font \in {CLOCK_FONT, MEDIUM, SMALL}, Fits(font, v),
         font = CLOCK_FONT => v.display # "Graph"
  PROVE  Tidy(ReadingIn(font, v), ReadingValueBox(v))
<1> DEFINE r == ReadingValueBox(v)
           room == ReadingRoom(v)
           w == PanelWidth(v)
           y == ReadingTop(font, v)
           number == TextWidth(font, v.meter.value)
           a == Aa("value", font, (4 + w - 6) - number - 10, y, number, room)
           b == Small("W", (4 + w - 6) - 6, y + font.base - 10, 1, room)
<1>1. w \in {136, 250} /\ number \in 0 .. w - 22
  BY PanelIs, LongReadingIs DEF Fits, VALUE_MARGIN
<1>2. /\ room \in Boxes /\ Within(room, FULL) /\ room.x0 = 8 /\ room.y0 = 6 /\ room.x1 = w
      /\ room.y1 >= 58
  BY ReadingRoomIs, PanelIs
<1>3. r = IF w = 136 THEN Box(8, 6, w - 8, 18) ELSE Box(8, 17, w - 8, 34)
  BY PanelIs DEF ReadingValueBox
<1>4. /\ font.h \in {11, 15, 32} /\ font.base \in {9, 15, 32}
      /\ font.h = 11 <=> font.base = 9
      /\ font.h = 32 <=> font.base = 32
      /\ font.h = 32 => w = 250
      /\ y = IF w = 136 THEN 23 - font.h ELSE 19
  BY PanelIs DEF CLOCK_FONT, MEDIUM, SMALL, ReadingTop
<1>5. ReadingIn(font, v) = {a, b}
  BY DEF ReadingIn
<1> HIDE DEF r, room, w, y, number
<1>6. r \in Boxes
  BY <1>1, <1>3 DEF Box, Boxes
<1>7. InPlace(a, r)
  BY <1>1, <1>2, <1>3, <1>4 DEF Item, Aa, Box, Boxes, InPlace, Within
<1>8. InPlace(b, r)
  BY <1>1, <1>2, <1>3, <1>4 DEF Item, Small, Box, Boxes, InPlace, Within
<1>9. Apart(a.box, b.box)
  BY <1>1, <1>4 DEF Item, Aa, Small, Box, Apart
<1> HIDE DEF a, b
<1>10. Tidy({a, b}, r)
  BY <1>6, <1>7, <1>8, <1>9, TidyTwo
<1> QED
  BY <1>5, <1>10 DEF r

LEMMA ReadingTinyTidy ==
  ASSUME NEW v \in Views
  PROVE  Tidy(ReadingTiny(v), ReadingValueBox(v))
<1> DEFINE r == ReadingValueBox(v)
           room == ReadingRoom(v)
           w == PanelWidth(v)
           y == IF v.display = "Graph" THEN 16 ELSE 25
           n == Chars(v.meter.value)
           a == Tiny("value", (4 + w - 6) - 5 * n - 10, y, n, room)
           b == Small("W", (4 + w - 6) - 6, y - 3, 1, room)
<1>1. w \in {136, 250} /\ n \in 2 .. 19
  BY PanelIs, LongReadingIs
<1>2. /\ room \in Boxes /\ Within(room, FULL) /\ room.x0 = 8 /\ room.y0 = 6 /\ room.x1 = w
      /\ room.y1 >= 58
  BY ReadingRoomIs, PanelIs
<1>3. r = IF w = 136 THEN Box(8, 6, w - 8, 18) ELSE Box(8, 17, w - 8, 34)
  BY PanelIs DEF ReadingValueBox
<1>4. y = IF w = 136 THEN 16 ELSE 25
  BY PanelIs
<1>5. ReadingTiny(v) = {a, b}
  BY DEF ReadingTiny
<1> HIDE DEF r, room, w, y, n
<1>6. r \in Boxes
  BY <1>1, <1>3 DEF Box, Boxes
<1>7. InPlace(a, r) /\ InPlace(b, r) /\ Apart(a.box, b.box)
  BY <1>1, <1>2, <1>3, <1>4 DEF Item, Tiny, Small, Box, Boxes, InPlace, Within, Apart
<1> HIDE DEF a, b
<1>8. Tidy({a, b}, r)
  BY <1>6, <1>7, TidyTwo
<1> QED
  BY <1>5, <1>8 DEF r

LEMMA ReadingTidy ==
  ASSUME NEW v \in Views
  PROVE  Tidy(Reading(v), ReadingBox(v)) /\ ReadingBox(v) \in Boxes
<1>1. Reading(v) = ReadingHead(v) \cup ReadingValue(v)
  BY Zenon DEF Reading, ReadingHead, ReadingValue, ReadingIn, ReadingTiny, ReadingTop,
               ReadingRoom, ReadingHeader
<1>2. Tidy(ReadingHead(v), ReadingHeadBox(v))
  BY ReadingHeadTidy
<1>3. Tidy(ReadingValue(v), ReadingValueBox(v))
  <2>1. CASE ReadingValue(v) = ReadingIn(CLOCK_FONT, v) /\ v.display # "Graph" /\ Fits(CLOCK_FONT, v)
    BY <2>1, ReadingInTidy, Zenon
  <2>2. CASE ReadingValue(v) = ReadingIn(MEDIUM, v) /\ Fits(MEDIUM, v)
    <3>1. MEDIUM # CLOCK_FONT
      <4>1. MEDIUM.h # CLOCK_FONT.h
        BY DEF MEDIUM, CLOCK_FONT
      <4> QED
        BY <4>1
    <3> QED
      BY <2>2, <3>1, ReadingInTidy, Zenon
  <2>3. CASE ReadingValue(v) = ReadingIn(SMALL, v) /\ Fits(SMALL, v)
    <3>1. SMALL # CLOCK_FONT
      <4>1. SMALL.h # CLOCK_FONT.h
        BY DEF SMALL, CLOCK_FONT
      <4> QED
        BY <4>1
    <3> QED
      BY <2>3, <3>1, ReadingInTidy, Zenon
  <2>4. CASE ReadingValue(v) = ReadingTiny(v)
    BY <2>4, ReadingTinyTidy
  <2> QED
    BY <2>1, <2>2, <2>3, <2>4, Zenon DEF ReadingValue
<1>4. /\ ReadingBox(v) \in Boxes /\ Within(ReadingHeadBox(v), ReadingBox(v))
      /\ Within(ReadingValueBox(v), ReadingBox(v)) /\ Apart(ReadingHeadBox(v), ReadingValueBox(v))
  BY PanelIs DEF ReadingBox, ReadingHeadBox, ReadingValueBox, ReadingHeader, ReadingRoom, Box,
                 Boxes, Within, Apart
<1>5. Tidy(ReadingHead(v) \cup ReadingValue(v), ReadingBox(v))
  BY <1>2, <1>3, <1>4, TidyUnion
<1> QED
  BY <1>1, <1>4, <1>5

-----------------------------------------------------------------------------
(* The ends of the axis: at most eight characters.                         *)
LEMMA DigitsIs ==
  ASSUME NEW n \in Nat, n < 10000
  PROVE  Digits(n) \in 1 .. 4
<1> DEFINE Right(k) == n < Tens[k] /\ (k = 1 \/ n >= Tens[k - 1])
<1>1. \E k \in 1 .. 9 : Right(k)
  <2>1. CASE n < 10
    <3>1. Right(1)
      BY <2>1 DEF Tens
    <3> QED
      BY <3>1
  <2>2. CASE n >= 10 /\ n < 100
    <3>1. Right(2)
      BY <2>2 DEF Tens
    <3> QED
      BY <3>1
  <2>3. CASE n >= 100 /\ n < 1000
    <3>1. Right(3)
      BY <2>3 DEF Tens
    <3> QED
      BY <3>1
  <2>4. CASE n >= 1000
    <3>1. Right(4)
      BY <2>4 DEF Tens
    <3> QED
      BY <3>1
  <2> QED
    BY <2>1, <2>2, <2>3, <2>4
<1>2. Digits(n) = CHOOSE k \in 1 .. 9 : Right(k)
  BY DEF Digits
<1> DEFINE d == Digits(n)
<1> HIDE DEF Right
<1>3. d \in 1 .. 9 /\ Right(d)
  BY <1>1, <1>2, SMT
<1> HIDE DEF d
<1>4. d \notin 5 .. 9
  <2> SUFFICES ASSUME d \in 5 .. 9 PROVE FALSE
    OBVIOUS
  <2>1. Tens[d - 1] >= 10000
    BY SMT DEF Tens
  <2>2. n >= Tens[d - 1]
    BY <1>3 DEF Right
  <2>3. Tens[d - 1] \in Int
    BY SMT DEF Tens
  <2> DEFINE ten == Tens[d - 1]
  <2> HIDE DEF ten
  <2>4. ten \in Int /\ ten >= 10000 /\ n >= ten
    BY <2>1, <2>2, <2>3 DEF ten
  <2> QED
    BY <2>4
<1>5. d \in 1 .. 4
  BY <1>3, <1>4
<1> QED
  BY <1>5 DEF d

LEMMA AxisCharsAre ==
  ASSUME NEW tenths \in Axis
  PROVE  AxisChars(tenths) \in 3 .. 8
<1> DEFINE size == IF tenths < 0 THEN -tenths ELSE tenths
           scale == IF size >= 10000000 THEN 1000000 ELSE IF size >= 100000 THEN 1000 ELSE 1
           part == (size * 100) \div scale
           shown == (part + 50) \div 100
           unit == IF scale > 1 THEN 1 ELSE 0
           minus == IF tenths < 0 /\ shown # 0 THEN 1 ELSE 0
<1>1. AxisChars(tenths) = Digits(shown \div 10) + 2 + unit + minus
  BY SMT DEF AxisChars
<1>2. tenths \in Int /\ -2147483647 <= tenths /\ tenths <= 2147483647
  BY AxisAssumption, SMT
<1>3. size \in Nat /\ size <= 2147483647
  BY <1>2, SMT
<1>4. scale = IF size >= 10000000 THEN 1000000 ELSE IF size >= 100000 THEN 1000 ELSE 1
  BY SMT
<1>5. minus \in 0 .. 1 /\ unit \in 0 .. 1
  BY SMT
<1> HIDE DEF size, minus
<1>6. CASE size < 100000
  <2>1. scale = 1 /\ unit = 0
    BY <1>3, <1>6, SMT
  <2> HIDE DEF scale, unit
  <2>2. part = size * 100
    BY <1>3, <2>1, SMT
  <2>3. shown \in Nat /\ shown <= 99999
    <3> HIDE DEF part
    <3> QED
      BY <1>3, <1>6, <2>2, SMT
  <2> HIDE DEF part, shown
  <2>4. shown \div 10 \in Nat /\ shown \div 10 < 10000
    BY <2>3, SMT
  <2>5. Digits(shown \div 10) \in 1 .. 4
    BY <2>4, DigitsIs, SMT
  <2> DEFINE digits == Digits(shown \div 10)
  <2> HIDE DEF digits
  <2>6. digits \in 1 .. 4 /\ AxisChars(tenths) = digits + 2 + unit + minus
    BY <1>1, <2>5, SMT DEF digits
  <2> QED
    BY <1>5, <2>1, <2>6, SMT
<1>7. CASE size >= 100000 /\ size < 10000000
  <2>1. scale = 1000 /\ unit = 1
    BY <1>3, <1>7, SMT
  <2> HIDE DEF scale, unit
  <2>2. part \in Nat /\ part <= 1000000
    BY <1>3, <1>7, <2>1, SMT
  <2>3. shown \in Nat /\ shown <= 10000
    <3> HIDE DEF part
    <3> QED
      BY <2>2, SMT
  <2> HIDE DEF part, shown
  <2>4. shown \div 10 \in Nat /\ shown \div 10 < 10000
    BY <2>3, SMT
  <2>5. Digits(shown \div 10) \in 1 .. 4
    BY <2>4, DigitsIs, SMT
  <2> DEFINE digits == Digits(shown \div 10)
  <2> HIDE DEF digits
  <2>6. digits \in 1 .. 4 /\ AxisChars(tenths) = digits + 2 + unit + minus
    BY <1>1, <2>5, SMT DEF digits
  <2> QED
    BY <1>5, <2>1, <2>6, SMT
<1>8. CASE size >= 10000000
  <2>1. scale = 1000000 /\ unit = 1
    BY <1>3, <1>8, SMT
  <2> HIDE DEF scale, unit
  <2>2. part \in Nat /\ part <= 214748
    BY <1>3, <1>8, <2>1, SMT
  <2>3. shown \in Nat /\ shown <= 2147
    <3> HIDE DEF part
    <3> QED
      BY <2>2, SMT
  <2> HIDE DEF part, shown
  <2>4. shown \div 10 \in Nat /\ shown \div 10 < 10000
    BY <2>3, SMT
  <2>5. Digits(shown \div 10) \in 1 .. 4
    BY <2>4, DigitsIs, SMT
  <2> DEFINE digits == Digits(shown \div 10)
  <2> HIDE DEF digits
  <2>6. digits \in 1 .. 4 /\ AxisChars(tenths) = digits + 2 + unit + minus
    BY <1>1, <2>5, SMT DEF digits
  <2> QED
    BY <1>5, <2>1, <2>6, SMT
<1> QED
  BY <1>3, <1>6, <1>7, <1>8, SMT

TrendRoom(v) == Box(8, 34, 126, PanelHeight(v) - 31)

LEMMA TrendTidy ==
  ASSUME NEW v \in Views
  PROVE  Tidy(Trend(v), TrendRoom(v)) /\ TrendRoom(v) \in Boxes
<1> DEFINE h == PanelHeight(v) - 41
           room == TrendRoom(v)
           end == IF v.trend = <<>> THEN 3 ELSE AxisChars(v.trend[1])
           a == Tiny("upper", 10, 34, end, room)
           b == Tiny("lower", 10, 34 + h - 7, end, room)
           c == Tiny("collecting", 53 + 6, 34 + (h - 7) \div 2, 13, room)
           d == Item("plot", Box(53, 34, 77, h), room)
           e == Tiny("range", 53, 34 + h + 2, 3, room)
           f == Tiny("now", 115, 34 + h + 2, 3, room)
           p == Box(8, 34, 44, h)
           q == Box(53, 34, 80, h + 10)
<1>1. end \in 3 .. 8
  <2>1. CASE v.trend = <<>>
    BY <2>1
  <2>2. CASE v.trend # <<>>
    <3>1. PICK t \in Axis : v.trend = <<t>>
      BY <2>2 DEF Views
    <3>2. v.trend[1] = t
      BY <3>1
    <3>3. AxisChars(v.trend[1]) \in 3 .. 8
      BY <3>1, <3>2, AxisCharsAre
    <3> QED
      BY <2>2, <3>3
  <2> QED
    BY <2>1, <2>2
<1>2. h \in {14, 27} /\ room = Box(8, 34, 126, h + 10)
  BY PanelIs DEF TrendRoom
<1>3. /\ (4 + 136 - 10 - 53) = 77 /\ 53 + (77 - 65) \div 2 = 53 + 6 /\ 53 + 77 - 15 = 115
  OBVIOUS
<1>4. Trend(v) = {a, b} \cup {IF v.trend = <<>> THEN c ELSE d, e, f}
  <2>1. Trend(v) = {a, b, IF v.trend = <<>> THEN c ELSE d, e, f}
    BY <1>3 DEF Trend, TrendRoom
  <2> HIDE DEF a, b, c, d, e, f
  <2> QED
    BY <2>1
<1> HIDE DEF h, room, end
<1>5. room \in Boxes /\ p \in Boxes /\ q \in Boxes
  BY <1>2 DEF Box, Boxes
<1>6. Within(p, room) /\ Within(q, room) /\ Apart(p, q)
  BY <1>2 DEF Box, Within, Apart
<1>7. Within(room, FULL)
  BY <1>2 DEF Box, Within, FULL, WIDTH, HEIGHT
<1>8. InPlace(a, p) /\ InPlace(b, p) /\ Apart(a.box, b.box)
  BY <1>1, <1>2, <1>7 DEF Item, Tiny, Box, Boxes, InPlace, Within, Apart
<1>9. InPlace(c, q) /\ Apart(c.box, e.box) /\ Apart(c.box, f.box)
  <2>1. (h - 7) \div 2 \in {3, 10}
    BY <1>2
  <2> QED
    BY <1>2, <1>7, <2>1 DEF Item, Tiny, Box, Boxes, InPlace, Within, Apart
<1>10. InPlace(d, q) /\ Apart(d.box, e.box) /\ Apart(d.box, f.box)
  BY <1>2, <1>7 DEF Item, Tiny, Box, Boxes, InPlace, Within, Apart
<1>11. InPlace(e, q) /\ InPlace(f, q) /\ Apart(e.box, f.box)
  BY <1>2, <1>7 DEF Item, Tiny, Box, Boxes, InPlace, Within, Apart
<1> HIDE DEF a, b, c, d, e, f, p, q
<1>12. Tidy({a, b}, p) /\ Tidy({c, e, f}, q) /\ Tidy({d, e, f}, q)
  BY <1>5, <1>8, <1>9, <1>10, <1>11, TidyTwo, TidyThree
<1>13. Tidy({a, b} \cup {c, e, f}, room) /\ Tidy({a, b} \cup {d, e, f}, room)
  BY <1>5, <1>6, <1>12, TidyUnion
<1>14. Tidy(Trend(v), room)
  BY <1>4, <1>13
<1> QED
  BY <1>5, <1>14 DEF room

-----------------------------------------------------------------------------
(* The other panel.                                                        *)
LEMMA ContentIs ==
  ASSUME NEW v \in Views
  PROVE  /\ ContentWidth(v) \in 70 .. 119
         /\ TimeWidth(v) \in 35 .. 59 /\ SecondsWidth(v) \in {0, 22}
         /\ v.clock # 0 => SecondsWidth(v) = 22
         /\ TimeWidth(v) + SecondsWidth(v) <= ContentWidth(v) /\ DateWidth(v) <= ContentWidth(v)
         /\ v.weather # NoWeather =>
              /\ RainTile(v.weather) \in 38 .. 54 /\ DegreesWidth(v.weather) \in 16 .. 39
              /\ 26 + DegreesWidth(v.weather) + RainTile(v.weather) <= ContentWidth(v)
              /\ Full(v.weather.condition) \in 14 .. 98
              /\ ~v.expanded => Full(v.weather.condition) <= ContentWidth(v)
<1> DEFINE time == TimeWidth(v)
           seconds == SecondsWidth(v)
           date == DateWidth(v)
           degrees == DegreesWidth(v.weather)
           rain == RainTile(v.weather)
           kind == Full(v.weather.condition)
           width == ContentWidth(v)
<1>1. /\ time \in 35 .. 59 /\ seconds \in {0, 22}
      /\ v.clock # 0 => seconds = 22
  BY DEF TimeWidth, SecondsWidth, MEDIUM, SMALL
<1>2. date \in 70 .. 84
  BY DateIs
<1>3. CASE v.weather = NoWeather
  <2>1. width = Wider(time + seconds, date)
    BY <1>3 DEF ContentWidth
  <2> HIDE DEF time, seconds, date, width
  <2>2. width \in 70 .. 119 /\ time + seconds <= width /\ date <= width
    BY <1>1, <1>2, <2>1 DEF Wider
  <2> QED
    BY <1>1, <1>3, <2>2 DEF time, seconds, date, width
<1>4. CASE v.weather # NoWeather
  <2>1. v.weather \in Weathers
    BY <1>4 DEF Views
  <2>2. rain \in 38 .. 54
    BY <2>1, RainIs
  <2>3. degrees \in 16 .. 39
    <3>1. TextWidth(SMALL, v.weather.now) \in 10 .. 33
      BY <2>1, WeatherIs, GlyphsAre
    <3> QED
      BY <3>1 DEF DegreesWidth, SMALL
  <2>4. kind \in 14 .. 98
    <3>1. v.weather.condition \in 1 .. 7
      BY <2>1, WeatherIs
    <3> QED
      BY <3>1 DEF Full
  <2> DEFINE wet == Wider(Wider(time + seconds, date), 15 + 5 + degrees + 6 + rain)
  <2>5. width = IF v.expanded THEN wet ELSE Wider(wet, kind)
    BY <1>4, Zenon DEF ContentWidth
  <2> HIDE DEF time, seconds, date, width, degrees, rain, kind
  <2>6. wet \in 70 .. 119 /\ time + seconds <= wet /\ date <= wet /\ 26 + degrees + rain <= wet
    BY <1>1, <1>2, <2>2, <2>3 DEF Wider
  <2> HIDE DEF wet
  <2>7. /\ width \in 70 .. 119 /\ time + seconds <= width /\ date <= width
        /\ 26 + degrees + rain <= width
        /\ ~v.expanded => kind <= width
    BY <1>1, <1>2, <2>2, <2>3, <2>4, <2>5, <2>6 DEF Wider
  <2> QED
    BY <1>1, <2>2, <2>3, <2>4, <2>7 DEF time, seconds, date, width, degrees, rain, kind
<1> QED
  BY <1>3, <1>4

InfoRoom(v) == Box(InfoRight - ContentWidth(v), 6, ContentWidth(v), PanelHeight(v) - 3)
InfoTime(v) ==
    Aa("clock", MEDIUM, InfoRight - TimeWidth(v) - SecondsWidth(v), 8, TimeWidth(v), InfoRoom(v))
InfoDate(v) == Jp("date", InfoRight - DateWidth(v), 26, DateWidth(v), InfoRoom(v))
InfoSeconds(v) ==
    Aa("seconds", SMALL, InfoRight - TimeWidth(v) - SecondsWidth(v) + TimeWidth(v) + 2,
       8 + MEDIUM.base - SMALL.base, SecondsWidth(v) - 2, InfoRoom(v))
InfoHead(v) == {InfoTime(v), InfoDate(v)} \cup (IF v.clock = 0 THEN {} ELSE {InfoSeconds(v)})
InfoY(v) == IF v.expanded THEN 43 ELSE 41
InfoRain(v) == InfoRight - RainTile(v.weather)
InfoDegrees(v) == InfoRain(v) - 6 - DegreesWidth(v.weather)
InfoWeather(v) ==
    {Icon("weather", InfoDegrees(v) - 15 - 5, InfoY(v), InfoRoom(v)),
     Aa("degrees", SMALL, InfoDegrees(v), InfoY(v) + 1, DegreesWidth(v.weather), InfoRoom(v)),
     Item("pill", Box(InfoRain(v), InfoY(v), RainTile(v.weather), 13), InfoRoom(v))}
InfoCondition(v) ==
    Jp("condition", InfoRight - Full(v.weather.condition), 56, Full(v.weather.condition), InfoRoom(v))

LEMMA InfoRoomIs ==
  ASSUME NEW v \in Views
  PROVE  /\ InfoRoom(v) \in Boxes /\ Within(InfoRoom(v), FULL)
         /\ InfoRoom(v).x0 = 390 - ContentWidth(v) /\ InfoRoom(v).y0 = 6
         /\ InfoRoom(v).x1 = 390 /\ InfoRoom(v).y1 = PanelHeight(v) + 3
<1> DEFINE cw == ContentWidth(v)
           h == PanelHeight(v)
           r == InfoRoom(v)
<1>1. cw \in 70 .. 119 /\ h \in {55, 68}
  BY ContentIs, PanelIs
<1>2. r = Box(390 - cw, 6, cw, h - 3)
  BY DEF InfoRoom, InfoRight
<1> HIDE DEF cw, h, r
<1>3. r \in Boxes /\ Within(r, FULL) /\ r.x0 = 390 - cw /\ r.y0 = 6 /\ r.x1 = 390 /\ r.y1 = h + 3
  BY <1>1, <1>2 DEF Box, Boxes, Within, FULL, WIDTH, HEIGHT
<1> QED
  BY <1>3 DEF cw, h, r

LEMMA InfoHeadTidy ==
  ASSUME NEW v \in Views
  PROVE  Tidy(InfoHead(v), Box(390 - ContentWidth(v), 6, ContentWidth(v), 35))
<1> DEFINE cw == ContentWidth(v)
           r == Box(390 - cw, 6, cw, 35)
           room == InfoRoom(v)
           time == TimeWidth(v)
           seconds == SecondsWidth(v)
           date == DateWidth(v)
           a == InfoTime(v)
           b == InfoDate(v)
           c == InfoSeconds(v)
<1>1. /\ cw \in 70 .. 119 /\ time \in 35 .. 59 /\ seconds \in {0, 22}
      /\ time + seconds <= cw /\ date <= cw /\ date \in 70 .. 84
      /\ v.clock # 0 => seconds = 22
  BY ContentIs, DateIs
<1>2. /\ room \in Boxes /\ Within(room, FULL) /\ room.x0 = 390 - cw /\ room.y0 = 6
      /\ room.x1 = 390 /\ room.y1 >= 58
  BY InfoRoomIs, PanelIs
<1>3. /\ a = Aa("clock", MEDIUM, 390 - time - seconds, 8, time, room)
      /\ b = Jp("date", 390 - date, 26, date, room)
      /\ c = Aa("seconds", SMALL, 390 - time - seconds + time + 2, 8 + 15 - 9, seconds - 2, room)
  BY Zenon DEF InfoTime, InfoDate, InfoSeconds, InfoRight, MEDIUM, SMALL
<1>4. InfoHead(v) = {a, b} \cup (IF v.clock = 0 THEN {} ELSE {c})
  BY DEF InfoHead
<1> HIDE DEF cw, room, time, seconds, date, a, b, c
<1>5. r \in Boxes
  BY <1>1 DEF Box, Boxes
<1>6. InPlace(a, r) /\ InPlace(b, r) /\ Apart(a.box, b.box)
  BY <1>1, <1>2, <1>3 DEF Item, Jp, Aa, MEDIUM, Box, Boxes, InPlace, Within, Apart
<1>7. CASE v.clock = 0
  <2> HIDE DEF r
  <2>1. Tidy({a, b}, r)
    BY <1>5, <1>6, TidyTwo
  <2>2. InfoHead(v) = {a, b}
    BY <1>4, <1>7
  <2> QED
    BY <2>1, <2>2 DEF r, cw
<1>8. CASE v.clock # 0
  <2>1. InPlace(c, r) /\ Apart(a.box, c.box) /\ Apart(b.box, c.box)
    <3>1. seconds = 22
      BY <1>1, <1>8
    <3>2. InPlace(c, r)
      BY <1>1, <1>2, <1>3, <3>1 DEF Item, Aa, SMALL, Box, Boxes, InPlace, Within
    <3>3. Apart(a.box, c.box) /\ Apart(b.box, c.box)
      BY <1>1, <1>3, <3>1 DEF Item, Aa, Jp, MEDIUM, SMALL, Box, Apart
    <3> QED
      BY <3>2, <3>3
  <2> HIDE DEF r
  <2>2. Tidy({a, b, c}, r)
    BY <1>5, <1>6, <2>1, TidyThree
  <2>3. InfoHead(v) = {a, b, c}
    BY <1>4, <1>8
  <2> QED
    BY <2>2, <2>3 DEF r, cw
<1> QED
  BY <1>7, <1>8

LEMMA InfoWeatherTidy ==
  ASSUME NEW v \in Views, v.weather # NoWeather
  PROVE  Tidy(InfoWeather(v), Box(390 - ContentWidth(v), InfoY(v), ContentWidth(v), 15))
<1> DEFINE cw == ContentWidth(v)
           y == InfoY(v)
           r == Box(390 - cw, y, cw, 15)
           room == InfoRoom(v)
           tile == RainTile(v.weather)
           wide == DegreesWidth(v.weather)
           degrees == InfoDegrees(v)
           a == Icon("weather", degrees - 15 - 5, y, room)
           b == Aa("degrees", SMALL, degrees, y + 1, wide, room)
           c == Item("pill", Box(390 - tile, y, tile, 13), room)
<1>1. cw \in 70 .. 119 /\ tile \in 38 .. 54 /\ wide \in 16 .. 39 /\ 26 + wide + tile <= cw
  BY ContentIs
<1>2. /\ room \in Boxes /\ Within(room, FULL) /\ room.x0 = 390 - cw /\ room.y0 = 6
      /\ room.x1 = 390 /\ y + 15 <= room.y1 /\ y \in {41, 43}
  BY InfoRoomIs, PanelIs DEF InfoY
<1>3. degrees = 390 - tile - 6 - wide
  BY DEF InfoDegrees, InfoRain, InfoRight
<1>4. InfoWeather(v) = {a, b, c}
  BY DEF InfoWeather, InfoRain, InfoRight
<1> HIDE DEF cw, y, room, tile, wide, degrees
<1>5. r \in Boxes
  BY <1>1, <1>2 DEF Box, Boxes
<1>6. InPlace(a, r) /\ InPlace(b, r) /\ InPlace(c, r)
  <2>1. InPlace(a, r)
    BY <1>1, <1>2, <1>3 DEF Item, Icon, Box, Boxes, InPlace, Within
  <2>2. InPlace(b, r)
    BY <1>1, <1>2, <1>3 DEF Item, Aa, SMALL, Box, Boxes, InPlace, Within
  <2>3. InPlace(c, r)
    BY <1>1, <1>2, <1>3 DEF Item, Box, Boxes, InPlace, Within
  <2> QED
    BY <2>1, <2>2, <2>3
<1>7. Apart(a.box, b.box) /\ Apart(a.box, c.box) /\ Apart(b.box, c.box)
  BY <1>1, <1>2, <1>3 DEF Item, Icon, Aa, SMALL, Box, Apart
<1> HIDE DEF a, b, c, r
<1>8. Tidy({a, b, c}, r)
  BY <1>5, <1>6, <1>7, TidyThree
<1> QED
  BY <1>4, <1>8 DEF r, cw, y

LEMMA InfoConditionTidy ==
  ASSUME NEW v \in Views, v.weather # NoWeather, ~v.expanded
  PROVE  Tidy({InfoCondition(v)}, Box(390 - ContentWidth(v), 56, ContentWidth(v), 15))
<1> DEFINE cw == ContentWidth(v)
           r == Box(390 - cw, 56, cw, 15)
           room == InfoRoom(v)
           kind == Full(v.weather.condition)
           a == InfoCondition(v)
<1>1. cw \in 70 .. 119 /\ kind \in 14 .. 98 /\ kind <= cw
  BY ContentIs
<1>2. /\ room \in Boxes /\ Within(room, FULL) /\ room.x0 = 390 - cw /\ room.y0 = 6
      /\ room.x1 = 390 /\ room.y1 = 71
  BY InfoRoomIs, PanelIs
<1>3. a = Jp("condition", 390 - kind, 56, kind, room)
  BY DEF InfoCondition, InfoRight
<1> HIDE DEF cw, room, kind, a
<1>4. InPlace(a, r) /\ r \in Boxes
  BY <1>1, <1>2, <1>3 DEF Item, Jp, Box, Boxes, InPlace, Within
<1> HIDE DEF r
<1>5. Tidy({a}, r)
  BY <1>4, TidyOne
<1> QED
  BY <1>5 DEF a, r, cw

LEMMA InfoTidy ==
  ASSUME NEW v \in Views
  PROVE  Tidy(Info(v), InfoRoom(v))
<1> DEFINE cw == ContentWidth(v)
           room == InfoRoom(v)
           weather == IF v.weather = NoWeather THEN {} ELSE InfoWeather(v)
           below == IF v.weather = NoWeather \/ v.expanded THEN {} ELSE {InfoCondition(v)}
           headBox == Box(390 - cw, 6, cw, 35)
           weatherBox == Box(390 - cw, InfoY(v), cw, 15)
           belowBox == Box(390 - cw, 56, cw, 15)
           upBox == Box(390 - cw, 6, cw, 50)
<1>1. Info(v) = InfoHead(v) \cup weather \cup below
  BY Zenon DEF Info, InfoHead, InfoTime, InfoDate, InfoSeconds, InfoWeather, InfoCondition,
               InfoRoom, InfoY, InfoRain, InfoDegrees
<1>2. cw \in 70 .. 119
  BY ContentIs
<1>3. /\ room \in Boxes /\ room.x0 = 390 - cw /\ room.y0 = 6 /\ room.x1 = 390
      /\ room.y1 = IF v.expanded THEN 58 ELSE 71
      /\ InfoY(v) = IF v.expanded THEN 43 ELSE 41
  BY InfoRoomIs, PanelIs DEF InfoY
<1>4. Tidy(InfoHead(v), headBox)
  BY InfoHeadTidy
<1> HIDE DEF cw, room
<1>5. headBox \in Boxes /\ weatherBox \in Boxes /\ belowBox \in Boxes /\ upBox \in Boxes
  BY <1>2, <1>3 DEF Box, Boxes
<1>6. /\ Within(headBox, room) /\ Within(weatherBox, room) /\ Apart(headBox, weatherBox)
      /\ ~v.expanded => Within(belowBox, room) /\ Apart(upBox, belowBox) /\ Within(upBox, room)
                        /\ Within(headBox, upBox) /\ Within(weatherBox, upBox)
  BY <1>2, <1>3 DEF Box, Within, Apart
<1>7. Tidy(weather, weatherBox)
  <2>1. Tidy({}, weatherBox)
    BY <1>5, TidyNone
  <2>2. v.weather # NoWeather => Tidy(InfoWeather(v), weatherBox)
    BY InfoWeatherTidy DEF cw
  <2> HIDE DEF weatherBox
  <2> QED
    BY <2>1, <2>2
<1>8. Tidy(below, belowBox)
  <2>1. Tidy({}, belowBox)
    BY <1>5, TidyNone
  <2>2. v.weather # NoWeather /\ ~v.expanded => Tidy({InfoCondition(v)}, belowBox)
    BY InfoConditionTidy DEF cw
  <2> HIDE DEF belowBox
  <2> QED
    BY <2>1, <2>2
<1>9. CASE v.expanded
  <2>1. below = {}
    BY <1>9
  <2> HIDE DEF weather, below, headBox, weatherBox
  <2>2. Tidy(InfoHead(v) \cup weather, room)
    BY <1>3, <1>4, <1>5, <1>6, <1>7, TidyUnion
  <2>3. InfoHead(v) \cup weather \cup below = InfoHead(v) \cup weather
    BY <2>1
  <2> QED
    BY <1>1, <2>2, <2>3 DEF room
<1>10. CASE ~v.expanded
  <2> HIDE DEF weather, below, headBox, weatherBox, belowBox, upBox
  <2>1. Tidy(InfoHead(v) \cup weather, upBox)
    BY <1>4, <1>5, <1>6, <1>7, <1>10, TidyUnion
  <2>2. Tidy((InfoHead(v) \cup weather) \cup below, room)
    BY <1>3, <1>5, <1>6, <1>8, <1>10, <2>1, TidyUnion
  <2> QED
    BY <1>1, <2>2 DEF room
<1> QED
  BY <1>9, <1>10

LEMMA PowerFocusTidy ==
  ASSUME NEW v \in Views
  PROVE  Tidy(PowerFocus(v), FULL)
<1> DEFINE top == BandTop(v)
           reading == ReadingBox(v)
           trendBox == TrendRoom(v)
           info == InfoRoom(v)
           leftBox == Box(0, 0, 260, top)
           up == Box(0, 0, 400, top)
           band == Box(0, top, 400, 96 - top)
           graph == IF v.display = "Graph" THEN Trend(v) ELSE {}
<1>1. PowerFocus(v) = ((Reading(v) \cup graph) \cup Info(v)) \cup GlassBand(v)
  BY DEF PowerFocus
<1>2. /\ Tidy(Reading(v), reading) /\ reading \in Boxes /\ Tidy(Trend(v), trendBox) /\ trendBox \in Boxes
      /\ Tidy(Info(v), info) /\ info \in Boxes /\ Tidy(GlassBand(v), band)
  BY ReadingTidy, TrendTidy, InfoTidy, InfoRoomIs, GlassBandTidy
<1>3. leftBox \in Boxes /\ up \in Boxes /\ band \in Boxes /\ FULL \in Boxes
  BY DEF Box, Boxes, BandTop, FULL, WIDTH, HEIGHT
<1>4. /\ Within(reading, leftBox) /\ Within(trendBox, leftBox)
      /\ v.display = "Graph" => Apart(reading, trendBox)
  BY PanelIs DEF ReadingBox, ReadingRoom, TrendRoom, BandTop, Box, Within, Apart
<1>5. Within(leftBox, up) /\ Within(info, up) /\ Apart(leftBox, info)
  <2>1. /\ ContentWidth(v) \in 70 .. 119 /\ info.x0 = 390 - ContentWidth(v) /\ info.y0 = 6
        /\ info.x1 = 390 /\ info.y1 = IF v.expanded THEN 58 ELSE 71
    BY ContentIs, InfoRoomIs, PanelIs
  <2> HIDE DEF info
  <2> QED
    BY <2>1 DEF BandTop, Box, Within, Apart
<1>6. Within(up, FULL) /\ Within(band, FULL) /\ Apart(up, band)
  BY DEF BandTop, Box, Within, Apart, FULL, WIDTH, HEIGHT
<1> HIDE DEF top, reading, trendBox, info, leftBox, up, band
<1>7. Tidy(Reading(v) \cup graph, leftBox)
  <2>1. CASE v.display = "Graph"
    <3>1. Tidy(Reading(v) \cup Trend(v), leftBox)
      BY <1>2, <1>3, <1>4, <2>1, TidyUnion
    <3> QED
      BY <2>1, <3>1
  <2>2. CASE v.display # "Graph"
    <3>1. Tidy(Reading(v), leftBox)
      BY <1>2, <1>3, <1>4, TidyIn
    <3>2. Reading(v) \cup graph = Reading(v)
      BY <2>2
    <3> QED
      BY <3>1, <3>2
  <2> QED
    BY <2>1, <2>2
<1> HIDE DEF graph
<1>8. Tidy((Reading(v) \cup graph) \cup Info(v), up)
  BY <1>2, <1>3, <1>5, <1>7, TidyUnion
<1>9. Tidy(((Reading(v) \cup graph) \cup Info(v)) \cup GlassBand(v), FULL)
  BY <1>2, <1>3, <1>6, <1>8, TidyUnion
<1> QED
  BY <1>1, <1>9

-----------------------------------------------------------------------------
(* A place longer than its layout has room for: all but its row is the     *)
(* same layout without a place, and the row's texts keep apart from it.    *)
NoPlace(v) == [v EXCEPT !.place = 0]

(* A layout reads of a view these parts, and the place.                    *)
Alike(u, v) ==
    u.meter = v.meter /\ u.clock = v.clock /\ u.weather = v.weather /\ u.expanded = v.expanded

LEMMA NoPlaceIs ==
  ASSUME NEW v \in Views
  PROVE  NoPlace(v) \in Views /\ NoPlace(v).place = 0 /\ Alike(NoPlace(v), v)
<1>1. v \in [layout : Layouts, display : Displays, place : 0 .. 32, meter : Meters, clock : Clocks,
             weather : Weathers \cup {NoWeather}, trend : {<<>>} \cup {<<end>> : end \in Axis},
             expanded : BOOLEAN]
  BY DEF Views
<1>2. 0 \in 0 .. 32
  OBVIOUS
<1> QED
  BY <1>1, <1>2 DEF NoPlace, Views, Alike

LEMMA SameClock ==
  ASSUME NEW u, NEW v, Alike(u, v), NEW x, NEW y
  PROVE  /\ BigClock(u, x, y) = BigClock(v, x, y) /\ BigClockEnd(u, x) = BigClockEnd(v, x)
         /\ DateWidth(u) = DateWidth(v)
BY SMT DEF Alike, BigClock, BigClockEnd, DateWidth

LEMMA SameGlass ==
  ASSUME NEW u, NEW v, Alike(u, v)
  PROVE  /\ BigClock(u, 8, 4) = BigClock(v, 8, 4)
         /\ {GlassDate(u)} \cup GlassBar(u) = {GlassDate(v)} \cup GlassBar(v)
         /\ GlassWeather(u) = GlassWeather(v) /\ GlassBand(u) = GlassBand(v)
<1>1. BigClock(u, 8, 4) = BigClock(v, 8, 4) /\ DateWidth(u) = DateWidth(v)
  BY SameClock
<1>2. GlassDate(u) = GlassDate(v)
  BY <1>1 DEF GlassDate
<1>3. /\ Bar(u, 128, 39, 100, TRUE) = Bar(v, 128, 39, 100, TRUE)
      /\ Bar(u, 8, 56, 218, FALSE) = Bar(v, 8, 56, 218, FALSE)
  BY SMT DEF Alike, Bar, StatusChars
<1>4. GlassBar(u) = GlassBar(v)
  BY <1>3 DEF GlassBar, Alike
<1>5. GlassWeather(u) = GlassWeather(v)
  BY SMT DEF GlassWeather, Alike
<1>6. GlassBand(u) = GlassBand(v)
  BY SMT DEF GlassBand, Alike
<1> QED
  BY <1>1, <1>2, <1>4, <1>5, <1>6

LEMMA TidySettled ==
  ASSUME NEW items, NEW row, Tidy(items, FULL)
  PROVE  Settled(items, row)
BY DEF Settled, Tidy, InPlace

LEMMA SettledBy ==
  ASSUME NEW all, NEW A, NEW B, NEW row, Tidy(all, FULL), A \subseteq all,
         \A j \in B : j.name \in row /\ Within(j.room, FULL),
         \A i \in A, j \in B : i.name \in row \/ Apart(i.box, j.box)
  PROVE  Settled(A \cup B, row)
<1>1. \A i \in A : Within(i.box, i.room) /\ Within(i.room, FULL)
  BY DEF Tidy, InPlace
<1>2. \A i, j \in A : i.name # j.name => Apart(i.box, j.box)
  BY DEF Tidy
<1>3. ASSUME NEW i \in A, NEW j \in B
      PROVE  /\ {i.name, j.name} \subseteq row \/ Apart(i.box, j.box)
             /\ {j.name, i.name} \subseteq row \/ Apart(j.box, i.box)
  <2>1. CASE i.name \in row
    BY <2>1
  <2>2. CASE Apart(i.box, j.box)
    BY <2>2, ApartBack
  <2> QED
    BY <2>1, <2>2
<1>4. \A i, j \in B : {i.name, j.name} \subseteq row
  OBVIOUS
<1> QED
  BY <1>1, <1>2, <1>3, <1>4 DEF Settled

(* Of boxes, one ends before the other begins.                             *)
LEMMA TidyWithin ==
  ASSUME NEW items, NEW r, Tidy(items, r), NEW i \in items
  PROVE  /\ i.box \in Boxes /\ r \in Boxes /\ r.x0 <= i.box.x0 /\ i.box.x1 <= r.x1
         /\ r.y0 <= i.box.y0 /\ i.box.y1 <= r.y1
BY DEF Tidy, InPlace, Within

(* Glass: the pin and the place, beside the clock and above the condition. *)
LEMMA GlassPlaceBeside ==
  ASSUME NEW v \in Views, NEW j \in GlassPlace(v)
  PROVE  /\ j.name \in PlaceRow["Glass"] /\ Within(j.room, FULL)
         /\ j.box \in Boxes /\ j.box.x0 >= 158 /\ j.box.y0 >= 8 /\ j.box.y1 <= 23
         /\ j.box.x0 >= 166 \/ j.box.y1 <= 18
<1> DEFINE w == Half(v.place)
           a == Item("pin", Box(390 - w - 8, 11, 5, 7), GlassCard)
           b == Jp("place", 390 - w, 8, w, GlassCard)
<1>1. w \in 0 .. 224
  BY PlaceIs
<1>2. j \in {a, b}
  BY DEF GlassPlace
<1> HIDE DEF w
<1>3. PlaceRow["Glass"] = {"pin", "place", "weather", "degrees"}
  BY DEF PlaceRow
<1>4. CASE j = a
  BY <1>1, <1>3, <1>4, GlassCardIs DEF Item, Box, Boxes
<1>5. CASE j = b
  BY <1>1, <1>3, <1>5, GlassCardIs DEF Item, Jp, Box, Boxes
<1> QED
  BY <1>2, <1>4, <1>5

LEMMA ClockBeside ==
  ASSUME NEW v \in Views, NEW i \in BigClock(v, 8, 4)
  PROVE  i.box \in Boxes /\ (i.box.x1 <= 131 \/ (i.box.x1 <= 166 /\ i.box.y0 >= 21))
<1>1. CASE v.clock = 0
  BY <1>1 DEF BigClock, Aa, Item, Box, Boxes, CLOCK_FONT
<1>2. CASE v.clock # 0
  BY <1>2 DEF BigClock, Aa, Item, Box, Boxes, CLOCK_FONT, MEDIUM
<1> QED
  BY <1>1, <1>2

LEMMA GlassWeatherBeside ==
  ASSUME NEW v \in Views, NEW i \in GlassWeather(v)
  PROVE  i.name \in PlaceRow["Glass"] \/ (i.box \in Boxes /\ i.box.y0 >= 23)
<1> DEFINE a == Icon("weather", 240, 8, GlassCard)
<1>1. PlaceRow["Glass"] = {"pin", "place", "weather", "degrees"}
  BY DEF PlaceRow
<1>2. CASE v.weather = NoWeather
  <2> DEFINE c == Jp("condition", 240, 26, Full(6), GlassCard)
  <2>1. i = a \/ i = c
    BY <1>2 DEF GlassWeather
  <2>2. a.name = "weather" /\ c.box \in Boxes /\ c.box.y0 = 26
    BY DEF Icon, Jp, Item, Box, Boxes, Full
  <2> QED
    BY <1>1, <2>1, <2>2
<1>3. CASE v.weather # NoWeather
  <2> DEFINE w == v.weather
             wide == ForecastWidth(w)
             b == Aa("degrees", MEDIUM, 259, 8, TextWidth(MEDIUM, w.now) + MEDIUM.degree, GlassCard)
             c == Jp("condition", 240, 26, Full(w.condition), GlassCard)
  <2>1. w \in Weathers /\ w.condition \in 1 .. 7 /\ wide \in 84 .. 146
    BY <1>3, WeatherIs, ForecastIs DEF Views
  <2>2. i \in {a, b, c} \/ i \in Forecast(w, 240, 44, GlassCard)
    BY <1>3 DEF GlassWeather
  <2>3. a.name = "weather" /\ b.name = "degrees" /\ c.box.y0 = 26 /\ c.box \in Boxes
    BY <2>1 DEF Icon, Aa, Jp, Item, Box, Boxes, Full
  <2>4. Tidy(Forecast(w, 240, 44, GlassCard), Box(240, 44 - 1, wide, 13))
    <3> HIDE DEF wide, w
    <3>1. 240 \in 0 .. 400 /\ 44 \in 1 .. 80 /\ Within(Box(240, 44 - 1, wide, 13), GlassCard)
      BY <2>1, GlassCardIs DEF Box, Within
    <3>2. GlassCard \in Boxes /\ Within(GlassCard, FULL)
      BY GlassCardIs
    <3>3. Within(Box(240, 44 - 1, ForecastWidth(w), 13), GlassCard)
      BY <3>1 DEF wide
    <3> QED
      BY <2>1, <3>1, <3>2, <3>3, ForecastTidy, ZenonT(30) DEF wide
  <2>5. Box(240, 44 - 1, wide, 13).y0 = 43
    BY DEF Box
  <2>6. i \in Forecast(w, 240, 44, GlassCard) => i.box \in Boxes /\ i.box.y0 >= 23
    <3> HIDE DEF w, wide
    <3> SUFFICES ASSUME i \in Forecast(w, 240, 44, GlassCard) PROVE i.box \in Boxes /\ i.box.y0 >= 23
      OBVIOUS
    <3> DEFINE r == Box(240, 44 - 1, wide, 13)
    <3>1. i.box \in Boxes /\ r.y0 <= i.box.y0 /\ r.y0 = 43
      BY <2>4, <2>5, TidyWithin, Zenon
    <3> HIDE DEF r
    <3> QED
      BY <3>1 DEF Boxes
  <2> HIDE DEF a, b, c, w
  <2> QED
    BY <1>1, <2>2, <2>3, <2>6 DEF Boxes
<1> QED
  BY <1>2, <1>3

LEMMA GlassSettled ==
  ASSUME NEW v \in Views, v.meter.value.digits <= BAR_DIGITS
  PROVE  Settled(Glass(v), PlaceRow["Glass"])
<1> DEFINE u == NoPlace(v)
           clock == BigClock(v, 8, 4)
           low == {GlassDate(v)} \cup GlassBar(v)
           weather == GlassWeather(v)
           band == GlassBand(v)
           place == GlassPlace(v)
           A == clock \cup low \cup weather \cup band
           row == PlaceRow["Glass"]
<1>1. Glass(v) = A \cup place
  <2> HIDE DEF clock, low, weather, band, place
  <2>1. Glass(v) = ((clock \cup low) \cup (place \cup weather)) \cup band
    BY GlassIs, Zenon DEF clock, low, weather, band, place
  <2> QED
    BY <2>1
<1>2. A \subseteq Glass(u) /\ Tidy(Glass(u), FULL)
  <2>1. u \in Views /\ u.place = 0 /\ u.meter = v.meter /\ Alike(u, v)
    BY NoPlaceIs DEF Alike
  <2> HIDE DEF u
  <2>2. /\ clock = BigClock(u, 8, 4) /\ low = {GlassDate(u)} \cup GlassBar(u)
        /\ weather = GlassWeather(u) /\ band = GlassBand(u)
    BY <2>1, SameGlass
  <2>3. Glass(u) = ((BigClock(u, 8, 4) \cup ({GlassDate(u)} \cup GlassBar(u)))
                     \cup (GlassPlace(u) \cup GlassWeather(u))) \cup GlassBand(u)
    BY GlassIs, Zenon
  <2> HIDE DEF clock, low, weather, band
  <2>4. Tidy(Glass(u), FULL)
    BY <2>1, GlassTidy
  <2> QED
    BY <2>2, <2>3, <2>4
<1>3. ASSUME NEW i \in A, NEW j \in place PROVE i.name \in row \/ Apart(i.box, j.box)
  <2>1. /\ j.box \in Boxes /\ j.box.x0 >= 158 /\ j.box.y0 >= 8 /\ j.box.y1 <= 23
        /\ j.box.x0 >= 166 \/ j.box.y1 <= 18
    BY GlassPlaceBeside
  <2>2. CASE i \in clock
    <3>1. i.box \in Boxes /\ (i.box.x1 <= 131 \/ (i.box.x1 <= 166 /\ i.box.y0 >= 21))
      BY <2>2, ClockBeside
    <3> QED
      BY <2>1, <3>1 DEF Apart, Boxes
  <2>3. i \in low => i.box \in Boxes /\ i.box.y0 >= 37
    <3>1. Tidy(low, Box(0, 37, 230, BandTop(v) - 37))
      BY GlassLowTidy
    <3>2. Box(0, 37, 230, BandTop(v) - 37).y0 = 37
      BY DEF Box
    <3> HIDE DEF low
    <3> QED
      BY <3>1, <3>2, TidyWithin
  <2>4. i \in band => i.box \in Boxes /\ i.box.y0 >= 61
    <3>1. Tidy(band, Box(0, BandTop(v), 400, 96 - BandTop(v)))
      BY GlassBandTidy
    <3>2. Box(0, BandTop(v), 400, 96 - BandTop(v)).y0 \in {61, 74}
      BY DEF Box, BandTop
    <3> DEFINE r == Box(0, BandTop(v), 400, 96 - BandTop(v))
    <3> HIDE DEF band, r
    <3>3. i \in band => i.box \in Boxes /\ r.y0 <= i.box.y0 /\ r.y0 \in {61, 74}
      BY <3>1, <3>2, TidyWithin DEF r
    <3> QED
      BY <3>3 DEF Boxes
  <2>5. i \in weather => i.name \in row \/ (i.box \in Boxes /\ i.box.y0 >= 23)
    BY GlassWeatherBeside
  <2> HIDE DEF clock, low, weather, band, place, row
  <2>6. CASE i \in low \cup weather \cup band
    <3>1. i.name \in row \/ (i.box \in Boxes /\ i.box.y0 >= 23)
      BY <2>3, <2>4, <2>5, <2>6 DEF Boxes
    <3> QED
      BY <2>1, <3>1 DEF Apart, Boxes
  <2> QED
    BY <2>2, <2>6
<1>4. \A j \in place : j.name \in row /\ Within(j.room, FULL)
  BY GlassPlaceBeside
<1> HIDE DEF u, A, place, row
<1>5. Settled(A \cup place, row)
  BY <1>2, <1>3, <1>4, SettledBy
<1> QED
  BY <1>1, <1>5 DEF row

(* Dock: the place and the forecast, right of all else in the stand.       *)
DockLeft(v) ==
    {Icon("weather", 9, 55, DockStand)}
    \cup (IF v.weather = NoWeather THEN {Jp("condition", 28, 56, Full(6), DockStand)}
          ELSE {Aa("degrees", MEDIUM, 28, 55, DockTemp(v), DockStand),
                Jp("condition", DockCond(v), 56, Full(v.weather.condition), DockStand)})
DockRight(v) ==
    IF v.weather = NoWeather THEN {Jp("place", 28 + Full(6) + 10, 56, Half(v.place), DockStand)}
    ELSE {Jp("place", DockPlace(v), 56, Half(v.place), DockStand)}
         \cup Forecast(v.weather, DockForecast(v), 58, DockStand)
DockEdge(v) == IF v.weather = NoWeather THEN 122 ELSE DockPlace(v)

LEMMA DockRowIs ==
  ASSUME NEW v PROVE DockRow(v) = DockLeft(v) \cup DockRight(v)
<1>1. CASE v.weather = NoWeather
  BY <1>1 DEF DockRow, DockLeft, DockRight
<1>2. CASE v.weather # NoWeather
  BY <1>2 DEF DockRow, DockLeft, DockRight
<1> QED
  BY <1>1, <1>2

LEMMA DockPlaceIs ==
  ASSUME NEW v \in Views, v.weather # NoWeather
  PROVE  /\ DockTemp(v) \in 24 .. 62 /\ Full(v.weather.condition) \in 14 .. 98
         /\ DockCond(v) = DockTemp(v) + 34
         /\ DockPlace(v) = DockTemp(v) + 44 + Full(v.weather.condition)
<1> DEFINE w == v.weather
           temp == DockTemp(v)
           cond == Full(w.condition)
<1>1. w \in Weathers
  BY DEF Views
<1>2. temp \in 24 .. 62
  <2>1. TextWidth(MEDIUM, w.now) \in 14 .. 52
    BY <1>1, WeatherIs, GlyphsAre
  <2> QED
    BY <2>1 DEF DockTemp, MEDIUM
<1>3. cond \in 14 .. 98
  <2>1. w.condition \in 1 .. 7
    BY <1>1, WeatherIs
  <2> QED
    BY <2>1 DEF Full
<1>4. DockCond(v) = 28 + temp + 6 /\ DockPlace(v) = DockCond(v) + cond + 10
  BY DEF DockCond, DockPlace
<1> HIDE DEF temp, cond
<1>5. DockCond(v) = temp + 34 /\ DockPlace(v) = temp + 44 + cond
  BY <1>2, <1>3, <1>4
<1> QED
  BY <1>2, <1>3, <1>5 DEF temp, cond

LEMMA DockLeftBeside ==
  ASSUME NEW v \in Views, NEW i \in DockLeft(v)
  PROVE  i.box \in Boxes /\ DockEdge(v) \in Int /\ i.box.x1 <= DockEdge(v)
<1> DEFINE a == Icon("weather", 9, 55, DockStand)
<1>1. CASE v.weather = NoWeather
  <2> DEFINE b == Jp("condition", 28, 56, Full(6), DockStand)
  <2>1. i = a \/ i = b
    BY <1>1 DEF DockLeft
  <2>2. a.box \in Boxes /\ b.box \in Boxes /\ a.box.x1 <= 122 /\ b.box.x1 <= 122
    BY DEF Icon, Jp, Item, Box, Boxes, Full
  <2> QED
    BY <1>1, <2>1, <2>2 DEF DockEdge
<1>2. CASE v.weather # NoWeather
  <2> DEFINE temp == DockTemp(v)
             cond == Full(v.weather.condition)
             edge == DockPlace(v)
             b == Aa("degrees", MEDIUM, 28, 55, temp, DockStand)
             c == Jp("condition", DockCond(v), 56, cond, DockStand)
  <2>1. i = a \/ i = b \/ i = c
    BY <1>2 DEF DockLeft
  <2>2. temp \in 24 .. 62 /\ cond \in 14 .. 98 /\ DockCond(v) = temp + 34 /\ edge = temp + 44 + cond
    BY <1>2, DockPlaceIs
  <2> HIDE DEF temp, cond, edge
  <2>3. /\ a.box \in Boxes /\ b.box \in Boxes /\ c.box \in Boxes /\ edge \in Int
        /\ a.box.x1 <= edge /\ b.box.x1 <= edge /\ c.box.x1 <= edge
    BY <2>2 DEF Icon, Aa, MEDIUM, Jp, Item, Box, Boxes
  <2>4. DockEdge(v) = edge
    BY <1>2 DEF DockEdge, edge
  <2> HIDE DEF a, b, c
  <2> QED
    BY <2>1, <2>3, <2>4
<1> QED
  BY <1>1, <1>2

LEMMA ForecastBeside ==
  ASSUME NEW w \in Weathers, NEW x \in Int, NEW room, NEW j \in Forecast(w, x, 58, room)
  PROVE  /\ j.name \in {"up", "max", "down", "min", "pill"} /\ j.room = room
         /\ j.box \in Boxes /\ j.box.x0 >= x /\ j.box.y0 >= 56 /\ j.box.y1 <= 72
<1> DEFINE high == TextWidth(SMALL, w.max)
           low == TextWidth(SMALL, w.min)
           pill == PillWidth(w)
           down == x + 7 + high + 6
           a == Item("up", Box(x, 58 + 4, 5, 3), room)
           b == Aa("max", SMALL, x + 7, 58, (x + 7) - x - 7 + high, room)
           c == Item("down", Box(down, 58 + 4, 5, 3), room)
           d == Aa("min", SMALL, down + 7, 58, low, room)
           e == Item("pill", Box(down + 7 + low + 6, 58 - 1, pill, 13), room)
<1>1. high \in 10 .. 33 /\ low \in 10 .. 33 /\ pill \in 38 .. 54
  BY GlyphsAre, WeatherIs, RainIs
<1>2. j \in {a, b, c, d, e}
  BY DEF Forecast
<1> HIDE DEF high, low, pill
<1>3. CASE j = a \/ j = b
  BY <1>1, <1>3 DEF Item, Aa, SMALL, Box, Boxes
<1>4. CASE j = c \/ j = d
  BY <1>1, <1>4 DEF Item, Aa, SMALL, Box, Boxes
<1>5. CASE j = e
  BY <1>1, <1>5 DEF Item, Box, Boxes
<1> HIDE DEF a, b, c, d, e
<1> QED
  BY <1>2, <1>3, <1>4, <1>5

LEMMA DockRightBeside ==
  ASSUME NEW v \in Views, NEW j \in DockRight(v)
  PROVE  /\ j.name \in PlaceRow["Dock"] /\ Within(j.room, FULL)
         /\ j.box \in Boxes /\ j.box.x0 >= DockEdge(v) /\ j.box.y0 >= 56 /\ j.box.y1 <= 72
<1> DEFINE place == Half(v.place)
<1>1. PlaceRow["Dock"] = {"place", "up", "max", "down", "min", "pill"} /\ Within(DockStand, FULL)
  BY DockStandIs DEF PlaceRow
<1>2. place \in 0 .. 224
  BY PlaceIs
<1>3. CASE v.weather = NoWeather
  <2>1. j = Jp("place", 122, 56, place, DockStand) /\ DockEdge(v) = 122
    BY <1>3 DEF DockRight, DockEdge, Full
  <2> HIDE DEF place
  <2> QED
    BY <1>1, <1>2, <2>1 DEF Jp, Item, Box, Boxes
<1>4. CASE v.weather # NoWeather
  <2> DEFINE edge == DockPlace(v)
             x == DockForecast(v)
             w == v.weather
             a == Jp("place", edge, 56, place, DockStand)
  <2>1. edge \in 82 .. 204
    <3>1. /\ DockTemp(v) \in 24 .. 62 /\ Full(v.weather.condition) \in 14 .. 98
          /\ DockPlace(v) = DockTemp(v) + 44 + Full(v.weather.condition)
      BY <1>4, DockPlaceIs
    <3> QED
      BY <3>1
  <2>2. w \in Weathers /\ ForecastWidth(w) \in 84 .. 146
    BY <1>4, ForecastIs DEF Views
  <2>3. x = Wider(391 - ForecastWidth(w), edge + place + 8)
    BY DEF DockForecast
  <2>4. DockRight(v) = {a} \cup Forecast(w, x, 58, DockStand) /\ DockEdge(v) = edge
    BY <1>4 DEF DockRight, DockEdge
  <2> HIDE DEF edge, x, w, place
  <2>5. x \in Int /\ x >= edge
    BY <1>2, <2>1, <2>2, <2>3 DEF Wider
  <2>6. CASE j = a
    BY <1>1, <1>2, <2>1, <2>4, <2>6 DEF Jp, Item, Box, Boxes
  <2>7. CASE j \in Forecast(w, x, 58, DockStand)
    <3>1. /\ j.name \in {"up", "max", "down", "min", "pill"} /\ j.room = DockStand
          /\ j.box \in Boxes /\ j.box.x0 >= x /\ j.box.y0 >= 56 /\ j.box.y1 <= 72
      BY <2>2, <2>5, <2>7, ForecastBeside
    <3>2. j.box.x0 >= edge
      BY <2>1, <2>5, <3>1 DEF Boxes
    <3> QED
      BY <1>1, <2>4, <3>1, <3>2
  <2> HIDE DEF a
  <2> QED
    BY <2>4, <2>6, <2>7
<1> QED
  BY <1>3, <1>4

LEMMA DockSettled ==
  ASSUME NEW v \in Views, v.meter.value.digits <= BAR_DIGITS
  PROVE  Settled(Dock(v), PlaceRow["Dock"])
<1> DEFINE u == NoPlace(v)
           west == DockWest(v)
           inner == DockLeft(v)
           outer == DockRight(v)
           row == PlaceRow["Dock"]
<1>1. u \in Views /\ u.place = 0 /\ u.meter = v.meter /\ u.expanded = v.expanded /\ Alike(u, v)
  BY NoPlaceIs DEF Alike
<1>2. Tidy(Dock(u), FULL)
  <2> HIDE DEF u
  <2> QED
    BY <1>1, DockTidy
<1>3. west = DockWest(u) /\ inner = DockLeft(u)
  <2> HIDE DEF u
  <2>1. /\ BigClock(u, 8, 4) = BigClock(v, 8, 4) /\ BigClockEnd(u, 8) = BigClockEnd(v, 8)
        /\ DateWidth(u) = DateWidth(v)
    BY <1>1, SameClock
  <2>2. Bar(u, 8, 36, 226, FALSE) = Bar(v, 8, 36, 226, FALSE)
    BY <1>1, SMT DEF Alike, Bar, StatusChars
  <2>3. DockWest(v) = DockWest(u)
    BY <2>1, <2>2 DEF DockWest, DockDate
  <2>4. DockLeft(v) = DockLeft(u)
    BY <1>1, SMT DEF Alike, DockLeft, DockTemp, DockCond
  <2> QED
    BY <2>3, <2>4
<1>4. CASE v.expanded
  <2>1. Dock(v) = west \cup DockLines /\ Dock(u) = DockWest(u) \cup DockLines
    BY <1>1, <1>4, DockIs
  <2>2. Tidy(Dock(v), FULL)
    BY <1>2, <1>3, <2>1
  <2> QED
    BY <2>2, TidySettled
<1>5. CASE ~v.expanded
  <2> DEFINE chip == DockChip
             scroll == {DockScroll}
             A == west \cup chip \cup inner \cup scroll
  <2>1. Dock(v) = A \cup outer
    <3>1. Dock(v) = DockWest(v) \cup (DockChip \cup DockRow(v) \cup {DockScroll})
      BY <1>5, DockIs
    <3>2. DockRow(v) = DockLeft(v) \cup DockRight(v)
      BY DockRowIs
    <3> QED
      BY <3>1, <3>2
  <2>2. A \subseteq Dock(u)
    <3>1. Dock(u) = DockWest(u) \cup (DockChip \cup DockRow(u) \cup {DockScroll})
      BY <1>1, <1>5, DockIs
    <3>2. DockRow(u) = DockLeft(u) \cup DockRight(u)
      BY DockRowIs
    <3> HIDE DEF u, west, inner
    <3> QED
      BY <1>3, <3>1, <3>2
  <2>3. \A j \in outer : j.name \in row /\ Within(j.room, FULL)
    BY DockRightBeside
  <2>4. ASSUME NEW i \in A, NEW j \in outer PROVE Apart(i.box, j.box)
    <3>1. /\ j.box \in Boxes /\ j.box.x0 >= DockEdge(v) /\ j.box.y0 >= 56 /\ j.box.y1 <= 72
      BY DockRightBeside
    <3>2. i \in west => i.box \in Boxes /\ i.box.y1 <= 52
      <4>1. Tidy(west, Box(0, 0, 290, 52)) /\ Box(0, 0, 290, 52).y1 = 52
        BY DockWestTidy DEF Box
      <4> HIDE DEF west
      <4> QED
        BY <4>1, TidyWithin
    <3>3. i \in chip => i.box \in Boxes /\ i.box.y1 <= 52
      BY DEF DockChip, Chip, CHIP, Item, Box, Boxes
    <3>4. i \in inner => i.box \in Boxes /\ DockEdge(v) \in Int /\ i.box.x1 <= DockEdge(v)
      BY DockLeftBeside
    <3>5. i \in scroll => i.box \in Boxes /\ i.box.y0 >= 74
      BY DEF DockScroll, ScrollArea, Item, Box, Boxes, WIDTH
    <3> HIDE DEF west, chip, inner, scroll, outer
    <3>6. CASE i \in west \cup chip
      BY <3>1, <3>2, <3>3, <3>6 DEF Apart, Boxes
    <3>7. CASE i \in inner
      BY <3>1, <3>4, <3>7 DEF Apart, Boxes
    <3>8. CASE i \in scroll
      BY <3>1, <3>5, <3>8 DEF Apart, Boxes
    <3> QED
      BY <3>6, <3>7, <3>8
  <2> HIDE DEF A, outer, row, u
  <2>5. Settled(A \cup outer, row)
    BY <1>2, <2>2, <2>3, <2>4, SettledBy
  <2> QED
    BY <2>1, <2>5 DEF row
<1> QED
  BY <1>4, <1>5

(* Classic: the place, the degrees and the condition are a row by itself.  *)
LEMMA ClassicRowBeside ==
  ASSUME NEW v \in Views, NEW j \in ClassicRow(v)
  PROVE  /\ j.name \in PlaceRow["Classic"] /\ Within(j.room, FULL)
         /\ j.box \in Boxes /\ j.box.x0 >= 196 /\ j.box.y0 >= 19 /\ j.box.y1 <= 34
<1> DEFINE place == Half(v.place)
           temp == ClassicTemp(v)
           a == Jp("place", 196, 19, place, ClassicInner)
<1>1. PlaceRow["Classic"] = {"place", "degrees", "condition"} /\ Within(ClassicInner, FULL)
  BY ClassicInnerIs DEF PlaceRow
<1>2. place \in 0 .. 224 /\ temp = 196 + place + 8
  BY PlaceIs DEF ClassicTemp
<1>3. CASE v.weather = NoWeather
  <2> DEFINE b == Jp("condition", temp, 19, Full(6), ClassicInner)
  <2>1. j = a \/ j = b
    BY <1>3 DEF ClassicRow
  <2> HIDE DEF place, temp
  <2> QED
    BY <1>1, <1>2, <2>1 DEF Jp, Full, Item, Box, Boxes
<1>4. CASE v.weather # NoWeather
  <2> DEFINE w == v.weather
             cond == ClassicCond(v)
             kind == Full(w.condition)
             b == Jp("degrees", temp, 19, cond - 8 - temp, ClassicInner)
             c == Jp("condition", cond, 19, kind, ClassicInner)
  <2>1. j \in {a, b, c}
    BY <1>4 DEF ClassicRow
  <2>2. w \in Weathers
    BY <1>4 DEF Views
  <2>3. w.condition \in 1 .. 7 /\ Chars(w.now) \in 2 .. 5
    BY <2>2, WeatherIs, GlyphsAre
  <2>4. cond = temp + 7 * Chars(w.now) + 14 * 1 + 8
    BY DEF ClassicCond, Half, Full
  <2>5. kind \in 14 .. 98
    BY <2>3 DEF Full
  <2> HIDE DEF place, temp, cond, kind, w
  <2>6. cond \in 196 .. 600
    BY <1>2, <2>3, <2>4
  <2>7. CASE j = a
    BY <1>1, <1>2, <2>7 DEF Jp, Item, Box, Boxes
  <2>8. CASE j = b
    BY <1>1, <1>2, <2>6, <2>8 DEF Jp, Item, Box, Boxes
  <2>9. CASE j = c
    BY <1>1, <2>5, <2>6, <2>9 DEF Jp, Item, Box, Boxes
  <2> QED
    BY <2>1, <2>7, <2>8, <2>9
<1> QED
  BY <1>3, <1>4

LEMMA ClassicSettled ==
  ASSUME NEW v \in Views, v.meter.value.digits <= BAR_DIGITS
  PROVE  Settled(Classic(v), PlaceRow["Classic"])
<1> DEFINE u == NoPlace(v)
           clock == BigClock(v, 6, 2)
           head == ClassicHead(v)
           temps == ClassicTemps(v)
           scroll == {ClassicScroll}
           lines == ClassicLines
           row == ClassicRow(v)
           A == clock \cup head \cup temps \cup scroll \cup lines
           spoiled == PlaceRow["Classic"]
<1>1. u \in Views /\ u.place = 0 /\ u.meter = v.meter /\ Alike(u, v)
  BY NoPlaceIs DEF Alike
<1>2. Tidy(Classic(u), FULL)
  <2> HIDE DEF u
  <2> QED
    BY <1>1, ClassicTidy
<1>3. clock = BigClock(u, 6, 2) /\ head = ClassicHead(u) /\ temps = ClassicTemps(u)
  <2> HIDE DEF u
  <2>1. /\ BigClock(u, 6, 2) = BigClock(v, 6, 2) /\ DateWidth(u) = DateWidth(v)
    BY <1>1, SameClock
  <2>2. Bar(u, 196, 2, 86, TRUE) = Bar(v, 196, 2, 86, TRUE)
    BY <1>1, SMT DEF Alike, Bar, StatusChars
  <2>3. ClassicDate(v) = ClassicDate(u)
    BY <1>1, <2>1 DEF Alike, ClassicDate
  <2>4. ClassicHead(v) = ClassicHead(u)
    BY <2>2, <2>3 DEF ClassicHead
  <2>5. ClassicTemps(v) = ClassicTemps(u)
    BY <1>1, SMT DEF Alike, ClassicTemps, ClassicMax, ClassicMin
  <2> QED
    BY <2>1, <2>4, <2>5
<1>4. Classic(v) = A \cup row
  <2>1. Classic(v) = (((clock \cup (head \cup row)) \cup temps) \cup scroll) \cup lines
    BY ClassicIs, Zenon
  <2> HIDE DEF clock, head, temps, scroll, lines, row
  <2> QED
    BY <2>1
<1>5. A \subseteq Classic(u)
  <2>1. Classic(u) = (((BigClock(u, 6, 2) \cup (ClassicHead(u) \cup ClassicRow(u))) \cup ClassicTemps(u))
                       \cup {ClassicScroll}) \cup ClassicLines
    BY ClassicIs, Zenon
  <2> HIDE DEF u, clock, head, temps
  <2> QED
    BY <1>3, <2>1
<1>6. \A j \in row : j.name \in spoiled /\ Within(j.room, FULL)
  BY ClassicRowBeside
<1>7. ASSUME NEW i \in A, NEW j \in row PROVE Apart(i.box, j.box)
  <2>1. j.box \in Boxes /\ j.box.x0 >= 196 /\ j.box.y0 >= 19 /\ j.box.y1 <= 34
    BY ClassicRowBeside
  <2>2. i \in clock => i.box \in Boxes /\ i.box.x1 <= 162
    <3> DEFINE end == BigClockEnd(v, 6)
               r == Box(6, 2, end - 6, 32)
    <3>1. 6 \in 0 .. 20 /\ 2 \in 0 .. 20
      OBVIOUS
    <3>2. end \in 6 + 74 .. 6 + 156 /\ Tidy(clock, r)
      BY <3>1, BigClockTidy, Zenon
    <3> HIDE DEF end, clock
    <3>3. r.x1 <= 162 /\ r.x1 \in Int
      BY <3>2 DEF Box
    <3> HIDE DEF r
    <3>4. i \in clock => i.box \in Boxes /\ i.box.x1 <= r.x1
      BY <3>2, TidyWithin
    <3> QED
      BY <3>3, <3>4 DEF Boxes
  <2>3. i \in head => i.box \in Boxes /\ i.box.y1 <= 18
    <3>1. Tidy(head, Box(196, 2, 180, 16))
      BY ClassicHeadTidy, Zenon DEF ClassicHead
    <3>2. Box(196, 2, 180, 16).y1 = 18
      BY DEF Box
    <3> HIDE DEF head
    <3> QED
      BY <3>1, <3>2, TidyWithin
  <2>4. i \in temps => i.box \in Boxes /\ i.box.y0 >= 35
    <3>1. Tidy(temps, Box(6, 35, 380, 14)) /\ Box(6, 35, 380, 14).y0 = 35
      BY ClassicTempsTidy DEF Box
    <3> HIDE DEF temps
    <3> QED
      BY <3>1, TidyWithin
  <2>5. i \in scroll => i.box \in Boxes /\ i.box.y0 >= 35
    BY DEF ClassicScroll, ScrollArea, Item, Box, Boxes, WIDTH
  <2>6. i \in lines => i.box \in Boxes /\ i.box.y0 >= 35
    <3>1. Tidy(lines, Box(2, 68, 6, 27)) /\ Box(2, 68, 6, 27).y0 = 68
      BY ClassicLinesTidy DEF Box
    <3> DEFINE r == Box(2, 68, 6, 27)
    <3> HIDE DEF lines, r
    <3>2. i \in lines => i.box \in Boxes /\ r.y0 <= i.box.y0 /\ r.y0 = 68
      BY <3>1, TidyWithin DEF r
    <3> QED
      BY <3>2 DEF Boxes
  <2> HIDE DEF clock, head, temps, scroll, lines, row
  <2>7. CASE i \in clock
    BY <2>1, <2>2, <2>7 DEF Apart, Boxes
  <2>8. CASE i \in head
    BY <2>1, <2>3, <2>8 DEF Apart, Boxes
  <2>9. CASE i \in temps \cup scroll \cup lines
    BY <2>1, <2>4, <2>5, <2>6, <2>9 DEF Apart, Boxes
  <2> QED
    BY <2>7, <2>8, <2>9
<1> HIDE DEF A, row, spoiled, u
<1>8. Settled(A \cup row, spoiled)
  BY <1>2, <1>5, <1>6, <1>7, SettledBy
<1> QED
  BY <1>4, <1>8 DEF spoiled

-----------------------------------------------------------------------------
LEMMA DrawnSettled ==
  ASSUME NEW v \in Views, Focus(v) \/ v.meter.value.digits <= BAR_DIGITS
  PROVE  Settled(Drawn(v), Spoiled(v))
<1>1. CASE Focus(v)
  <2>1. Drawn(v) = PowerFocus(v)
    BY <1>1 DEF Drawn
  <2> QED
    BY <2>1, PowerFocusTidy, TidySettled
<1>2. CASE ~Focus(v)
  <2>1. v.layout \in {"Glass", "Dock", "Classic"}
    BY DEF Views, Layouts
  <2>2. /\ v.layout = "Glass" => Drawn(v) = Glass(v)
        /\ v.layout = "Dock" => Drawn(v) = Dock(v)
        /\ v.layout = "Classic" => Drawn(v) = Classic(v)
    BY <1>2 DEF Drawn
  <2>3. CASE v.place <= PLACE_ROOM[v.layout]
    <3>1. /\ v.layout = "Glass" => v.place <= 8
          /\ v.layout = "Dock" => v.place <= 5
          /\ v.layout = "Classic" => v.place <= 5
      BY <2>3 DEF PLACE_ROOM
    <3>2. Tidy(Drawn(v), FULL)
      BY <1>2, <2>1, <2>2, <3>1, GlassTidy, DockTidy, ClassicTidy
    <3> QED
      BY <3>2, TidySettled
  <2>4. CASE ~(v.place <= PLACE_ROOM[v.layout])
    <3>1. Spoiled(v) = PlaceRow[v.layout]
      BY <1>2, <2>4 DEF Spoiled
    <3>2. /\ Settled(Glass(v), PlaceRow["Glass"]) /\ Settled(Dock(v), PlaceRow["Dock"])
          /\ Settled(Classic(v), PlaceRow["Classic"])
      BY <1>2, GlassSettled, DockSettled, ClassicSettled
    <3> QED
      BY <2>1, <2>2, <3>1, <3>2
  <2> QED
    BY <2>3, <2>4
<1> QED
  BY <1>1, <1>2

LEMMA TextsFit ==
  ASSUME view \in Views
  PROVE  FitsItsPlace
BY DrawnSettled DEF FitsItsPlace

(* Only one item of a layout is the text that runs.                        *)
Quiet(items) == \A i \in items : i.name # "scroll"
Runs(items, area) ==
    \A i \in items : i.name = "scroll" => i.box.x0 = area.x /\ i.box.x1 = area.x + area.w

LEMMA QuietClock ==
  ASSUME NEW v, NEW x, NEW y PROVE Quiet(BigClock(v, x, y))
BY DEF Quiet, BigClock, Aa, Item

LEMMA QuietBar ==
  ASSUME NEW v, NEW x, NEW y, NEW most, NEW compact PROVE Quiet(Bar(v, x, y, most, compact))
BY DEF Quiet, Bar, Aa, Tiny, Item

LEMMA QuietForecast ==
  ASSUME NEW w, NEW x, NEW y, NEW room PROVE Quiet(Forecast(w, x, y, room))
BY DEF Quiet, Forecast, Aa, Item

LEMMA QuietChip ==
  ASSUME NEW x, NEW y, NEW room PROVE Quiet(Chip(x, y, room))
BY DEF Quiet, Chip, Item

LEMMA QuietLines ==
  ASSUME NEW x, NEW y, NEW room PROVE Quiet(StatusLines(x, y, room))
<1> DEFINE names == <<"line 1", "line 2", "line 3">>
<1>1. ASSUME NEW n \in 1 .. 3 PROVE names[n] # "scroll"
  <2>1. n \in {1, 2, 3}
    OBVIOUS
  <2>2. names[1] = "line 1" /\ names[2] = "line 2" /\ names[3] = "line 3"
    OBVIOUS
  <2> QED
    BY <2>1, <2>2
<1>2. \A n \in 1 .. 3 : Item(names[n], Box(x, y + 9 * (n - 1), 6, 9), room).name = names[n]
  BY DEF Item
<1> QED
  BY <1>1, <1>2, Zenon DEF Quiet, StatusLines

LEMMA BandRuns ==
  ASSUME NEW layout \in Layouts, NEW y, NEW room
  PROVE  Runs(ScrollBand(layout, y, room), ScrollArea[layout])
BY DEF Runs, ScrollBand, Item, Box

LEMMA QuietRuns ==
  ASSUME NEW items, NEW area, Quiet(items) PROVE Runs(items, area)
BY DEF Quiet, Runs

LEMMA RunsUnion ==
  ASSUME NEW A, NEW B, NEW area, Runs(A, area), Runs(B, area) PROVE Runs(A \cup B, area)
BY DEF Runs

LEMMA QuietUnion ==
  ASSUME NEW A, NEW B, Quiet(A), Quiet(B) PROVE Quiet(A \cup B)
BY DEF Quiet

LEMMA GlassBandRuns ==
  ASSUME NEW v \in Views
  PROVE  Runs(GlassBand(v), ScrollArea["Glass"])
<1>1. "Glass" \in Layouts
  BY DEF Layouts
<1>2. CASE v.expanded
  <2>1. Quiet(GlassBand(v))
    BY <1>2, QuietLines DEF GlassBand
  <2> QED
    BY <2>1, QuietRuns
<1>3. CASE ~v.expanded
  <2> DEFINE a == ScrollBand("Glass", 77, Box(4, 74, GLASS_BAND_W - GLASS_CHIP_W, 19))
             b == Chip(4 + GLASS_BAND_W - 6, 80, Box(4 + GLASS_BAND_W - GLASS_CHIP_W, 74, GLASS_CHIP_W, 19))
  <2>1. GlassBand(v) = a \cup b
    BY <1>3 DEF GlassBand
  <2>2. Runs(a, ScrollArea["Glass"]) /\ Quiet(b)
    BY <1>1, BandRuns, QuietChip
  <2> HIDE DEF a, b
  <2> QED
    BY <2>1, <2>2, QuietRuns, RunsUnion
<1> QED
  BY <1>2, <1>3

LEMMA GlassRuns ==
  ASSUME NEW v \in Views
  PROVE  Runs(Glass(v), ScrollArea["Glass"])
<1> DEFINE date == Jp("date", 10, 40, DateWidth(v), FULL)
<1>1. Quiet(BigClock(v, 8, 4)) /\ Quiet({date}) /\ Quiet(GlassBar(v)) /\ Quiet(GlassPlace(v))
  <2>1. Quiet(BigClock(v, 8, 4)) /\ Quiet(GlassBar(v))
    BY QuietClock, QuietBar DEF GlassBar
  <2>2. Quiet({date}) /\ Quiet(GlassPlace(v))
    BY DEF Quiet, Jp, Item, GlassPlace
  <2> QED
    BY <2>1, <2>2
<1>2. Quiet(GlassWeather(v))
  <2>1. Quiet(Forecast(v.weather, 240, 44, GlassCard))
    BY QuietForecast
  <2> QED
    BY <2>1 DEF Quiet, Icon, Jp, Aa, Item, GlassWeather
<1>3. Glass(v) = BigClock(v, 8, 4) \cup {date} \cup GlassBar(v) \cup GlassPlace(v)
                  \cup GlassWeather(v) \cup GlassBand(v)
  BY Zenon DEF Glass, GlassBar, GlassPlace, GlassWeather, GlassCard
<1>4. Runs(GlassBand(v), ScrollArea["Glass"])
  BY GlassBandRuns
<1> HIDE DEF date
<1> QED
  BY <1>1, <1>2, <1>3, <1>4 DEF Quiet, Runs

LEMMA DockRuns ==
  ASSUME NEW v \in Views
  PROVE  Runs(Dock(v), ScrollArea["Dock"])
<1> DEFINE end == BigClockEnd(v, 8)
           date == Jp("date", end + 10, 20, DateWidth(v), FULL)
           chip == Chip(391, 5, Box(WIDTH - 124, 2, 121, 13))
           lines == StatusLines(7, 59, Box(3, 56, WIDTH - 6, 37))
           icon == Icon("weather", 9, 55, DockStand)
           some == {Jp("condition", 28, 56, Full(6), DockStand),
                    Jp("place", 28 + Full(6) + 10, 56, Half(v.place), DockStand)}
           more == {Aa("degrees", MEDIUM, 28, 55, DockTemp(v), DockStand),
                    Jp("condition", DockCond(v), 56, Full(v.weather.condition), DockStand),
                    Jp("place", DockPlace(v), 56, Half(v.place), DockStand)}
           forecast == Forecast(v.weather, DockForecast(v), 58, DockStand)
           band == ScrollBand("Dock", 75, DockStand)
<1>1. /\ Quiet(BigClock(v, 8, 4)) /\ Quiet({date}) /\ Quiet(Bar(v, 8, 36, 226, FALSE))
      /\ Quiet(chip) /\ Quiet(lines) /\ Quiet({icon}) /\ Quiet(some) /\ Quiet(more)
      /\ Quiet(forecast)
  <2>1. Quiet(BigClock(v, 8, 4)) /\ Quiet(Bar(v, 8, 36, 226, FALSE)) /\ Quiet(chip) /\ Quiet(lines)
    BY QuietClock, QuietBar, QuietChip, QuietLines, Zenon
  <2>3. Quiet(forecast)
    BY QuietForecast, Zenon
  <2>2. Quiet({date}) /\ Quiet({icon}) /\ Quiet(some) /\ Quiet(more)
    BY DEF Quiet, Jp, Icon, Aa, Item
  <2> QED
    BY <2>1, <2>2, <2>3
<1>2. Runs(band, ScrollArea["Dock"])
  BY BandRuns DEF Layouts
<1>3. Dock(v) = BigClock(v, 8, 4) \cup {date} \cup Bar(v, 8, 36, 226, FALSE)
                 \cup (IF v.expanded THEN lines
                       ELSE chip \cup {icon}
                            \cup (IF v.weather = NoWeather THEN some ELSE more \cup forecast)
                            \cup band)
  BY Zenon DEF Dock, DockStand, DockTemp, DockCond, DockPlace, DockForecast
<1> HIDE DEF date, chip, lines, icon, some, more, forecast, band
<1> QED
  BY <1>1, <1>2, <1>3 DEF Quiet, Runs

LEMMA ClassicRuns ==
  ASSUME NEW v \in Views
  PROVE  Runs(Classic(v), ScrollArea["Classic"])
<1> DEFINE date == ClassicDate(v)
           place == Jp("place", 196, 19, Half(v.place), ClassicInner)
           none == Jp("condition", ClassicTemp(v), 19, Full(6), ClassicInner)
           all == {Jp("degrees", ClassicTemp(v), 19, ClassicCond(v) - 8 - ClassicTemp(v), ClassicInner),
                   Jp("condition", ClassicCond(v), 19, Full(v.weather.condition), ClassicInner),
                   Jp("max", 6, 35, ClassicMax(v), ClassicInner),
                   Jp("min", 6 + ClassicMax(v) + 12, 35, ClassicMin(v), ClassicInner),
                   Jp("rain", 6 + ClassicMax(v) + 12 + ClassicMin(v) + 12, 35,
                      Full(4) + Half(2 + Chars(v.weather.rain)), ClassicInner)}
           band == ScrollBand("Classic", 52, ClassicInner)
           lines == StatusLines(2, 68, FULL)
<1>1. /\ Quiet(BigClock(v, 6, 2)) /\ Quiet({date}) /\ Quiet(Bar(v, 196, 2, 86, TRUE))
      /\ Quiet({place}) /\ Quiet({none}) /\ Quiet(all) /\ Quiet(lines)
  <2>1. Quiet(BigClock(v, 6, 2)) /\ Quiet(Bar(v, 196, 2, 86, TRUE)) /\ Quiet(lines)
    BY QuietClock, QuietBar, QuietLines, Zenon
  <2>2. Quiet({date}) /\ Quiet({place}) /\ Quiet({none}) /\ Quiet(all)
    BY DEF Quiet, Jp, Item, ClassicDate
  <2> QED
    BY <2>1, <2>2
<1>2. Runs(band, ScrollArea["Classic"])
  BY BandRuns DEF Layouts
<1>3. Classic(v) = BigClock(v, 6, 2) \cup {date} \cup Bar(v, 196, 2, 86, TRUE) \cup {place}
                    \cup (IF v.weather = NoWeather THEN {none} ELSE all)
                    \cup band \cup lines
  BY Zenon DEF Classic, ClassicInner, ClassicTemp, ClassicCond, ClassicMax, ClassicMin, ClassicDate
<1> HIDE DEF date, place, none, all, band, lines
<1> QED
  BY <1>1, <1>2, <1>3 DEF Quiet, Runs

LEMMA PowerFocusRuns ==
  ASSUME NEW v \in Views
  PROVE  Runs(PowerFocus(v), ScrollArea["Glass"])
<1> DEFINE graph == IF v.display = "Graph" THEN Trend(v) ELSE {}
<1>1. Quiet(Reading(v))
  <2>1. Reading(v) = ReadingHead(v) \cup ReadingValue(v)
    BY Zenon DEF Reading, ReadingHead, ReadingValue, ReadingIn, ReadingTiny, ReadingTop,
                 ReadingRoom, ReadingHeader
  <2>2. Quiet(ReadingHead(v)) /\ Quiet(ReadingTiny(v))
    BY DEF Quiet, ReadingHead, ReadingTiny, Tiny, Small, Item
  <2>3. \A font : Quiet(ReadingIn(font, v))
    BY DEF Quiet, ReadingIn, Aa, Small, Item
  <2>4. Quiet(ReadingValue(v))
    BY <2>2, <2>3, Zenon DEF ReadingValue
  <2> QED
    BY <2>1, <2>2, <2>4, QuietUnion
<1>2. Quiet(graph)
  <2>1. Quiet(Trend(v))
    BY DEF Quiet, Trend, Tiny, Item
  <2>2. Quiet({})
    BY DEF Quiet
  <2> QED
    BY <2>1, <2>2
<1>3. Quiet(Info(v))
  BY DEF Quiet, Info, Icon, Jp, Aa, Item
<1>4. Runs(GlassBand(v), ScrollArea["Glass"])
  BY GlassBandRuns
<1>5. PowerFocus(v) = Reading(v) \cup graph \cup Info(v) \cup GlassBand(v)
  BY DEF PowerFocus
<1> HIDE DEF graph
<1> QED
  BY <1>1, <1>2, <1>3, <1>4, <1>5 DEF Quiet, Runs

LEMMA TheLineRuns ==
  ASSUME view \in Views
  PROVE  RunsWhereItIsDrawn
<1>1. Runs(Drawn(view), ScrollArea[EffectiveLayout(view)])
  <2>1. CASE Focus(view)
    <3>1. Drawn(view) = PowerFocus(view) /\ EffectiveLayout(view) = "Glass"
      BY <2>1 DEF Drawn, EffectiveLayout, Focus
    <3> QED
      BY <3>1, PowerFocusRuns
  <2>2. CASE ~Focus(view)
    <3>1. view.layout \in {"Glass", "Dock", "Classic"} /\ EffectiveLayout(view) = view.layout
      BY <2>2 DEF Views, Layouts, EffectiveLayout, Focus
    <3>2. CASE view.layout = "Glass"
      <4>1. Drawn(view) = Glass(view)
        BY <2>2, <3>2 DEF Drawn
      <4> QED
        BY <3>1, <3>2, <4>1, GlassRuns
    <3>3. CASE view.layout = "Dock"
      <4>1. Drawn(view) = Dock(view)
        BY <2>2, <3>3 DEF Drawn
      <4> QED
        BY <3>1, <3>3, <4>1, DockRuns
    <3>4. CASE view.layout = "Classic"
      <4>1. Drawn(view) = Classic(view)
        BY <2>2, <3>4 DEF Drawn
      <4> QED
        BY <3>1, <3>4, <4>1, ClassicRuns
    <3> QED
      BY <3>1, <3>2, <3>3, <3>4
  <2> QED
    BY <2>1, <2>2
<1> QED
  BY <1>1 DEF RunsWhereItIsDrawn, Runs

LEMMA TheMiddleIsFree ==
  ASSUME view \in Views
  PROVE  MiddleIsFree
<1>1. ContentWidth(view) \in 70 .. 119
  BY ContentIs
<1>2. view.display = "Graph" => PanelWidth(view) = 136
  BY DEF PanelWidth
<1> QED
  BY <1>1, <1>2 DEF MiddleIsFree, InfoRight

-----------------------------------------------------------------------------
(* Whatever is changed, it stays a view.                                   *)
LEMMA ViewsInit == ScreenInit => view \in Views
<1>1. Places \subseteq 0 .. 32
  BY ScreenAssumption
<1> SUFFICES ASSUME NEW layout \in Layouts, NEW display \in Displays, NEW place \in Places,
                    NEW device \in Meters,
                    view = [layout |-> layout, display |-> display, place |-> place, meter |-> device,
                            clock |-> 0, weather |-> NoWeather, trend |-> <<>>, expanded |-> TRUE]
             PROVE  view \in Views
  BY DEF ScreenInit
<1>2. 0 \in Clocks
  BY DEF Clocks
<1> QED
  BY <1>1, <1>2 DEF Views

LEMMA ViewsNext == view \in Views /\ [ScreenNext]_view => view' \in Views
<1> SUFFICES ASSUME view \in Views, [ScreenNext]_view PROVE view' \in Views
  OBVIOUS
<1>1. CASE DateComes
  BY <1>1 DEF DateComes, Views
<1>2. CASE WeatherComes
  BY <1>2 DEF WeatherComes, Views
<1>3. CASE MeterReads
  BY <1>3 DEF MeterReads, Views
<1>4. CASE Applies
  <2>1. PICK layout \in Layouts, display \in Displays, place \in Places, moved \in BOOLEAN :
          view' = [view EXCEPT !.layout = layout, !.display = display, !.place = place,
                               !.weather = IF moved THEN NoWeather ELSE @,
                               !.trend = IF display = "Graph" THEN @ ELSE <<>>]
    BY <1>4 DEF Applies
  <2>2. place \in 0 .. 32
    BY ScreenAssumption
  <2> QED
    BY <2>1, <2>2 DEF Views
<1>5. CASE Plots
  BY <1>5 DEF Plots, Views
<1>6. CASE LinesOpenOrClose
  BY <1>6 DEF LinesOpenOrClose, Views
<1>7. CASE UNCHANGED view
  BY <1>7
<1> QED
  BY <1>1, <1>2, <1>3, <1>4, <1>5, <1>6, <1>7 DEF ScreenNext

-----------------------------------------------------------------------------
(* The meter, and the screen it is shown on.                               *)
LEMMA LcdMeter == LcdSpec => PowerSpec
<1>1. LcdInit => PowerInit
  BY DEF LcdInit
<1>2. [LcdNext]_<<subject, powerVars, view>> => [PowerNext]_powerVars
  BY DEF LcdNext
<1> QED
  BY <1>1, <1>2, PTL DEF LcdSpec, PowerSpec

LEMMA LcdViews == LcdSpec => [](view \in Views)
<1>1. LcdInit => view \in Views
  BY ViewsInit DEF LcdInit
<1>2. view \in Views /\ [LcdNext]_<<subject, powerVars, view>> => (view \in Views)'
  <2>1. [LcdNext]_<<subject, powerVars, view>> => [ScreenNext]_view
    BY DEF LcdNext
  <2> QED
    BY <2>1, ViewsNext
<1> QED
  BY <1>1, <1>2, PTL DEF LcdSpec

(* The meter and the places of the texts, together: no old reading and no  *)
(* reading of before a failure is shown as fresh, and whatever the clock,  *)
(* the weather, the meter, the settings page and the status lines show at  *)
(* the same time, every text of the three layouts and of the meter in      *)
(* front is whole, within its panel, and covers no other (screen.rs), for  *)
(* readings of at most ten digits in a bar.  Of a place longer than the    *)
(* layout has room for (eight half characters in Glass, five in Dock and   *)
(* Classic; place= takes 32) the row is excepted, and only the row: every  *)
(* text outside it is whole and covered by none.                           *)
THEOREM LcdIsSoundHolds == LcdSpec => []LcdIsSound
<1>1. LcdSpec => []MeterIsSound
  BY LcdMeter, MeterIsSoundHolds, PTL
<1>2. MeterIsSound /\ view \in Views => LcdIsSound
  BY TextsFit, TheLineRuns, TheMiddleIsFree, Zenon DEF LcdIsSound
<1> QED
  BY <1>1, <1>2, LcdViews, PTL
=============================================================================
