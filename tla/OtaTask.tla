------------------------------- MODULE OtaTask -------------------------------
(***************************************************************************)
(* src/src/bin/ticker.rs, jobs_task: the loop that checks for updates, in  *)
(* normal mode (next to the settings page and the other fetches, with the  *)
(* main loop beside it) and in recovery mode (alone).                      *)
(*                                                                         *)
(* The tasks share one cooperative executor: main runs only while          *)
(* jobs_task waits, that is at the values of pc in Awaiting.               *)
(***************************************************************************)
EXTENDS OtaState

CONSTANTS
    PENDING_OTA_RETRY, RECOVERY_OTA_INTERVAL, RECOVERY_NORMAL_RETRY

ASSUME OtaTaskAssumption ==
    /\ PENDING_OTA_RETRY \in Nat
    /\ RECOVERY_OTA_INTERVAL \in Nat /\ RECOVERY_NORMAL_RETRY \in Nat

VARIABLES
    mode,               \* "normal" or "recovery"
    ota_possible,       \* there are credentials and two slots
    pc,                 \* where jobs_task is
    ota,                \* its OtaState
    check_only,         \* CheckMode of the check that is running
    want,               \* the version its manifest named
    reboot_requested,   \* REBOOT_REQUEST is signalled
    normal_retry_at,    \* recovery mode: when to try normal mode
    NET_READY, DOWNLOAD_OK, OTA_NOW, OTA_PROVED,
    published,          \* the version of the latest release
    slot,               \* the version whose image the other slot holds whole
    owed                \* history: bought, and no full check begun since

vars == <<mode, ota_possible, pc, ota, check_only, want, reboot_requested,
          normal_retry_at, NET_READY, DOWNLOAD_OK, OTA_NOW, OTA_PROVED,
          published, slot, owed>>
boot == <<mode, ota_possible>>
check == <<check_only, want>>
flags == <<NET_READY, DOWNLOAD_OK, OTA_NOW, OTA_PROVED>>
world == <<published, slot>>

Awaiting == {"manifest", "download", "other work", "wait"}

(* A boot: every variable in RAM starts again.                             *)
Booted(m) ==
    /\ mode' = m /\ pc' = "top" /\ ota' = Fresh
    /\ check_only' = FALSE /\ want' = 0
    /\ reboot_requested' = FALSE
    /\ normal_retry_at' = IF m = "recovery" /\ ~ota_possible
                          THEN RECOVERY_NORMAL_RETRY ELSE Never
    /\ NET_READY' = FALSE /\ OTA_NOW' = FALSE /\ OTA_PROVED' = FALSE
    /\ DOWNLOAD_OK' = TRUE /\ owed' = FALSE

Init ==
    /\ mode \in {"normal", "recovery"} /\ ota_possible \in BOOLEAN
    /\ pc = "top" /\ ota = Fresh
    /\ check_only = FALSE /\ want = 0
    /\ reboot_requested = FALSE
    /\ normal_retry_at = IF mode = "recovery" /\ ~ota_possible
                         THEN RECOVERY_NORMAL_RETRY ELSE Never
    /\ NET_READY = FALSE /\ OTA_NOW = FALSE /\ OTA_PROVED = FALSE
    /\ DOWNLOAD_OK \in (IF mode = "recovery" THEN {TRUE} ELSE BOOLEAN)
    /\ published \in Version /\ slot \in Version
    /\ owed = FALSE

-----------------------------------------------------------------------------
(* One round of the loop.                                                  *)

OnlyWhenIdle(o) ==                                              \* mutant
    IF OTA_NOW /\ ~reboot_requested /\ o.next_check = Never
    THEN [o EXCEPT !.next_check = 0] ELSE o
Asked(o) ==
    IF OTA_NOW /\ ~reboot_requested THEN [o EXCEPT !.next_check = 0] ELSE o

Scheduled ==
    IF ~ota_possible THEN ota
    ELSE Asked(IF NET_READY THEN schedule_first_check_in(ota) ELSE ota)

CheckIsDue ==
    ~reboot_requested /\ ota_possible /\ NET_READY /\ is_due(Scheduled)

BeginCheck ==
    /\ pc = "top" /\ CheckIsDue
    /\ ota' = [begin_check(Scheduled) EXCEPT !.phase = Phase("Checking", 0, Never)]
    /\ check_only' = ~DOWNLOAD_OK
    /\ OTA_NOW' = FALSE
    /\ owed' = (owed /\ ~DOWNLOAD_OK)
    /\ pc' = "manifest"
    /\ UNCHANGED <<boot, want, reboot_requested, normal_retry_at,
                   NET_READY, DOWNLOAD_OK, OTA_PROVED, world>>

(* A request of the settings page, NTP, the weather, the message.          *)
BeginOtherWork ==
    /\ pc = "top" /\ ~CheckIsDue
    /\ mode = "normal" /\ ~reboot_requested /\ NET_READY
    /\ ota.checked \/ ~ota_possible
    /\ pc' = "other work"
    /\ ota' = Scheduled /\ OTA_NOW' = FALSE
    /\ UNCHANGED <<boot, check, reboot_requested, normal_retry_at,
                   NET_READY, DOWNLOAD_OK, OTA_PROVED, world, owed>>

Nothing ==
    /\ pc = "top" /\ ~CheckIsDue
    /\ pc' = "bottom"
    /\ ota' = Scheduled /\ OTA_NOW' = FALSE
    /\ UNCHANGED <<boot, check, reboot_requested, normal_retry_at,
                   NET_READY, DOWNLOAD_OK, OTA_PROVED, world, owed>>

(* POST /api/ota-check; the page is there once a check has been proved.    *)
CheckNow ==
    /\ pc = "other work" /\ OTA_PROVED
    /\ OTA_NOW' = TRUE
    /\ pc' = "bottom"
    /\ UNCHANGED <<boot, ota, check, reboot_requested, normal_retry_at,
                   NET_READY, DOWNLOAD_OK, OTA_PROVED, world, owed>>

OtherWorkDone ==
    /\ pc = "other work"
    /\ pc' = "bottom"
    /\ UNCHANGED <<boot, ota, check, reboot_requested, normal_retry_at,
                   flags, world, owed>>

-----------------------------------------------------------------------------
(* A check.                                                                *)

Uncapped(o, proved) ==                                          \* mutant
    IF mode = "normal" /\ check_only /\ ~proved
    THEN [o EXCEPT !.next_check = PENDING_OTA_RETRY] ELSE o
Rescheduled(o, proved) ==
    CASE mode = "recovery" /\ o.next_check = Never ->
             [o EXCEPT !.next_check = RECOVERY_OTA_INTERVAL]
      [] mode = "recovery" /\ o.next_check # Never ->
             [o EXCEPT !.next_check = Least(@, RECOVERY_OTA_INTERVAL)]
      [] mode = "normal" /\ check_only /\ ~proved ->
             [o EXCEPT !.next_check = PENDING_OTA_RETRY]
      [] OTHER -> o

EveryTime(kind) ==                                              \* mutant
    IF mode = "recovery" /\ kind \in {"UpToDate", "Blocked"}
    THEN RECOVERY_NORMAL_RETRY ELSE normal_retry_at
NormalRetryAt(kind) ==
    IF mode = "recovery" /\ normal_retry_at = Never /\ kind \in {"UpToDate", "Blocked"}
    THEN RECOVERY_NORMAL_RETRY ELSE normal_retry_at

CheckEnds(kind, v, proved) ==
    /\ ota' = Rescheduled(apply(ota, kind, v), proved)
    /\ normal_retry_at' = NormalRetryAt(kind)
    /\ OTA_PROVED' = (OTA_PROVED \/ (mode = "normal" /\ proved))
    /\ pc' = "bottom"
    /\ UNCHANGED <<boot, check, reboot_requested,
                   NET_READY, DOWNLOAD_OK, OTA_NOW, published, owed>>

(* No answer, an answer that is no manifest (not proved), a status that is *)
(* neither 200 nor 404 or a manifest that names no image of this program   *)
(* (proved).                                                               *)
ManifestFails(proved) ==
    /\ pc = "manifest"
    /\ CheckEnds("Failed", 0, proved)
    /\ UNCHANGED slot

NothingToFetch(kind) ==
    /\ pc = "manifest"
    /\ Found(published, check_only, slot) = kind
    /\ CheckEnds(kind, published, TRUE)
    /\ UNCHANGED slot

(* The writer erases the first sector before anything is fetched.          *)
BeginDownload ==
    /\ pc = "manifest"
    /\ Found(published, check_only, slot) = "Downloading"
    /\ ota' = [ota EXCEPT !.phase = Phase("Downloading", published, Never)]
    /\ want' = published
    /\ slot' = 0
    /\ pc' = "download"
    /\ UNCHANGED <<boot, check_only, reboot_requested, normal_retry_at,
                   flags, published, owed>>

DownloadFails ==
    /\ pc = "download"
    /\ CheckEnds("Failed", 0, TRUE)
    /\ slot' = 0

DownloadVerified ==
    /\ pc = "download"
    /\ CheckEnds("Rebooting", want, TRUE)
    /\ slot' = want

-----------------------------------------------------------------------------
(* The end of a round.                                                     *)

(* normal mode: main reboots                                               *)
RequestReboot ==
    /\ pc = "bottom" /\ mode = "normal"
    /\ ~reboot_requested /\ reboot_due(ota)
    /\ reboot_requested' = TRUE
    /\ pc' = "wait"
    /\ UNCHANGED <<boot, ota, check, normal_retry_at, flags, world, owed>>

(* recovery mode: this loop reboots                                        *)
RecoveryReboot ==
    /\ pc = "bottom" /\ mode = "recovery" /\ reboot_due(ota)
    /\ pc' = "rebooted"
    /\ UNCHANGED <<boot, ota, check, reboot_requested, normal_retry_at,
                   flags, world, owed>>

RetryNormalMode ==
    /\ pc = "bottom" /\ mode = "recovery" /\ ~reboot_due(ota)
    /\ normal_retry_at = 0
    /\ Booted("normal")
    /\ UNCHANGED <<ota_possible, world>>

EndOfRound ==
    /\ pc = "bottom"
    /\ mode = "normal" => reboot_requested \/ ~reboot_due(ota)
    /\ mode = "recovery" => ~reboot_due(ota) /\ normal_retry_at # 0
    /\ pc' = "wait"
    /\ UNCHANGED <<boot, ota, check, reboot_requested, normal_retry_at,
                   flags, world, owed>>

Wake ==
    /\ pc = "wait"
    /\ pc' = "top"
    /\ UNCHANGED <<boot, ota, check, reboot_requested, normal_retry_at,
                   flags, world, owed>>

-----------------------------------------------------------------------------
(* The main loop, in normal mode, and what is outside.                     *)

(* explicit_buy has succeeded: the gate asks for a proved check.           *)
Buy ==
    /\ pc \in Awaiting /\ ~DOWNLOAD_OK /\ OTA_PROVED
    /\ DOWNLOAD_OK' = TRUE /\ OTA_NOW' = TRUE
    /\ owed' = TRUE
    /\ UNCHANGED <<boot, pc, ota, check, reboot_requested, normal_retry_at,
                   NET_READY, OTA_PROVED, world>>

Network ==
    /\ pc \in Awaiting
    /\ NET_READY' = ~NET_READY
    /\ UNCHANGED <<boot, pc, ota, check, reboot_requested, normal_retry_at,
                   DOWNLOAD_OK, OTA_NOW, OTA_PROVED, world, owed>>

MainReboots ==
    /\ pc \in Awaiting /\ reboot_requested
    /\ pc' = "rebooted"
    /\ UNCHANGED <<boot, ota, check, reboot_requested, normal_retry_at,
                   flags, world, owed>>

(* The new version did not buy itself; this one boots again.               *)
RolledBack ==
    /\ pc = "rebooted"
    /\ \E m \in {"normal", "recovery"} : Booted(m)
    /\ UNCHANGED <<ota_possible, world>>

Publish ==
    /\ pc # "rebooted"
    /\ \E v \in Version : v # published /\ published' = v
    /\ UNCHANGED <<boot, pc, ota, check, reboot_requested, normal_retry_at,
                   flags, slot, owed>>

(* Time passes while the task waits.  The wait of normal mode ends after   *)
(* TICK; that of recovery mode contains LinkManager::step, a join and the  *)
(* wait for DHCP.                                                          *)
Tick ==
    /\ pc \in Awaiting
    /\ ota' = Later(ota)
    /\ normal_retry_at' = Sooner(normal_retry_at)
    /\ <<ota, normal_retry_at>> # <<ota', normal_retry_at'>>
    /\ pc' = IF pc = "wait" /\ mode = "normal" THEN "top" ELSE pc
    /\ UNCHANGED <<boot, check, reboot_requested, flags, world, owed>>

Round == \/ BeginCheck \/ BeginOtherWork \/ Nothing \/ CheckNow \/ OtherWorkDone
         \/ RequestReboot \/ RecoveryReboot \/ RetryNormalMode \/ EndOfRound \/ Wake
Outcome == \/ \E proved \in BOOLEAN : ManifestFails(proved)
           \/ \E kind \in {"UpToDate", "Blocked", "NewerAvailable", "Rejected"} :
                 NothingToFetch(kind)
           \/ BeginDownload \/ DownloadFails \/ DownloadVerified
Main == Buy \/ MainReboots

Next == Round \/ Outcome \/ Main \/ Network \/ RolledBack \/ Publish \/ Tick

Spec == Init /\ [][Next]_vars

(***************************************************************************)
(* Every await of the loop is bounded by a timeout, so it goes on.  Time   *)
(* passes, and main, which polls every TICK, runs, in some of the waits    *)
(* that are reached again and again.  What the network does with a check   *)
(* is its own affair, except that checks which are made again and again do *)
(* not fail for ever.                                                      *)
(***************************************************************************)
ManifestRead ==
    \/ \E kind \in {"UpToDate", "Blocked", "NewerAvailable", "Rejected"} :
          NothingToFetch(kind)
    \/ BeginDownload

Fairness ==
    /\ WF_vars(Round \/ Outcome) /\ SF_vars(MainReboots) /\ SF_vars(Tick)
    /\ SF_vars(ManifestRead) /\ SF_vars(DownloadVerified)

FairSpec == Spec /\ Fairness
-----------------------------------------------------------------------------
TypeOK ==
    /\ mode \in {"normal", "recovery"} /\ ota_possible \in BOOLEAN
    /\ pc \in Awaiting \cup {"top", "bottom", "rebooted"}
    /\ ota \in OtaStates
    /\ check_only \in BOOLEAN /\ want \in Version
    /\ reboot_requested \in BOOLEAN
    /\ normal_retry_at \in Time
    /\ NET_READY \in BOOLEAN /\ DOWNLOAD_OK \in BOOLEAN
    /\ OTA_NOW \in BOOLEAN /\ OTA_PROVED \in BOOLEAN
    /\ published \in Version /\ slot \in Version
    /\ owed \in BOOLEAN

(* While a version is announced for the reboot (reboot_due reads only the  *)
(* phase), the other slot holds it whole, it is newer and not blocked, and *)
(* the running version has been bought: what the slot held before it was   *)
(* the way back.                                                           *)
RebootsIntoWhole ==
    (ota.phase.is \in {"Rebooting", "Rejected"} \/ reboot_requested) =>
        /\ slot = ota.phase.v
        /\ slot > BlockedUpTo
        /\ DOWNLOAD_OK

(* A trial never writes the other slot, where its way back is; not even a  *)
(* check that was begun before it bought itself and ends after.            *)
TrialKeepsTheSlot ==
    [][slot' # slot => DOWNLOAD_OK /\ ~check_only]_vars

(* The version that has bought itself fetches in the first round it can,   *)
(* whatever check was running, failed or was planned when it did.          *)
AfterBuyAtOnce ==
    [][owed /\ pc = "top" /\ NET_READY /\ pc' # "top" =>
          pc' = "manifest" /\ ~check_only']_vars

(* In recovery mode the next check is never further than its interval,     *)
(* however many have failed.                                               *)
RecoveryChecksOften ==
    mode = "recovery" /\ ota.checked /\ pc \in {"top", "bottom", "wait"} =>
        ota.next_check \in 0 .. RECOVERY_OTA_INTERVAL

(* A release that stays is booted again and again until it buys itself,    *)
(* also when the slot has held it, unbought, since before this boot.       *)
NewReleaseTried ==
    \A v \in Version :
        (v > BlockedUpTo /\ v > 0 /\ ota_possible /\ <>[]NET_READY /\
         <>[]DOWNLOAD_OK /\ <>[](published = v))
            => []<>(pc = "rebooted")

(* Recovery mode is left: with no newer release, or with no way to look    *)
(* for one, normal mode is tried again.                                    *)
RecoveryEnds ==
    (ota_possible => <>[]NET_READY /\ <>[](published <= BlockedUpTo))
        => []<>(mode = "normal" \/ pc = "rebooted")
=============================================================================
