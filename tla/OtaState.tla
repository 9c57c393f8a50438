------------------------------ MODULE OtaState ------------------------------
(***************************************************************************)
(* src/src/ota/app.rs: OtaState, the schedule of the update checks, and    *)
(* what one check makes of the manifest.                                   *)
(*                                                                         *)
(* A version is its distance from the running one: 0 is the running one or *)
(* an older one (and a manifest that is not there, 404, which the schedule *)
(* treats the same), 1, 2, ... are newer.  An Instant is the time left     *)
(* until it: 0 when it has come, Never for None.                           *)
(***************************************************************************)
EXTENDS Integers

CONSTANTS
    Newest,                   \* the newest version that may be published
    BlockedUpTo,              \* Record::blocked: 0 or the version fallen back from
    OTA_CHECK_INTERVAL, OTA_BACKOFF_MIN, OTA_BACKOFF_MAX,
    REJECTED_RETRY_DELAY, REBOOT_AFTER

Never == -1

ASSUME OtaStateAssumption ==
    /\ Newest \in Nat /\ BlockedUpTo \in Nat
    /\ OTA_CHECK_INTERVAL \in Nat /\ REJECTED_RETRY_DELAY \in Nat
    /\ REBOOT_AFTER \in Nat
    /\ OTA_BACKOFF_MIN \in Nat \ {0} /\ OTA_BACKOFF_MAX \in Nat
    /\ OTA_BACKOFF_MIN <= OTA_BACKOFF_MAX

Version == 0 .. Newest
Time == Nat \cup {Never}
Kinds == {"Idle", "Checking", "UpToDate", "NewerAvailable", "Blocked",
          "Downloading", "Rebooting", "Rejected", "Failed"}
OtaPhase == [is : Kinds, v : Version, at : Time]
OtaStates == [phase : OtaPhase, next_check : Time,
              backoff : OTA_BACKOFF_MIN .. OTA_BACKOFF_MAX,
              checked : BOOLEAN,              \* checks > 0
              rejected : [v : Version, at : Time]]

Phase(kind, v, t) == [is |-> kind, v |-> v, at |-> t]
NotRejected == [v |-> 0, at |-> Never]

Fresh == [phase |-> Phase("Idle", 0, Never), next_check |-> Never,
          backoff |-> OTA_BACKOFF_MIN, checked |-> FALSE,
          rejected |-> NotRejected]

Least(a, b) == IF a <= b THEN a ELSE b
Sooner(t) == IF t > 0 THEN t - 1 ELSE t

(* A unit of time passes.                                                  *)
AtSooner(r) == [r EXCEPT !.at = Sooner(@)]
Later(o) == [o EXCEPT !.phase = AtSooner(@), !.next_check = Sooner(@),
                      !.rejected = AtSooner(@)]

schedule_first_check_in(o) ==
    IF o.next_check = Never /\ ~o.checked /\ o.phase.is = "Idle"
    THEN [o EXCEPT !.next_check = 0] ELSE o

is_due(o) == o.next_check = 0

begin_check(o) == [o EXCEPT !.checked = TRUE, !.next_check = Never]

(* What a check does once it has read a manifest of version `latest`, with *)
(* the other slot holding the image of version `slot` (0: none of these).  *)
FoundWhileOnTrial(latest, check_only, slot) ==                  \* mutant
    IF latest = 0 THEN "UpToDate"
    ELSE IF latest <= BlockedUpTo THEN "Blocked"
    ELSE IF slot = latest THEN "Rejected" ELSE "Downloading"
Found(latest, check_only, slot) ==
    IF latest = 0 THEN "UpToDate"
    ELSE IF latest <= BlockedUpTo THEN "Blocked"
    ELSE IF check_only THEN "NewerAvailable"
    ELSE IF slot = latest THEN "Rejected" ELSE "Downloading"

(* The first time a version was rejected is kept; until 0.2.3 it was not.  *)
AlwaysFromNow(o, v) == REJECTED_RETRY_DELAY                     \* mutant
RetryAt(o, v) == IF o.rejected.v = v THEN o.rejected.at ELSE REJECTED_RETRY_DELAY

AppliedRejected(o, v) ==
    [o EXCEPT !.phase = Phase("Rejected", v, RetryAt(o, v)),
              !.next_check = OTA_CHECK_INTERVAL,
              !.backoff = OTA_BACKOFF_MIN,
              !.rejected = [v |-> v, at |-> RetryAt(o, v)]]

AppliedRebooting(o, v) ==
    [o EXCEPT !.phase = Phase("Rebooting", v, REBOOT_AFTER), !.rejected = NotRejected]

ShowsTheRetry(o) ==                                             \* mutant
    [o EXCEPT !.phase = IF o.rejected.v # 0
                        THEN Phase("Rejected", o.rejected.v, o.rejected.at)
                        ELSE Phase("Failed", 0, o.backoff),
              !.next_check = o.backoff,
              !.backoff = Least(2 * @, OTA_BACKOFF_MAX)]
DoublesFreely(o) ==                                             \* mutant
    [o EXCEPT !.phase = Phase("Failed", 0, o.backoff),
              !.next_check = o.backoff, !.backoff = 2 * @]
AppliedError(o) ==
    [o EXCEPT !.phase = Phase("Failed", 0, o.backoff),
              !.next_check = o.backoff,
              !.backoff = Least(2 * @, OTA_BACKOFF_MAX)]

AppliedOther(o, kind, v) ==
    [o EXCEPT !.phase = Phase(kind, v, Never),
              !.next_check = OTA_CHECK_INTERVAL,
              !.backoff = IF kind = "NewerAvailable" THEN @ ELSE OTA_BACKOFF_MIN,
              !.rejected = NotRejected]

apply(o, kind, v) ==
    CASE kind = "Rejected" -> AppliedRejected(o, v)
      [] kind = "Rebooting" -> AppliedRebooting(o, v)
      [] kind = "Failed" -> AppliedError(o)
      [] OTHER -> AppliedOther(o, kind, v)

reboot_due(o) == o.phase.is \in {"Rebooting", "Rejected"} /\ o.phase.at = 0
=============================================================================
