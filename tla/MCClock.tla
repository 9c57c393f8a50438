------------------------------ MODULE MCClock ------------------------------
(***************************************************************************)
(* The jobs that fetch, and the status lines that tell of them: a          *)
(* behaviour is one of the clock and the jobs (module Clock) or of the     *)
(* status lines (Notices).                                                 *)
(*                                                                         *)
(* Clock: three evenings on which the calendar is odd: 28 February 2000    *)
(* and 2100 and the day in 2036 on which the seconds of NTP begin anew.  A *)
(* day has four ticks.  Three settings, in two zones and two places, one   *)
(* of them with a message of its own.  Notices: the message and one more   *)
(* job, a tick of 30 s, an SSID of 20 characters.                          *)
(***************************************************************************)
EXTENDS Clock, TLC

Evenings == {4 * 11016 - 4, 4 * 47541 - 3, 96571}
ThreeConfigs == {[zone |-> 0, place |-> "here", local |-> FALSE],
                 [zone |-> 2, place |-> "here", local |-> FALSE],
                 [zone |-> 0, place |-> "there", local |-> TRUE]}

CONSTANTS Fetches, SSID, STATUS_BOOT_SHOW, ALERT_SHOW, DIAG_SHOW, NOTE_SHOW, BANNER_SHOW
ASSUME StatusAssumption ==
    /\ "MSG" \in Fetches /\ Fetches \cap {"ota", "nothing"} = {}
    /\ {STATUS_BOOT_SHOW, ALERT_SHOW, NOTE_SHOW, BANNER_SHOW} \cup DIAG_SHOW \subseteq Nat
VARIABLES subject, until, wifi, texts, ota, settings, local, main, link, netReady, at, owed
noticeVars == <<until, wifi, texts, ota, settings, local, main, link, netReady, at, owed>>
N == INSTANCE Notices WITH left <- until, page <- settings, ready <- netReady

StatusInit ==
    /\ subject \in {"jobs", "notices"} /\ Init /\ N!NoticesInit
    /\ subject = "jobs" => ota = "Idle" /\ ~local /\ until.diag = 0 /\ until.note = 0
    /\ subject = "notices" =>
          /\ base = CHOOSE b \in Bases : TRUE
          /\ config = CHOOSE c \in Configs : TRUE
          /\ possible
StatusNext ==
    \/ subject = "jobs" /\ Next /\ UNCHANGED <<subject, noticeVars>>
    \/ subject = "notices" /\ N!NoticesNext /\ UNCHANGED <<subject, vars>>
StatusSpec == StatusInit /\ [][StatusNext]_<<subject, vars, noticeVars>>

(* The jobs neither silence jobs_task nor crowd each other out, and what   *)
(* the status lines tell of them is true and seen.                         *)
StatusIsSound ==
    IF subject = "jobs" THEN JobsAreSound
    ELSE N!CodeIsShown /\ N!TextsAreTrue /\ N!FailuresOpenTheLines
=============================================================================
