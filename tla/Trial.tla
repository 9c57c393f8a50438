-------------------------------- MODULE Trial --------------------------------
(***************************************************************************)
(* The run of one boot under the supervisor: main (the link, the buy       *)
(* gate), the frame interrupt, the other tasks, the watchdog.              *)
(*                                                                         *)
(* src/src/bin/ticker.rs (main), src/src/ota/app.rs (LinkManager, buy_tick)*)
(* and src/src/boot_policy.rs (BuyGate).  A task hangs by not acting any   *)
(* more: no fairness is assumed of any.                                    *)
(***************************************************************************)
EXTENDS Supervisor

CONSTANTS
    Main, Render,       \* tasks of Who
    RENDER_FRESH,       \* how recent the last frame must be for a buy
    BUY_SETTLE,
    JOIN_RETRY_MIN, JOIN_RETRY_MAX, DHCP_REJOIN_DELAY,
    InitTime            \* bound: initialisation feeds the watchdog until then

ASSUME TrialAssumption ==
    /\ {Main, Render} \subseteq Who \ StartsParked
    /\ RENDER_FRESH \in Nat /\ BUY_SETTLE \in Nat \ {0}
    /\ JOIN_RETRY_MIN \in Nat /\ JOIN_RETRY_MAX \in Nat
    /\ JOIN_RETRY_MIN <= JOIN_RETRY_MAX /\ DHCP_REJOIN_DELAY \in Nat
    /\ InitTime \in Nat /\ InitTime < BUY_DEADLINE

VARIABLES
    mode,               \* "normal" or "recovery"
    buy,                \* BuyState: "not tbyb", "pending", "timed out", ...
    boot_at,            \* the clock when BootStatus was collected
    ready_since,        \* BuyGate: since when everything is there, or Never
    main_pc,            \* main: "init", "top" or "joining"
    link,               \* LinkManager
    wifi,               \* the radio: "down", "link" (no address) or "ip"
    OTA_PROVED,         \* a check of the manifest came through
    round,              \* every feature has been tried once
    ok_for              \* history: how long main has found nothing missing

sup == <<now, wrapped, wdt, due, PHASE, LAST_BEAT, quiet, BUY_DEADLINE_MS,
         PROVED_AT_MS, proved_for, CLEAR_ALLOWED, STREAK_CLEARED, down>>
gate == <<buy, ready_since, ok_for>>
own == <<mode, boot_at, OTA_PROVED, round>>
net == <<link, wifi>>
trialVars == <<sup, gate, own, net, main_pc>>

clock == <<now, wrapped>>
flags == <<CLEAR_ALLOWED, STREAK_CLEARED, down>>
proof == <<PROVED_AT_MS, proved_for>>

Never == -1

Disconnected(next, retry) ==
    [kind |-> "disconnected", next |-> next, retry |-> retry]
Joined == [kind |-> "joined"]
ScanOnly == [kind |-> "scan only"]

Apart == [kind : {"disconnected"},
          next : 0..JOIN_RETRY_MAX + DHCP_REJOIN_DELAY,
          retry : JOIN_RETRY_MIN..JOIN_RETRY_MAX]

Link == Apart \cup {Joined, ScanOnly}

-----------------------------------------------------------------------------
(* A boot.  The watchdog runs from the first line of main.                 *)
TrialInit ==
    /\ now = 0 /\ wrapped = FALSE /\ wdt = WATCHDOG_TIMEOUT /\ due = FALSE
    /\ PHASE = "init"
    /\ LAST_BEAT = [who \in Who |-> 0] /\ quiet = [who \in Who |-> Off]
    /\ BUY_DEADLINE_MS = 0 /\ PROVED_AT_MS = 0 /\ proved_for = Off
    /\ CLEAR_ALLOWED = FALSE /\ STREAK_CLEARED = FALSE /\ down = "no"
    /\ mode \in {"normal", "recovery"}
    /\ buy \in (IF mode = "normal" THEN {"not tbyb", "pending"}
                ELSE {"not tbyb"})
    /\ boot_at = 0 /\ ready_since = Never /\ ok_for = Never
    /\ main_pc = "init" /\ link \in {Disconnected(0, JOIN_RETRY_MIN), ScanOnly}
    /\ wifi = "down"
    /\ OTA_PROVED = FALSE /\ round = FALSE

(* What the chip loses in a reset; `cause` stays readable.                 *)
Reset(cause) ==
    /\ down' = cause
    /\ now' = 0 /\ wrapped' = FALSE /\ wdt' = WATCHDOG_TIMEOUT /\ due' = FALSE
    /\ PHASE' = "init"
    /\ LAST_BEAT' = [who \in Who |-> 0] /\ quiet' = [who \in Who |-> Off]
    /\ BUY_DEADLINE_MS' = 0 /\ PROVED_AT_MS' = 0 /\ proved_for' = Off
    /\ CLEAR_ALLOWED' = FALSE /\ STREAK_CLEARED' = FALSE
    /\ mode' = "normal" /\ buy' = "not tbyb"
    /\ boot_at' = 0 /\ ready_since' = Never /\ ok_for' = Never
    /\ main_pc' = "init" /\ link' = ScanOnly /\ wifi' = "down"
    /\ OTA_PROVED' = FALSE /\ round' = FALSE

Boot ==
    /\ down # "no" /\ down' = "no"
    /\ mode' \in {"normal", "recovery"}
    /\ buy' \in (IF mode' = "normal" THEN {"not tbyb", "pending"}
                 ELSE {"not tbyb"})
    /\ link' \in {Disconnected(0, JOIN_RETRY_MIN), ScanOnly}
    /\ UNCHANGED <<clock, wdt, due, PHASE, beats, BUY_DEADLINE_MS, clearing,
                   STREAK_CLEARED, boot_at, ready_since, ok_for, main_pc, wifi,
                   OTA_PROVED, round>>

(* main before the display runs: each stage feeds the watchdog.            *)
FeedInit ==
    /\ main_pc = "init" /\ PHASE = "init" /\ now < InitTime
    /\ wdt' = WATCHDOG_TIMEOUT
    /\ UNCHANGED <<clock, due, PHASE, beats, BUY_DEADLINE_MS, clearing,
                   STREAK_CLEARED, down, gate, own, net, main_pc>>

(* BootStatus::collect, after embassy_rp::init.                            *)
Collect ==
    /\ main_pc = "init" /\ PHASE = "init" /\ now < InitTime
    /\ boot_at' = now
    /\ UNCHANGED <<sup, gate, mode, OTA_PROVED, round, net, main_pc>>

MainStarts ==
    /\ main_pc = "init" /\ now <= InitTime /\ start
    /\ BUY_DEADLINE_MS' = IF buy = "pending" THEN BUY_DEADLINE ELSE 0
    /\ CLEAR_ALLOWED' = (mode = "normal" /\ buy # "pending")
    /\ main_pc' = "top"
    /\ UNCHANGED <<clock, due, proof, STREAK_CLEARED, down, gate, own, net>>

-----------------------------------------------------------------------------
(* The buy gate.                                                           *)

NothingMissing(network_up) ==
    /\ network_up /\ OTA_PROVED /\ round
    /\ all_alive(LAST_BEAT') /\ alive(LAST_BEAT'[Render], RENDER_FRESH)

(* boot_at.elapsed()                                                       *)
Elapsed == now - boot_at

Since == IF ready_since = Never THEN Elapsed ELSE ready_since

Settled == Elapsed - Since >= BUY_SETTLE

KeepsCounting == ready_since

NotReady == Never

GateWaits(network_up) ==
    /\ IF NothingMissing(network_up) THEN ~Settled /\ ready_since' = Since
                                     ELSE ready_since' = NotReady
    /\ UNCHANGED <<buy, wdt, BUY_DEADLINE_MS, CLEAR_ALLOWED>>

GateTimesOut ==
    /\ buy' = "timed out"
    /\ UNCHANGED <<ready_since, wdt, BUY_DEADLINE_MS, CLEAR_ALLOWED>>

(* explicit_buy, with what main does after it.                             *)
Buys(network_up) ==
    /\ NothingMissing(network_up) /\ Settled
    /\ buy' \in {"bought", "failed"}
    /\ rearm
    /\ CLEAR_ALLOWED' = (CLEAR_ALLOWED \/ buy' = "bought")
    /\ ready_since' = Since

buy_tick(network_up) ==
    \/ /\ buy # "pending"
       /\ UNCHANGED <<buy, ready_since, wdt, BUY_DEADLINE_MS, CLEAR_ALLOWED>>
    \/ buy = "pending" /\ Elapsed >= BUY_DEADLINE /\ GateTimesOut
    \/ /\ buy = "pending" /\ Elapsed < BUY_DEADLINE
       /\ GateWaits(network_up) \/ Buys(network_up)

(* What main saw, for the properties: the truth, not the gate's account.   *)
AllSpeak == \A who \in Who : quiet'[who] <= Limit[who]

Witnessed(network_up) ==
    ok_for' = IF buy = "pending" /\ network_up /\ OTA_PROVED /\ round /\ AllSpeak
              THEN Most(ok_for, 0) ELSE Never

-----------------------------------------------------------------------------
(* main's loop: beat, LinkManager::step, beat, the gate.  Recovery mode's   *)
(* loop, which beats for jobs too, has the same step and no gate.          *)

LinkLost == link = Joined /\ wifi = "down"

LinkNow == IF LinkLost THEN Disconnected(0, JOIN_RETRY_MIN) ELSE link

NetworkUp == link' = Joined /\ wifi' = "ip"

EndOfStep ==
    /\ beat(Main) /\ buy_tick(NetworkUp) /\ Witnessed(NetworkUp)
    /\ main_pc' = "top"
    /\ UNCHANGED <<clock, due, PHASE, proof, STREAK_CLEARED, down, own>>

(* The wait for the next attempt grows.                                    *)
Doubled(retry) == 2 * retry

NextRetry(retry) == Least(2 * retry, JOIN_RETRY_MAX)

(* step returns at once ...                                                *)
MainTop ==
    /\ main_pc = "top"
    /\ LinkNow.kind = "disconnected" => LinkNow.next > 0
    /\ link' = LinkNow /\ UNCHANGED wifi
    /\ EndOfStep

(* ... or it joins, which takes time.                                      *)
MainJoins ==
    /\ main_pc = "top"
    /\ LinkNow.kind = "disconnected" /\ LinkNow.next = 0
    /\ link' = LinkNow /\ main_pc' = "joining" /\ beat(Main)
    /\ UNCHANGED <<clock, wdt, due, PHASE, BUY_DEADLINE_MS, clearing,
                   STREAK_CLEARED, down, gate, own, wifi>>

(* LinkUi::link_status, between the stages of joining.                     *)
LinkStatus ==
    /\ main_pc = "joining" /\ beat(Main)
    /\ UNCHANGED <<clock, wdt, due, PHASE, BUY_DEADLINE_MS, clearing,
                   STREAK_CLEARED, down, gate, own, net, main_pc>>

JoinFails ==
    /\ main_pc = "joining"
    /\ link' = Disconnected(link.retry, NextRetry(link.retry))
    /\ wifi' = "down"
    /\ EndOfStep

DhcpTimesOut ==
    /\ main_pc = "joining"
    /\ link' = Disconnected(DHCP_REJOIN_DELAY, JOIN_RETRY_MIN)
    /\ wifi' = "down"
    /\ EndOfStep

JoinSucceeds ==
    /\ main_pc = "joining"
    /\ link' = Joined /\ wifi' = "ip"
    /\ EndOfStep

-----------------------------------------------------------------------------
(* The other tasks.                                                        *)

Beats(who) ==
    /\ PHASE = "supervised" /\ who # Main /\ beat(who)
    /\ UNCHANGED <<clock, wdt, due, PHASE, BUY_DEADLINE_MS, clearing,
                   STREAK_CLEARED, down, gate, own, net, main_pc>>

Parks(who) ==
    /\ PHASE = "supervised" /\ who \in StartsParked /\ park(who)
    /\ UNCHANGED <<clock, wdt, due, PHASE, BUY_DEADLINE_MS, clearing,
                   STREAK_CLEARED, down, gate, own, net, main_pc>>

(* jobs_task: a check of the manifest came through.                        *)
Proves ==
    /\ PHASE = "supervised" /\ mode = "normal" /\ wifi = "ip"
    /\ OTA_PROVED' = TRUE /\ ota_proved
    /\ UNCHANGED <<clock, wdt, due, PHASE, beats, BUY_DEADLINE_MS, flags, gate,
                   mode, boot_at, round, net, main_pc>>

(* The last feature has been tried; the settings page listens only after   *)
(* the first proof.                                                        *)
RoundDone ==
    /\ OTA_PROVED /\ ~round /\ round' = TRUE
    /\ UNCHANGED <<sup, gate, mode, boot_at, OTA_PROVED, net, main_pc>>

(* The access point, the DHCP server.                                      *)
WifiChanges == \E new \in {"down", "link", "ip"} :
    /\ <<wifi, new>> \in {<<"ip", "down">>, <<"ip", "link">>,
                          <<"link", "ip">>, <<"link", "down">>}
    /\ wifi' = new
    /\ UNCHANGED <<sup, gate, own, link, main_pc>>

-----------------------------------------------------------------------------
OneLess(n) == IF n = 0 THEN 0 ELSE n - 1

TimePasses ==
    /\ down = "no" /\ Tick
    /\ link' = IF link.kind = "disconnected"
               THEN [link EXCEPT !.next = OneLess(link.next)] ELSE link
    /\ ok_for' = IF ok_for = Never THEN Never ELSE Least(ok_for + 1, BUY_SETTLE)
    /\ UNCHANGED <<buy, ready_since, own, wifi, main_pc>>

FrameChecks == on_frame /\ UNCHANGED <<gate, own, net, main_pc>>

FrameResets == PHASE = "supervised" /\ due /\ Resets /\ Reset("stalled")

WatchdogResets == down = "no" /\ ~due /\ wdt = 1 /\ Reset("watchdog")

TrialNext ==
    \/ Boot \/ TimePasses \/ WatchdogResets
    \/ /\ down = "no"
       /\ \/ FeedInit \/ Collect \/ MainStarts
          \/ MainTop \/ MainJoins \/ LinkStatus \/ JoinFails \/ DhcpTimesOut \/ JoinSucceeds
          \/ \E who \in Who : Beats(who) \/ Parks(who)
          \/ Proves \/ RoundDone \/ WifiChanges
          \/ FrameChecks \/ FrameResets

TrialSpec == TrialInit /\ [][TrialNext]_trialVars

-----------------------------------------------------------------------------
TrialTypes ==
    /\ now \in 0..W-1 /\ wrapped \in BOOLEAN /\ due \in BOOLEAN
    /\ wdt \in 1..WATCHDOG_TIMEOUT
    /\ PHASE \in {"init", "supervised"}
    /\ LAST_BEAT \in [Who -> 0..W-1] /\ quiet \in [Who -> Nat \cup {Off}]
    /\ BUY_DEADLINE_MS \in {0, BUY_DEADLINE}
    /\ PROVED_AT_MS \in 0..W-1
    /\ proved_for \in 0..HEALTHY_CLEAR \cup {Off}
    /\ CLEAR_ALLOWED \in BOOLEAN /\ STREAK_CLEARED \in BOOLEAN
    /\ down \in {"no", "stalled", "watchdog"}
    /\ mode \in {"normal", "recovery"}
    /\ buy \in {"not tbyb", "pending", "timed out", "bought", "failed"}
    /\ boot_at \in 0..W-1 /\ ready_since \in 0..W-1 \cup {Never}
    /\ main_pc \in {"init", "top", "joining"}
    /\ link \in Link /\ wifi \in {"down", "link", "ip"}
    /\ OTA_PROVED \in BOOLEAN /\ round \in BOOLEAN
    /\ ok_for \in 0..BUY_SETTLE \cup {Never}

(* supervisor.rs on_frame: whichever task hangs, and whether or not the    *)
(* frame interrupt still comes, the chip is reset before the task has been *)
(* silent for its limit and the watchdog's timeout; also when its last     *)
(* beat fell on the millisecond whose value is the mark PARKED.            *)
StalledIsReset ==
    \A who \in Who : quiet[who] < Limit[who] + WATCHDOG_TIMEOUT

(* ... and a stall is only ever found in a task that has really been       *)
(* silent for its limit, the wrap of the clock included.                   *)
NoFalseReset ==
    [][down = "no" /\ down' = "stalled"
        => \E who \in Who : quiet[who] >= Limit[who]]_trialVars

(* docs/ticker.md 8.2: a trial that does not buy itself is over when the   *)
(* watchdog's timeout has passed after the deadline, counted from the      *)
(* boot, whatever the tasks do, hung or alive.                             *)
TrialEnds ==
    buy \in {"pending", "timed out"}
        => ~wrapped /\ now < BUY_DEADLINE + WATCHDOG_TIMEOUT

(* boot_policy.rs BuyGate: a buy comes only after main has found, at every *)
(* look for BUY_SETTLE, the network up and no task silent beyond its limit,*)
(* and before the deadline.                                                *)
BuyIsSettled ==
    [][buy = "pending" /\ buy' \in {"bought", "failed"}
        => ok_for = BUY_SETTLE /\ now - boot_at < BUY_DEADLINE]_trialVars

(* supervisor.rs on_frame: the streak of crashes is forgotten only by a    *)
(* normal boot that is no trial, HEALTHY_CLEAR after its first check came  *)
(* through.  The one exception is a first check in the very millisecond in *)
(* which the clock wraps to 0 (stamped 1, an age of W - 1).                *)
ClearedWhenProven ==
    [][~STREAK_CLEARED /\ STREAK_CLEARED'
        => /\ mode = "normal" /\ buy \in {"not tbyb", "bought"}
           /\ \/ proved_for = HEALTHY_CLEAR
              \/ now = 0 /\ PROVED_AT_MS = 1]_trialVars
=============================================================================
