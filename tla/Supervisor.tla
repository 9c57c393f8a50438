----------------------------- MODULE Supervisor ------------------------------
(***************************************************************************)
(* src/src/supervisor.rs and the beats of src/src/ticker/health.rs: the    *)
(* watchdog of the chip, fed by the frame interrupt of the LCD as long as  *)
(* every supervised task has given a sign of life within its limit.        *)
(*                                                                         *)
(* The clock is Instant::now().as_millis() as u32: it wraps at W (2^32).   *)
(* The largest value of the clock is also the mark PARKED of a task that   *)
(* is not supervised.  This module holds the state and its operations; the *)
(* tasks that call them are in module Trial.                               *)
(***************************************************************************)
EXTENDS Integers

CONSTANTS
    W,                  \* the clock counts modulo W
    Who,                \* the supervised tasks
    StartsParked,       \* those that beat only while they serve something
    Limit,              \* Limits::TICKER: how long a task may be silent
    WATCHDOG_TIMEOUT, BUY_DEADLINE, HEALTHY_CLEAR

PARKED == W - 1

ASSUME SupervisorAssumption ==
    /\ W \in Nat /\ Limit \in [Who -> Nat] /\ StartsParked \subseteq Who
    /\ WATCHDOG_TIMEOUT \in Nat \ {0}
    /\ BUY_DEADLINE \in Nat \ {0} /\ HEALTHY_CLEAR \in Nat \ {0}
    /\ BUY_DEADLINE + WATCHDOG_TIMEOUT < W /\ HEALTHY_CLEAR < W - 1
    /\ \A w \in Who : 2 * (Limit[w] + WATCHDOG_TIMEOUT + 1) < W

VARIABLES
    now,                \* now_ms(): the clock since the boot
    wrapped,            \* history: it has wrapped
    wdt,                \* the watchdog: how long until it resets the chip
    due,                \* a frame interrupt that checks has not run yet
    PHASE,              \* "init" or "supervised"
    LAST_BEAT,          \* per task: the clock at its last beat, or PARKED
    quiet,              \* history, per task: how long it has been silent
    BUY_DEADLINE_MS,    \* 0: none
    PROVED_AT_MS,       \* the clock at the first check that came through
    proved_for,         \* history: how long ago that was
    CLEAR_ALLOWED,      \* the streak may be cleared in this boot
    STREAK_CLEARED,     \* it has been
    down                \* "no", or what has reset the chip

beats == <<LAST_BEAT, quiet>>
clearing == <<PROVED_AT_MS, proved_for, CLEAR_ALLOWED>>

(* u32::wrapping_sub.                                                      *)
wrapping_sub(a, b) == IF a >= b THEN a - b ELSE a - b + W

Least(a, b) == IF a <= b THEN a ELSE b
Most(a, b) == IF a >= b THEN a ELSE b

(* The value `quiet` and `proved_for` have for a task that is parked, and  *)
(* before the first proof.                                                 *)
Off == -1

-----------------------------------------------------------------------------
(* What the tasks call.                                                    *)

StampUncapped == now

StampOfBeat == Least(now, PARKED - 1)

Stamped(who) == [LAST_BEAT EXCEPT ![who] = StampOfBeat]

beat(who) ==
    /\ LAST_BEAT' = Stamped(who)
    /\ quiet' = [quiet EXCEPT ![who] = 0]

park(who) ==
    /\ LAST_BEAT' = [LAST_BEAT EXCEPT ![who] = PARKED]
    /\ quiet' = [quiet EXCEPT ![who] = Off]

Age(last) == wrapping_sub(now, last)

(* A value from the future counts as just now.                             *)
AgeOrZero(last) == IF Age(last) > (W - 1) \div 2 THEN 0 ELSE Age(last)

stalled(who, last) == last # PARKED /\ AgeOrZero(last) > Limit[who]

alive(last, within) == last = PARKED \/ Age(last) <= within

all_alive(last) ==
    PHASE = "supervised" /\ \A who \in Who : ~stalled(who, last[who])

FirstBeatNow(who) == now

FirstBeat(who) == IF who \in StartsParked THEN PARKED ELSE now

start ==
    /\ PHASE = "init" /\ PHASE' = "supervised"
    /\ LAST_BEAT' = [who \in Who |-> FirstBeat(who)]
    /\ quiet' = [who \in Who |-> IF who \in StartsParked THEN Off ELSE 0]
    /\ wdt' = WATCHDOG_TIMEOUT

(* explicit_buy has stopped the watchdog: it is started again, and the     *)
(* deadline goes.                                                          *)
rearm ==
    /\ BUY_DEADLINE_MS' = 0
    /\ wdt' = WATCHDOG_TIMEOUT

ota_proved ==
    IF PROVED_AT_MS = 0
    THEN PROVED_AT_MS' = Most(now, 1) /\ proved_for' = 0
    ELSE UNCHANGED <<PROVED_AT_MS, proved_for>>

-----------------------------------------------------------------------------
(* The frame interrupt that checks (on_frame with every 30th frame).       *)

DeadlinePassed == BUY_DEADLINE_MS # 0 /\ now >= BUY_DEADLINE_MS

ClearsByUptime == CLEAR_ALLOWED /\ ~STREAK_CLEARED /\ PROVED_AT_MS # 0
                  /\ now >= HEALTHY_CLEAR

ClearsStreak ==
    /\ CLEAR_ALLOWED /\ ~STREAK_CLEARED /\ PROVED_AT_MS # 0
    /\ wrapping_sub(now, PROVED_AT_MS) >= HEALTHY_CLEAR

(* All alive: the watchdog is fed, unless a trial is over its deadline.    *)
FeedsOnTrial == TRUE

Feeds == ~DeadlinePassed

Resets == \E who \in Who : stalled(who, LAST_BEAT[who])

on_frame ==
    /\ PHASE = "supervised" /\ due /\ ~Resets
    /\ due' = FALSE
    /\ wdt' = IF Feeds THEN WATCHDOG_TIMEOUT ELSE wdt
    /\ STREAK_CLEARED' = (STREAK_CLEARED \/ (Feeds /\ ClearsStreak))
    /\ UNCHANGED <<now, wrapped, PHASE, beats, BUY_DEADLINE_MS, clearing, down>>

(* Time passes.  A frame that checks may fall due or not: while the flash  *)
(* is erased, or once the display has stopped, none does.                  *)
Silent(who) ==
    IF quiet[who] = Off THEN Off
    ELSE Least(quiet[who] + 1, Limit[who] + WATCHDOG_TIMEOUT + 1)

Tick ==
    /\ ~due /\ wdt > 1
    /\ now' = (IF now + 1 = W THEN 0 ELSE now + 1)
    /\ wrapped' = (wrapped \/ now + 1 = W)
    /\ wdt' = wdt - 1
    /\ due' \in (IF PHASE = "supervised" THEN BOOLEAN ELSE {FALSE})
    /\ quiet' = [who \in Who |-> Silent(who)]
    /\ proved_for' = IF proved_for = Off THEN Off
                     ELSE Least(proved_for + 1, HEALTHY_CLEAR)
    /\ UNCHANGED <<PHASE, LAST_BEAT, BUY_DEADLINE_MS, PROVED_AT_MS,
                   CLEAR_ALLOWED, STREAK_CLEARED, down>>
=============================================================================
