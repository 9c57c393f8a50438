------------------------------- MODULE Power --------------------------------
(***************************************************************************)
(* The power meter: the Matter task, which looks the device up and reads   *)
(* it every five seconds (src/src/matter/mod.rs), the state and the        *)
(* history of its readings (src/src/ticker/power.rs) and the graph that    *)
(* render_task plots when its key has changed (src/src/bin/ticker.rs).     *)
(*                                                                         *)
(* Time is counted in ticks of five seconds, the bucket of the short ring. *)
(* The Matter stack is external: a lookup or a read ends in any way at any *)
(* time up to its timeout, and the transport may fail whenever it runs.    *)
(***************************************************************************)
EXTENDS Integers, Sequences, FiniteSets, Functions

CONSTANTS
    Values,          \* readings, in the unit of the history
    ShortRanges,     \* ranges of the graph, in ticks, that the short ring has
    LongRanges,      \* those of the long ring
    LONG_STEP,       \* ticks in a bucket of the long ring (24)
    HISTORY_SLOTS,   \* buckets of a ring (721)
    TREND_POINTS,    \* columns of the graph (128)
    STALE,           \* ticks until a reading is old (3)
    READ_TIMEOUT,    \* ticks (4)
    UNSUPPORTED_ROUNDS,   \* (60)
    LIMIT,           \* ticks of silence the supervisor allows Who::Matter (9)
    CLOCK,           \* the millisecond clock of the readings wraps, in ticks
    NOW_MAX          \* bound: ticks

MISSING == -1000000

ASSUME PowerAssumption ==
    /\ Values \subseteq Int /\ \A value \in Values : value > MISSING
    /\ {LONG_STEP, HISTORY_SLOTS, TREND_POINTS, READ_TIMEOUT, CLOCK} \subseteq Nat \ {0}
    /\ {STALE, UNSUPPORTED_ROUNDS, LIMIT, NOW_MAX} \subseteq Nat
    /\ ShortRanges \subseteq 1 .. HISTORY_SLOTS - 1
    /\ LongRanges \subseteq 1 .. (HISTORY_SLOTS - 1) * LONG_STEP
    /\ READ_TIMEOUT <= LIMIT /\ READ_TIMEOUT + 1 < CLOCK

None == <<>>
Rings == {"short", "long"}
Step(name) == IF name = "short" THEN 1 ELSE LONG_STEP
RingOf(span) == IF span \in ShortRanges THEN "short" ELSE "long"

(* Division of Rust: towards zero.                                         *)
Quotient(a, b) == IF a < 0 THEN -((-a) \div b) ELSE a \div b
Mean(value, S) ==
    IF S = {} THEN MISSING ELSE Quotient(SumFunctionOnSet(value, S), Cardinality(S))

-----------------------------------------------------------------------------
(***************************************************************************)
(* HistoryRing.                                                            *)
(***************************************************************************)
NewRing == [values |-> [i \in 0 .. HISTORY_SLOTS - 1 |-> MISSING],
            bucket |-> None, sum |-> 0, count |-> 0]

OnlyTheNew(ring, bucket) == {bucket % HISTORY_SLOTS}               \* mutant
Cleared(ring, bucket) ==
    IF bucket - ring.bucket[1] >= HISTORY_SLOTS THEN 0 .. HISTORY_SLOTS - 1
    ELSE {b % HISTORY_SLOTS : b \in ring.bucket[1] + 1 .. bucket}

Advance(ring, bucket) ==
    IF ring.bucket # None /\ bucket <= ring.bucket[1] THEN ring
    ELSE [values |-> [i \in DOMAIN ring.values |->
                        IF ring.bucket # None /\ i \in Cleared(ring, bucket)
                        THEN MISSING ELSE ring.values[i]],
          bucket |-> <<bucket>>, sum |-> 0, count |-> 0]

Record(ring, bucket, value) ==
    LET to == Advance(ring, bucket)
        sum == to.sum + value
    IN  IF ring.bucket # None /\ bucket < ring.bucket[1] THEN ring
        ELSE IF value = MISSING THEN to
        ELSE [to EXCEPT !.sum = sum, !.count = @ + 1,
                        !.values[bucket % HISTORY_SLOTS] = Quotient(sum, to.count + 1)]

Get(ring, bucket) ==
    IF ring.bucket = None \/ bucket < 0 \/ bucket > ring.bucket[1]
       \/ ring.bucket[1] - bucket >= HISTORY_SLOTS
    THEN MISSING ELSE ring.values[bucket % HISTORY_SLOTS]

(***************************************************************************)
(* PowerHistory.plot, of the value of every bucket in the window.          *)
(***************************************************************************)
Columns == 0 .. TREND_POINTS - 1
Buckets(at, span, i) ==
    LET from == at + 1 - span
        a == from + (i * span) \div TREND_POINTS
        b == from + ((i + 1) * span) \div TREND_POINTS - 1
        step == Step(RingOf(span))
    IN  a \div step .. (IF b > a THEN b ELSE a) \div step
Window(at, span) == UNION {Buckets(at, span, i) : i \in Columns}

Complete(known, all) == known = all /\ known # {}
Plot(value, at, span) ==
    LET known(i) == {b \in Buckets(at, span, i) : value[b] # MISSING}
    IN  [points |-> [i \in Columns |-> Mean(value, known(i))],
         complete |-> [i \in Columns |-> Complete(known(i), Buckets(at, span, i))]]

NewTrend == [points |-> [i \in Columns |-> MISSING], complete |-> [i \in Columns |-> FALSE]]

(* draw_power_trend: the column is joined to the one before it.            *)
Joined(trend, i) ==
    /\ i > 0 /\ trend.points[i] # MISSING /\ trend.points[i - 1] # MISSING
    /\ trend.complete[i] /\ trend.complete[i - 1]

(***************************************************************************)
(* PowerState.                                                             *)
(***************************************************************************)
Received(value, ms) ==
    [status |-> IF value = MISSING THEN "Unavailable" ELSE "Fresh",
     sample |-> IF value = MISSING THEN None ELSE <<value, ms>>]
Failed(power) == [power EXCEPT !.status = IF power.sample = None THEN "Waiting" ELSE "Stale"]
Age(power, ms) == IF power.sample = None THEN 0 ELSE (ms - power.sample[2]) % CLOCK
View(power, ms) == IF power.status = "Fresh" /\ Age(power, ms) > STALE THEN "Stale" ELSE power.status

-----------------------------------------------------------------------------
VARIABLES
    now,        \* ticks since power-on; the clock of the readings is now % CLOCK
    start,      \* START
    ready,      \* NET_READY
    firstDone,  \* FIRST_DONE
    waits,      \* where the task waits
    left,       \* ticks until its timer is out
    count,      \* failures of the reads, or rounds left without a meter
    silence,    \* ticks since the last beat; None while the task is parked
    power,      \* PowerState
    rings,      \* PowerHistory
    news,       \* power_gen has moved on since the graph was plotted
    range,      \* power_minutes, while the graph is chosen
    key,        \* [at, span] of the plotted graph
    trend,      \* PowerTrend
    log,        \* the reading of every tick (history)
    asked       \* ticks for which START and NET_READY have lasted without
                \* FIRST_DONE (history)

task == <<waits, left, count, silence, firstDone>>
meter == <<power, rings, news, log>>
screen == <<range, key, trend>>
powerVars == <<now, start, ready, asked, task, meter, screen>>

ms == now % CLOCK

PowerInit ==
    /\ now = 0 /\ start = FALSE /\ ready \in BOOLEAN /\ asked = 0
    /\ waits = "wait" /\ left = 0 /\ count = 0 /\ silence = None /\ firstDone = FALSE
    /\ power = [status |-> "Waiting", sample |-> None]
    /\ rings = [name \in Rings |-> NewRing] /\ news = TRUE
    /\ log = [t \in 0 .. NOW_MAX |-> MISSING]
    /\ range \in ShortRanges \cup LongRanges
    /\ key = [at |-> -1, span |-> 0] /\ trend = NewTrend

(* The task goes on to wait at `to', and has just beaten.                  *)
WaitsAt(to, ticks, n) ==
    /\ waits' = to /\ left' = ticks /\ count' = n /\ silence' = <<0>>
Parks(to) == waits' = to /\ left' = 0 /\ count' = 0 /\ silence' = None

(* publish_power.                                                          *)
Publishes(state) ==
    /\ power' = state /\ news' = TRUE
    /\ UNCHANGED <<rings, log>>
PublishesSample(value) ==
    /\ power' = Received(value, ms)
    /\ rings' = [name \in Rings |-> Record(rings[name], now \div Step(name), value)]
    /\ log' = [log EXCEPT ![now] = value]
    /\ news' = TRUE

-----------------------------------------------------------------------------
(***************************************************************************)
(* run.                                                                    *)
(***************************************************************************)
Started ==
    /\ waits = "wait" /\ start /\ Parks("down")
    /\ UNCHANGED <<now, start, ready, asked, firstDone, meter, screen>>

NoIdentity ==
    /\ waits = "wait" /\ start /\ Parks("failed")
    /\ Publishes(Failed(power)) /\ firstDone' = TRUE
    /\ UNCHANGED <<now, start, ready, asked, screen>>

(* The loop of run, from the network to the lookup in flow.                *)
Connects ==
    /\ waits = "down" /\ ready
    /\ WaitsAt("lookup", READ_TIMEOUT, 0)
    /\ UNCHANGED <<now, start, ready, asked, firstDone, meter, screen>>

(* A cycle that ends with an error: a socket, the transport, mDNS, the     *)
(* lookup, or the network was found to be down.                            *)
OnSuccessOnly == firstDone                                         \* mutant
DoneAfterError == TRUE
CycleFails ==
    /\ Publishes(Failed(power)) /\ firstDone' = DoneAfterError
    /\ WaitsAt("again", 1, 0)
    /\ UNCHANGED <<now, start, ready, asked, screen>>
TransportFails ==
    /\ waits \in {"lookup", "unsupported", "read", "rest"} \/ (waits = "down" /\ ready)
    /\ CycleFails

Again ==
    /\ waits = "again" /\ left = 0 /\ Parks("down")
    /\ UNCHANGED <<now, start, ready, asked, firstDone, meter, screen>>

-----------------------------------------------------------------------------
(***************************************************************************)
(* flow.                                                                   *)
(***************************************************************************)
Reads(n) ==
    IF ready
    THEN /\ WaitsAt("read", READ_TIMEOUT, n)
         /\ UNCHANGED <<now, start, ready, asked, firstDone, meter, screen>>
    ELSE CycleFails

DeviceFound == waits = "lookup" /\ Reads(0)
LookupFails == waits = "lookup" /\ CycleFails

NotFound ==
    /\ waits = "lookup"
    /\ Publishes([power EXCEPT !.status = "Unsupported"]) /\ firstDone' = TRUE
    /\ WaitsAt("unsupported", 1, UNSUPPORTED_ROUNDS)
    /\ UNCHANGED <<now, start, ready, asked, screen>>

RoundLeft == <<1, count>>
RestsUnsupported ==
    /\ waits = "unsupported" /\ left = 0
    /\ IF RoundLeft[2] > 1 THEN WaitsAt("unsupported", RoundLeft[1], RoundLeft[2] - 1)
       ELSE WaitsAt("again", 1, 0)
    /\ UNCHANGED <<now, start, ready, asked, firstDone, meter, screen>>

Sample(value) ==
    /\ waits = "read" /\ PublishesSample(value) /\ firstDone' = TRUE
    /\ WaitsAt("rest", 1, 0)
    /\ UNCHANGED <<now, start, ready, asked, screen>>

ReadFails ==
    /\ waits = "read"
    /\ IF count + 1 >= 3 THEN CycleFails
       ELSE /\ Publishes(Failed(power)) /\ firstDone' = TRUE
            /\ WaitsAt("rest", 1, count + 1)
            /\ UNCHANGED <<now, start, ready, asked, screen>>

Rested == waits = "rest" /\ left = 0 /\ Reads(count)

-----------------------------------------------------------------------------
(***************************************************************************)
(* render_task: a frame in which the key of the graph has changed.  One    *)
(* that does not show the graph plots nothing: it is no step.              *)
(***************************************************************************)
Outdated == news \/ key.at # now \/ key.span # range
PlotsGraph ==
    /\ Outdated
    /\ LET name == RingOf(range)
           ring == Advance(rings[name], now \div Step(name))
       IN  /\ rings' = [rings EXCEPT ![name] = ring]
           /\ trend' = Plot([b \in Window(now, range) |-> Get(ring, b)], now, range)
    /\ key' = [at |-> now, span |-> range] /\ news' = FALSE
    /\ UNCHANGED <<now, start, ready, asked, task, power, log, range>>

(* App::apply.                                                             *)
RangeSaved(new) ==
    /\ range' = new /\ range # new
    /\ UNCHANGED <<now, start, ready, asked, task, meter, key, trend>>

(* jobs_task: the first OTA check has ended.  NET_READY comes and goes.    *)
Starts ==
    /\ ~start /\ start' = TRUE
    /\ UNCHANGED <<now, ready, asked, task, meter, screen>>
NetworkChanges ==
    /\ ready' = ~ready /\ asked' = 0
    /\ UNCHANGED <<now, start, task, meter, screen>>

(* A tick: no timer is out, and what polls more often has seen its flag.   *)
Passes ==
    /\ now < NOW_MAX /\ now' = now + 1
    /\ (waits = "wait" => ~start) /\ (waits = "down" => ~ready)
    /\ waits \notin {"wait", "down", "failed"} => left > 0
    /\ left' = IF left > 0 THEN left - 1 ELSE 0
    /\ silence' = IF silence = None THEN None ELSE <<silence[1] + 1>>
    /\ asked' = IF start /\ ready /\ ~firstDone THEN asked + 1 ELSE 0
    /\ UNCHANGED <<start, ready, waits, count, firstDone, meter, screen>>

AnyReading == \E value \in Values \cup {MISSING} : Sample(value)
AnyRange == \E new \in ShortRanges \cup LongRanges : RangeSaved(new)
PowerNext ==
    \/ Started \/ NoIdentity \/ Connects \/ TransportFails \/ Again
    \/ DeviceFound \/ LookupFails \/ NotFound \/ RestsUnsupported
    \/ AnyReading \/ ReadFails \/ Rested
    \/ PlotsGraph \/ AnyRange \/ Starts \/ NetworkChanges \/ Passes

PowerSpec == PowerInit /\ [][PowerNext]_powerVars
-----------------------------------------------------------------------------
Statuses == {"Waiting", "Fresh", "Stale", "Unavailable", "Unsupported"}
(* Types of the state.                                                     *)
MeterTypes ==
    /\ now \in 0 .. NOW_MAX /\ start \in BOOLEAN /\ ready \in BOOLEAN /\ firstDone \in BOOLEAN
    /\ waits \in {"wait", "failed", "down", "lookup", "unsupported", "read", "rest", "again"}
    /\ left \in 0 .. READ_TIMEOUT /\ count \in 0 .. UNSUPPORTED_ROUNDS + 3
    /\ (silence = None) = (waits \in {"wait", "failed", "down"})
    /\ power.status \in Statuses /\ news \in BOOLEAN /\ asked \in 0 .. NOW_MAX
    /\ \A name \in Rings : \A i \in DOMAIN rings[name].values :
         \/ rings[name].values[i] = MISSING
         \/ \E a, b \in Values : a <= rings[name].values[i] /\ rings[name].values[i] <= b

(* The reading of a bucket, from the log.                                  *)
Ticks(l, name, bucket) == {t \in DOMAIN l : t \div Step(name) = bucket /\ l[t] # MISSING}
Read(name, bucket) == Mean(log, Ticks(log, name, bucket))

(* The graph on the screen is the one of the readings that were received,  *)
(* each in its place and none from an earlier round of the ring.           *)
TrendIsTrue ==
    ~Outdated =>
      trend = Plot([b \in Window(key.at, key.span) |-> Read(RingOf(key.span), b)], key.at, key.span)

(* A line is drawn only where readings were received all the way.          *)
NoLineOverGap ==
    \A i \in Columns : Joined(trend, i) =>
      \A b \in Buckets(key.at, key.span, i - 1) \cup Buckets(key.at, key.span, i) :
        Read(RingOf(key.span), b) # MISSING

(* A reading is shown as fresh only while it is: no failure, no pause and  *)
(* no wrap of the clock makes an old one fresh.                            *)
FreshIsFresh ==
    View(power, ms) = "Fresh" =>
      \E t \in 0 .. now :
        now - t <= STALE /\ t % CLOCK = power.sample[2] /\ log[t] = power.sample[1]

(* The supervisor never resets the board for a task that only waits.       *)
NeverTooSilent == silence # None => silence[1] <= LIMIT

(* The trial of a new release waits for FIRST_DONE: once the task may      *)
(* start and the network is there, it takes one lookup and one read.       *)
FirstDoneInTime == asked > 2 * READ_TIMEOUT => firstDone

(* The graph shows the readings received, each in its place, and joins     *)
(* them only where there is no gap.                                        *)
GraphIsTrue == TrendIsTrue /\ NoLineOverGap

(* What the trial and the supervisor learn from the task, and the reader   *)
(* from the screen, is so: no stale reading is fresh, no silence too long  *)
(* and no first attempt too late.                                          *)
MeterIsSound == MeterTypes /\ FreshIsFresh /\ NeverTooSilent /\ FirstDoneInTime
=============================================================================
