------------------------------- MODULE Clock --------------------------------
(***************************************************************************)
(* The clock and the small fetches of jobs_task: NTP from two hosts, the   *)
(* weather, the message, their schedule beside the update checks and the   *)
(* requests of the settings page (src/src/bin/ticker.rs), the reply of an  *)
(* NTP server (src/src/ticker/sntp.rs, sntp_net.rs) and the date that is   *)
(* shown and written to files (src/src/ticker/civil.rs, src/src/sdcard.rs).*)
(*                                                                         *)
(* A tick is ten seconds of the schedule.  So that days pass in a run, a   *)
(* day of the calendar has DAY ticks only; ERA is 2^32 seconds in the same *)
(* measure, and dates are those of the real calendar.                      *)
(***************************************************************************)
EXTENDS Integers, FiniteSets

CONSTANTS
    DAY,             \* ticks of a day
    ERA,             \* ticks after which the seconds of NTP begin anew
    OFFSET,          \* NTP_UNIX_OFFSET, in ticks
    Bases,           \* what the time may be at power-on: UNIX time in ticks
    Configs,         \* settings: [zone, place, local]: tz in ticks, lat and lon, local_message
    NTP_TIMEOUT,     \* ticks: 5 s, rounded up
    FETCH_TIMEOUT,   \* 20 s
    NTP_RESYNC, NTP_RETRY_MIN, NTP_RETRY_MAX,
    WEATHER_REFRESH, WEATHER_RETRY, MESSAGE_REFRESH, MESSAGE_RETRY,
    LIMIT,           \* silence the supervisor allows Who::Jobs: 90 s
    NOW_MAX,         \* bound: ticks
    MaxCalls         \* bound: checks, saves and changes of the network

ASSUME ClockAssumption ==
    /\ {DAY, ERA, NTP_TIMEOUT, FETCH_TIMEOUT, NTP_RETRY_MIN, NOW_MAX} \subseteq Nat \ {0}
    /\ {OFFSET, NTP_RESYNC, NTP_RETRY_MAX, WEATHER_REFRESH, WEATHER_RETRY,
        MESSAGE_REFRESH, MESSAGE_RETRY, LIMIT, MaxCalls} \subseteq Nat
    /\ NTP_RETRY_MIN <= NTP_RETRY_MAX
    /\ \A t \in Bases : t \in Nat /\ t >= DAY + NTP_TIMEOUT     \* it is not 1970 any more
    /\ \A t \in Bases : t + OFFSET >= ERA \div 2 /\ t + NOW_MAX + OFFSET < ERA + ERA \div 2
    /\ \A c \in Configs : c.zone \in -DAY .. DAY

(* A query is over before LIMIT, and a fetch and its repetition leave room *)
(* for the one the other waits for (5, 20, 30, 120 s; 6 h, 30 min).        *)
ASSUME ScheduleAssumption ==
    /\ 6 * NTP_TIMEOUT <= LIMIT /\ FETCH_TIMEOUT <= LIMIT
    /\ FETCH_TIMEOUT < NTP_RETRY_MIN /\ FETCH_TIMEOUT < NTP_RESYNC
    /\ 6 * NTP_TIMEOUT < WEATHER_RETRY /\ 6 * NTP_TIMEOUT < WEATHER_REFRESH

None == "none"
NotYet == -1
Lesser(a, b) == IF a < b THEN a ELSE b
Greater(a, b) == IF a > b THEN a ELSE b

-----------------------------------------------------------------------------
(***************************************************************************)
(* civil.rs.                                                               *)
(***************************************************************************)
YearOfEra(doe) == (doe - doe \div 1460 + doe \div 36524 - doe \div 146096) \div 365
DayOfYear(doe, yoe) == doe - (365 * yoe + yoe \div 4 - yoe \div 100)
FromMarch(doy) == (5 * doy + 2) \div 153
Month(mp) == IF mp < 10 THEN mp + 3 ELSE mp - 9
Year(y, m) == IF m <= 2 THEN y + 1 ELSE y
CivilOfEra(era, doe) ==
    LET yoe == YearOfEra(doe)
        doy == DayOfYear(doe, yoe)
        mp == FromMarch(doy)
    IN  <<Year(yoe + era * 400, Month(mp)), Month(mp), doy - (153 * mp + 2) \div 5 + 1>>
CivilFromDays(days) ==
    LET z == days + 719468
    IN  CivilOfEra(z \div 146097, z % 146097)

FromUnix(unix, zone) ==
    LET days == (unix + zone) \div DAY
    IN  [date |-> CivilFromDays(days), weekday |-> (days + 4) % 7, time |-> (unix + zone) % DAY]

(***************************************************************************)
(* sntp.rs: the seconds of the reply of a server whose clock is right.     *)
(***************************************************************************)
Stamp(unix) == (unix + OFFSET) % ERA
FirstEraOnly(secs) == secs - OFFSET                                \* mutant
UnixOf(secs) == (IF secs >= ERA \div 2 THEN secs ELSE secs + ERA) - OFFSET

-----------------------------------------------------------------------------
VARIABLES
    now,        \* ticks since power-on
    base,       \* the true time at power-on (the world's, not the code's)
    config,     \* the settings in force
    ready,      \* NET_READY
    possible,   \* ota_possible
    first,      \* first_ota_done
    page,       \* the settings page is served: a check has been proved
    doing,      \* what jobs_task waits for
    query,      \* [host, sent] of an NTP query
    left,       \* ticks until its timeout
    jobs,       \* [ntp, weather, message]: next and failures of each Job
    plain,      \* weather_plain_http
    clock,      \* Sync of MODEL, as the UNIX time it gives for power-on
    wall,       \* WALL_AT_BOOT of sdcard.rs; 0 before the first sync
    weather,    \* the place of the shown weather, None without one
    tried,      \* ROUND_NTP, ROUND_WEATHER, ROUND_MESSAGE
    calls,      \* checks, saves and changes of the network so far
    silence,    \* ticks since jobs_task last beat
    synced,     \* the zone in force at the last sync (history)
    waited      \* ticks the three fetches were free to go on (history)

shown == <<clock, wall, weather, synced>>
net == <<base, ready, possible, first, page>>
history == <<calls, waited>>
vars == <<now, net, config, doing, query, left, jobs, plain, shown, tried, silence, history>>

JobNames == {"ntp", "weather", "message"}
Due(name) == now >= jobs[name].next /\ (name = "message" => ~config.local)
In(span) == Lesser(now + span, NOW_MAX + 1)    \* bound: what comes after the run
Ok(interval) == [next |-> In(interval), failures |-> 0]
FailedJob(name, retry) == [next |-> In(retry), failures |-> jobs[name].failures + 1]

Init ==
    /\ now = 0 /\ base \in Bases /\ ready = FALSE
    /\ config \in Configs
    /\ possible \in BOOLEAN /\ first = ~possible /\ page = FALSE
    /\ doing = "idle" /\ query = [host |-> 1, sent |-> 0] /\ left = 0
    /\ jobs = [name \in JobNames |-> [next |-> 0, failures |-> 0]] /\ plain = FALSE
    /\ clock = NotYet /\ wall = 0 /\ weather = None
    /\ tried = (IF config.local THEN {"message"} ELSE {}) /\ calls = 0 /\ silence = 0 /\ synced = config.zone /\ waited = 0

HasClock == clock # NotYet
NowUnix(sync) == sync + now

Called == calls < MaxCalls /\ calls' = calls + 1 /\ waited' = 0

(* The loop comes round: it beats.                                         *)
Rounds == doing' = "idle" /\ left' = 0 /\ silence' = 0

-----------------------------------------------------------------------------
(***************************************************************************)
(* The update check and the page go first; both beat while they work.      *)
(***************************************************************************)
OtaBegins ==
    /\ doing = "idle" /\ ready /\ possible /\ doing' = "ota" /\ Called
    /\ UNCHANGED <<now, net, config, query, left, jobs, plain, shown, tried, silence>>
OtaEnds(proved) ==
    /\ doing = "ota" /\ Rounds /\ first' = TRUE /\ page' = (page \/ proved)
    /\ UNCHANGED <<now, base, ready, possible, config, query, jobs, plain, shown, tried, history>>

(* App::apply: the weather of another place is dropped and asked for, and  *)
(* so is the message of another URL or after a text of the page's own.     *)
WeatherAfter(new) == IF new.place # config.place THEN None ELSE weather
AtOnce(job, asked) == IF asked THEN [next |-> now, failures |-> 0] ELSE job
Save(new, otherUrl) ==
    /\ doing = "idle" /\ ready /\ page /\ (new # config \/ otherUrl)
    /\ Called /\ config' = new
    /\ weather' = WeatherAfter(new)
    /\ jobs' = [jobs EXCEPT !.weather = AtOnce(@, new.place # config.place),
                            !.message = AtOnce(@, otherUrl \/ (config.local /\ ~new.local))]
    /\ UNCHANGED <<now, net, doing, query, left, plain, clock, wall, synced, tried, silence>>

-----------------------------------------------------------------------------
(***************************************************************************)
(* do_ntp, and query for each of two hosts: the name, the request, the     *)
(* reply, each with a timeout of its own.                                  *)
(***************************************************************************)
Waits(stage) == doing' = stage /\ left' = NTP_TIMEOUT

BeginNtp ==
    /\ doing = "idle" /\ ready /\ first /\ Due("ntp")
    /\ Waits("dns") /\ query' = [query EXCEPT !.host = 1]
    /\ UNCHANGED <<now, net, config, jobs, plain, shown, tried, silence, history>>

Resolved ==
    /\ doing = "dns" /\ Waits("send") /\ query' = [query EXCEPT !.sent = now]
    /\ UNCHANGED <<now, net, config, jobs, plain, shown, tried, silence, history>>
Sent ==
    /\ doing = "send" /\ Waits("recv")
    /\ UNCHANGED <<now, net, config, query, jobs, plain, shown, tried, silence, history>>

RETRIES == 5
MinTimesFailures(failures) == NTP_RETRY_MIN * Lesser(failures, RETRIES)   \* mutant
PowerOfTwo == [n \in 0 .. RETRIES |-> <<1, 2, 4, 8, 16, 32>>[n + 1]]
Doubling(failures) == NTP_RETRY_MIN * PowerOfTwo[Lesser(failures, RETRIES)]
Backoff(failures) == Lesser(Doubling(failures), NTP_RETRY_MAX)

(* No name, no route, no reply in time, or a reply that is not one.        *)
QueryFails ==
    /\ doing \in {"dns", "send", "recv"}
    /\ IF query.host = 1
       THEN /\ Waits("dns") /\ query' = [query EXCEPT !.host = 2]
            /\ UNCHANGED <<jobs, tried, silence>>
       ELSE /\ Rounds /\ query' = [host |-> 1, sent |-> 0] /\ tried' = tried \cup {"ntp"}
            /\ jobs' = [jobs EXCEPT !.ntp = FailedJob("ntp", Backoff(jobs.ntp.failures))]
    /\ UNCHANGED <<now, net, config, plain, shown, history>>

HalfTrip(sent) == (now - sent) \div 2

(* The server sent the reply at the tick `at'; zero seconds are refused.   *)
Replied(at) ==
    /\ doing = "recv" /\ Stamp(base + at) # 0
    /\ Rounds /\ query' = [host |-> 1, sent |-> 0] /\ tried' = tried \cup {"ntp"}
    /\ jobs' = [jobs EXCEPT !.ntp = Ok(NTP_RESYNC)]
    /\ LET unix == UnixOf(Stamp(base + at)) + HalfTrip(query.sent)
       IN  /\ clock' = unix - now
           /\ wall' = Greater(Greater(unix + config.zone, 0) - now, 0)
    /\ synced' = config.zone
    /\ UNCHANGED <<now, net, config, plain, weather, history>>

-----------------------------------------------------------------------------
(***************************************************************************)
(* do_weather and do_message.                                              *)
(***************************************************************************)
FetchLimit == FETCH_TIMEOUT

BeginWeather ==
    /\ doing = "idle" /\ ready /\ first /\ ~Due("ntp") /\ Due("weather")
    /\ doing' = "weather" /\ left' = FetchLimit
    /\ UNCHANGED <<now, net, config, query, jobs, plain, shown, tried, silence, history>>
BeginMessage ==
    /\ doing = "idle" /\ ready /\ first /\ ~Due("ntp") /\ ~Due("weather") /\ Due("message")
    /\ doing' = "message" /\ left' = FetchLimit
    /\ UNCHANGED <<now, net, config, query, jobs, plain, shown, tried, silence, history>>

WeatherCame ==
    /\ doing = "weather" /\ Rounds /\ tried' = tried \cup {"weather"}
    /\ jobs' = [jobs EXCEPT !.weather = Ok(WEATHER_REFRESH)]
    /\ weather' = config.place
    /\ UNCHANGED <<now, net, config, query, plain, clock, wall, synced, history>>
WeatherFails(tls) ==
    /\ doing = "weather" /\ Rounds /\ tried' = tried \cup {"weather"}
    /\ jobs' = [jobs EXCEPT !.weather = FailedJob("weather", WEATHER_RETRY)]
    /\ plain' = (plain \/ tls)
    /\ UNCHANGED <<now, net, config, query, shown, history>>
MessageEnds(job) ==
    /\ doing = "message" /\ Rounds /\ tried' = tried \cup {"message"}
    /\ jobs' = [jobs EXCEPT !.message = job]
    /\ UNCHANGED <<now, net, config, query, plain, shown, history>>

-----------------------------------------------------------------------------
NetworkChanges ==
    /\ Called /\ ready' = ~ready
    /\ UNCHANGED <<now, base, possible, first, page, config, doing, query, left, jobs, plain, shown, tried, silence>>

Wanted == IF config.local THEN JobNames \ {"message"} ELSE JobNames
Unhindered == ready /\ first /\ doing # "ota"

(* Ten seconds pass; the idle loop comes round forty times in them.        *)
Tick ==
    /\ now < NOW_MAX /\ now' = now + 1
    /\ doing = "idle" => ~(ready /\ first /\ \E name \in JobNames : Due(name))
    /\ doing \in {"idle", "ota"} \/ left > 0
    /\ left' = IF left > 0 THEN left - 1 ELSE 0
    /\ silence' = IF doing \in {"idle", "ota"} THEN 0 ELSE silence + 1
    /\ waited' = IF Unhindered /\ ~Wanted \subseteq tried THEN waited + 1 ELSE 0
    /\ UNCHANGED <<net, config, doing, query, jobs, plain, shown, tried, calls>>

AnyEnd == \E proved \in BOOLEAN : OtaEnds(proved)
AnySave == \E new \in Configs, otherUrl \in BOOLEAN : Save(new, otherUrl)
AnyReply == \E at \in query.sent .. now : Replied(at)
AnyFailure == \E tls \in {TRUE, FALSE} : WeatherFails(tls)
AnyMessage == \E job \in {Ok(MESSAGE_REFRESH), FailedJob("message", MESSAGE_RETRY)} : MessageEnds(job)
Next ==
    \/ OtaBegins \/ AnyEnd \/ AnySave
    \/ BeginNtp \/ Resolved \/ Sent \/ QueryFails \/ AnyReply
    \/ BeginWeather \/ WeatherCame \/ AnyFailure
    \/ BeginMessage \/ AnyMessage
    \/ NetworkChanges \/ Tick

Spec == Init /\ [][Next]_vars

-----------------------------------------------------------------------------
(***************************************************************************)
(* The calendar, counted year by year: the reference of civil.rs.          *)
(***************************************************************************)
Leap(y) == y % 4 = 0 /\ (y % 100 # 0 \/ y % 400 = 0)
DaysInMonth(y, m) == IF m = 2 THEN IF Leap(y) THEN 29 ELSE 28
                     ELSE IF m \in {4, 6, 9, 11} THEN 30 ELSE 31
DaysBefore == [m \in 1 .. 12 |-> <<0, 31, 59, 90, 120, 151, 181, 212, 243, 273, 304, 334>>[m]]
LeapYears(y) == {z \in 1970 .. y - 1 : Leap(z)}
IsDate(date, days) ==
    LET y == date[1]
        m == date[2]
    IN  /\ m \in 1 .. 12 /\ date[3] \in 1 .. DaysInMonth(y, m)
        /\ days = 365 * (y - 1970) + Cardinality(LeapYears(y))
                  + DaysBefore[m] + (IF Leap(y) /\ m > 2 THEN 1 ELSE 0) + date[3] - 1

Jobs == [next : Nat, failures : Nat]
(* Every variable has its type, and a job that failed is tried again in    *)
(* the time its constants allow: an NTP retry at most NTP_RETRY_MAX later. *)
TypeOK ==
    /\ now \in 0 .. NOW_MAX /\ base \in Bases /\ config \in Configs
    /\ {ready, possible, first, page, plain} \subseteq BOOLEAN
    /\ doing \in {"idle", "ota", "dns", "send", "recv", "weather", "message"}
    /\ query \in [host : {1, 2}, sent : 0 .. now]
    /\ left \in 0 .. Greater(NTP_TIMEOUT, FETCH_TIMEOUT) /\ jobs \in [JobNames -> Jobs]
    /\ jobs.ntp.failures > 0 => jobs.ntp.next <= now + NTP_RETRY_MAX
    /\ clock \in Nat \cup {NotYet} /\ wall \in Nat /\ weather \in {c.place : c \in Configs} \cup {None}
    /\ tried \subseteq JobNames /\ synced \in {c.zone : c \in Configs}

(* The clock of the screen is never off by more than one timeout of the    *)
(* query that set it, also when the seconds of NTP begin anew on the way.  *)
ClockIsClose ==
    HasClock => NowUnix(clock) - (base + now) \in -NTP_TIMEOUT .. NTP_TIMEOUT

(* The date on the screen, and the date of a file written then, are the    *)
(* days of the calendar; a file has that of the zone of the last sync.     *)
DateIsRight ==
    HasClock =>
        LET unix == NowUnix(clock)
            screen == FromUnix(unix, config.zone)
            file == FromUnix(wall + now, 0)
        IN  /\ IsDate(screen.date, (unix + config.zone) \div DAY)
            /\ IsDate(file.date, (unix + synced) \div DAY)
            /\ file.time = (unix + synced) % DAY

(* The shown weather is that of the place the page names, whatever saves   *)
(* and fetches came in between.                                            *)
WeatherIsOfPlace == weather # None => weather = config.place

(* A server that never answers does not keep jobs_task from beating.       *)
JobsBeatInTime == silence <= LIMIT

(* While no check and no save comes between, every fetch is tried once in  *)
(* the time NTP from both hosts and the two fetches take: a failing fetch  *)
(* does not crowd out the others.                                          *)
EveryJobIsTried == waited > 6 * NTP_TIMEOUT + 2 * FETCH_TIMEOUT => Wanted \subseteq tried

(* The time and the date on the screen and in the files are right.         *)
ClockIsRight == TypeOK /\ ClockIsClose /\ DateIsRight

(* The fetches that share jobs_task neither silence it nor crowd each      *)
(* other out, and what they show is what was asked for.                    *)
JobsAreSound == WeatherIsOfPlace /\ JobsBeatInTime /\ EveryJobIsTried
=============================================================================
