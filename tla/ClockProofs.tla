----------------------------- MODULE ClockProofs -----------------------------
(***************************************************************************)
(* The clock, the calendar, the schedule of the fetches and the status     *)
(* lines, for every value of the constants: what module MCClock composes   *)
(* is proved of StatusSpec.                                                *)
(***************************************************************************)
EXTENDS MCClock, TLAPS, FiniteSetTheorems, WellFoundedInduction

-----------------------------------------------------------------------------
(***************************************************************************)
(* The calendar: civil_from_days against the years counted one by one.     *)
(***************************************************************************)
LeapsUpTo(y) == y \div 4 - y \div 100 + y \div 400

LEMMA SetInduction ==
  ASSUME NEW T, 0 \in T, \A n \in Nat : n \in T => n + 1 \in T
  PROVE  Nat \subseteq T
<1> DEFINE Out == Nat \ T
           Less == {mn \in Nat \X Nat : mn[1] < mn[2]}
<1>1. IsWellFoundedOn(Less, Nat)
  <2>1. Less = OpToRel(<, Nat)
    BY Zenon DEF OpToRel
  <2> QED
    BY Zenon, <2>1, NatLessThanWellFounded
<1>2. SUFFICES ASSUME Out # {} PROVE FALSE
  OBVIOUS
<1>3. PICK n \in Out : \A m \in Out : ~ (<<m, n>> \in Less)
  BY <1>1, <1>2, WFMin
<1>4. n # 0 /\ n \in Nat /\ n - 1 \in Nat
  OBVIOUS
<1>5. n - 1 \in T
  <2>1. <<n - 1, n>> \in Less
    BY <1>4
  <2> QED
    BY <1>3, <1>4, <2>1
<1> QED
  BY <1>4, <1>5

LEMMA Quot ==
  ASSUME NEW n \in Nat, NEW k \in Nat \ {0}
  PROVE  /\ n \div k \in Nat
         /\ k * (n \div k) <= n /\ n < k * (n \div k) + k
OBVIOUS

LEMMA YearInEra ==
  ASSUME NEW n \in Nat, NEW a \in Nat, NEW b \in Nat, NEW c \in Nat,
         NEW y \in Nat, NEW q \in Nat, NEW p \in Nat, n <= 146096,
         1460 * a <= n, n < 1460 * a + 1460, 36524 * b <= n, n < 36524 * b + 36524,
         146096 * c <= n, n < 146096 * c + 146096,
         365 * y <= n - a + b - c, n - a + b - c < 365 * y + 365,
         4 * q <= y, y < 4 * q + 4, 100 * p <= y, y < 100 * p + 100
  PROVE  /\ y <= 399
         /\ 0 <= n - (365 * y + q - p) /\ n - (365 * y + q - p) <= 365
         /\ n - (365 * y + q - p) = 365 =>
              /\ y + 1 = 4 * q + 4
              /\ (y + 1 = 100 * p + 100 => y = 399)
<1>1. y <= 399
  BY SMTT(30)
<1>2. 0 <= n - (365 * y + q - p)
  BY SMTT(30)
<1>3. n - (365 * y + q - p) <= 365
  BY SMTT(30)
<1>4. n - (365 * y + q - p) = 365 => y + 1 = 4 * q + 4
  BY SMTT(30)
<1>5. n - (365 * y + q - p) = 365 => (y + 1 = 100 * p + 100 => y = 399)
  BY SMTT(30)
<1> QED
  BY <1>1, <1>2, <1>3, <1>4, <1>5

(* The month mp of a year that begins in March, and its first day, fit the *)
(* day doy of that year; the day d of the month m is that day.             *)
MonthFits(doy, mp, s) ==
    /\ doy \in 0 .. 365 /\ mp \in Nat /\ s \in Nat
    /\ 153 * mp <= 5 * doy + 2 /\ 5 * doy + 2 < 153 * mp + 153
    /\ 5 * s <= 153 * mp + 2 /\ 153 * mp + 2 < 5 * s + 5
DayFits(doy, m, d) ==
    /\ m \in 1 .. 12 /\ d \in Int
    /\ m > 2 => doy = DaysBefore[m] - 59 + d - 1 /\ doy < 306
    /\ m <= 2 => doy = DaysBefore[m] + 306 + d - 1
    /\ d \in 1 .. (IF m = 2 THEN 29 ELSE DaysInMonth(1, m))
    /\ (m = 2 /\ d = 29) => doy = 365

LEMMA MonthOfYear ==
  ASSUME NEW doy, NEW mp, NEW s, MonthFits(doy, mp, s)
  PROVE  DayFits(doy, Month(mp), doy - s + 1)
<1> USE DEF MonthFits
<1>1. mp \in 0 .. 11
  BY SMTT(30)
<1>2. mp \in {0, 1, 2, 3, 4, 5, 6, 7, 8, 9, 10, 11}
  BY <1>1
<1>3. /\ DaysBefore[1] = 0 /\ DaysBefore[2] = 31 /\ DaysBefore[3] = 59 /\ DaysBefore[4] = 90
      /\ DaysBefore[5] = 120 /\ DaysBefore[6] = 151 /\ DaysBefore[7] = 181
      /\ DaysBefore[8] = 212 /\ DaysBefore[9] = 243 /\ DaysBefore[10] = 273
      /\ DaysBefore[11] = 304 /\ DaysBefore[12] = 334
  BY DEF DaysBefore
<1> QED
  BY <1>2, <1>3, SMTT(60) DEF DaysInMonth, DayFits, Month

LEMMA LeapsOfEra ==
  ASSUME NEW era \in Nat, NEW yoe \in 0 .. 399
  PROVE  LeapsUpTo(yoe + era * 400) = yoe \div 4 - yoe \div 100 + 97 * era
BY SMTT(60) DEF LeapsUpTo

LEMMA LeapsStep ==
  ASSUME NEW y \in Nat \ {0}
  PROVE  LeapsUpTo(y) = LeapsUpTo(y - 1) + (IF Leap(y) THEN 1 ELSE 0)
BY SMTT(60) DEF LeapsUpTo, Leap

LEMMA LeapsCounted ==
  ASSUME NEW y \in Nat, y >= 1970
  PROVE  Cardinality(LeapYears(y)) = LeapsUpTo(y - 1) - 477
<1> DEFINE T == {n \in Nat : /\ IsFiniteSet(LeapYears(1970 + n))
                            /\ Cardinality(LeapYears(1970 + n)) = LeapsUpTo(1969 + n) - 477}
<1>1. 0 \in T
  <2>1. LeapYears(1970) = {}
    BY DEF LeapYears
  <2>2. LeapsUpTo(1969) = 477
    BY DEF LeapsUpTo
  <2> QED
    BY <2>1, <2>2, FS_EmptySet
<1>2. ASSUME NEW n \in Nat, n \in T PROVE n + 1 \in T
  <2> DEFINE z == 1970 + n
  <2>1. LeapYears(1970 + (n + 1)) = IF Leap(z) THEN LeapYears(z) \cup {z} ELSE LeapYears(z)
    BY DEF LeapYears
  <2>2. z \notin LeapYears(z)
    BY DEF LeapYears
  <2>3. LeapsUpTo(1969 + (n + 1)) = LeapsUpTo(1969 + n) + (IF Leap(z) THEN 1 ELSE 0)
    BY LeapsStep
  <2>4. IsFiniteSet(LeapYears(z)) /\ Cardinality(LeapYears(z)) = LeapsUpTo(1969 + n) - 477
    BY <1>2
  <2>5. LeapsUpTo(1969 + n) \in Int
    BY DEF LeapsUpTo
  <2>6. CASE Leap(z)
    <3>1. /\ IsFiniteSet(LeapYears(z) \cup {z})
          /\ Cardinality(LeapYears(z) \cup {z}) = Cardinality(LeapYears(z)) + 1
      BY <2>2, <2>4, FS_AddElement
    <3> QED
      BY <2>1, <2>3, <2>4, <2>5, <2>6, <3>1
  <2>7. CASE ~Leap(z)
    BY <2>1, <2>3, <2>4, <2>5, <2>7
  <2> QED
    BY <2>6, <2>7
<1>3. y - 1970 \in T
  <2> HIDE DEF T
  <2> QED
    BY <1>1, <1>2, SetInduction
<1> QED
  BY <1>3

(* civil_from_days is right for every day from 1970 on.                    *)
THEOREM CalendarIsRight ==
  ASSUME NEW days \in Nat
  PROVE  IsDate(CivilFromDays(days), days)
<1> DEFINE z == days + 719468
           era == z \div 146097
           doe == z % 146097
           a == doe \div 1460
           b == doe \div 36524
           c == doe \div 146096
           yoe == YearOfEra(doe)
           q == yoe \div 4
           p == yoe \div 100
           doy == DayOfYear(doe, yoe)
           mp == FromMarch(doy)
           s == (153 * mp + 2) \div 5
           m == Month(mp)
           d == doy - s + 1
           Y == yoe + era * 400
           y == Year(Y, m)
<1>1. CivilFromDays(days) = <<y, m, d>>
  BY SMT DEF CivilFromDays, CivilOfEra
<1>2. z \in Nat /\ z = days + 719468
  OBVIOUS
<1>3. /\ era \in Nat /\ doe \in Nat /\ doe <= 146096 /\ z = 146097 * era + doe
  <2> HIDE DEF z
  <2>1. era \in Nat
    BY <1>2, SMT
  <2>2. doe \in Int /\ doe >= 0 /\ doe < 146097
    BY <1>2, SMT
  <2>3. z = 146097 * era + doe
    BY <1>2, SMT
  <2> HIDE DEF era, doe
  <2> QED
    BY <2>1, <2>2, <2>3, SMT
<1> HIDE DEF z, era, doe
<1>4. /\ a \in Nat /\ b \in Nat /\ c \in Nat
      /\ 1460 * a <= doe /\ doe < 1460 * a + 1460 /\ 36524 * b <= doe /\ doe < 36524 * b + 36524
      /\ 146096 * c <= doe /\ doe < 146096 * c + 146096
  BY <1>3, Quot, SMT
<1>5. yoe = (doe - a + b - c) \div 365
  BY SMT DEF YearOfEra
<1> HIDE DEF a, b, c, yoe
<1>6. doe - a + b - c \in Nat
  BY <1>3, <1>4, SMT
<1>7. /\ yoe \in Nat /\ 365 * yoe <= doe - a + b - c /\ doe - a + b - c < 365 * yoe + 365
  BY <1>5, <1>6, Quot, SMT
<1>8. /\ q \in Nat /\ 4 * q <= yoe /\ yoe < 4 * q + 4
      /\ p \in Nat /\ 100 * p <= yoe /\ yoe < 100 * p + 100
  BY <1>7, Quot, SMT
<1>9. doy = doe - (365 * yoe + q - p)
  BY SMT DEF DayOfYear
<1>10. Y \in Nat /\ LeapsUpTo(Y) = q - p + 97 * era
  <2>1. yoe \in 0 .. 399
    BY <1>3, <1>4, <1>7, <1>8, YearInEra, SMT
  <2> QED
    BY <1>3, <2>1, LeapsOfEra, SMTT(30)
<1> HIDE DEF q, p, doy
<1>11. /\ yoe <= 399
       /\ doy \in 0 .. 365
       /\ doy = 365 => yoe + 1 = 4 * q + 4 /\ (yoe + 1 = 100 * p + 100 => yoe = 399)
  BY <1>3, <1>4, <1>7, <1>8, <1>9, YearInEra, SMT
<1>12. /\ mp \in Nat /\ 153 * mp <= 5 * doy + 2 /\ 5 * doy + 2 < 153 * mp + 153
  <2>1. 5 * doy + 2 \in Nat
    BY <1>11, SMT
  <2> QED
    BY <2>1, Quot, SMT DEF FromMarch
<1> HIDE DEF mp
<1>13. s \in Nat /\ 5 * s <= 153 * mp + 2 /\ 153 * mp + 2 < 5 * s + 5
  <2>1. 153 * mp + 2 \in Nat
    BY <1>12, SMT
  <2> QED
    BY <2>1, Quot, SMT
<1> HIDE DEF s
<1>14. MonthFits(doy, mp, s)
  BY <1>11, <1>12, <1>13, SMT DEF MonthFits
<1>15. DayFits(doy, m, d)
  <2> HIDE DEF doy
  <2> QED
    BY <1>14, MonthOfYear, SMT
<1> HIDE DEF m, d
<1>16. /\ m \in 1 .. 12 /\ d \in Int
       /\ m > 2 => doy = DaysBefore[m] - 59 + d - 1 /\ doy < 306
       /\ m <= 2 => doy = DaysBefore[m] + 306 + d - 1
       /\ d \in 1 .. (IF m = 2 THEN 29 ELSE DaysInMonth(1, m))
       /\ (m = 2 /\ d = 29) => doy = 365
  BY <1>15, SMT DEF DayFits
<1>17. Y = yoe + era * 400
  OBVIOUS
<1>18. y = IF m <= 2 THEN Y + 1 ELSE Y
  BY DEF Year
<1> HIDE DEF Y, y
<1>19. days = 365 * (Y - 1970) + LeapsUpTo(Y) - 477 + doy + 59
  BY <1>2, <1>3, <1>7, <1>8, <1>9, <1>10, <1>17, SMT
<1>20. Y >= 1969 /\ (Y = 1969 => doy >= 306)
  BY <1>2, <1>3, <1>7, <1>8, <1>9, <1>10, <1>11, <1>17, SMTT(60)
<1>21. doy = 365 => Leap(Y + 1)
  <2> SUFFICES ASSUME yoe + 1 = 4 * q + 4, yoe + 1 = 100 * p + 100 => yoe = 399
               PROVE  Leap(Y + 1)
    BY <1>11
  <2> QED
    BY <1>3, <1>7, <1>8, <1>17, SMTT(60) DEF Leap
<1>22. y \in Nat /\ y >= 1970 /\ (m <= 2 => y = Y + 1) /\ (m > 2 => y = Y)
  BY <1>10, <1>11, <1>16, <1>18, <1>20, SMT
<1>23. d \in 1 .. DaysInMonth(y, m)
  <2>1. CASE m = 2
    BY <1>11, <1>16, <1>21, <1>22, <2>1, SMT DEF DaysInMonth
  <2>2. CASE m # 2
    BY <1>16, <2>2, SMT DEF DaysInMonth
  <2> QED
    BY <2>1, <2>2
<1>24. Cardinality(LeapYears(y)) = LeapsUpTo(y - 1) - 477
  BY <1>22, LeapsCounted
<1>25. days = 365 * (y - 1970) + Cardinality(LeapYears(y))
                  + DaysBefore[m] + (IF Leap(y) /\ m > 2 THEN 1 ELSE 0) + d - 1
  <2>1. DaysBefore[m] \in Int
    BY <1>16 DEF DaysBefore
  <2>2. LeapsUpTo(Y) \in Int
    BY <1>10, SMT DEF LeapsUpTo
  <2>3. CASE m <= 2
    BY <1>10, <1>16, <1>19, <1>22, <1>24, <2>1, <2>2, <2>3, SMT
  <2>4. CASE m > 2
    <3>1. LeapsUpTo(Y) = LeapsUpTo(Y - 1) + (IF Leap(Y) THEN 1 ELSE 0)
      BY <1>10, <1>20, LeapsStep
    <3>2. LeapsUpTo(Y - 1) \in Int
      BY <1>10, SMT DEF LeapsUpTo
    <3> QED
      BY <1>10, <1>11, <1>16, <1>19, <1>22, <1>24, <2>1, <2>2, <2>4, <3>1, <3>2, SMT
  <2> QED
    BY <1>16, <2>3, <2>4, SMT
<1> QED
  BY <1>1, <1>16, <1>23, <1>25, SMT DEF IsDate

-----------------------------------------------------------------------------
(***************************************************************************)
(* The inductive invariant of the clock and the jobs.                      *)
(***************************************************************************)
Querying == {"dns", "send", "recv"}
Fetching == {"weather", "message"}

(* How long the query has yet to go at most: the stages of this host and   *)
(* all of the other's, each with a timeout of its own.                     *)
QueryLeft ==
    left + (IF doing = "dns" THEN 2 * NTP_TIMEOUT ELSE IF doing = "send" THEN NTP_TIMEOUT ELSE 0)
         + (IF query.host = 1 THEN 3 * NTP_TIMEOUT ELSE 0)

(* Every wait is bounded by a timeout, and what jobs_task has not beaten   *)
(* for by those of one query or one fetch.                                 *)
WaitsEnd ==
    /\ doing \in {"idle", "ota"} => left = 0 /\ silence = 0
    /\ doing \in Querying => left <= NTP_TIMEOUT /\ silence + QueryLeft <= 6 * NTP_TIMEOUT
    /\ doing \in Fetching => left <= FETCH_TIMEOUT /\ silence + left <= FETCH_TIMEOUT
    /\ doing = "send" => now - query.sent + left <= NTP_TIMEOUT
    /\ doing = "recv" => now - query.sent + left <= 2 * NTP_TIMEOUT

(* The clock is off by one timeout at most, and the card's has the zone of *)
(* the same reply.                                                         *)
ClockInStep ==
    /\ HasClock => clock - base \in -NTP_TIMEOUT .. NTP_TIMEOUT /\ wall = clock + synced
    /\ silence \in Nat /\ waited \in Nat

(* A job that has not been tried is due at once, and they are first tried  *)
(* in the order in which jobs_task asks for them.                          *)
FirstTries ==
    /\ \A name \in JobNames \ tried : jobs[name].next <= now
    /\ doing = "weather" => "ntp" \in tried
    /\ doing = "message" => {"ntp", "weather"} \subseteq tried

(* The time after which every job has been tried, if no check, no save and *)
(* no change of the network comes between.                                 *)
DueBy(name, time) == jobs[name].next <= Lesser(time, NOW_MAX)
Then(due, ticks) == IF due THEN ticks ELSE 0
QueryTries == QueryLeft + Then(DueBy("weather", now + QueryLeft), FETCH_TIMEOUT) + FETCH_TIMEOUT
WeatherTries(ticks) == ticks + Then(DueBy("ntp", now + ticks), 6 * NTP_TIMEOUT) + FETCH_TIMEOUT
IdleTries ==
    IF DueBy("ntp", now)
    THEN 6 * NTP_TIMEOUT + Then(DueBy("weather", now + 6 * NTP_TIMEOUT), FETCH_TIMEOUT) + FETCH_TIMEOUT
    ELSE IF DueBy("weather", now) THEN WeatherTries(FETCH_TIMEOUT) ELSE FETCH_TIMEOUT
TriesLeft ==
    IF doing \in Querying THEN QueryTries
    ELSE IF doing = "weather" THEN WeatherTries(left)
    ELSE IF doing = "message" THEN left ELSE IdleTries
TriesInTime ==
    /\ ~Unhindered => waited = 0
    /\ Unhindered /\ ~Wanted \subseteq tried => waited + TriesLeft <= 6 * NTP_TIMEOUT + 2 * FETCH_TIMEOUT

ClockInv == TypeOK /\ WaitsEnd /\ ClockInStep /\ FirstTries /\ WeatherIsOfPlace /\ TriesInTime

LEMMA Constants ==
  /\ DAY \in Nat \ {0} /\ ERA \in Nat \ {0} /\ NTP_TIMEOUT \in Nat \ {0}
  /\ FETCH_TIMEOUT \in Nat \ {0} /\ NTP_RETRY_MIN \in Nat \ {0} /\ NOW_MAX \in Nat \ {0}
  /\ OFFSET \in Nat /\ NTP_RESYNC \in Nat /\ NTP_RETRY_MAX \in Nat /\ WEATHER_REFRESH \in Nat
  /\ WEATHER_RETRY \in Nat /\ MESSAGE_REFRESH \in Nat /\ MESSAGE_RETRY \in Nat
  /\ LIMIT \in Nat /\ MaxCalls \in Nat
BY ClockAssumption

LEMMA BackoffInTime ==
  ASSUME NEW n \in Nat
  PROVE  /\ Backoff(n) \in Nat
         /\ NTP_RETRY_MIN <= Backoff(n) /\ Backoff(n) <= NTP_RETRY_MAX
<1> DEFINE e == Lesser(n, RETRIES)
<1>1. e \in {0, 1, 2, 3, 4, 5}
  BY DEF Lesser, RETRIES
<1>2. PowerOfTwo[e] \in {1, 2, 4, 8, 16, 32}
  BY <1>1 DEF PowerOfTwo, RETRIES
<1>3. Doubling(n) \in Nat /\ NTP_RETRY_MIN <= Doubling(n)
  <2> DEFINE w == PowerOfTwo[e]
  <2>1. Doubling(n) = NTP_RETRY_MIN * w
    BY DEF Doubling
  <2> HIDE DEF w
  <2> QED
    <3> USE <2>1, Constants
    <3>1. CASE w = 1
      BY <3>1
    <3>2. CASE w = 2
      BY <3>2
    <3>3. CASE w = 4
      BY <3>3
    <3>4. CASE w = 8
      BY <3>4
    <3>5. CASE w = 16
      BY <3>5
    <3>6. CASE w = 32
      BY <3>6
    <3> QED
      BY <1>2, <3>1, <3>2, <3>3, <3>4, <3>5, <3>6, Zenon DEF w
<1> QED
  BY <1>3, Constants, ClockAssumption DEF Backoff, Lesser

(* n % k of a number with two periods at most.                             *)
LEMMA OnePeriod ==
  ASSUME NEW n \in Nat, NEW k \in Nat \ {0}, n < k + k
  PROVE  n % k = IF n < k THEN n ELSE n - k
<1> DEFINE q == n \div k
           r == n % k
<1>1. q \in Int /\ r \in Int /\ 0 <= r /\ r < k /\ 0 <= q
  OBVIOUS
<1>2. n = k * q + r
  OBVIOUS
<1> HIDE DEF q, r
<1>3. q < 2
  <2> SUFFICES ASSUME q >= 2 PROVE FALSE
    BY <1>1
  <2>1. k * q = k * (q - 2) + k + k /\ k * (q - 2) >= 0
    BY <1>1
  <2> QED
    BY <1>1, <1>2, <2>1
<1>4. CASE q = 0
  BY <1>1, <1>2, <1>4 DEF r
<1>5. CASE q = 1
  BY <1>1, <1>2, <1>5 DEF r
<1> QED
  BY <1>1, <1>3, <1>4, <1>5

(* The seconds of a reply are read as the time the server sent it at, also *)
(* when they begin anew.                                                   *)
LEMMA UnixOfStamp ==
  ASSUME NEW b \in Bases, NEW sent \in 0 .. NOW_MAX
  PROVE  UnixOf(Stamp(b + sent)) = b + sent
<1> DEFINE n == b + sent + OFFSET
           h == ERA \div 2
<1>1. n \in Nat /\ h \in Nat /\ 2 * h <= ERA /\ ERA <= 2 * h + 1 /\ h <= n /\ n < ERA + h /\ b \in Nat
  BY Constants, ClockAssumption
<1>2. Stamp(b + sent) = IF n < ERA THEN n ELSE n - ERA
  <2>1. Stamp(b + sent) = n % ERA
    BY DEF Stamp
  <2> HIDE DEF n, h
  <2> QED
    <3>1. n \in Nat /\ n < ERA + ERA
      BY <1>1, Constants
    <3>2. n % ERA = IF n < ERA THEN n ELSE n - ERA
      BY <3>1, Constants, OnePeriod, Zenon
    <3> QED
      BY <2>1, <3>2, Zenon
<1>3. UnixOf(Stamp(b + sent)) = (IF Stamp(b + sent) >= h THEN Stamp(b + sent) ELSE Stamp(b + sent) + ERA) - OFFSET
  BY DEF UnixOf
<1> HIDE DEF h
<1> QED
  BY <1>1, <1>2, <1>3, Constants

LEMMA InitInv == Init => ClockInv
<1> SUFFICES ASSUME Init PROVE ClockInv
  OBVIOUS
<1> USE Constants, ClockAssumption DEF Init
<1>1. TypeOK
  <2>1. now \in 0 .. NOW_MAX /\ base \in Bases /\ config \in Configs
    OBVIOUS
  <2>2. {ready, possible, first, page, plain} \subseteq BOOLEAN
    OBVIOUS
  <2>3. query \in [host : {1, 2}, sent : 0 .. now]
    OBVIOUS
  <2>4. left \in 0 .. Greater(NTP_TIMEOUT, FETCH_TIMEOUT)
    BY DEF Greater
  <2>5. jobs \in [JobNames -> Jobs]
    BY DEF JobNames, Jobs
  <2>6. jobs.ntp.failures > 0 => jobs.ntp.next <= now + NTP_RETRY_MAX
    BY DEF JobNames
  <2>7. clock \in Nat \cup {NotYet} /\ wall \in Nat /\ weather \in {c.place : c \in Configs} \cup {None}
    OBVIOUS
  <2>8. tried \subseteq JobNames /\ synced \in {c.zone : c \in Configs}
    BY DEF JobNames
  <2> QED
    BY <2>1, <2>2, <2>3, <2>4, <2>5, <2>6, <2>7, <2>8 DEF TypeOK
<1>2. WaitsEnd
  BY DEF WaitsEnd, Querying, Fetching
<1>3. ClockInStep
  BY DEF ClockInStep, HasClock
<1>4. FirstTries
  BY DEF FirstTries, JobNames
<1>5. WeatherIsOfPlace
  BY DEF WeatherIsOfPlace
<1>6. TriesInTime
  BY DEF TriesInTime, Unhindered
<1> QED
  BY <1>1, <1>2, <1>3, <1>4, <1>5, <1>6 DEF ClockInv

LEMMA Unchanged == ClockInv /\ UNCHANGED vars => ClockInv'
<1> SUFFICES ASSUME ClockInv, UNCHANGED vars PROVE ClockInv'
  OBVIOUS
<1> QED
  BY DEF ClockInv, vars, net, shown, history, TypeOK, WaitsEnd, Querying, Fetching, QueryLeft,
       ClockInStep,
         HasClock, FirstTries, WeatherIsOfPlace, TriesInTime, TriesLeft, QueryTries, WeatherTries, IdleTries, DueBy, Then, Unhindered,
         Wanted, Due

LEMMA OtaBeginsInv ==
  ASSUME ClockInv, OtaBegins
  PROVE  ClockInv'
<1> USE Constants DEF OtaBegins, Called, net, shown, history, ClockInv
<1>1. TypeOK'
  BY ClockAssumption DEF TypeOK, JobNames, Jobs, Greater, None, Ok, FailedJob, In, Lesser
<1>2. WaitsEnd'
  BY DEF TypeOK, WaitsEnd, ClockInStep, Querying, Fetching, QueryLeft, Greater
<1>3. ClockInStep'
  BY DEF TypeOK, WaitsEnd, ClockInStep, HasClock
<1>4. FirstTries'
  BY DEF TypeOK, FirstTries, JobNames, Jobs
<1>5. WeatherIsOfPlace'
  BY DEF TypeOK, WeatherIsOfPlace
<1>6. TriesInTime'
  BY ScheduleAssumption DEF TypeOK, WaitsEnd, ClockInStep, FirstTries, JobNames, Jobs, Querying,
       Fetching, QueryLeft, TriesInTime, TriesLeft, QueryTries, WeatherTries, IdleTries, DueBy,
       Then, Unhindered, Wanted, Ok, FailedJob, In, Lesser
<1> QED
  BY <1>1, <1>2, <1>3, <1>4, <1>5, <1>6

LEMMA OtaEndsInv ==
  ASSUME ClockInv, NEW proved \in BOOLEAN, OtaEnds(proved)
  PROVE  ClockInv'
<1> USE Constants DEF OtaEnds, Rounds, net, shown, history, ClockInv
<1>1. TypeOK'
  BY ClockAssumption DEF TypeOK, JobNames, Jobs, Greater, None, Ok, FailedJob, In, Lesser
<1>2. WaitsEnd'
  BY DEF TypeOK, WaitsEnd, ClockInStep, Querying, Fetching, QueryLeft, Greater
<1>3. ClockInStep'
  BY DEF TypeOK, WaitsEnd, ClockInStep, HasClock
<1>4. FirstTries'
  BY DEF TypeOK, FirstTries, JobNames, Jobs
<1>5. WeatherIsOfPlace'
  BY DEF TypeOK, WeatherIsOfPlace
<1>6. TriesInTime'
  BY ScheduleAssumption DEF TypeOK, WaitsEnd, ClockInStep, FirstTries, JobNames, Jobs, Querying,
       Fetching, QueryLeft, TriesInTime, TriesLeft, QueryTries, WeatherTries, IdleTries, DueBy,
       Then, Unhindered, Wanted, Ok, FailedJob, In, Lesser
<1> QED
  BY <1>1, <1>2, <1>3, <1>4, <1>5, <1>6

LEMMA SaveInv ==
  ASSUME ClockInv, NEW new \in Configs, NEW otherUrl \in BOOLEAN, Save(new, otherUrl)
  PROVE  ClockInv'
<1> USE Constants DEF Save, Called, WeatherAfter, AtOnce, net, shown, history, ClockInv
<1>0. /\ jobs' \in [JobNames -> Jobs] /\ jobs'["ntp"] = jobs["ntp"]
      /\ jobs'["weather"] = jobs["weather"] \/ jobs'["weather"].next = now
      /\ jobs'["message"] = jobs["message"] \/ jobs'["message"].next = now
  <2> DEFINE W == AtOnce(jobs["weather"], new.place # config.place)
             M == AtOnce(jobs["message"], otherUrl \/ (config.local /\ ~new.local))
  <2>1. jobs["weather"] \in Jobs /\ jobs["message"] \in Jobs /\ now \in Nat
    BY DEF TypeOK, JobNames
  <2>2. /\ W \in Jobs /\ M \in Jobs
        /\ W = jobs["weather"] \/ W.next = now
        /\ M = jobs["message"] \/ M.next = now
    BY <2>1 DEF Jobs
  <2>3. jobs' = [jobs EXCEPT !["weather"] = W, !["message"] = M]
    OBVIOUS
  <2> HIDE DEF W, M
  <2> QED
    BY <2>2, <2>3 DEF TypeOK, JobNames
<1>1. TypeOK'
  <2> USE DEF TypeOK
  <2>1. now' \in 0 .. NOW_MAX /\ base' \in Bases /\ config' \in Configs
    OBVIOUS
  <2>2. {ready, possible, first, page, plain}' \subseteq BOOLEAN
    OBVIOUS
  <2>3. /\ doing' \in {"idle", "ota", "dns", "send", "recv", "weather", "message"}
        /\ query' \in [host : {1, 2}, sent : 0 .. now'] /\ (left \in 0 .. Greater(NTP_TIMEOUT, FETCH_TIMEOUT))'
    BY DEF Greater
  <2>5. (jobs.ntp.failures > 0 => jobs.ntp.next <= now + NTP_RETRY_MAX)'
    BY <1>0 DEF JobNames
  <2>6. (weather \in {c.place : c \in Configs} \cup {None})'
    OBVIOUS
  <2>7. (clock \in Nat \cup {NotYet} /\ wall \in Nat /\ tried \subseteq JobNames /\ synced \in {c.zone : c \in Configs})'
    OBVIOUS
  <2> QED
    BY <1>0, <2>1, <2>2, <2>3, <2>5, <2>6, <2>7
<1>2. WaitsEnd'
  BY DEF TypeOK, WaitsEnd, ClockInStep, Querying, Fetching, QueryLeft, Greater
<1>3. ClockInStep'
  BY DEF TypeOK, WaitsEnd, ClockInStep, HasClock
<1>4. FirstTries'
  <2>1. ASSUME NEW name \in JobNames, name \notin tried
        PROVE  jobs'[name].next <= now
    <3>1. jobs[name].next <= now /\ now \in Nat
      BY <2>1 DEF FirstTries, TypeOK
    <3>2. CASE name = "ntp"
      BY <1>0, <3>1, <3>2
    <3>3. CASE name = "weather"
      BY <1>0, <3>1, <3>3
    <3>4. CASE name = "message"
      BY <1>0, <3>1, <3>4
    <3> QED
      BY <3>2, <3>3, <3>4 DEF JobNames
  <2> QED
    BY <2>1 DEF FirstTries
<1>5. WeatherIsOfPlace'
  BY DEF TypeOK, WeatherIsOfPlace
<1>6. TriesInTime'
  BY ScheduleAssumption DEF TypeOK, WaitsEnd, ClockInStep, FirstTries, JobNames, Jobs, Querying,
       Fetching, QueryLeft, TriesInTime, TriesLeft, QueryTries, WeatherTries, IdleTries, DueBy,
       Then, Unhindered, Wanted, Ok, FailedJob, In, Lesser
<1> QED
  BY <1>1, <1>2, <1>3, <1>4, <1>5, <1>6

LEMMA BeginNtpInv ==
  ASSUME ClockInv, BeginNtp
  PROVE  ClockInv'
<1> USE Constants DEF BeginNtp, Waits, Due, net, shown, history, ClockInv
<1>1. TypeOK'
  BY ClockAssumption DEF TypeOK, JobNames, Jobs, Greater, None, Ok, FailedJob, In, Lesser
<1>2. WaitsEnd'
  BY DEF TypeOK, WaitsEnd, ClockInStep, Querying, Fetching, QueryLeft, Greater
<1>3. ClockInStep'
  BY DEF TypeOK, WaitsEnd, ClockInStep, HasClock
<1>4. FirstTries'
  BY DEF TypeOK, FirstTries, JobNames, Jobs
<1>5. WeatherIsOfPlace'
  BY DEF TypeOK, WeatherIsOfPlace
<1>6. TriesInTime'
  BY ScheduleAssumption DEF TypeOK, WaitsEnd, ClockInStep, FirstTries, JobNames, Jobs, Querying,
       Fetching, QueryLeft, TriesInTime, TriesLeft, QueryTries, WeatherTries, IdleTries, DueBy,
       Then, Unhindered, Wanted, Ok, FailedJob, In, Lesser
<1> QED
  BY <1>1, <1>2, <1>3, <1>4, <1>5, <1>6

LEMMA ResolvedInv ==
  ASSUME ClockInv, Resolved
  PROVE  ClockInv'
<1> USE Constants DEF Resolved, Waits, net, shown, history, ClockInv
<1>1. TypeOK'
  BY ClockAssumption DEF TypeOK, JobNames, Jobs, Greater, None, Ok, FailedJob, In, Lesser
<1>2. WaitsEnd'
  BY DEF TypeOK, WaitsEnd, ClockInStep, Querying, Fetching, QueryLeft, Greater
<1>3. ClockInStep'
  BY DEF TypeOK, WaitsEnd, ClockInStep, HasClock
<1>4. FirstTries'
  BY DEF TypeOK, FirstTries, JobNames, Jobs
<1>5. WeatherIsOfPlace'
  BY DEF TypeOK, WeatherIsOfPlace
<1>6. TriesInTime'
  BY ScheduleAssumption DEF TypeOK, WaitsEnd, ClockInStep, FirstTries, JobNames, Jobs, Querying,
       Fetching, QueryLeft, TriesInTime, TriesLeft, QueryTries, WeatherTries, IdleTries, DueBy,
       Then, Unhindered, Wanted, Ok, FailedJob, In, Lesser
<1> QED
  BY <1>1, <1>2, <1>3, <1>4, <1>5, <1>6

LEMMA SentInv ==
  ASSUME ClockInv, Sent
  PROVE  ClockInv'
<1> USE Constants DEF Sent, Waits, net, shown, history, ClockInv
<1>1. TypeOK'
  BY ClockAssumption DEF TypeOK, JobNames, Jobs, Greater, None, Ok, FailedJob, In, Lesser
<1>2. WaitsEnd'
  BY DEF TypeOK, WaitsEnd, ClockInStep, Querying, Fetching, QueryLeft, Greater
<1>3. ClockInStep'
  BY DEF TypeOK, WaitsEnd, ClockInStep, HasClock
<1>4. FirstTries'
  BY DEF TypeOK, FirstTries, JobNames, Jobs
<1>5. WeatherIsOfPlace'
  BY DEF TypeOK, WeatherIsOfPlace
<1>6. TriesInTime'
  BY ScheduleAssumption DEF TypeOK, WaitsEnd, ClockInStep, FirstTries, JobNames, Jobs, Querying,
       Fetching, QueryLeft, TriesInTime, TriesLeft, QueryTries, WeatherTries, IdleTries, DueBy,
       Then, Unhindered, Wanted, Ok, FailedJob, In, Lesser
<1> QED
  BY <1>1, <1>2, <1>3, <1>4, <1>5, <1>6

LEMMA QueryFailsInv ==
  ASSUME ClockInv, QueryFails
  PROVE  ClockInv'
<1> USE Constants DEF QueryFails, Waits, Rounds, net, shown, history, ClockInv
<1>0. CASE query.host = 1
  <2>1. TypeOK'
    BY <1>0 DEF TypeOK, Greater
  <2>2. WaitsEnd'
    BY <1>0 DEF TypeOK, WaitsEnd, ClockInStep, Querying, Fetching, QueryLeft, Greater
  <2>3. ClockInStep'
    BY <1>0 DEF TypeOK, WaitsEnd, ClockInStep, HasClock
  <2>4. FirstTries'
    BY <1>0 DEF TypeOK, FirstTries, JobNames, Jobs
  <2>5. WeatherIsOfPlace'
    BY <1>0 DEF TypeOK, WeatherIsOfPlace
  <2>6. TriesInTime'
    BY <1>0, ScheduleAssumption DEF TypeOK, WaitsEnd, ClockInStep, FirstTries, JobNames, Jobs,
         Querying, Fetching, QueryLeft, TriesInTime, TriesLeft, QueryTries, DueBy, Then,
         Unhindered, Wanted, Lesser, Greater
  <2> QED
    BY <2>1, <2>2, <2>3, <2>4, <2>5, <2>6
<1> SUFFICES ASSUME query.host # 1
             PROVE  ClockInv'
  BY <1>0
<1>7. /\ jobs' \in [JobNames -> Jobs] /\ jobs'["weather"] = jobs["weather"] /\ jobs'["message"] = jobs["message"]
      /\ jobs'["ntp"].next <= now + NTP_RETRY_MAX
      /\ jobs'["ntp"].next > Lesser(now + FETCH_TIMEOUT, NOW_MAX)
  <2> DEFINE J == FailedJob("ntp", Backoff(jobs["ntp"].failures))
             B == Backoff(jobs["ntp"].failures)
  <2>1. jobs["ntp"] \in Jobs /\ now \in Nat
    BY DEF TypeOK, JobNames
  <2>2. B \in Nat /\ NTP_RETRY_MIN <= B /\ B <= NTP_RETRY_MAX
    BY <2>1, BackoffInTime DEF Jobs
  <2>3. jobs' = [jobs EXCEPT !["ntp"] = J]
    OBVIOUS
  <2>4. J = [next |-> In(B), failures |-> jobs["ntp"].failures + 1]
    BY DEF FailedJob
  <2> HIDE DEF J, B
  <2>5. /\ In(B) \in Nat /\ In(B) <= now + NTP_RETRY_MAX /\ In(B) > Lesser(now + FETCH_TIMEOUT, NOW_MAX)
    BY <2>1, <2>2, ScheduleAssumption DEF In, Lesser
  <2>6. J \in Jobs /\ J.next = In(B)
    BY <2>1, <2>4, <2>5 DEF Jobs
  <2> QED
    BY <2>3, <2>5, <2>6 DEF TypeOK, JobNames
<1>1. TypeOK'
  BY <1>7 DEF TypeOK, JobNames, Greater
<1>2. WaitsEnd'
  BY DEF TypeOK, WaitsEnd, ClockInStep, Querying, Fetching, QueryLeft, Greater
<1>3. ClockInStep'
  BY DEF TypeOK, WaitsEnd, ClockInStep, HasClock
<1>4. FirstTries'
  BY <1>7 DEF TypeOK, FirstTries, JobNames, Jobs
<1>5. WeatherIsOfPlace'
  BY DEF TypeOK, WeatherIsOfPlace
<1>6. TriesInTime'
  BY <1>7, ScheduleAssumption DEF TypeOK, WaitsEnd, ClockInStep, FirstTries, JobNames, Jobs,
       Querying, Fetching, QueryLeft, TriesInTime, TriesLeft, QueryTries, WeatherTries,
       IdleTries, DueBy, Then, Unhindered, Wanted, Lesser, Greater
<1> QED
  BY <1>1, <1>2, <1>3, <1>4, <1>5, <1>6

LEMMA RepliedInv ==
  ASSUME ClockInv, NEW tick \in query.sent .. now, Replied(tick)
  PROVE  ClockInv'
<1> USE Constants DEF Replied, Rounds, net, shown, history, ClockInv
<1>0. /\ jobs' \in [JobNames -> Jobs] /\ jobs'["weather"] = jobs["weather"] /\ jobs'["message"] = jobs["message"]
      /\ jobs'["ntp"].failures = 0
      /\ jobs'["ntp"].next > Lesser(now + FETCH_TIMEOUT, NOW_MAX)
  <2> DEFINE J == Ok(NTP_RESYNC)
  <2>1. now \in Nat
    BY DEF TypeOK
  <2>2. J \in Jobs /\ J.failures = 0 /\ J.next > Lesser(now + FETCH_TIMEOUT, NOW_MAX)
    BY <2>1, ScheduleAssumption DEF Ok, In, Lesser, Jobs
  <2>3. jobs' = [jobs EXCEPT !["ntp"] = J]
    OBVIOUS
  <2> HIDE DEF J
  <2> QED
    BY <2>2, <2>3 DEF TypeOK, JobNames
<1>7. /\ clock' \in Nat /\ clock' - base \in -NTP_TIMEOUT .. NTP_TIMEOUT
      /\ wall' \in Nat /\ wall' = clock' + config.zone
  <2> DEFINE u == UnixOf(Stamp(base + tick))
             w == now - query.sent
             h == w \div 2
             z == config.zone
  <2>1. /\ base \in Bases /\ now \in 0 .. NOW_MAX /\ config \in Configs /\ query.sent \in 0 .. now /\ left \in Nat
    BY DEF TypeOK, Greater
  <2>2. u = base + tick
    BY <2>1, UnixOfStamp
  <2>3. w \in Nat /\ w <= 2 * NTP_TIMEOUT
    BY <2>1 DEF WaitsEnd
  <2>4. h \in Nat /\ 2 * h <= w /\ w <= 2 * h + 1
    <3> HIDE DEF w
    <3> QED
      BY <2>3
  <2>5. base \in Nat /\ base >= DAY + NTP_TIMEOUT /\ z \in -DAY .. DAY
    BY <2>1, ClockAssumption
  <2>6. clock' = u + h - now /\ wall' = Greater(Greater(u + h + z, 0) - now, 0)
    <3> DEFINE unix == UnixOf(Stamp(base + tick)) + HalfTrip(query.sent)
    <3>1. clock' = unix - now /\ wall' = Greater(Greater(unix + config.zone, 0) - now, 0)
      BY Zenon
    <3>2. unix = u + h
      BY Zenon DEF HalfTrip
    <3>3. unix + config.zone = u + (h + z) /\ unix - now = u + (h - now)
      BY <2>1, <2>2, <2>4, <2>5, <3>2
    <3>4. u + h + z = u + (h + z)
      BY <2>1, <2>2, <2>4, <2>5
    <3> HIDE DEF unix, u, h, z
    <3> QED
      BY <3>1, <3>3, <3>4, Zenon
  <2> HIDE DEF u, h, z
  <2>7. clock' \in Int /\ clock' = base + tick + h - now
    BY <2>1, <2>2, <2>4, <2>5, <2>6
  <2>8. -NTP_TIMEOUT <= tick + h - now /\ tick + h - now <= NTP_TIMEOUT
    BY <2>1, <2>3, <2>4
  <2>9. clock' + z >= 0
    BY <2>1, <2>4, <2>5, <2>7, <2>8
  <2>10. wall' = clock' + z
    BY <2>1, <2>2, <2>4, <2>5, <2>6, <2>7, <2>9 DEF Greater
  <2> QED
    BY <2>1, <2>4, <2>5, <2>7, <2>8, <2>9, <2>10 DEF z
<1>1. TypeOK'
  BY <1>0, <1>7 DEF TypeOK, JobNames, Greater
<1>2. WaitsEnd'
  BY DEF TypeOK, WaitsEnd, ClockInStep, Querying, Fetching, QueryLeft, Greater
<1>3. ClockInStep'
  BY <1>7 DEF TypeOK, WaitsEnd, ClockInStep, HasClock
<1>4. FirstTries'
  BY <1>0 DEF TypeOK, FirstTries, JobNames, Jobs
<1>5. WeatherIsOfPlace'
  BY DEF TypeOK, WeatherIsOfPlace
<1>6. TriesInTime'
  BY <1>0, ScheduleAssumption DEF TypeOK, WaitsEnd, ClockInStep, FirstTries, JobNames, Jobs,
       Querying, Fetching, QueryLeft, TriesInTime, TriesLeft, QueryTries, WeatherTries,
       IdleTries, DueBy, Then, Unhindered, Wanted, Lesser, Greater
<1> QED
  BY <1>1, <1>2, <1>3, <1>4, <1>5, <1>6

LEMMA BeginWeatherInv ==
  ASSUME ClockInv, BeginWeather
  PROVE  ClockInv'
<1> USE Constants DEF BeginWeather, Due, FetchLimit, net, shown, history, ClockInv
<1>1. TypeOK'
  BY ClockAssumption DEF TypeOK, JobNames, Jobs, Greater, None, Ok, FailedJob, In, Lesser
<1>2. WaitsEnd'
  BY DEF TypeOK, WaitsEnd, ClockInStep, Querying, Fetching, QueryLeft, Greater
<1>3. ClockInStep'
  BY DEF TypeOK, WaitsEnd, ClockInStep, HasClock
<1>4. FirstTries'
  BY DEF TypeOK, FirstTries, JobNames, Jobs
<1>5. WeatherIsOfPlace'
  BY DEF TypeOK, WeatherIsOfPlace
<1>6. TriesInTime'
  BY ScheduleAssumption DEF TypeOK, WaitsEnd, ClockInStep, FirstTries, JobNames, Jobs, Querying,
       Fetching, QueryLeft, TriesInTime, TriesLeft, QueryTries, WeatherTries, IdleTries, DueBy,
       Then, Unhindered, Wanted, Ok, FailedJob, In, Lesser
<1> QED
  BY <1>1, <1>2, <1>3, <1>4, <1>5, <1>6

LEMMA BeginMessageInv ==
  ASSUME ClockInv, BeginMessage
  PROVE  ClockInv'
<1> USE Constants DEF BeginMessage, Due, FetchLimit, net, shown, history, ClockInv
<1>1. TypeOK'
  BY ClockAssumption DEF TypeOK, JobNames, Jobs, Greater, None, Ok, FailedJob, In, Lesser
<1>2. WaitsEnd'
  BY DEF TypeOK, WaitsEnd, ClockInStep, Querying, Fetching, QueryLeft, Greater
<1>3. ClockInStep'
  BY DEF TypeOK, WaitsEnd, ClockInStep, HasClock
<1>4. FirstTries'
  BY DEF TypeOK, FirstTries, JobNames, Jobs
<1>5. WeatherIsOfPlace'
  BY DEF TypeOK, WeatherIsOfPlace
<1>6. TriesInTime'
  BY ScheduleAssumption DEF TypeOK, WaitsEnd, ClockInStep, FirstTries, JobNames, Jobs, Querying,
       Fetching, QueryLeft, TriesInTime, TriesLeft, QueryTries, WeatherTries, IdleTries, DueBy,
       Then, Unhindered, Wanted, Ok, FailedJob, In, Lesser
<1> QED
  BY <1>1, <1>2, <1>3, <1>4, <1>5, <1>6

LEMMA WeatherCameInv ==
  ASSUME ClockInv, WeatherCame
  PROVE  ClockInv'
<1> USE Constants DEF WeatherCame, Rounds, net, shown, history, ClockInv
<1>1. TypeOK'
  BY ClockAssumption DEF TypeOK, JobNames, Jobs, Greater, None, Ok, FailedJob, In, Lesser
<1>2. WaitsEnd'
  BY DEF TypeOK, WaitsEnd, ClockInStep, Querying, Fetching, QueryLeft, Greater
<1>3. ClockInStep'
  BY DEF TypeOK, WaitsEnd, ClockInStep, HasClock
<1>4. FirstTries'
  BY DEF TypeOK, FirstTries, JobNames, Jobs
<1>5. WeatherIsOfPlace'
  BY DEF TypeOK, WeatherIsOfPlace
<1>6. TriesInTime'
  BY ScheduleAssumption DEF TypeOK, WaitsEnd, ClockInStep, FirstTries, JobNames, Jobs, Querying,
       Fetching, QueryLeft, TriesInTime, TriesLeft, QueryTries, WeatherTries, IdleTries, DueBy,
       Then, Unhindered, Wanted, Ok, FailedJob, In, Lesser
<1> QED
  BY <1>1, <1>2, <1>3, <1>4, <1>5, <1>6

LEMMA WeatherFailsInv ==
  ASSUME ClockInv, NEW tls \in BOOLEAN, WeatherFails(tls)
  PROVE  ClockInv'
<1> USE Constants DEF WeatherFails, Rounds, net, shown, history, ClockInv
<1>1. TypeOK'
  BY ClockAssumption DEF TypeOK, JobNames, Jobs, Greater, None, Ok, FailedJob, In, Lesser
<1>2. WaitsEnd'
  BY DEF TypeOK, WaitsEnd, ClockInStep, Querying, Fetching, QueryLeft, Greater
<1>3. ClockInStep'
  BY DEF TypeOK, WaitsEnd, ClockInStep, HasClock
<1>4. FirstTries'
  BY DEF TypeOK, FirstTries, JobNames, Jobs
<1>5. WeatherIsOfPlace'
  BY DEF TypeOK, WeatherIsOfPlace
<1>6. TriesInTime'
  BY ScheduleAssumption DEF TypeOK, WaitsEnd, ClockInStep, FirstTries, JobNames, Jobs, Querying,
       Fetching, QueryLeft, TriesInTime, TriesLeft, QueryTries, WeatherTries, IdleTries, DueBy,
       Then, Unhindered, Wanted, Ok, FailedJob, In, Lesser
<1> QED
  BY <1>1, <1>2, <1>3, <1>4, <1>5, <1>6

LEMMA MessageEndsInv ==
  ASSUME ClockInv, NEW job \in {Ok(MESSAGE_REFRESH), FailedJob("message", MESSAGE_RETRY)}, MessageEnds(job)
  PROVE  ClockInv'
<1> USE Constants DEF MessageEnds, Rounds, net, shown, history, ClockInv
<1>1. TypeOK'
  BY ClockAssumption DEF TypeOK, JobNames, Jobs, Greater, None, Ok, FailedJob, In, Lesser
<1>2. WaitsEnd'
  BY DEF TypeOK, WaitsEnd, ClockInStep, Querying, Fetching, QueryLeft, Greater
<1>3. ClockInStep'
  BY DEF TypeOK, WaitsEnd, ClockInStep, HasClock
<1>4. FirstTries'
  BY DEF TypeOK, FirstTries, JobNames, Jobs
<1>5. WeatherIsOfPlace'
  BY DEF TypeOK, WeatherIsOfPlace
<1>6. TriesInTime'
  BY ScheduleAssumption DEF TypeOK, WaitsEnd, ClockInStep, FirstTries, JobNames, Jobs, Querying,
       Fetching, QueryLeft, TriesInTime, TriesLeft, QueryTries, WeatherTries, IdleTries, DueBy,
       Then, Unhindered, Wanted, Ok, FailedJob, In, Lesser
<1> QED
  BY <1>1, <1>2, <1>3, <1>4, <1>5, <1>6

LEMMA NetworkInv ==
  ASSUME ClockInv, NetworkChanges
  PROVE  ClockInv'
<1> USE Constants DEF NetworkChanges, Called, net, shown, history, ClockInv
<1>1. TypeOK'
  BY ClockAssumption DEF TypeOK, JobNames, Jobs, Greater, None, Ok, FailedJob, In, Lesser
<1>2. WaitsEnd'
  BY DEF TypeOK, WaitsEnd, ClockInStep, Querying, Fetching, QueryLeft, Greater
<1>3. ClockInStep'
  BY DEF TypeOK, WaitsEnd, ClockInStep, HasClock
<1>4. FirstTries'
  BY DEF TypeOK, FirstTries, JobNames, Jobs
<1>5. WeatherIsOfPlace'
  BY DEF TypeOK, WeatherIsOfPlace
<1>6. TriesInTime'
  BY ScheduleAssumption DEF TypeOK, WaitsEnd, ClockInStep, FirstTries, JobNames, Jobs, Querying,
       Fetching, QueryLeft, TriesInTime, TriesLeft, QueryTries, WeatherTries, IdleTries, DueBy,
       Then, Unhindered, Wanted, Ok, FailedJob, In, Lesser
<1> QED
  BY <1>1, <1>2, <1>3, <1>4, <1>5, <1>6

LEMMA TickInv ==
  ASSUME ClockInv, Tick
  PROVE  ClockInv'
<1> USE Constants DEF Tick, Due, net, shown, history, ClockInv
<1>1. TypeOK'
  BY ClockAssumption DEF TypeOK, JobNames, Jobs, Greater, None, Ok, FailedJob, In, Lesser
<1>2. WaitsEnd'
  BY DEF TypeOK, WaitsEnd, ClockInStep, Querying, Fetching, QueryLeft, Greater
<1>3. ClockInStep'
  BY DEF TypeOK, WaitsEnd, ClockInStep, HasClock
<1>4. FirstTries'
  BY DEF TypeOK, FirstTries, JobNames, Jobs
<1>5. WeatherIsOfPlace'
  BY DEF TypeOK, WeatherIsOfPlace
<1>6. TriesInTime'
  BY ScheduleAssumption DEF TypeOK, WaitsEnd, ClockInStep, FirstTries, JobNames, Jobs, Querying,
       Fetching, QueryLeft, TriesInTime, TriesLeft, QueryTries, WeatherTries, IdleTries, DueBy,
       Then, Unhindered, Wanted, Ok, FailedJob, In, Lesser
<1> QED
  BY <1>1, <1>2, <1>3, <1>4, <1>5, <1>6

LEMMA ClockStep == ClockInv /\ [Next]_vars => ClockInv'
<1> SUFFICES ASSUME ClockInv, [Next]_vars PROVE ClockInv'
  OBVIOUS
<1>1. CASE OtaBegins
  BY <1>1, OtaBeginsInv
<1>2. CASE AnyEnd
  BY <1>2, OtaEndsInv DEF AnyEnd
<1>3. CASE AnySave
  BY <1>3, SaveInv DEF AnySave
<1>4. CASE BeginNtp
  BY <1>4, BeginNtpInv
<1>5. CASE Resolved
  BY <1>5, ResolvedInv
<1>6. CASE Sent
  BY <1>6, SentInv
<1>7. CASE QueryFails
  BY <1>7, QueryFailsInv
<1>8. CASE AnyReply
  BY <1>8, RepliedInv DEF AnyReply
<1>9. CASE BeginWeather
  BY <1>9, BeginWeatherInv
<1>10. CASE WeatherCame
  BY <1>10, WeatherCameInv
<1>11. CASE AnyFailure
  BY <1>11, WeatherFailsInv DEF AnyFailure
<1>12. CASE BeginMessage
  BY <1>12, BeginMessageInv
<1>13. CASE AnyMessage
  BY <1>13, MessageEndsInv DEF AnyMessage
<1>14. CASE NetworkChanges
  BY <1>14, NetworkInv
<1>15. CASE Tick
  BY <1>15, TickInv
<1>16. CASE UNCHANGED vars
  BY <1>16, Unchanged
<1> QED
  BY <1>1, <1>2, <1>3, <1>4, <1>5, <1>6, <1>7, <1>8, <1>9, <1>10, <1>11, <1>12, <1>13, <1>14,
       <1>15, <1>16, Zenon DEF Next

LEMMA ClockInvIsRight == ClockInv => ClockIsRight
<1> SUFFICES ASSUME ClockInv PROVE ClockIsRight
  OBVIOUS
<1>1. TypeOK
  BY DEF ClockInv
<1>2. ClockIsClose
  <2> SUFFICES ASSUME HasClock PROVE NowUnix(clock) - (base + now) \in -NTP_TIMEOUT .. NTP_TIMEOUT
    BY DEF ClockIsClose
  <2>1. clock \in Int /\ base \in Int /\ now \in Int /\ clock - base \in -NTP_TIMEOUT .. NTP_TIMEOUT
    BY <1>1, ClockAssumption DEF ClockInv, ClockInStep, TypeOK, HasClock
  <2> QED
    BY <2>1, Constants DEF NowUnix
<1>3. DateIsRight
  <2> SUFFICES ASSUME HasClock PROVE DateIsRight
    BY DEF DateIsRight
  <2> DEFINE unix == NowUnix(clock)
             zone == config.zone
             here == (unix + zone) \div DAY
             there == (unix + synced) \div DAY
  <2>1. /\ clock \in Nat /\ base \in Bases /\ base \in Nat /\ base >= DAY + NTP_TIMEOUT /\ now \in Nat
        /\ clock - base >= -NTP_TIMEOUT /\ wall = clock + synced
    BY <1>1, Constants, ClockAssumption DEF ClockInv, ClockInStep, TypeOK, HasClock
  <2>2. zone \in -DAY .. DAY /\ synced \in -DAY .. DAY
    BY <1>1, ClockAssumption DEF TypeOK
  <2>3. unix = clock + now
    BY DEF NowUnix
  <2> HIDE DEF unix, zone
  <2>4. unix + zone \in Nat /\ unix + synced \in Nat /\ wall + now + 0 = unix + synced
    BY <2>1, <2>2, <2>3, Constants
  <2>5. here \in Nat /\ there \in Nat
    BY <2>4, Quot, Constants
  <2>6. FromUnix(unix, zone).date = CivilFromDays(here)
    BY Zenon DEF FromUnix
  <2>7. /\ FromUnix(wall + now, 0).date = CivilFromDays(there)
        /\ FromUnix(wall + now, 0).time = (unix + synced) % DAY
    BY <2>4, Zenon DEF FromUnix
  <2>8. IsDate(CivilFromDays(here), here) /\ IsDate(CivilFromDays(there), there)
    BY <2>5, CalendarIsRight, Zenon
  <2> QED
    BY <2>6, <2>7, <2>8, Zenon DEF DateIsRight, unix, zone
<1> QED
  BY <1>1, <1>2, <1>3 DEF ClockIsRight

LEMMA ClockInvIsSound == ClockInv => JobsAreSound
<1> SUFFICES ASSUME ClockInv PROVE JobsAreSound
  OBVIOUS
<1> USE DEF ClockInv
<1>1. JobsBeatInTime
  BY Constants, ScheduleAssumption DEF JobsBeatInTime, TypeOK, WaitsEnd, ClockInStep, QueryLeft,
       Querying, Fetching, Greater
<1>2. EveryJobIsTried
  <2>1. TriesLeft \in Nat
    BY Constants DEF TypeOK, TriesLeft, QueryTries, WeatherTries, IdleTries, Then, QueryLeft,
         Greater
  <2>2. waited \in Nat
    BY DEF ClockInStep
  <2> QED
    BY <2>1, <2>2, Constants DEF EveryJobIsTried, TriesInTime
<1> QED
  BY <1>1, <1>2 DEF JobsAreSound

-----------------------------------------------------------------------------
(***************************************************************************)
(* The status lines: the inductive invariant, and each step.               *)
(***************************************************************************)
WifiTexts == {"", "starting", "no wifi.txt", "power cycle", "connecting", "dhcp", "rejoining", "ip",
              "no IP yet", "join failed", "not connected", "rebooting"}
StatusTypes ==
    /\ until \in [boot : Nat, alert : Nat, diag : Nat, note : Nat, banner : Nat, forced : Nat]
    /\ wifi \in [text : WifiTexts, tone : {"Normal", "Ok", "Busy", "Error"}]
    /\ texts \in [Fetches -> {"---", "busy", "ok", "error", "ok(local)"}]
    /\ ota \in DOMAIN N!OtaTone
    /\ settings \in [listening : BOOLEAN, url : BOOLEAN]
    /\ {local, netReady} \subseteq BOOLEAN
    /\ main \in {"setup", "joining", "waiting", "leaving", "watching", "gone"}
    /\ link \in {"scan", "lost", "failed", "joined"}
    /\ at \in Fetches \cup {"ota", "nothing"}
    /\ owed \in [failure : Nat, code : Nat]

(* What is owed is no more than the deadline that pays it.                 *)
DebtsAreCovered ==
    /\ owed.failure <= until.alert /\ until.alert <= ALERT_SHOW
    /\ owed.code <= until.banner /\ owed.code <= until.forced
    /\ owed.code > 0 => settings.listening

(* No tone is of an error when the next one is told.                       *)
TonesTurn ==
    /\ main = "joining" => wifi.tone = "Normal"
    /\ at = "ota" => ota \in {"Checking", "Downloading", "Verifying"}

StatusInv == StatusTypes /\ DebtsAreCovered /\ TonesTurn /\ N!TextsAreTrue

LEMMA StatusConstants ==
  /\ "MSG" \in Fetches /\ "ota" \notin Fetches /\ "nothing" \notin Fetches
  /\ STATUS_BOOT_SHOW \in Nat /\ ALERT_SHOW \in Nat /\ NOTE_SHOW \in Nat /\ BANNER_SHOW \in Nat
  /\ DIAG_SHOW \subseteq Nat
BY StatusAssumption

LEMMA StatusInitInv == N!NoticesInit => StatusInv
<1> SUFFICES ASSUME N!NoticesInit PROVE StatusInv
  OBVIOUS
<1> USE StatusConstants
<1>1. PICK known \in BOOLEAN, diag \in {0} \cup DIAG_SHOW, note \in {0, NOTE_SHOW} :
        /\ local \in BOOLEAN
        /\ until = [boot |-> STATUS_BOOT_SHOW, alert |-> 0, diag |-> diag, note |-> note,
                    banner |-> 0, forced |-> 0]
        /\ wifi = IF known THEN N!Written("starting", "Normal") ELSE N!Written("no wifi.txt", "Error")
        /\ texts = [j \in Fetches |-> IF j = "MSG" /\ local THEN "ok(local)" ELSE "---"]
        /\ ota \in IF known THEN {"Idle", "Disabled"} ELSE {"Disabled"}
        /\ settings = [listening |-> FALSE, url |-> FALSE]
        /\ main = "setup" /\ link = IF known THEN "lost" ELSE "scan"
        /\ netReady = FALSE /\ at = "nothing" /\ owed = [failure |-> 0, code |-> 0]
  BY Zenon DEF N!NoticesInit
<1>2. ota \in {"Idle", "Disabled"}
  BY <1>1
<1>3. wifi = IF known THEN [text |-> "starting", tone |-> "Normal"] ELSE [text |-> "no wifi.txt", tone |-> "Error"]
  BY <1>1 DEF N!Written
<1>4. StatusTypes
  <2>1. until \in [boot : Nat, alert : Nat, diag : Nat, note : Nat, banner : Nat, forced : Nat]
    <3>1. diag \in Nat /\ note \in Nat
      OBVIOUS
    <3> QED
      BY <1>1, <3>1
  <2>2. wifi \in [text : WifiTexts, tone : {"Normal", "Ok", "Busy", "Error"}]
    BY <1>3 DEF WifiTexts
  <2>3. texts \in [Fetches -> {"---", "busy", "ok", "error", "ok(local)"}]
    BY <1>1
  <2>4. ota \in DOMAIN N!OtaTone
    BY <1>2 DEF N!OtaTone
  <2> QED
    BY <1>1, <2>1, <2>2, <2>3, <2>4 DEF StatusTypes
<1>5. DebtsAreCovered
  <2>1. until.alert = 0 /\ until.banner = 0 /\ until.forced = 0
    BY <1>1
  <2>2. owed.failure = 0 /\ owed.code = 0
    BY <1>1
  <2> QED
    BY <2>1, <2>2 DEF DebtsAreCovered
<1>6. TonesTurn
  BY <1>1 DEF TonesTurn
<1>7. N!TextsAreTrue
  <2>1. \A j \in Fetches : texts[j] # "busy" /\ at # j
    BY <1>1
  <2>2. texts["MSG"] = "ok(local)" <=> local
    BY <1>1
  <2>3. wifi.tone # "Ok" /\ (wifi.tone = "Error" => link = "scan")
    <3>1. CASE known
      BY <1>3, <3>1
    <3>2. CASE ~known
      <4>1. link = "scan"
        BY <1>1, <3>2
      <4> QED
        BY <1>3, <3>2, <4>1
    <3> QED
      BY <3>1, <3>2
  <2> QED
    BY <2>1, <2>2, <2>3 DEF N!TextsAreTrue
<1> QED
  BY <1>4, <1>5, <1>6, <1>7 DEF StatusInv

LEMMA PowerCycleStatus ==
  ASSUME StatusInv, N!PowerCycle
  PROVE  StatusInv'
<1> USE StatusConstants DEF N!PowerCycle, StatusInv
<1>1. StatusTypes'
  BY DEF StatusTypes, WifiTexts, N!OtaTone
<1>2. DebtsAreCovered'
  BY DEF StatusTypes, DebtsAreCovered, TonesTurn
<1>3. TonesTurn'
  BY DEF StatusTypes, TonesTurn
<1>4. N!TextsAreTrue'
  BY DEF StatusTypes, N!TextsAreTrue, TonesTurn
<1> QED
  BY <1>1, <1>2, <1>3, <1>4

LEMMA JoinsStatus ==
  ASSUME StatusInv, N!Joins
  PROVE  StatusInv'
<1> USE StatusConstants DEF N!Joins, N!LinkStatus, N!Written, StatusInv
<1>1. StatusTypes'
  BY DEF StatusTypes, WifiTexts, N!OtaTone
<1>2. DebtsAreCovered'
  BY DEF StatusTypes, DebtsAreCovered, TonesTurn
<1>3. TonesTurn'
  BY DEF StatusTypes, TonesTurn
<1>4. N!TextsAreTrue'
  BY DEF StatusTypes, N!TextsAreTrue, TonesTurn
<1> QED
  BY <1>1, <1>2, <1>3, <1>4

LEMMA JoinWorksStatus ==
  ASSUME StatusInv, N!JoinWorks
  PROVE  StatusInv'
<1> USE StatusConstants DEF N!JoinWorks, N!LinkStatus, N!Written, StatusInv
<1>1. StatusTypes'
  BY DEF StatusTypes, WifiTexts, N!OtaTone
<1>2. DebtsAreCovered'
  BY DEF StatusTypes, DebtsAreCovered, TonesTurn
<1>3. TonesTurn'
  BY DEF StatusTypes, TonesTurn
<1>4. N!TextsAreTrue'
  BY DEF StatusTypes, N!TextsAreTrue, TonesTurn
<1> QED
  BY <1>1, <1>2, <1>3, <1>4

LEMMA DhcpTimesOutStatus ==
  ASSUME StatusInv, N!DhcpTimesOut
  PROVE  StatusInv'
<1> USE StatusConstants DEF N!DhcpTimesOut, N!LinkStatus, N!Written, StatusInv
<1>1. StatusTypes'
  BY DEF StatusTypes, WifiTexts, N!OtaTone
<1>2. DebtsAreCovered'
  BY DEF StatusTypes, DebtsAreCovered, TonesTurn
<1>3. TonesTurn'
  BY DEF StatusTypes, TonesTurn
<1>4. N!TextsAreTrue'
  BY DEF StatusTypes, N!TextsAreTrue, TonesTurn
<1> QED
  BY <1>1, <1>2, <1>3, <1>4

LEMMA StepEndsStatus ==
  ASSUME StatusInv, NEW to \in N!Outcomes[main], NEW ip \in BOOLEAN, NEW photo \in BOOLEAN, main \in DOMAIN N!Outcomes, N!RestOfLoop(to, ip, photo)
  PROVE  StatusInv'
<1> USE StatusConstants DEF N!RestOfLoop, N!WifiAlerts, N!Noted, StatusInv
<1>0. /\ \/ main = "watching" /\ to = link
         \/ main = "joining" /\ to = "failed"
         \/ main = "waiting" /\ to = "joined"
         \/ main = "leaving" /\ to = "lost"
      /\ to \in {"scan", "lost", "failed", "joined"}
  <2>1. main \in {"watching", "joining", "waiting", "leaving"}
    BY DEF N!Outcomes
  <2>2. /\ main = "watching" => to = link
        /\ main = "joining" => to = "failed"
        /\ main = "waiting" => to = "joined"
        /\ main = "leaving" => to = "lost"
    BY DEF N!Outcomes
  <2> QED
    BY <2>1, <2>2 DEF StatusTypes
<1>5. wifi' = IF to = "joined" THEN IF ip THEN [text |-> "ip", tone |-> "Ok"] ELSE [text |-> "no IP yet", tone |-> "Normal"]
              ELSE IF to = "failed" THEN [text |-> "join failed", tone |-> "Error"]
              ELSE IF to = "lost" THEN [text |-> "not connected", tone |-> "Normal"] ELSE wifi
  <2>1. wifi' = N!WifiText(to, ip)
    BY Zenon
  <2>2. CASE to = "joined"
    BY <2>1, <2>2, Zenon DEF N!WifiText, N!Written
  <2>3. CASE to = "failed"
    BY <2>1, <2>3, Zenon DEF N!WifiText, N!Written
  <2>4. CASE to = "lost"
    BY <2>1, <2>4, Zenon DEF N!WifiText, N!Written
  <2>5. CASE to = "scan"
    BY <2>1, <2>5, Zenon DEF N!WifiText, N!Written
  <2> QED
    BY <1>0, <2>2, <2>3, <2>4, <2>5
<1>6. /\ main' = "watching" /\ link' = to /\ netReady' = (to = "joined" /\ ip)
      /\ UNCHANGED <<texts, ota, settings, local, at>>
  BY Zenon
<1>7. /\ until' \in [boot : Nat, alert : Nat, diag : Nat, note : Nat, banner : Nat, forced : Nat]
      /\ until'.alert = IF (to = "failed" /\ wifi.tone # "Error") \/ photo THEN ALERT_SHOW ELSE until.alert
      /\ until'.banner = until.banner /\ until'.forced = until.forced
  <2> DEFINE A == IF N!WifiAlerts(to) \/ photo THEN ALERT_SHOW ELSE until.alert
             B == IF photo THEN ALERT_SHOW ELSE until.note
  <2>1. until' = [until EXCEPT !.note = B, !.alert = A]
    OBVIOUS
  <2>2. A = IF (to = "failed" /\ wifi.tone # "Error") \/ photo THEN ALERT_SHOW ELSE until.alert
    BY Zenon DEF N!WifiAlerts
  <2>3. A \in Nat /\ B \in Nat
    BY <2>2 DEF StatusTypes
  <2> HIDE DEF A, B
  <2> QED
    BY <2>1, <2>2, <2>3 DEF StatusTypes
<1>8. owed' = IF photo \/ main = "joining" THEN [owed EXCEPT !.failure = ALERT_SHOW] ELSE owed
  BY Zenon
<1> HIDE DEF N!RestOfLoop
<1>1. StatusTypes'
  <2>1. wifi' \in [text : WifiTexts, tone : {"Normal", "Ok", "Busy", "Error"}]
    BY <1>5 DEF StatusTypes, WifiTexts
  <2>2. owed' \in [failure : Nat, code : Nat]
    BY <1>8 DEF StatusTypes
  <2> QED
    BY <1>0, <1>6, <1>7, <2>1, <2>2 DEF StatusTypes
<1>2. DebtsAreCovered'
  <2>1. photo \/ main = "joining" => until'.alert = ALERT_SHOW
    BY <1>0, <1>7 DEF TonesTurn
  <2>2. owed'.code = owed.code /\ owed'.failure \in {owed.failure, ALERT_SHOW}
        /\ (owed'.failure # owed.failure => photo \/ main = "joining")
    BY <1>8 DEF StatusTypes
  <2>3. until'.alert \in {until.alert, ALERT_SHOW}
    BY <1>7
  <2> QED
    BY <1>6, <1>7, <2>1, <2>2, <2>3 DEF StatusTypes, DebtsAreCovered
<1>3. TonesTurn'
  BY <1>6 DEF TonesTurn
<1>4. N!TextsAreTrue'
  <2>1. /\ wifi'.tone = "Ok" => wifi'.text = "ip" /\ link' = "joined" /\ main' = "watching"
        /\ wifi'.tone = "Error" => link' \in {"failed", "scan"}
    <3>1. CASE to = "scan"
      <4>1. wifi' = wifi /\ link = "scan" /\ link' = "scan"
        BY <1>0, <1>5, <1>6, <3>1
      <4> QED
        BY <4>1 DEF N!TextsAreTrue
    <3>2. CASE to # "scan"
      BY <1>0, <1>5, <1>6, <3>2
    <3> QED
      BY <3>1, <3>2
  <2> QED
    BY <1>6, <2>1 DEF N!TextsAreTrue
<1> QED
  BY <1>1, <1>2, <1>3, <1>4

LEMMA LeavesStatus ==
  ASSUME StatusInv, N!Leaves
  PROVE  StatusInv'
<1> USE StatusConstants DEF N!Leaves, N!Written, StatusInv
<1>1. StatusTypes'
  BY DEF StatusTypes, WifiTexts, N!OtaTone
<1>2. DebtsAreCovered'
  BY DEF StatusTypes, DebtsAreCovered, TonesTurn
<1>3. TonesTurn'
  BY DEF StatusTypes, TonesTurn
<1>4. N!TextsAreTrue'
  BY DEF StatusTypes, N!TextsAreTrue, TonesTurn
<1> QED
  BY <1>1, <1>2, <1>3, <1>4

LEMMA BeginFetchStatus ==
  ASSUME StatusInv, NEW j \in Fetches, N!BeginFetch(j)
  PROVE  StatusInv'
<1> USE StatusConstants DEF N!BeginFetch, N!Idle, StatusInv
<1>1. StatusTypes'
  BY ZenonT(40) DEF StatusTypes, WifiTexts, N!OtaTone
<1>2. DebtsAreCovered'
  BY DEF StatusTypes, DebtsAreCovered, TonesTurn
<1>3. TonesTurn'
  BY DEF StatusTypes, TonesTurn
<1>4. N!TextsAreTrue'
  BY DEF StatusTypes, N!TextsAreTrue, TonesTurn
<1> QED
  BY <1>1, <1>2, <1>3, <1>4

LEMMA FetchWorksStatus ==
  ASSUME StatusInv, NEW j \in Fetches, N!FetchWorks(j)
  PROVE  StatusInv'
<1> USE StatusConstants DEF N!FetchWorks, N!EndFetch, StatusInv
<1>1. StatusTypes'
  BY ZenonT(40) DEF StatusTypes, WifiTexts, N!OtaTone
<1>2. DebtsAreCovered'
  BY DEF StatusTypes, DebtsAreCovered, TonesTurn
<1>3. TonesTurn'
  BY DEF StatusTypes, TonesTurn
<1>4. N!TextsAreTrue'
  BY DEF StatusTypes, N!TextsAreTrue, TonesTurn
<1> QED
  BY <1>1, <1>2, <1>3, <1>4

LEMMA FetchFailsStatus ==
  ASSUME StatusInv, NEW j \in Fetches, N!FetchFails(j)
  PROVE  StatusInv'
<1> USE StatusConstants DEF N!FetchFails, N!EndFetch, N!RaiseAlert, N!Noted, StatusInv
<1>1. StatusTypes'
  BY ZenonT(40) DEF StatusTypes, WifiTexts, N!OtaTone
<1>2. DebtsAreCovered'
  BY DEF StatusTypes, DebtsAreCovered, TonesTurn
<1>3. TonesTurn'
  BY DEF StatusTypes, TonesTurn
<1>4. N!TextsAreTrue'
  BY DEF StatusTypes, N!TextsAreTrue, TonesTurn
<1> QED
  BY <1>1, <1>2, <1>3, <1>4

LEMMA CheckBeginsStatus ==
  ASSUME StatusInv, N!CheckBegins
  PROVE  StatusInv'
<1> USE StatusConstants DEF N!CheckBegins, N!Idle, N!PublishOta, N!OtaTone, N!RaiseAlert,
     N!Noted, StatusInv
<1>1. StatusTypes'
  BY ZenonT(40) DEF StatusTypes, WifiTexts
<1>2. DebtsAreCovered'
  BY DEF StatusTypes, DebtsAreCovered, TonesTurn
<1>3. TonesTurn'
  BY DEF StatusTypes, TonesTurn
<1>4. N!TextsAreTrue'
  BY DEF StatusTypes, N!TextsAreTrue, TonesTurn
<1> QED
  BY <1>1, <1>2, <1>3, <1>4

LEMMA CheckEndsStatus ==
  ASSUME StatusInv, N!CheckEnds
  PROVE  StatusInv'
<1> USE StatusConstants DEF N!CheckEnds, N!PublishOta, N!OtaTone, N!RaiseAlert, N!Noted, StatusInv
<1>1. StatusTypes'
  BY ZenonT(40) DEF StatusTypes, WifiTexts
<1>2. DebtsAreCovered'
  BY DEF StatusTypes, DebtsAreCovered, TonesTurn
<1>3. TonesTurn'
  BY DEF StatusTypes, TonesTurn
<1>4. N!TextsAreTrue'
  BY DEF StatusTypes, N!TextsAreTrue, TonesTurn
<1> QED
  BY <1>1, <1>2, <1>3, <1>4

LEMMA ListensStatus ==
  ASSUME StatusInv, N!Listens
  PROVE  StatusInv'
<1> USE StatusConstants DEF N!Listens, N!Idle, N!tasks, StatusInv
<1>1. StatusTypes'
  BY DEF StatusTypes, WifiTexts, N!OtaTone
<1>2. DebtsAreCovered'
  BY DEF StatusTypes, DebtsAreCovered, TonesTurn
<1>3. TonesTurn'
  BY DEF StatusTypes, TonesTurn
<1>4. N!TextsAreTrue'
  BY DEF StatusTypes, N!TextsAreTrue, TonesTurn
<1> QED
  BY <1>1, <1>2, <1>3, <1>4

LEMMA PublishUrlStatus ==
  ASSUME StatusInv, N!PublishUrl
  PROVE  StatusInv'
<1> USE StatusConstants DEF N!PublishUrl, N!Idle, N!tasks, StatusInv
<1>1. StatusTypes'
  BY ZenonT(40) DEF StatusTypes, WifiTexts, N!OtaTone
<1>2. DebtsAreCovered'
  BY DEF StatusTypes, DebtsAreCovered, TonesTurn
<1>3. TonesTurn'
  BY DEF StatusTypes, TonesTurn
<1>4. N!TextsAreTrue'
  BY DEF StatusTypes, N!TextsAreTrue, TonesTurn
<1> QED
  BY <1>1, <1>2, <1>3, <1>4

LEMMA ShowCodeStatus ==
  ASSUME StatusInv, N!ShowCode
  PROVE  StatusInv'
<1> USE StatusConstants DEF N!ShowCode, N!Idle, N!tasks, StatusInv
<1>1. StatusTypes'
  BY ZenonT(40) DEF StatusTypes, WifiTexts, N!OtaTone
<1>2. DebtsAreCovered'
  BY DEF StatusTypes, DebtsAreCovered, TonesTurn
<1>3. TonesTurn'
  BY DEF StatusTypes, TonesTurn
<1>4. N!TextsAreTrue'
  BY DEF StatusTypes, N!TextsAreTrue, TonesTurn
<1> QED
  BY <1>1, <1>2, <1>3, <1>4

LEMMA SaveLocalStatus ==
  ASSUME StatusInv, N!Save
  PROVE  StatusInv'
<1> USE StatusConstants DEF N!Save, N!Idle, N!tasks, N!MessageText, StatusInv
<1>1. StatusTypes'
  <2>1. PICK new \in BOOLEAN : local' = new /\ texts' = [texts EXCEPT !["MSG"] = N!MessageText(new)]
    BY DEF N!Save
  <2>2. N!MessageText(new) \in {"---", "busy", "ok", "error", "ok(local)"}
    BY <2>1 DEF StatusTypes
  <2>3. texts' \in [Fetches -> {"---", "busy", "ok", "error", "ok(local)"}]
    BY <2>1, <2>2 DEF StatusTypes
  <2> QED
    BY <2>1, <2>3 DEF StatusTypes
<1>2. DebtsAreCovered'
  BY DEF StatusTypes, DebtsAreCovered, TonesTurn
<1>3. TonesTurn'
  BY DEF StatusTypes, TonesTurn
<1>4. N!TextsAreTrue'
  BY DEF StatusTypes, N!TextsAreTrue, TonesTurn
<1> QED
  BY <1>1, <1>2, <1>3, <1>4

LEMMA HalfMinuteStatus ==
  ASSUME StatusInv, N!Tick
  PROVE  StatusInv'
<1> USE StatusConstants DEF N!Tick, N!Less, N!tasks, StatusInv
<1>1. StatusTypes'
  <2>1. until' \in [boot : Nat, alert : Nat, diag : Nat, note : Nat, banner : Nat, forced : Nat]
    BY DEF StatusTypes
  <2>2. owed' \in [failure : Nat, code : Nat]
    BY DEF StatusTypes
  <2> QED
    BY <2>1, <2>2 DEF StatusTypes
<1>2. DebtsAreCovered'
  BY DEF StatusTypes, DebtsAreCovered, TonesTurn
<1>3. TonesTurn'
  BY DEF StatusTypes, TonesTurn
<1>4. N!TextsAreTrue'
  BY DEF StatusTypes, N!TextsAreTrue, TonesTurn
<1> QED
  BY <1>1, <1>2, <1>3, <1>4

LEMMA StatusStep == StatusInv /\ (N!NoticesNext \/ UNCHANGED noticeVars) => StatusInv'
<1> SUFFICES ASSUME StatusInv, N!NoticesNext \/ UNCHANGED noticeVars PROVE StatusInv'
  OBVIOUS
<1>1. CASE N!PowerCycle
  BY <1>1, PowerCycleStatus
<1>2. CASE N!Joins
  BY <1>2, JoinsStatus
<1>3. CASE N!JoinWorks
  BY <1>3, JoinWorksStatus
<1>4. CASE N!DhcpTimesOut
  BY <1>4, DhcpTimesOutStatus
<1>5. CASE N!StepEnds
  BY <1>5, StepEndsStatus DEF N!StepEnds
<1>6. CASE N!Leaves
  BY <1>6, LeavesStatus
<1>7. CASE \E j \in Fetches : N!BeginFetch(j) \/ N!FetchWorks(j) \/ N!FetchFails(j)
  BY <1>7, BeginFetchStatus, FetchWorksStatus, FetchFailsStatus
<1>8. CASE N!CheckBegins
  BY <1>8, CheckBeginsStatus
<1>9. CASE N!CheckEnds
  BY <1>9, CheckEndsStatus
<1>10. CASE N!Listens
  BY <1>10, ListensStatus
<1>11. CASE N!PublishUrl
  BY <1>11, PublishUrlStatus
<1>12. CASE N!ShowCode
  BY <1>12, ShowCodeStatus
<1>13. CASE N!Save
  BY <1>13, SaveLocalStatus
<1>14. CASE N!Tick
  BY <1>14, HalfMinuteStatus
<1>15. CASE UNCHANGED noticeVars
  BY <1>15 DEF noticeVars, StatusInv, StatusTypes, DebtsAreCovered, TonesTurn, N!TextsAreTrue
<1> QED
  BY <1>1, <1>2, <1>3, <1>4, <1>5, <1>6, <1>7, <1>8, <1>9, <1>10, <1>11, <1>12, <1>13, <1>14,
       <1>15, Zenon DEF N!NoticesNext

LEMMA StatusInvTells == StatusInv => N!CodeIsShown /\ N!TextsAreTrue /\ N!FailuresOpenTheLines
<1> SUFFICES ASSUME StatusInv PROVE N!CodeIsShown /\ N!FailuresOpenTheLines
  BY DEF StatusInv
<1> USE DEF StatusInv
<1>1. N!CodeIsShown
  <2> SUFFICES ASSUME owed.code > 0, settings.url PROVE N!CodeIsShown
    BY DEF N!CodeIsShown
  <2>1. until.banner > 0 /\ until.forced > 0 /\ settings.listening
    BY DEF StatusTypes, DebtsAreCovered
  <2>2. N!Line1 = "banner"
    BY <2>1 DEF N!Line1, N!Banner
  <2>3. ASSUME NEW show \in BOOLEAN PROVE N!SettingsInLine(show)
    BY <2>1 DEF N!SettingsInLine
  <2> QED
    BY <2>2, <2>3 DEF N!CodeIsShown
<1>2. N!FailuresOpenTheLines
  <2> SUFFICES ASSUME owed.failure > 0, NEW ident \in N!IdentTones PROVE N!Expanded("Auto", ident)
    BY DEF N!FailuresOpenTheLines
  <2>1. until.alert > 0
    BY DEF StatusTypes, DebtsAreCovered
  <2> QED
    BY <2>1 DEF N!Expanded
<1> QED
  BY <1>1, <1>2

-----------------------------------------------------------------------------
(* Either half of the run keeps both invariants: the other stands still.   *)
LEMMA HalvesHold == StatusSpec => [](ClockInv /\ StatusInv)
<1>1. StatusInit => ClockInv /\ StatusInv
  BY InitInv, StatusInitInv DEF StatusInit
<1>2. ClockInv /\ StatusInv /\ [StatusNext]_<<subject, vars, noticeVars>> => (ClockInv /\ StatusInv)'
  <2> SUFFICES ASSUME ClockInv, StatusInv, [StatusNext]_<<subject, vars, noticeVars>>
               PROVE  ClockInv' /\ StatusInv'
    OBVIOUS
  <2>1. [Next]_vars
    BY Zenon DEF StatusNext
  <2>2. N!NoticesNext \/ UNCHANGED noticeVars
    BY Zenon DEF StatusNext
  <2> QED
    BY <2>1, <2>2, ClockStep, StatusStep
<1> QED
  BY <1>1, <1>2, PTL DEF StatusSpec

(* The time on the screen is off by one timeout of a query at most, also   *)
(* where the seconds of NTP begin anew, and the dates on the screen and on *)
(* the card are those of the calendar: for every evening, zone and length  *)
(* of the day.                                                             *)
THEOREM ClockIsRightHolds == StatusSpec => []ClockIsRight
<1>1. ClockInv => ClockIsRight
  BY ClockInvIsRight
<1> QED
  BY <1>1, HalvesHold, PTL

(* jobs_task beats in time and no fetch crowds out another, for every      *)
(* timeout and schedule of the assumptions; and what the status lines say  *)
(* is true and is seen, for every set of jobs and every time it is shown.  *)
THEOREM StatusIsSoundHolds == StatusSpec => []StatusIsSound
<1>1. ClockInv /\ StatusInv => StatusIsSound
  BY ClockInvIsSound, StatusInvTells DEF StatusIsSound
<1> QED
  BY <1>1, HalvesHold, PTL
=============================================================================
