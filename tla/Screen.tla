------------------------------- MODULE Screen -------------------------------
(***************************************************************************)
(* The place of every text on the LCD (src/src/ui/screen.rs, canvas.rs).   *)
(* A view is what render_task draws from; its parts are changed one at a   *)
(* time by other tasks, in any order: the clock, the weather, the power    *)
(* meter, the settings page, and the three status lines that open and      *)
(* close.  Layouts are functions from a view to the boxes its texts take.  *)
(*                                                                         *)
(* A text is the number of its digits, points and dashes, or of its full   *)
(* and half characters: its width in pixels is the program's.  Colours,    *)
(* shadows and glyphs are left out.  A text whose length is not bounded by *)
(* its kind (the status lines) is cut at the edge of the screen and is not *)
(* a box; the line that runs is one box, the area it runs through.         *)
(***************************************************************************)
EXTENDS Integers, FiniteSets, Sequences

CONSTANTS
    Places,       \* lengths of place=, in half characters (a full one counts two)
    Conditions,   \* full characters of condition_ja
    Degrees,      \* temperatures, as glyphs
    Powers,       \* readings of the meter in W, as glyphs
    Axis,         \* ends of the graph's axis, tenths of a watt
    BAR_DIGITS    \* bound: digits of a reading that a bar has to hold

(* A place is of PLACE_MAX bytes, 32: a half character takes one, a full   *)
(* one three.  The longest condition has seven characters.  A temperature  *)
(* has one decimal and is below 100 degrees, a reading is an i64 in mW.    *)
ASSUME ScreenAssumption ==
    /\ Places \subseteq 0 .. 32 /\ Conditions \subseteq 1 .. 7
    /\ Degrees \subseteq [digits : 2 .. 3, points : {1}, dashes : 0 .. 1]
    /\ Powers \subseteq [digits : 2 .. 17, points : {1}, dashes : 0 .. 1]
    /\ BAR_DIGITS \in 2 .. 10

(* An end of the axis is an i32, and not the lowest: that one is a gap.    *)
ASSUME AxisAssumption == \A end \in Axis : end \in Int /\ -2147483647 <= end /\ end <= 2147483647

Narrower(a, b) == IF a <= b THEN a ELSE b
Wider(a, b) == IF a >= b THEN a ELSE b

-----------------------------------------------------------------------------
(***************************************************************************)
(* Fonts and boxes.                                                        *)
(***************************************************************************)
Glyphs(digits, points, dashes) == [digits |-> digits, points |-> points, dashes |-> dashes]
Missing == Glyphs(0, 0, 2)
Rains == {Glyphs(1, 0, 0), Glyphs(3, 0, 0), Missing}

CLOCK_FONT == [digit |-> 27, colon |-> 14, point |-> 13, dash |-> 15, degree |-> 0, percent |-> 0, h |-> 32, base |-> 32]
MEDIUM == [digit |-> 13, colon |-> 7, point |-> 6, dash |-> 7, degree |-> 10, percent |-> 19, h |-> 15, base |-> 15]
SMALL == [digit |-> 8, colon |-> 4, point |-> 4, dash |-> 5, degree |-> 6, percent |-> 12, h |-> 11, base |-> 9]
TextWidth(font, t) == t.digits * font.digit + t.points * font.point + t.dashes * font.dash
Chars(t) == t.digits + t.points + t.dashes
Full(n) == 14 * n
Half(n) == 7 * n

Box(x, y, w, h) == [x0 |-> x, y0 |-> y, x1 |-> x + w, y1 |-> y + h]
WIDTH == 400
HEIGHT == 96
FULL == Box(0, 0, WIDTH, HEIGHT)

(* What is drawn: its name, its box, and the box that has to hold it.      *)
Item(name, box, room) == [name |-> name, box |-> box, room |-> room]
Jp(name, x, y, w, room) == Item(name, Box(x, y, w, 14), room)
Aa(name, font, x, y, w, room) == Item(name, Box(x, y, w, font.h), room)
Tiny(name, x, y, n, room) == Item(name, Box(x, y, 5 * n, 7), room)
Small(name, x, y, n, room) == Item(name, Box(x, y, 6 * n, 10), room)
Icon(name, x, y, room) == Item(name, Box(x, y, 15, 15), room)

-----------------------------------------------------------------------------
(***************************************************************************)
(* The view.                                                               *)
(***************************************************************************)
Layouts == {"Glass", "Dock", "Classic"}
Displays == {"Normal", "Large", "Graph"}
Label == [Disabled |-> 0, Fresh |-> 0, Stale |-> 3, Waiting |-> 4, Unavailable |-> 3,
          Unsupported |-> 8, ConfigError |-> 6]
Meters == [status : {"Disabled", "Waiting", "ConfigError", "Unavailable", "Unsupported"},
           value : {Missing}]
          \cup [status : {"Fresh", "Stale", "Unsupported"}, value : Powers]
Weathers == [now : Degrees, max : Degrees \cup {Missing}, min : Degrees \cup {Missing},
             rain : Rains, condition : Conditions]
NoWeather == [condition |-> 0]
(* Digits of the date: 1月1日 to 12月31日.                                    *)
Clocks == {0} \cup 2 .. 4
SAMPLE_AGE == 7     \* digits of the age in seconds at most

VARIABLE view   \* [layout, display, meter, clock, weather, place, trend, expanded]

Focus(v) == v.meter.status # "Disabled" /\ v.display # "Normal"
EffectiveIfChosen(v) == IF v.display # "Normal" THEN "Glass" ELSE v.layout     \* mutant
EffectiveLayout(v) ==
    IF v.display # "Normal" /\ v.meter.status # "Disabled" THEN "Glass" ELSE v.layout

DateWidth(v) == IF v.clock = 0 THEN Full(6) ELSE Full(3) + Half(v.clock + 2)

-----------------------------------------------------------------------------
(***************************************************************************)
(* Parts that the layouts share.                                           *)
(***************************************************************************)
BigClockEnd(v, x) == IF v.clock = 0 THEN x + 74 ELSE x + 4 * CLOCK_FONT.digit + CLOCK_FONT.colon + 1 + MEDIUM.colon + 2 * MEDIUM.digit
BigClock(v, x, y) ==
    IF v.clock = 0 THEN {Aa("clock", CLOCK_FONT, x, y, 4 * CLOCK_FONT.dash + CLOCK_FONT.colon, FULL)}
    ELSE LET w == 4 * CLOCK_FONT.digit + CLOCK_FONT.colon
         IN  {Aa("clock", CLOCK_FONT, x, y, w, FULL),
              Aa("seconds", MEDIUM, x + w + 1, y + CLOCK_FONT.base - MEDIUM.base,
                 MEDIUM.colon + 2 * MEDIUM.digit, FULL)}

(* The bar of the meter: value and unit, and its state, if that is odd.    *)
StatusChars(v) == Label[v.meter.status] + (IF v.meter.status = "Stale" THEN SAMPLE_AGE + 2 ELSE 0)
Bar(v, x, y, most, compact) ==
    LET number == TextWidth(SMALL, v.meter.value)
        value == IF compact THEN 4 + 5 * (Chars(v.meter.value) + 2) ELSE 40 + number + 3 + 5
        odd == StatusChars(v)
        gap == IF compact THEN 4 ELSE 8
        padding == IF compact THEN 4 ELSE 6
        width == Narrower(value + (IF odd = 0 THEN 0 ELSE gap + 5 * odd) + padding, most)
        room == Box(x, y, width, 15)
        at == x + value + gap
    IN  IF v.meter.status = "Disabled" THEN {}
        ELSE IF compact
        THEN {Tiny("value", x + 4, y + 4, Chars(v.meter.value) + 2, room)}
             \cup (IF odd # 0 /\ at + 5 * odd <= x + width - padding
                   THEN {Tiny("state", at, y + 4, odd, room)} ELSE {})
        ELSE {Tiny("P110M", x + 6, y + 4, 5, room),
              Aa("value", SMALL, x + 40, IF v.meter.value = Missing THEN y ELSE y + 3, number, room),
              Tiny("W", x + 40 + number + 3, y + 4, 1, room)}
             \cup (IF odd # 0 THEN {Tiny("state", at, y + 4, odd, room)} ELSE {})

RainWidth(w) == TextWidth(SMALL, w.rain) + SMALL.percent
PillWidth(w) == 5 + 5 + 3 + RainWidth(w) + 5
NarrowForecast(w) == 7 + TextWidth(SMALL, w.max) + 6 + 7 + TextWidth(SMALL, w.min) + 6 + RainWidth(w)  \* mutant
ForecastWidth(w) == 7 + TextWidth(SMALL, w.max) + 6 + 7 + TextWidth(SMALL, w.min) + 6 + PillWidth(w)
Forecast(w, x, y, room) ==
    LET max == x + 7
        down == max + TextWidth(SMALL, w.max) + 6
        min == down + 7
        pill == min + TextWidth(SMALL, w.min) + 6
    IN  {Item("up", Box(x, y + 4, 5, 3), room), Aa("max", SMALL, max, y, max - x - 7 + TextWidth(SMALL, w.max), room),
         Item("down", Box(down, y + 4, 5, 3), room), Aa("min", SMALL, min, y, TextWidth(SMALL, w.min), room),
         Item("pill", Box(pill, y - 1, PillWidth(w), 13), room)}

(* The small state: Wi-Fi, NTP, WX, MSG and the version (v0.6.4).          *)
CHIP == 9 + 4 + (15 + 4) + (10 + 4) + (15 + 4) + 6 * 5
Chip(right, y, room) == {Item("chip", Box(right - CHIP, y, CHIP, 7), room)}

(* The three status lines, nine pixels apart.                              *)
StatusLines(x, y, room) == {Item(<<"line 1", "line 2", "line 3">>[n], Box(x, y + 9 * (n - 1), 6, 9), room) : n \in 1 .. 3}

(* Where the text runs: the place it is moved in, and the place drawn.     *)
GLASS_BAND_W == WIDTH - 2 * 4
GLASS_CHIP_W == 118
ScrollArea == [Glass |-> [x |-> 9, w |-> GLASS_BAND_W - 10 - GLASS_CHIP_W],
               Dock |-> [x |-> 9, w |-> WIDTH - 18], Classic |-> [x |-> 1, w |-> WIDTH - 2]]
ScrollBand(layout, y, room) ==
    {Item("scroll", Box(ScrollArea[layout].x, y - 1, ScrollArea[layout].w, 16), room)}

GlassBand(v) ==
    IF v.expanded THEN StatusLines(6, 64, Box(2, 61, WIDTH - 4, HEIGHT - 62))
    ELSE LET band == Box(4, 74, GLASS_BAND_W, 19)
         IN  ScrollBand("Glass", 77, Box(4, 74, GLASS_BAND_W - GLASS_CHIP_W, 19))
             \cup Chip(4 + GLASS_BAND_W - 6, 80, Box(4 + GLASS_BAND_W - GLASS_CHIP_W, 74, GLASS_CHIP_W, 19))

-----------------------------------------------------------------------------
(***************************************************************************)
(* The three layouts.                                                      *)
(***************************************************************************)
Glass(v) ==
    LET card == Box(234, 4, WIDTH - 238, 54)
        right == 390
        place == Half(v.place)
    IN  BigClock(v, 8, 4) \cup {Jp("date", 10, 40, DateWidth(v), FULL)}
        \cup (IF v.expanded THEN Bar(v, 128, 39, 100, TRUE) ELSE Bar(v, 8, 56, 218, FALSE))
        \cup {Item("pin", Box(right - place - 8, 11, 5, 7), card), Jp("place", right - place, 8, place, card)}
        \cup (IF v.weather = NoWeather
              THEN {Icon("weather", 240, 8, card), Jp("condition", 240, 26, Full(6), card)}
              ELSE {Icon("weather", 240, 8, card),
                    Aa("degrees", MEDIUM, 259, 8, TextWidth(MEDIUM, v.weather.now) + MEDIUM.degree, card),
                    Jp("condition", 240, 26, Full(v.weather.condition), card)}
                   \cup Forecast(v.weather, 240, 44, card))
        \cup GlassBand(v)

Dock(v) ==
    LET stand == Box(3, 52, WIDTH - 6, 41)
        temp == TextWidth(MEDIUM, v.weather.now) + MEDIUM.degree
        cond == 28 + temp + 6
        place == cond + Full(v.weather.condition) + 10
        forecast == Wider(391 - ForecastWidth(v.weather), place + Half(v.place) + 8)
    IN  BigClock(v, 8, 4) \cup {Jp("date", BigClockEnd(v, 8) + 10, 20, DateWidth(v), FULL)}
        \cup Bar(v, 8, 36, 226, FALSE)
        \cup (IF v.expanded THEN StatusLines(7, 59, Box(3, 56, WIDTH - 6, 37))
              ELSE Chip(391, 5, Box(WIDTH - 124, 2, 121, 13))
                   \cup {Icon("weather", 9, 55, stand)}
                   \cup (IF v.weather = NoWeather
                         THEN {Jp("condition", 28, 56, Full(6), stand),
                               Jp("place", 28 + Full(6) + 10, 56, Half(v.place), stand)}
                         ELSE {Aa("degrees", MEDIUM, 28, 55, temp, stand),
                               Jp("condition", cond, 56, Full(v.weather.condition), stand),
                               Jp("place", place, 56, Half(v.place), stand)}
                              \cup Forecast(v.weather, forecast, 58, stand))
                   \cup ScrollBand("Dock", 75, stand))

Classic(v) ==
    LET inner == Box(1, 1, WIDTH - 2, HEIGHT - 2)
        temp == 196 + Half(v.place) + 8
        cond == temp + Half(Chars(v.weather.now)) + Full(1) + 8
        max == Full(2) + Half(1 + Chars(v.weather.max)) + Full(1)
        min == Full(2) + Half(1 + Chars(v.weather.min)) + Full(1)
    IN  BigClock(v, 6, 2)
        \cup {Jp("date", IF v.meter.status = "Disabled" THEN 196 ELSE 286, 3, DateWidth(v), inner)}
        \cup Bar(v, 196, 2, 86, TRUE)
        \cup {Jp("place", 196, 19, Half(v.place), inner)}
        \cup (IF v.weather = NoWeather THEN {Jp("condition", temp, 19, Full(6), inner)}
              ELSE {Jp("degrees", temp, 19, cond - 8 - temp, inner),
                    Jp("condition", cond, 19, Full(v.weather.condition), inner),
                    Jp("max", 6, 35, max, inner), Jp("min", 6 + max + 12, 35, min, inner),
                    Jp("rain", 6 + max + 12 + min + 12, 35,
                       Full(4) + Half(2 + Chars(v.weather.rain)), inner)})
        \cup ScrollBand("Classic", 52, inner)
        \cup StatusLines(2, 68, FULL)

-----------------------------------------------------------------------------
(***************************************************************************)
(* The meter in front (Large and Graph), beside one panel for all else.    *)
(***************************************************************************)
PanelWidth(v) == IF v.display = "Graph" THEN 136 ELSE 250
PanelHeight(v) == IF v.expanded THEN 55 ELSE 68
VALUE_MARGIN == 22
Fits(font, v) == TextWidth(font, v.meter.value) <= PanelWidth(v) - VALUE_MARGIN
Reading(v) ==
    LET graph == v.display = "Graph"
        w == PanelWidth(v)
        right == 4 + w - 6
        room == Box(8, 6, w - 8, PanelHeight(v) - 3)
        header == IF graph THEN 25 ELSE 9
        label == Label[v.meter.status]
        n == Chars(v.meter.value)
        In(font) ==
            LET y == IF graph THEN 23 - font.h ELSE 19
                number == TextWidth(font, v.meter.value)
            IN  {Aa("value", font, right - number - 10, y, number, room),
                 Small("W", right - 6, y + font.base - 10, 1, room)}
    IN  {Tiny("P110M", 11, header, 5, room), Tiny("state", w - 5 * label, header, label, room)}
        \cup (IF ~graph /\ ~v.expanded /\ Fits(CLOCK_FONT, v) THEN In(CLOCK_FONT)
              ELSE IF Fits(MEDIUM, v) THEN In(MEDIUM)
              ELSE IF Fits(SMALL, v) THEN In(SMALL)
              ELSE LET y == IF graph THEN 16 ELSE 25
                   IN  {Tiny("value", right - 5 * n - 10, y, n, room), Small("W", right - 6, y - 3, 1, room)})

(* An end of the axis: tenths of a watt, shortened with k or M.            *)
Tens == <<10, 100, 1000, 10000, 100000, 1000000, 10000000, 100000000, 1000000000>>
Digits(n) == CHOOSE k \in 1 .. 9 : n < Tens[k] /\ (k = 1 \/ n >= Tens[k - 1])
AxisChars(tenths) ==
    LET size == IF tenths < 0 THEN -tenths ELSE tenths
        scale == IF size >= 10000000 THEN 1000000 ELSE IF size >= 100000 THEN 1000 ELSE 1
        shown == ((size * 100) \div scale + 50) \div 100
    IN  Digits(shown \div 10) + 2 + (IF scale > 1 THEN 1 ELSE 0)
        + (IF tenths < 0 /\ shown # 0 THEN 1 ELSE 0)

Trend(v) ==
    LET h == PanelHeight(v) - 41
        w == 4 + 136 - 10 - 53
        room == Box(8, 34, 126, PanelHeight(v) - 31)
        end == IF v.trend = <<>> THEN 3 ELSE AxisChars(v.trend[1])
    IN  {Tiny("upper", 10, 34, end, room), Tiny("lower", 10, 34 + h - 7, end, room),
         IF v.trend = <<>> THEN Tiny("collecting", 53 + (w - 65) \div 2, 34 + (h - 7) \div 2, 13, room)
         ELSE Item("plot", Box(53, 34, w, h), room),
         Tiny("range", 53, 34 + h + 2, 3, room), Tiny("now", 53 + w - 15, 34 + h + 2, 3, room)}

(* The other panel is as wide as the widest row shown.                     *)
TimeWidth(v) == IF v.clock = 0 THEN 4 * MEDIUM.dash + MEDIUM.colon ELSE 4 * MEDIUM.digit + MEDIUM.colon
SecondsWidth(v) == IF v.clock = 0 THEN 0 ELSE 2 + SMALL.colon + 2 * SMALL.digit
RainTile(w) == 18 + RainWidth(w)
DegreesWidth(w) == TextWidth(SMALL, w.now) + SMALL.degree
WithoutRain(v) == Wider(TimeWidth(v) + SecondsWidth(v), DateWidth(v))  \* mutant
ContentWidth(v) ==
    LET dated == Wider(TimeWidth(v) + SecondsWidth(v), DateWidth(v))
        wet == Wider(dated, 15 + 5 + DegreesWidth(v.weather) + 6 + RainTile(v.weather))
    IN  IF v.weather = NoWeather THEN dated
        ELSE IF v.expanded THEN wet ELSE Wider(wet, Full(v.weather.condition))

InfoRight == 390
Info(v) ==
    LET room == Box(InfoRight - ContentWidth(v), 6, ContentWidth(v), PanelHeight(v) - 3)
        time == InfoRight - TimeWidth(v) - SecondsWidth(v)
        rain == InfoRight - RainTile(v.weather)
        degrees == rain - 6 - DegreesWidth(v.weather)
        y == IF v.expanded THEN 43 ELSE 41
    IN  {Aa("clock", MEDIUM, time, 8, TimeWidth(v), room),
         Jp("date", InfoRight - DateWidth(v), 26, DateWidth(v), room)}
        \cup (IF v.clock = 0 THEN {}
              ELSE {Aa("seconds", SMALL, time + TimeWidth(v) + 2, 8 + MEDIUM.base - SMALL.base,
                       SecondsWidth(v) - 2, room)})
        \cup (IF v.weather = NoWeather THEN {}
              ELSE {Icon("weather", degrees - 15 - 5, y, room),
                    Aa("degrees", SMALL, degrees, y + 1, DegreesWidth(v.weather), room),
                    Item("pill", Box(rain, y, RainTile(v.weather), 13), room)})
        \cup (IF v.weather = NoWeather \/ v.expanded THEN {}
              ELSE {Jp("condition", InfoRight - Full(v.weather.condition), 56,
                       Full(v.weather.condition), room)})

PowerFocus(v) ==
    Reading(v) \cup (IF v.display = "Graph" THEN Trend(v) ELSE {}) \cup Info(v) \cup GlassBand(v)

Drawn(v) ==
    IF Focus(v) THEN PowerFocus(v)
    ELSE CASE v.layout = "Glass" -> Glass(v)
           [] v.layout = "Dock" -> Dock(v)
           [] v.layout = "Classic" -> Classic(v)

-----------------------------------------------------------------------------
(***************************************************************************)
(* What other tasks change.                                                *)
(***************************************************************************)
ScreenInit ==
    \E layout \in Layouts, display \in Displays, place \in Places,
       meter \in {m \in Meters : m.status \in {"Disabled", "Waiting", "ConfigError"}} :
        view = [layout |-> layout, display |-> display, place |-> place, meter |-> meter,
                clock |-> 0, weather |-> NoWeather, trend |-> <<>>, expanded |-> TRUE]

(* do_ntp, and the days that pass.                                         *)
DateComes == \E clock \in Clocks \ {0} : view' = [view EXCEPT !.clock = clock]
(* do_weather.                                                             *)
WeatherComes == \E weather \in Weathers : view' = [view EXCEPT !.weather = weather]
(* publish_power: nothing is published for a meter that is not set up.     *)
MeterReads ==
    /\ view.meter.status \notin {"Disabled", "ConfigError"}
    /\ \E meter \in {m \in Meters : m.status \notin {"Disabled", "ConfigError"}} :
          view' = [view EXCEPT !.meter = meter]
(* A save of the settings page; the weather of another place is awaited.   *)
Applies ==
    \E layout \in Layouts, display \in Displays, place \in Places, moved \in BOOLEAN :
        view' = [view EXCEPT !.layout = layout, !.display = display, !.place = place,
                             !.weather = IF moved THEN NoWeather ELSE @,
                             !.trend = IF display = "Graph" THEN @ ELSE <<>>]
(* The history is drawn anew while the graph is shown.                     *)
Plots ==
    /\ view.display = "Graph"
    /\ \E end \in Axis : view' = [view EXCEPT !.trend = <<end>>]
(* status_expanded.                                                        *)
LinesOpenOrClose == view' = [view EXCEPT !.expanded = ~@]

ScreenNext ==
    DateComes \/ WeatherComes \/ MeterReads \/ Applies \/ Plots \/ LinesOpenOrClose

-----------------------------------------------------------------------------
Within(box, room) ==
    room.x0 <= box.x0 /\ box.x1 <= room.x1 /\ room.y0 <= box.y0 /\ box.y1 <= room.y1
Apart(a, b) == a.x1 <= b.x0 \/ b.x1 <= a.x0 \/ a.y1 <= b.y0 \/ b.y1 <= a.y0

(* The places, in half characters, that a layout has room for, whatever    *)
(* the weather beside them; and what a longer one covers, cuts or pushes   *)
(* out of its panel, the place itself included.                            *)
PLACE_ROOM == [Glass |-> 8, Dock |-> 5, Classic |-> 5]
PlaceRow == [Glass |-> {"pin", "place", "weather", "degrees"},
             Dock |-> {"place", "up", "max", "down", "min", "pill"},
             Classic |-> {"place", "degrees", "condition"}]
Spoiled(v) ==
    IF Focus(v) \/ v.place <= PLACE_ROOM[v.layout] THEN {} ELSE PlaceRow[v.layout]

(* Every text is whole, within its panel or the screen, and no two texts   *)
(* cover each other.  Not so when place= is longer than its layout has     *)
(* room for: the code accepts 32 bytes and draws them all.  What is spoilt *)
(* then is the row of the place and nothing else: the texts outside it are *)
(* whole, and covered neither by each other nor by the row's.              *)
Settled(drawn, row) ==
    /\ \A i \in drawn : Within(i.room, FULL) /\ (i.name \notin row => Within(i.box, i.room))
    /\ \A i, j \in drawn :
          i.name # j.name => {i.name, j.name} \subseteq row \/ Apart(i.box, j.box)
FitsItsPlace ==
    Focus(view) \/ view.meter.value.digits <= BAR_DIGITS =>
      Settled(Drawn(view), Spoiled(view))

(* The text runs through the area that render_task moves it in.            *)
RunsWhereItIsDrawn ==
    LET area == ScrollArea[EffectiveLayout(view)]
    IN  \A i \in Drawn(view) :
          i.name = "scroll" => i.box.x0 = area.x /\ i.box.x1 = area.x + area.w

(* Beside the graph, 120 pixels of the picture stay free.                  *)
MiddleIsFree ==
    (Focus(view) /\ view.display = "Graph") =>
      (InfoRight - ContentWidth(view) - 6) - (4 + PanelWidth(view)) >= 120
=============================================================================
