------------------------------- MODULE Ticker -------------------------------
(***************************************************************************)
(* The text that runs across the LCD, from its sources to its place on the *)
(* screen: the fetch of the message and the settings page in jobs_task,    *)
(* the URL of the page, the shared MODEL, and render_task, which composes  *)
(* the line anew only when the generation numbers of MODEL tell it to      *)
(* (src/src/bin/ticker.rs, src/src/ui/scroll.rs).                          *)
(*                                                                         *)
(* A generation number is compared with one that render_task remembers;    *)
(* here it is the flag "news", TRUE while the two differ.  Texts are names *)
(* with a number of characters.  Time is abstract: a timer may run out at  *)
(* any moment.  All tasks share an executor and MODEL is locked for a      *)
(* whole frame, so a frame is one step.                                    *)
(***************************************************************************)
EXTENDS Integers, Sequences

CONSTANTS
    Sources,         \* values of message_url
    LocalTexts,      \* values of message=
    Texts,           \* all texts, LocalTexts among them, and NoText
    NoText,          \* the empty text
    Served(_),       \* the texts a source may answer with
    Length(_),       \* characters of a text
    Urls,            \* the page's URL, by IP address
    TEXT_MAX,        \* bytes of the composed line
    AREA,            \* width of the part of the screen it runs through
    SCROLL_PX,       \* pixels per frame
    ELAPSED_MAX,     \* frames a late frame makes up for (8)
    JUMP_PAD,        \* margin of the highlighted part (4)
    MaxSaves         \* bound: saves of the page

ASSUME TextAssumption ==
    /\ NoText \in Texts /\ LocalTexts \subseteq Texts \ {NoText}
    /\ \A t \in Texts : Length(t) \in Nat
    /\ \A source \in Sources : Served(source) \subseteq Texts
    /\ {TEXT_MAX, AREA, SCROLL_PX, ELAPSED_MAX} \subseteq Nat \ {0}
    /\ {JUMP_PAD, MaxSaves} \subseteq Nat
    /\ TEXT_MAX >= 10      \* the room of the settings, SETTINGS_MAX

SPANS_MAX == 8
NoPart == <<>>
Smaller(a, b) == IF a < b THEN a ELSE b
Greater(a, b) == IF a > b THEN a ELSE b

-----------------------------------------------------------------------------
(***************************************************************************)
(* scroll.rs.  A piece is a run of `chars' characters of `unit' bytes and  *)
(* `px' pixels each, drawn with one ink.                                   *)
(***************************************************************************)
Piece(ink, of, chars, unit, px) ==
    [ink |-> ink, of |-> of, chars |-> chars, unit |-> unit, px |-> px]
SEP == Piece("Sep", NoText, 1, 2, 1)
LABEL_SETTINGS == Piece("Label", NoText, 1, 2, 1)
LABEL_CODE == Piece("Label", NoText, 1, 1, 1)
WAITING == Piece("Note", NoText, 2, 2, 1)
Message(text, chars) == Piece("Message", text, chars, 2, 1)
Url(url) == Piece("Value", url, 2, 1, 1)
Code == Piece("Value", NoText, 1, 1, 1)

Parts == {"Hidden", "Waiting", "Ready"}

Blank == [bytes |-> 0, width |-> 0, spans |-> <<>>, settings |-> NoPart]

(* push and push_trunc: as much as there is room for, whole characters.    *)
Bytes(piece) == piece.chars * piece.unit
Push(line, piece) ==
    LET chars == Smaller(piece.chars, (TEXT_MAX - line.bytes) \div piece.unit)
        w == chars * piece.px
    IN  IF chars = 0 \/ Len(line.spans) = SPANS_MAX THEN line
        ELSE [bytes |-> line.bytes + chars * piece.unit, width |-> line.width + w,
              spans |-> Append(line.spans, [ink |-> piece.ink, of |-> piece.of,
                                            chars |-> chars, x |-> line.width, w |-> w]),
              settings |-> line.settings]

TailLen(part, url) ==
    IF part = "Hidden" THEN 0
    ELSE IF part = "Waiting" THEN Bytes(SEP) + Bytes(WAITING) + Bytes(SEP)
    ELSE Bytes(SEP) + Bytes(LABEL_SETTINGS) + Bytes(Url(url)) + Bytes(LABEL_CODE) + Bytes(Code) + Bytes(SEP)
Budget(part, url) == Greater(TEXT_MAX - TailLen(part, url), 0)

(* compose: the message, as much of it as leaves room for the settings;    *)
(* then the settings, and the marks of where they are.                     *)
Cut(text, part, url) == Message(text, Smaller(Length(text), Budget(part, url) \div 2))
PushBoth(line, piece, next) == Push(Push(line, piece), next)
Lead(message, part) ==
    IF message.chars > 0 /\ part # "Hidden" THEN PushBoth(Blank, message, SEP)
    ELSE Push(Blank, message)
PushSettings(line, part, url) ==
    IF part = "Waiting" THEN Push(line, WAITING)
    ELSE PushBoth(PushBoth(line, LABEL_SETTINGS, Url(url)), LABEL_CODE, Code)
Marked(line, start) == [line EXCEPT !.settings = <<start, line.width - start>>]
Compose(text, part, url) ==
    LET lead == Lead(Cut(text, part, url), part)
    IN  IF part = "Hidden" THEN lead
        ELSE Push(Marked(PushSettings(lead, part, url), lead.width), SEP)
(* Its values, by message, part and URL.                                   *)
Lines == [text \in Texts |-> [of \in Parts |-> [url \in Urls \cup {NoText} |-> Compose(text, of, url)]]]
Looped(line) == line.settings # NoPart

(* The position after `step' pixels; a loop goes back by whole rounds.     *)
Advance(x, step, line) ==
    LET to == x - step
    IN  IF line.width = 0 THEN x
        ELSE IF Looped(line)
             THEN (IF to <= -line.width THEN to + line.width * ((-to) \div line.width) ELSE to)
        ELSE IF to + line.width < 0 THEN AREA ELSE to

(* Where the copies of the line that can be seen begin.                    *)
Exactly(line, x) == Greater(AREA - x, 0) \div Greater(line.width, 1)   \* mutant
Count(line, x) ==
    IF Looped(line) /\ line.width > 0
    THEN Greater(AREA - x, 0) \div Greater(line.width, 1) + 2 ELSE 1
Copies(line, x) ==
    LET period == Greater(line.width, 1)
    IN  {c \in {x + k * period : k \in 0 .. Count(line, x) - 1} : c < AREA /\ c + period > 0}

-----------------------------------------------------------------------------
VARIABLES
    config,     \* [source, show]: message_url or a local text, show_settings
    model,      \* [message, url, listening, forced] of MODEL
    news,       \* [message, web, jump]: generations render_task has not seen
    ip,         \* the URL of the present address, NoText without one
    job,        \* [due, failed] of message_job
    fetching,   \* do_message waits for the answer
    from,       \* the source the shown message came from (history)
    line,       \* the composed ScrollText
    part,       \* the settings part it was composed with
    x,          \* scroll_x
    saves       \* saves so far

jobs == <<config, ip, job, fetching, from, saves>>
screen == <<line, part, x>>
tickerVars == <<jobs, model, news, screen>>

Local(c) == c.source \in LocalTexts

TickerInit ==
    /\ config \in [source : Sources \cup LocalTexts, show : BOOLEAN]
    /\ model = [message |-> IF Local(config) THEN config.source ELSE NoText,
                url |-> NoText, listening |-> FALSE, forced |-> FALSE]
    /\ news = [message |-> TRUE, web |-> FALSE, jump |-> FALSE]
    /\ ip \in Urls \cup {NoText}
    /\ job = [due |-> TRUE, failed |-> FALSE] /\ fetching = FALSE
    /\ from = IF Local(config) THEN config.source ELSE NoText
    /\ line = Blank /\ part = "Hidden" /\ x = 0
    /\ saves = 0

(* A new text, or the same again: only a change is news.                   *)
AlwaysNews(text) == TRUE                                           \* mutant
IsNews(text) == text # model.message
Shown(text) ==
    /\ model' = [model EXCEPT !.message = text]
    /\ news' = [news EXCEPT !.message = @ \/ IsNews(text)]

-----------------------------------------------------------------------------
(***************************************************************************)
(* jobs_task: one thing at a time.                                         *)
(***************************************************************************)
NoFetch == ~fetching

(* The page listens for the first time: its code is made known.            *)
Listens ==
    /\ NoFetch /\ ~model.listening /\ ip # NoText
    /\ model' = [model EXCEPT !.listening = TRUE, !.url = ip]
    /\ news' = [news EXCEPT !.web = TRUE]
    /\ UNCHANGED <<jobs, screen>>

(* publish_web_url of a round.                                             *)
UrlOnly == news                                                    \* mutant
WebNews == [news EXCEPT !.web = TRUE]
PublishUrl ==
    /\ NoFetch /\ model.listening /\ model.url # ip
    /\ model' = [model EXCEPT !.url = ip]
    /\ news' = WebNews
    /\ UNCHANGED <<jobs, screen>>

(* A save of the settings page: App::apply.                                *)
JobAfter(old, new) ==
    IF ~Local(new) /\ (old.source # new.source \/ Local(old))
    THEN [due |-> TRUE, failed |-> FALSE] ELSE job
Save(new) ==
    /\ NoFetch /\ model.listening /\ ip # NoText /\ saves < MaxSaves
    /\ saves' = saves + 1
    /\ config' = new
    /\ job' = JobAfter(config, new)
    /\ IF Local(new) THEN Shown(new.source) /\ from' = new.source
       ELSE UNCHANGED <<model, news, from>>
    /\ UNCHANGED <<ip, fetching, screen>>

(* "Show the code on the LCD".                                             *)
ShowCode ==
    /\ NoFetch /\ model.listening /\ ip # NoText
    /\ model' = [model EXCEPT !.forced = TRUE]
    /\ news' = [news EXCEPT !.jump = TRUE]
    /\ UNCHANGED <<jobs, screen>>

(* do_message.                                                             *)
BeginFetch ==
    /\ NoFetch /\ ip # NoText /\ ~Local(config) /\ job.due
    /\ fetching' = TRUE
    /\ UNCHANGED <<config, ip, job, from, saves, model, news, screen>>

Fetched(text) ==
    /\ fetching /\ fetching' = FALSE
    /\ job' = [due |-> FALSE, failed |-> FALSE]
    /\ Shown(text)
    /\ from' = config.source
    /\ UNCHANGED <<config, ip, saves, screen>>

FetchFails ==
    /\ fetching /\ fetching' = FALSE
    /\ job' = [due |-> FALSE, failed |-> TRUE]
    /\ UNCHANGED <<config, ip, from, saves, model, news, screen>>

-----------------------------------------------------------------------------
(***************************************************************************)
(* Time and the network.                                                   *)
(***************************************************************************)
TimerRuns ==
    /\ ~job.due /\ ~fetching
    /\ job' = [job EXCEPT !.due = TRUE]
    /\ UNCHANGED <<config, ip, fetching, from, saves, model, news, screen>>

ForcedEnds ==
    /\ model.forced
    /\ model' = [model EXCEPT !.forced = FALSE]
    /\ UNCHANGED <<jobs, news, screen>>

AddressChanges ==
    /\ ip' \in (Urls \cup {NoText}) \ {ip}
    /\ UNCHANGED <<config, job, fetching, from, saves, model, news, screen>>

-----------------------------------------------------------------------------
(***************************************************************************)
(* A frame of render_task.                                                 *)
(***************************************************************************)
SettingsPart ==
    IF ~model.listening \/ ~(config.show \/ model.forced) THEN "Hidden"
    ELSE IF model.url = NoText THEN "Waiting" ELSE "Ready"

Composed ==
    IF news.message \/ news.web \/ part # SettingsPart
    THEN Lines[model.message][SettingsPart][model.url] ELSE line

Position(elapsed) ==
    LET moved == IF news.message THEN AREA ELSE Advance(x, SCROLL_PX * elapsed, line')
    IN  IF news.jump /\ Looped(line') THEN JUMP_PAD - line'.settings[1] ELSE moved

Frame(elapsed) ==
    /\ line' = Composed
    /\ part' = SettingsPart
    /\ x' = Position(elapsed)
    /\ news' = [message |-> FALSE, web |-> FALSE, jump |-> FALSE]
    /\ UNCHANGED <<jobs, model>>

AnyFrame == \E elapsed \in 1 .. ELAPSED_MAX : Frame(elapsed)
AnySave == \E new \in [source : Sources \cup LocalTexts, show : BOOLEAN] : Save(new)
AnyText == \E text \in Served(config.source) : Fetched(text)
TickerNext ==
    \/ Listens \/ PublishUrl \/ AnySave \/ ShowCode
    \/ BeginFetch \/ AnyText \/ FetchFails
    \/ TimerRuns \/ ForcedEnds \/ AddressChanges \/ AnyFrame

TickerSpec == TickerInit /\ [][TickerNext]_tickerVars
(* render_task draws with every frame of the LCD.  This is                 *)
(* WF_tickerVars(AnyFrame) with its ENABLED written out.                         *)
FrameChanges == line.width > 0 \/ part # SettingsPart \/ \E n \in DOMAIN news : news[n]
TickerFairSpec == TickerSpec /\ ([]<>~FrameChanges \/ []<><<AnyFrame>>_tickerVars)
-----------------------------------------------------------------------------
(* Types of the state.                                                     *)
TickerTypeOK ==
    /\ config \in [source : Sources \cup LocalTexts, show : BOOLEAN]
    /\ model \in [message : Texts, url : Urls \cup {NoText},
                  listening : BOOLEAN, forced : BOOLEAN]
    /\ news \in [message : BOOLEAN, web : BOOLEAN, jump : BOOLEAN]
    /\ ip \in Urls \cup {NoText}
    /\ job \in [due : BOOLEAN, failed : BOOLEAN] /\ fetching \in BOOLEAN
    /\ from \in Sources \cup LocalTexts \cup {NoText}
    /\ line.bytes \in 0 .. TEXT_MAX /\ line.width \in Nat /\ Len(line.spans) <= SPANS_MAX
    /\ part \in Parts /\ x \in -TEXT_MAX .. Greater(AREA, JUMP_PAD) /\ saves \in 0 .. MaxSaves

(* The line that runs is the one of MODEL, although render_task looks at   *)
(* nothing but generation numbers: no message, URL or part is changed      *)
(* without telling it.                                                     *)
LineIsCurrent ==
    (~news.message /\ ~news.web /\ part = SettingsPart)
        => line = Lines[model.message][part][model.url]

(* A message that is not of the source in force is being replaced: its     *)
(* fetch is due, under way, or has failed since.                           *)
OldMessageIsReplaced ==
    from # config.source => job.due \/ job.failed \/ fetching

(* Whatever the texts' lengths, the pieces of the settings are in the line *)
(* whole, one after the other, no character cut in two; they are the part  *)
(* that is marked, and the line ends with the separator behind them.       *)
SettingsPieces(of) ==
    IF of = "Waiting" THEN <<WAITING>>
    ELSE <<LABEL_SETTINGS, Url(model.url), LABEL_CODE, Code>>
SettingsAreWhole ==
    Looped(line) =>
      LET pieces == SettingsPieces(part)
          spans == line.spans
          before == Len(spans) - Len(pieces) - 1
      IN  /\ before >= 0 /\ spans[Len(spans)].ink = "Sep"
          /\ \A i \in 1 .. Len(pieces) :
                /\ spans[before + i].ink = pieces[i].ink
                /\ spans[before + i].chars = pieces[i].chars
                /\ spans[before + i + 1].x = spans[before + i].x + spans[before + i].w
          /\ line.settings[1] = spans[before + 1].x
          /\ line.settings[1] + line.settings[2] = spans[Len(spans)].x

(* The line never leaves the screen for good: a loop stays within its last *)
(* round, and any other line comes in again when its end is out.           *)
StaysInReach ==
    line.width > 0 =>
      /\ x <= Greater(AREA, JUMP_PAD)
      /\ IF Looped(line) THEN x > -line.width ELSE x + line.width >= 0

(* Every pixel behind the beginning of a loop shows exactly one copy.      *)
LoopHasNoGap ==
    (Looped(line) /\ ~news.message) =>
      \A p \in Greater(x, 0) .. AREA - 1 :
        \E c \in Copies(line, x) :
          /\ c <= p /\ p < c + line.width
          /\ \A d \in Copies(line, x) : (d <= p /\ p < d + line.width) => d = c

(* A loop that goes on moves by the pixels of the frames that passed: no   *)
(* jump where its end meets its beginning.                                 *)
MovesEvenly ==
    [][(Looped(line) /\ Looped(line') /\ line.width = line'.width /\ x' # x
        /\ ~news.message /\ ~news.jump)
       => \E elapsed \in 1 .. ELAPSED_MAX : (x - SCROLL_PX * elapsed - x') % line.width = 0]_tickerVars

(* Where the URL and the code are in the line, they pass by again and      *)
(* again, unless the message keeps changing (or the code is asked for).    *)
SettingsVisible ==
    /\ Looped(line)
    /\ \E c \in Copies(line, x) : \E p \in 0 .. AREA - 1 :
         /\ c + line.settings[1] <= p
         /\ p < c + line.settings[1] + line.settings[2]
SettingsPassBy ==
    (<>[]Looped(line) /\ <>[][model'.message = model.message]_model)
        => []<>SettingsVisible

(* The line is a whole one, within reach and without a gap, and is not     *)
(* left with the text of a source that was changed.                        *)
LineIsSound == TickerTypeOK /\ OldMessageIsReplaced /\ SettingsAreWhole /\ StaysInReach /\ LoopHasNoGap

(* The line runs on, evenly, and brings the settings by.                   *)
LineRunsOn == MovesEvenly /\ SettingsPassBy
=============================================================================
