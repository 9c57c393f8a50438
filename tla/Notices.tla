------------------------------ MODULE Notices ------------------------------
(***************************************************************************)
(* The three status lines of the ticker's LCD, which open after a failure  *)
(* and close by themselves, and what main and jobs_task write in them      *)
(* through the shared MODEL (src/src/bin/ticker.rs).  Main waits while it  *)
(* joins the Wi-Fi; jobs_task goes on meanwhile with the NET_READY of      *)
(* before.                                                                 *)
(*                                                                         *)
(* Time is in ticks of 30 s: a deadline is the number of ticks left, and   *)
(* what takes no tick takes less than 30 s.  A text is a name; the one of  *)
(* the Wi-Fi has the length of the SSID in it.  The second line (version,  *)
(* slot, buy) and the settings page's choices of layout and mode are not   *)
(* state: the properties ask for each of them.                             *)
(***************************************************************************)
EXTENDS Integers

CONSTANTS
    Fetches,             \* jobs that fetch: NTP, WX, MSG
    SSID,                \* characters of the SSID
    STATUS_BOOT_SHOW, ALERT_SHOW, DIAG_SHOW, NOTE_SHOW, BANNER_SHOW

VARIABLES
    left,     \* ticks left of each deadline of MODEL
    wifi,     \* text and tone of the Wi-Fi
    texts,    \* state of each job
    ota,      \* phase of the update check
    page,     \* settings page: listening, and its URL known
    local,    \* message= is set, nothing is fetched
    main,     \* "setup", "joining", "waiting" (DHCP), "leaving", "watching", "gone"
    link,     \* LinkManager: "scan", "lost", "failed", "joined"
    ready,    \* NET_READY
    at,       \* what jobs_task is waiting for: a job, "ota", or "nothing"
    owed      \* history: ticks for which the last failure, the last wish for the code count

shown == <<left, wifi, texts, ota, page, local>>
tasks == <<main, link, ready, at>>
noticeVars == <<shown, tasks, owed>>

WIFI_TEXT == 48
Length == [connecting |-> 17, dhcp |-> 21, rejoining |-> 32]
OtaTone == [Idle |-> "Muted", Disabled |-> "Muted", Checking |-> "Normal", UpToDate |-> "Ok",
            Blocked |-> "Error", Downloading |-> "Busy", Verifying |-> "Busy",
            Rebooting |-> "Ok", Rejected |-> "Error", Failed |-> "Error"]
InProgress == {"Downloading", "Verifying", "Rebooting"}

Written(text, tone) == [text |-> text, tone |-> tone]
RaiseAlert == [left EXCEPT !.alert = ALERT_SHOW]
Noted == owed' = [owed EXCEPT !.failure = ALERT_SHOW]

(* A text that does not fit is not written: push_str takes all or nothing. *)
LinkStatus(text) ==
    wifi' = Written(IF SSID + Length[text] <= WIFI_TEXT THEN text ELSE "", "Normal")

-----------------------------------------------------------------------------
(***************************************************************************)
(* Boot: credentials or none, remarks of the boot and of ticker.txt.       *)
(***************************************************************************)
NoticesInit ==
    \E known \in BOOLEAN, diag \in {0} \cup DIAG_SHOW, note \in {0, NOTE_SHOW} :
        /\ local \in BOOLEAN
        /\ left = [boot |-> STATUS_BOOT_SHOW, alert |-> 0, diag |-> diag, note |-> note,
                   banner |-> 0, forced |-> 0]
        /\ wifi = IF known THEN Written("starting", "Normal") ELSE Written("no wifi.txt", "Error")
        /\ texts = [j \in Fetches |-> IF j = "MSG" /\ local THEN "ok(local)" ELSE "---"]
        /\ ota \in IF known THEN {"Idle", "Disabled"} ELSE {"Disabled"}
        /\ page = [listening |-> FALSE, url |-> FALSE]
        /\ main = "setup" /\ link = IF known THEN "lost" ELSE "scan"
        /\ ready = FALSE /\ at = "nothing" /\ owed = [failure |-> 0, code |-> 0]

-----------------------------------------------------------------------------
(***************************************************************************)
(* Main: LinkManager::step, then the rest of its loop.                     *)
(***************************************************************************)
PowerCycle ==
    /\ main = "setup" /\ main' = "watching"
    /\ wifi' = [wifi EXCEPT !.text = "power cycle"]
    /\ UNCHANGED <<left, texts, ota, page, local, link, ready, at, owed>>

(* A join that is due, or the link gone: the text of before goes.          *)
Joins ==
    /\ main = "watching" /\ link \in {"lost", "failed", "joined"}
    /\ main' = "joining" /\ LinkStatus("connecting")
    /\ link' = IF link = "joined" THEN "lost" ELSE link
    /\ UNCHANGED <<left, texts, ota, page, local, ready, at, owed>>
JoinWorks ==
    /\ main = "joining" /\ main' = "waiting" /\ LinkStatus("dhcp")
    /\ UNCHANGED <<left, texts, ota, page, local, link, ready, at, owed>>
DhcpTimesOut ==
    /\ main = "waiting" /\ main' = "leaving" /\ LinkStatus("rejoining")
    /\ UNCHANGED <<left, texts, ota, page, local, link, ready, at, owed>>

(* The loop after the step: the Wi-Fi's text and tone, its alert when the  *)
(* tone turns to Error, and the error of a photo, if there is one.         *)
WifiText(to, ip) ==
    CASE to = "joined" /\ ip  -> Written("ip", "Ok")
      [] to = "joined" /\ ~ip -> Written("no IP yet", "Normal")
      [] to = "failed"        -> Written("join failed", "Error")
      [] to = "lost"          -> Written("not connected", "Normal")
      [] to = "scan"          -> wifi
WifiAlerts(to) == to = "failed" /\ wifi.tone # "Error"
RestOfLoop(to, ip, photo) ==
    LET alerts == WifiAlerts(to) \/ photo
    IN  /\ main' = "watching" /\ link' = to /\ ready' = (to = "joined" /\ ip)
        /\ wifi' = WifiText(to, ip)
        /\ left' = [left EXCEPT !.note = IF photo THEN ALERT_SHOW ELSE @,
                                !.alert = IF alerts THEN ALERT_SHOW ELSE @]
        /\ IF photo \/ main = "joining" THEN Noted ELSE UNCHANGED owed
        /\ UNCHANGED <<texts, ota, page, local, at>>

Outcomes == [watching |-> {link}, joining |-> {"failed"}, waiting |-> {"joined"}, leaving |-> {"lost"}]
StepEnds ==
    /\ main \in DOMAIN Outcomes
    /\ \E to \in Outcomes[main], ip, photo \in BOOLEAN : RestOfLoop(to, ip, photo)

(* The reboot that jobs_task or the settings page asks for.                *)
Leaves ==
    /\ main = "watching" /\ (ota \in {"Rebooting", "Rejected"} \/ page.listening)
    /\ main' = "gone" /\ wifi' = Written("rebooting", "Busy")
    /\ UNCHANGED <<left, texts, ota, page, local, link, ready, at, owed>>

-----------------------------------------------------------------------------
(***************************************************************************)
(* jobs_task, one thing at a time.                                         *)
(***************************************************************************)
Idle == main \notin {"setup", "gone"} /\ at = "nothing"
FirstCheckDone == ota # "Idle"

BeginFetch(j) ==
    /\ Idle /\ ready /\ FirstCheckDone /\ ~(j = "MSG" /\ local)
    /\ at' = j /\ texts' = [texts EXCEPT ![j] = "busy"]
    /\ UNCHANGED <<left, wifi, ota, page, local, main, link, ready, owed>>
EndFetch(j, text) ==
    /\ main # "gone" /\ at = j
    /\ at' = "nothing" /\ texts' = [texts EXCEPT ![j] = text]
    /\ UNCHANGED <<wifi, ota, page, local, main, link, ready>>
FetchWorks(j) == EndFetch(j, "ok") /\ UNCHANGED <<left, owed>>
SilentFailure(j) == EndFetch(j, "error") /\ UNCHANGED left /\ Noted   \* mutant
FetchFails(j) == EndFetch(j, "error") /\ left' = RaiseAlert /\ Noted

(* publish_ota: an alert when the tone turns to Error.                     *)
PublishOta(phase) ==
    /\ ota' = phase
    /\ left' = IF OtaTone[phase] = "Error" /\ OtaTone[ota] # "Error" THEN RaiseAlert ELSE left
    /\ IF phase = "Failed" THEN Noted ELSE UNCHANGED owed
    /\ UNCHANGED <<wifi, texts, page, local, main, link, ready>>
CheckBegins == Idle /\ ready /\ ota # "Disabled" /\ PublishOta("Checking") /\ at' = "ota"
CheckEnds ==
    /\ main # "gone" /\ at = "ota"
    /\ \/ /\ ota = "Checking" /\ at' = "nothing"
          /\ \E phase \in {"UpToDate", "Blocked", "Rejected", "Failed"} : PublishOta(phase)
       \/ ota = "Checking" /\ at' = at /\ PublishOta("Downloading")
       \/ ota = "Downloading" /\ at' = at /\ PublishOta("Verifying")
       \/ ota = "Downloading" /\ at' = "nothing" /\ PublishOta("Failed")
       \/ /\ ota = "Verifying" /\ at' = "nothing"
          /\ \E phase \in {"Rebooting", "Failed"} : PublishOta(phase)

(* The settings page: it listens after the first check that went through,  *)
(* and its URL follows the address.                                        *)
Listens ==
    /\ Idle /\ ready /\ FirstCheckDone /\ ~page.listening
    /\ page' = [page EXCEPT !.listening = TRUE]
    /\ left' = [left EXCEPT !.banner = BANNER_SHOW]
    /\ UNCHANGED <<wifi, texts, ota, local, tasks, owed>>
PublishUrl ==
    /\ Idle /\ page.listening
    /\ \E known \in BOOLEAN : page' = [page EXCEPT !.url = known]
    /\ UNCHANGED <<left, wifi, texts, ota, local, tasks, owed>>
BannerOnly ==                                                        \* mutant
    /\ Idle /\ ready /\ page.listening
    /\ left' = [left EXCEPT !.banner = BANNER_SHOW]
    /\ owed' = [owed EXCEPT !.code = BANNER_SHOW]
    /\ UNCHANGED <<wifi, texts, ota, page, local, tasks>>
ShowCode ==
    /\ Idle /\ ready /\ page.listening
    /\ left' = [left EXCEPT !.banner = BANNER_SHOW, !.forced = BANNER_SHOW]
    /\ owed' = [owed EXCEPT !.code = BANNER_SHOW]
    /\ UNCHANGED <<wifi, texts, ota, page, local, tasks>>
KeepsTheText(new) == IF new THEN "ok(local)" ELSE texts["MSG"]       \* mutant
MessageText(new) == IF new THEN "ok(local)" ELSE IF local THEN "---" ELSE texts["MSG"]
Save ==
    /\ Idle /\ ready /\ page.listening
    /\ \E new \in BOOLEAN :
          local' = new /\ texts' = [texts EXCEPT !["MSG"] = MessageText(new)]
    /\ UNCHANGED <<left, wifi, ota, page, tasks, owed>>

(* 30 seconds.                                                             *)
Less(n) == IF n = 0 THEN 0 ELSE n - 1
Tick ==
    /\ left' = [deadline \in DOMAIN left |-> Less(left[deadline])]
    /\ owed' = [what \in DOMAIN owed |-> Less(owed[what])]
    /\ UNCHANGED <<wifi, texts, ota, page, local, tasks>>

NoticesNext ==
    \/ PowerCycle \/ Joins \/ JoinWorks \/ DhcpTimesOut \/ StepEnds \/ Leaves
    \/ \E j \in Fetches : BeginFetch(j) \/ FetchWorks(j) \/ FetchFails(j)
    \/ CheckBegins \/ CheckEnds \/ Listens \/ PublishUrl \/ ShowCode \/ Save \/ Tick

-----------------------------------------------------------------------------
(***************************************************************************)
(* What is drawn.                                                          *)
(***************************************************************************)
Modes == {"Auto", "Full", "Compact"}
IdentTones == {"Muted", "Ok", "Busy", "Error"}
Expanded(mode, ident) ==
    \/ mode = "Full"
    \/ /\ mode = "Auto"
       /\ \/ left.boot > 0 \/ left.alert > 0 \/ left.diag > 0 \/ left.note > 0
          \/ wifi.tone # "Ok" \/ ota \in InProgress \/ OtaTone[ota] = "Error"
          \/ ident \in {"Busy", "Error"}
Banner == left.banner > 0 /\ page.url
Line1 == IF Banner THEN "banner" ELSE IF left.diag > 0 THEN "diag"
         ELSE IF left.note > 0 THEN "note" ELSE "texts"
SettingsInLine(show) == page.listening /\ (show \/ left.forced > 0) /\ page.url

(* Who asks for the code on the page sees it for a minute: in the first    *)
(* status line where the lines are drawn, in the text that runs where that *)
(* is drawn, whatever the layout, the mode and show_settings=.             *)
CodeIsShown ==
    (owed.code > 0 /\ page.url) =>
      \A mode \in Modes, ident \in IdentTones, classic, show \in BOOLEAN :
        /\ (classic \/ Expanded(mode, ident)) => Line1 = "banner"
        /\ (classic \/ ~Expanded(mode, ident)) => SettingsInLine(show)

(* The texts say what goes on: a job is busy while it is being fetched and *)
(* never after, the message is local while it is, the Wi-Fi is green only  *)
(* with an address and never while main joins again.                       *)
TextsAreTrue ==
    /\ \A j \in Fetches : texts[j] = "busy" <=> at = j
    /\ texts["MSG"] = "ok(local)" <=> local
    /\ wifi.tone = "Ok" => wifi.text = "ip" /\ link = "joined" /\ main = "watching"
    /\ wifi.tone = "Error" => link \in {"failed", "scan"}

(* Thirty seconds after a failure of any part the lines are open, however  *)
(* the tones have changed since.                                           *)
FailuresOpenTheLines ==
    owed.failure > 0 => \A ident \in IdentTones : Expanded("Auto", ident)
=============================================================================
