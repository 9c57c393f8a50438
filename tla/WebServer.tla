------------------------------ MODULE WebServer ------------------------------
(***************************************************************************)
(* src/src/web/server.rs and src/src/web/auth.rs: the settings page.  One  *)
(* socket, one connection, one request at a time, served by jobs_task      *)
(* between its update checks and fetches.                                  *)
(*                                                                         *)
(* What the peer sends is a stream of tokens: pieces of heads, the ends of *)
(* heads, pieces of bodies; how many of them a read returns is open.  Time *)
(* runs in units of IO_TIMEOUT (5 s).  An action of the server is what     *)
(* happens between two awaits; synchronous card operations take no time    *)
(* here (two seconds at most there).                                       *)
(***************************************************************************)
EXTENDS Integers, Sequences, FiniteSets, SequencesExt

CONSTANTS
    Kinds,          \* the requests of the peer, see Kind
    UPLOAD_SIZE,    \* of a photo, in tokens
    FORM_MAX,       \* of any other body
    HEAD_MAX,       \* the buffer for a head, in tokens
    PageChunks,     \* writes of the longest answer
    SOCKET_RX,      \* the buffer of the socket, in tokens
    Names,          \* names pick_name tries, in its order
    MAX_FILES,
    IO_TIMEOUT, KEEP_ALIVE_IDLE, SD_LOCK_TIMEOUT, FLUSH_TIMEOUT,
    UPLOAD_DEADLINE, STREAM_DEADLINE, SHOW_CODE_INTERVAL,
    MAX_FAILURES, LOCK_BASE, LOCK_MAX,
    WEB_LIMIT,      \* Limits::TICKER: how long Web may be silent
    LongAgo,        \* bound: `elapsed` is counted up to it
    MaxWrong,       \* bound: wrong codes sent since the last right one
    MaxWaited,      \* bound: `waited` is counted up to it
    MaxFaults       \* bound: card operations that fail

(* from: a page of this board, another origin, or another Host.  size: of  *)
(* the body, in tokens.  sound: the header of the photo is as it must be.  *)
Gets == {"page", "json", "images", "image"}
CodePosts == {"auth", "save", "delete", "upload", "reboot", "check"}
Posts == CodePosts \cup {"show"}
Routes == Gets \cup Posts \cup {"options", "missing", "malformed"}
Kind == [route: Routes, from: {"page", "origin", "host"},
         code: {"right", "wrong", "none"}, size: Nat, close: BOOLEAN,
         sound: BOOLEAN]

ASSUME WebServerAssumption ==
    /\ Kinds \subseteq Kind
    /\ UPLOAD_SIZE \in Nat \ {0} /\ FORM_MAX \in Nat /\ HEAD_MAX \in Nat \ {0}
    /\ PageChunks \in Nat \ {0} /\ SOCKET_RX \in Nat \ {0}
    /\ IO_TIMEOUT \in Nat \ {0} /\ FLUSH_TIMEOUT \in Nat \ {0}
    /\ SD_LOCK_TIMEOUT \in Nat \ {0} /\ KEEP_ALIVE_IDLE \in Nat \ {0}
    /\ UPLOAD_DEADLINE \in Nat /\ STREAM_DEADLINE \in Nat
    /\ SHOW_CODE_INTERVAL \in Nat /\ MAX_FAILURES \in Nat \ {0}
    /\ LOCK_BASE \in Nat \ {0} /\ LOCK_MAX \in Nat /\ LOCK_BASE <= LOCK_MAX
    /\ WEB_LIMIT \in Nat
    (* A chain of timeouts without a beat: 6 or 5 s, 5 s, 2 s.               *)
    /\ SD_LOCK_TIMEOUT + IO_TIMEOUT + FLUSH_TIMEOUT <= WEB_LIMIT
    /\ IO_TIMEOUT + IO_TIMEOUT + FLUSH_TIMEOUT <= WEB_LIMIT
    (* pick_name has more names than there may be photos.                    *)
    /\ Len(Names) \in Nat /\ DOMAIN Names = 1 .. Len(Names)
    /\ MAX_FILES \in Nat /\ MAX_FILES <= Len(Names)
    /\ MaxWrong \in Nat /\ MaxWaited \in Nat /\ MaxFaults \in Nat
    (* SD_LOCK is had, or not, before the deadline of an upload: 6 s, 60 s.  *)
    /\ SD_LOCK_TIMEOUT <= UPLOAD_DEADLINE
    /\ LongAgo \in Nat /\ LongAgo >= STREAM_DEADLINE
    /\ LongAgo >= IO_TIMEOUT + IO_TIMEOUT /\ LongAgo > UPLOAD_DEADLINE + IO_TIMEOUT

VARIABLES
    (* the peer and the socket *)
    sock,           \* State of the TcpSocket; after our FIN: "closing"
    wire,           \* received and not yet read
    todo,           \* tokens of its body that the peer has yet to send
    (* Server and the request being served *)
    pc, closing,    \* closing_since: for how long, or None
    idle,           \* last_active: how long ago
    last_show,      \* last_show_code: how long ago
    guard,          \* [failures, locked, next]: locked for how much longer
    buf, req, got,  \* head buffer; the request; tokens of its body read
    close, reply,   \* close after the answer; writes left of the answer
    left, elapsed,  \* of the timeout of this await; since `started`
    (* what requests change *)
    card, file,     \* the photos; the one that is being uploaded
    effect,         \* what the request has changed: "none", "card", "config",
                    \* "reboot" or "check"
    (* the supervisor, and history *)
    beat,           \* Web: how long since its last beat, or None when parked
    wrongs, waited, \* since the right code came last: wrong codes judged,
                    \* time spent locked
    faults          \* card operations that failed

conn == <<sock, wire, todo>>
serving == <<buf, req, got, close, reply, effect>>
timers == <<left, elapsed>>
photos == <<card, file>>
rationing == <<guard, wrongs, waited>>
vars == <<conn, pc, closing, idle, last_show, serving, timers, photos, beat,
          rationing, faults>>

None == -1
Piece == [part |-> "piece"]
Body == [part |-> "body"]
(* The end of a head, and the length of its body; what else the head says  *)
(* is settled when it is parsed.                                           *)
HeadEnd(n) == [part |-> "head", size |-> n]
Sizes == {k.size : k \in Kinds}
Tokens == {Piece, Body} \cup {HeadEnd(n) : n \in Sizes}
NoReq == [route |-> "none"]
NoFile == "none"

Least(a, b) == IF a <= b THEN a ELSE b
Most(a, b) == IF a >= b THEN a ELSE b
Later(t, most) == IF t = None THEN None ELSE Least(t + 1, most)

-----------------------------------------------------------------------------
(* auth.rs                                                                 *)

Fresh == [failures |-> 0, locked |-> 0, next |-> LOCK_BASE]
SameAgain(g) == [failures |-> 0, locked |-> g.next, next |-> g.next]   \* mutant
LockedOut(g) ==
    [failures |-> 0, locked |-> g.next, next |-> Least(g.next * 2, LOCK_MAX)]
Passes(g, code) == g.locked = 0 /\ code = "right"
Judged(g, code) == g.locked = 0 /\ code = "wrong"
check(g, code) ==
    IF Passes(g, code) THEN Fresh
    ELSE IF Judged(g, code)
    THEN IF g.failures + 1 >= MAX_FAILURES THEN LockedOut(g)
         ELSE [g EXCEPT !.failures = @ + 1]
    ELSE g

is_post(k) == k.route \in Posts
needs_code(k) == k.route \in CodePosts

-----------------------------------------------------------------------------
Init ==
    /\ sock = "Closed" /\ wire = <<>> /\ todo = 0
    /\ pc = "idle" /\ closing = None /\ idle = 0 /\ last_show = None
    /\ guard = Fresh /\ wrongs = 0 /\ waited = 0
    /\ buf = <<>> /\ req = NoReq /\ got = 0 /\ close = FALSE /\ reply = 0
    /\ left = None /\ elapsed = 0
    /\ card \in [Range(Names) -> {"none", "whole"}]
    /\ file = NoFile /\ effect = "none"
    /\ beat = None /\ faults = 0

(* The peer: any stream of requests, as fast or slow as it likes.          *)
Server == <<pc, closing, idle, last_show, serving, timers, photos, beat,
            rationing, faults>>
PeerOpens ==
    /\ sock = "Listen"
    /\ sock' = "Established" /\ wire' = <<>> /\ todo' = 0
    /\ UNCHANGED Server
PeerSends ==
    /\ sock = "Established" /\ Len(wire) < SOCKET_RX
    /\ \/ todo > 0 /\ wire' = Append(wire, Body) /\ todo' = todo - 1
       \/ todo = 0 /\ wire' = Append(wire, Piece) /\ UNCHANGED todo
       \/ /\ todo = 0
          /\ \E n \in Sizes : wire' = Append(wire, HeadEnd(n)) /\ todo' = n
    /\ UNCHANGED <<sock, Server>>
PeerShuts ==
    /\ sock = "Established" /\ sock' = "CloseWait"
    /\ UNCHANGED <<wire, todo, Server>>
(* It resets, or closes after the server did.                              *)
PeerGone ==
    /\ sock \in {"Established", "CloseWait", "closing"}
    /\ sock' = "Closed" /\ wire' = <<>> /\ todo' = 0
    /\ UNCHANGED Server

-----------------------------------------------------------------------------
(* The time of an await passes.                                            *)

Waiting == pc \notin {"idle", "busy"}
(* What has come with the head is used before anything is awaited.         *)
AtHand ==
    \/ pc = "body" /\ got = req.size
    \/ pc = "header" /\ got > 0
    \/ pc = "data" /\ got = UPLOAD_SIZE
Tick ==
    /\ ~AtHand
    /\ Waiting => left > 0
    /\ left' = IF Waiting THEN left - 1 ELSE left
    /\ elapsed' = IF Waiting THEN Least(elapsed + 1, LongAgo) ELSE elapsed
    /\ closing' = Later(closing, FLUSH_TIMEOUT)
    /\ idle' = Least(idle + 1, KEEP_ALIVE_IDLE)
    /\ last_show' = IF last_show + 1 >= SHOW_CODE_INTERVAL THEN None
                    ELSE Later(last_show, SHOW_CODE_INTERVAL)
    /\ beat' = Later(beat, WEB_LIMIT + 1)
    /\ guard' = [guard EXCEPT !.locked = IF @ = 0 THEN 0 ELSE @ - 1]
    /\ waited' = IF guard.locked > 0 THEN Least(waited + 1, MaxWaited) ELSE waited
    /\ UNCHANGED <<conn, pc, serving, photos, wrongs, faults>>

-----------------------------------------------------------------------------
(* jobs_task between two requests.                                         *)

Unserved == <<serving, timers, photos, beat, rationing, faults, idle, last_show>>

CanRecv == wire # <<>>
CloseIsOver == closing # None /\ (sock = "Closed" \/ closing >= FLUSH_TIMEOUT)

(* maintain.                                                               *)
Relisten ==
    /\ pc = "idle"
    /\ CloseIsOver \/ (closing = None /\ sock = "Closed")
    /\ sock' = "Listen" /\ closing' = None /\ wire' = <<>> /\ todo' = 0
    /\ UNCHANGED <<pc, Unserved>>
OnlyShut == sock = "CloseWait"                                   \* mutant
IsIdle == sock = "CloseWait" \/ (sock = "Established" /\ idle >= KEEP_ALIVE_IDLE)
CloseIdle ==
    /\ pc = "idle" /\ closing = None /\ ~CanRecv /\ IsIdle
    /\ sock' = "closing" /\ closing' = 0
    /\ UNCHANGED <<wire, todo, pc, Unserved>>

HasRequest ==
    closing = None /\ sock \in {"Established", "CloseWait"} /\ CanRecv
(* An update check, or a fetch: the request waits in the socket.           *)
GetsBusy ==
    /\ pc = "idle" /\ pc' = "busy"
    /\ UNCHANGED <<conn, closing, Unserved>>
BusyEnds ==
    /\ pc = "busy" /\ pc' = "idle"
    /\ UNCHANGED <<conn, closing, Unserved>>
Serve ==
    /\ pc = "idle" /\ HasRequest
    /\ pc' = "head" /\ left' = IO_TIMEOUT /\ elapsed' = 0 /\ beat' = 0
    /\ UNCHANGED <<conn, closing, idle, last_show, serving, photos, rationing,
                   faults>>

-----------------------------------------------------------------------------
(* What a step of `handle` leads to.  These fix pc, left, idle, closing,   *)
(* sock and all of serving, what is named Awaits all but serving.          *)

(* Next::KeepAlive and Next::Close in serve; the flush of the latter.      *)
Forgets ==
    /\ buf' = <<>> /\ req' = NoReq /\ got' = 0 /\ close' = FALSE /\ reply' = 0
    /\ effect' = "none"
KeepAlive ==
    /\ pc' = "idle" /\ left' = None /\ idle' = 0 /\ beat' = None /\ Forgets
    /\ UNCHANGED <<closing, sock>>
CloseIt ==
    /\ pc' = "flush" /\ left' = FLUSH_TIMEOUT /\ idle' = 0 /\ Forgets
    /\ UNCHANGED <<closing, sock>>
Awaits(where, timeout) ==
    /\ pc' = where /\ left' = timeout
    /\ UNCHANGED <<idle, closing, sock>>
AwaitsRest(where, timeout) == Awaits(where, timeout) /\ UNCHANGED serving
ReadsOn(where) ==
    Awaits(where, IO_TIMEOUT) /\ UNCHANGED <<buf, req, close, reply, effect>>

(* An answer of n writes; what the request changed is `change`.            *)
Answer(k, n, then_close, change) ==
    /\ Awaits("reply", IO_TIMEOUT)
    /\ req' = k /\ reply' = n /\ close' = then_close /\ effect' = change
    /\ buf' = <<>> /\ got' = 0
Refuse(k) == Answer(k, 1, TRUE, effect)
Ok(change) == Answer(req, 1, close, change)

Beats == beat' = 0
NoBeat == UNCHANGED beat
Elsewhere == UNCHANGED <<todo, last_show, elapsed, rationing>>

(* The part of an answer was taken by the socket, or was not.              *)
Broken == sock = "Closed" \/ left = 0
Write ==
    /\ pc = "reply"
    /\ \/ /\ sock # "Closed" /\ reply > 1 /\ reply' = reply - 1 /\ Beats
          /\ Awaits("reply", IO_TIMEOUT)
          /\ UNCHANGED <<buf, req, got, close, effect>>
       \/ sock # "Closed" /\ reply = 1 /\ ~close /\ KeepAlive
       \/ sock # "Closed" /\ reply = 1 /\ close /\ CloseIt /\ Beats
       \/ Broken /\ CloseIt /\ NoBeat
    /\ Elsewhere /\ UNCHANGED <<wire, photos, faults>>
Flushed ==
    /\ pc = "flush"
    /\ pc' = "idle" /\ left' = None /\ beat' = None /\ closing' = 0
    /\ sock' = IF sock = "Closed" THEN "Closed" ELSE "closing"
    /\ Elsewhere /\ UNCHANGED <<wire, idle, serving, photos, faults>>

-----------------------------------------------------------------------------
(* The head, and the way a request takes.                                  *)

HasHead(s) == \E i \in DOMAIN s : s[i].part = "head"
EndOfHead(s) ==
    CHOOSE i \in DOMAIN s :
        s[i].part = "head" /\ \A j \in 1 .. i - 1 : s[j].part # "head"
(* parse_head: any request with a body of that length.                     *)
Parses(s) ==
    {k \in Kinds : /\ k.size = s[EndOfHead(s)].size
                   /\ k.code = "wrong" => wrongs < MaxWrong}
body_prefix(s, k) == Least(Len(s) - EndOfHead(s), k.size)
NeverOver(s, k) == FALSE                                        \* mutant
overread(s, k) == Len(s) > EndOfHead(s) + k.size

(* Before the code is looked at; ip: the board has an address.             *)
Refused(k, ip) ==
    \/ k.route = "malformed" \/ ~ip \/ k.from = "host"
    \/ ~is_post(k) /\ k.size > 0 /\ k.route # "options"
    \/ is_post(k) /\ k.from = "origin"
    \/ k.route = "missing"
Starts(k, s, where, timeout) ==
    /\ Awaits(where, timeout)
    /\ req' = k /\ got' = body_prefix(s, k) /\ close' = (k.close \/ overread(s, k))
    /\ buf' = <<>> /\ reply' = 0 /\ UNCHANGED effect

(* read_body: what came with the head may be all of it.                    *)
ReadsBody(k, s) ==
    IF k.size > FORM_MAX THEN Refuse(k) ELSE Starts(k, s, "body", IO_TIMEOUT)
Routed(k, s) ==
    \/ /\ k.route \in {"page", "json"}
       /\ Answer(k, IF k.route = "page" THEN PageChunks ELSE 1,
                 k.close \/ overread(s, k), effect)
    \/ k.route = "options" /\ Refuse(k)
    \/ k.route \in {"images", "image"} /\ Starts(k, s, "lock", SD_LOCK_TIMEOUT)
    \/ /\ k.route = "upload"
       /\ IF k.size # UPLOAD_SIZE THEN Refuse(k) ELSE Starts(k, s, "lock", SD_LOCK_TIMEOUT)
    \/ /\ k.route \in Posts \ {"upload"}
       /\ IF k.route = "show" /\ last_show # None THEN Refuse(k) ELSE ReadsBody(k, s)
Authorised(k, s) ==
    IF needs_code(k)
    THEN /\ guard' = check(guard, k.code)
         /\ wrongs' = IF Passes(guard, k.code) THEN 0
                      ELSE IF Judged(guard, k.code) THEN wrongs + 1 ELSE wrongs
         /\ waited' = IF Passes(guard, k.code) THEN 0 ELSE waited
         /\ IF Passes(guard, k.code) THEN Routed(k, s) ELSE Refuse(k)
         /\ UNCHANGED last_show
    ELSE /\ last_show' = IF k.route = "show" /\ last_show = None THEN 0 ELSE last_show
         /\ Routed(k, s)
         /\ UNCHANGED rationing

(* A read adds to the head: it is complete, too long, too late, or not yet *)
(* complete.  The clock of an upload starts anew.                          *)
ParseHead(s) ==
    \E k \in Parses(s), ip \in BOOLEAN :
        /\ IF Refused(k, ip)
           THEN Refuse(k) /\ UNCHANGED <<rationing, last_show>>
           ELSE Authorised(k, s)
        /\ elapsed' = IF k.route = "upload" THEN 0 ELSE elapsed
ReadHead ==
    /\ pc = "head" /\ CanRecv
    /\ \E n \in 1 .. Least(Len(wire), HEAD_MAX - Len(buf)) :
         LET s == buf \o SubSeq(wire, 1, n)
         IN /\ wire' = SubSeq(wire, n + 1, Len(wire))
            /\ \/ HasHead(s) /\ ParseHead(s)
               \/ /\ ~HasHead(s)
                  /\ \/ Len(s) >= HEAD_MAX /\ Answer(NoReq, 1, TRUE, effect)
                     \/ Len(s) < HEAD_MAX /\ elapsed >= IO_TIMEOUT /\ CloseIt
                     \/ /\ Len(s) < HEAD_MAX /\ elapsed < IO_TIMEOUT
                        /\ Awaits("head", IO_TIMEOUT) /\ buf' = s
                        /\ UNCHANGED <<req, got, close, reply, effect>>
                  /\ UNCHANGED <<rationing, last_show, elapsed>>
    /\ Beats
    /\ UNCHANGED <<todo, photos, faults>>

(* A read that ends without data: the peer has shut its side or is gone,   *)
(* or IO_TIMEOUT.                                                          *)
ReadEnds == ~CanRecv /\ (sock \in {"CloseWait", "Closed"} \/ left = 0)
HeadEnds ==
    /\ pc = "head" /\ ReadEnds
    /\ CloseIt /\ NoBeat
    /\ Elsewhere /\ UNCHANGED <<wire, photos, faults>>

-----------------------------------------------------------------------------
(* The body, and what the requests do once it is there.                    *)

TakesBody(room) ==
    \E n \in 1 .. Least(Len(wire), room) :
        wire' = SubSeq(wire, n + 1, Len(wire)) /\ got' = got + n
BodyBeats == Beats
ReadBody ==
    /\ pc = "body" /\ got < req.size
    /\ \/ CanRecv /\ TakesBody(req.size - got) /\ ReadsOn("body") /\ BodyBeats
       \/ ReadEnds /\ Refuse(req) /\ NoBeat /\ UNCHANGED wire
    /\ Elsewhere /\ UNCHANGED <<photos, faults>>

(* Refused: a reboot during a trial (409), a form or a name that does not  *)
(* check (400, 413, 422).                                                  *)
BodyRead ==
    /\ pc = "body" /\ got = req.size
    /\ \/ req.route \in {"show", "auth"} /\ Ok(effect)
       \/ req.route = "check" /\ Ok("check")
       \/ req.route = "reboot" /\ Answer(req, 1, TRUE, "reboot")
       \/ req.route \in {"reboot", "save", "delete"} /\ Refuse(req)
       \/ req.route = "save" /\ AwaitsRest("lock save", SD_LOCK_TIMEOUT)
       \/ req.route = "delete" /\ AwaitsRest("lock", SD_LOCK_TIMEOUT)
    /\ NoBeat
    /\ Elsewhere /\ UNCHANGED <<wire, photos, faults>>

-----------------------------------------------------------------------------
(* The card.  The photo task may hold SD_LOCK or not: lock_sd succeeds, or *)
(* it does not within its timeout.                                         *)

Works == UNCHANGED faults
Breaks == faults < MaxFaults /\ faults' = faults + 1

LockRefused ==
    /\ pc \in {"lock", "lock save"} /\ left = 0
    /\ Refuse(req) /\ NoBeat
    /\ Elsewhere /\ UNCHANGED <<wire, photos, faults>>

Locks(route) == pc = "lock" /\ req.route = route
ListImages ==
    /\ Locks("images")
    /\ \/ Works /\ Ok(effect)
       \/ Breaks /\ Refuse(req)
    /\ Beats
    /\ Elsewhere /\ UNCHANGED <<wire, photos>>
(* Only a name on the card; then, perhaps, images= is saved without it.    *)
DeleteImage ==
    /\ Locks("delete")
    /\ \E n \in Range(Names) :
         \/ /\ card[n] # "none" /\ Works
            /\ card' = [card EXCEPT ![n] = "none"]
            /\ \/ Ok("card")
               \/ /\ Awaits("lock save", SD_LOCK_TIMEOUT) /\ effect' = "card"
                  /\ UNCHANGED <<buf, req, got, close, reply>>
         \/ card[n] = "none" /\ Works /\ Refuse(req) /\ UNCHANGED card
         \/ Breaks /\ Refuse(req) /\ UNCHANGED card
    /\ Beats
    /\ Elsewhere /\ UNCHANGED <<wire, file>>
(* save_ticker_txt, for its steps see module TickerTxt.                    *)
SaveTickerTxt ==
    /\ pc = "lock save"
    /\ \/ Works /\ Ok("config")
       \/ Breaks /\ Refuse(req)
    /\ Beats
    /\ Elsewhere /\ UNCHANGED <<wire, photos>>

(* stream_image.  `reply`: the header and the blocks still to be written.  *)
(* An error after the header closes the connection.                        *)
OpenImage ==
    /\ Locks("image")
    /\ \/ /\ \E n \in Range(Names) : card[n] # "none"
          /\ Works /\ Awaits("stream", IO_TIMEOUT) /\ reply' = PageChunks
          /\ UNCHANGED <<buf, req, got, close, effect>>
       \/ Works /\ Refuse(req)
       \/ Breaks /\ Refuse(req)
    /\ Beats
    /\ Elsewhere /\ UNCHANGED <<wire, photos>>
StreamOn ==
    /\ pc = "stream"
    /\ \/ /\ sock # "Closed" /\ reply > 1 /\ elapsed < STREAM_DEADLINE /\ Works
          /\ reply' = reply - 1 /\ Awaits("stream", IO_TIMEOUT) /\ Beats
          /\ UNCHANGED <<buf, req, got, close, effect>>
       \/ sock # "Closed" /\ reply = 1 /\ ~close /\ Works /\ KeepAlive
       \/ sock # "Closed" /\ reply = 1 /\ close /\ Works /\ CloseIt /\ Beats
       \/ reply > 1 /\ elapsed >= STREAM_DEADLINE /\ Works /\ CloseIt /\ Beats
       \/ reply > 1 /\ Breaks /\ CloseIt /\ Beats
       \/ Broken /\ Works /\ CloseIt /\ NoBeat
    /\ Elsewhere /\ UNCHANGED <<wire, photos>>

-----------------------------------------------------------------------------
(* upload.  `got` counts the tokens at hand; the first is the header.      *)

Present == {i \in DOMAIN Names : card[Names[i]] # "none"}
pick_name == Names[CHOOSE i \in DOMAIN Names \ Present :
                     \A j \in DOMAIN Names \ Present : i <= j]
GivesUp == Refuse(req) /\ file' = NoFile
UploadBegins ==
    /\ Locks("upload")
    /\ \/ /\ Works /\ Cardinality(Present) < MAX_FILES
          /\ file' = pick_name /\ AwaitsRest("header", IO_TIMEOUT)
       \/ Works /\ Cardinality(Present) >= MAX_FILES /\ GivesUp   \* 409
       \/ Breaks /\ GivesUp
    /\ Beats
    /\ Elsewhere /\ UNCHANGED <<wire, card>>

(* read_some: before the deadline.                                         *)
ReadFails == elapsed >= UPLOAD_DEADLINE \/ ReadEnds
EndlessRead(where, room) ==                                     \* mutant
    CanRecv /\ TakesBody(room) /\ ReadsOn(where) /\ Beats
ReadSome(where, room) ==
    /\ CanRecv /\ elapsed < UPLOAD_DEADLINE
    /\ TakesBody(room) /\ ReadsOn(where) /\ Beats
UploadHeader ==
    /\ pc = "header" /\ got = 0
    /\ \/ ReadSome("header", 1) /\ UNCHANGED file
       \/ ReadFails /\ GivesUp /\ NoBeat /\ UNCHANGED wire
    /\ Elsewhere /\ UNCHANGED <<card, faults>>
CreateFile ==
    /\ pc = "header" /\ got > 0
    /\ \/ ~req.sound /\ Works /\ GivesUp /\ UNCHANGED card       \* 415
       \/ req.sound /\ Breaks /\ GivesUp /\ UNCHANGED card
       \/ /\ req.sound /\ Works
          /\ card' = [card EXCEPT ![file] = "part"]
          /\ Awaits("data", IO_TIMEOUT) /\ effect' = "card"
          /\ UNCHANGED <<buf, req, got, close, reply, file>>
    /\ NoBeat
    /\ Elsewhere /\ UNCHANGED wire

(* A write or the close fails, or the peer did: the file is deleted again, *)
(* unless that fails.                                                      *)
RemovesThePart == card' = [card EXCEPT ![file] = "none"]
UploadFails(before) ==
    /\ GivesUp
    /\ \/ faults' = faults + before /\ RemovesThePart
       \/ /\ faults + before < MaxFaults /\ faults' = faults + before + 1
          /\ UNCHANGED card
UploadData ==
    /\ pc = "data" /\ got < UPLOAD_SIZE
    /\ \/ ReadSome("data", UPLOAD_SIZE - got) /\ UNCHANGED <<card, file, faults>>
       \/ ReadFails /\ UploadFails(0) /\ NoBeat /\ UNCHANGED wire
    /\ Elsewhere
UploadWriteFails ==
    /\ pc = "data" /\ faults < MaxFaults
    /\ UploadFails(1) /\ NoBeat
    /\ Elsewhere /\ UNCHANGED wire
(* When images= names photos, the new one is added to them.                *)
UploadDone ==
    /\ pc = "data" /\ got = UPLOAD_SIZE
    /\ card' = [card EXCEPT ![file] = "whole"] /\ file' = NoFile
    /\ \/ Ok(effect)
       \/ AwaitsRest("lock save", SD_LOCK_TIMEOUT)
    /\ Beats
    /\ Elsewhere /\ UNCHANGED <<wire, faults>>

-----------------------------------------------------------------------------
Peer == PeerOpens \/ PeerSends \/ PeerShuts \/ PeerGone
Request == ReadHead \/ HeadEnds \/ ReadBody \/ BodyRead \/ Write \/ Flushed
OnCard == LockRefused \/ ListImages \/ DeleteImage \/ SaveTickerTxt \/ OpenImage \/ StreamOn
Upload ==
    \/ UploadBegins \/ UploadHeader \/ CreateFile \/ UploadData
    \/ UploadWriteFails \/ UploadDone
Serving == Request \/ OnCard \/ Upload
Round == Relisten \/ CloseIdle \/ Serve
Next == Peer \/ Tick \/ Round \/ GetsBusy \/ BusyEnds \/ Serving
Spec == Init /\ [][Next]_vars

(* Timeouts fire; what jobs_task does between requests has one, and every  *)
(* round of its loop, also the one after a busy one, looks at the socket.  *)
Fairness ==
    /\ WF_vars(Serving) /\ WF_vars(Tick) /\ WF_vars(BusyEnds)
    /\ SF_vars(Round)
FairSpec == Spec /\ Fairness

-----------------------------------------------------------------------------
TypeOK ==
    /\ sock \in {"Closed", "Listen", "Established", "CloseWait", "closing"}
    /\ wire \in Seq(Tokens) /\ Len(wire) <= SOCKET_RX /\ todo \in Nat
    /\ pc \in {"idle", "busy", "head", "body", "reply", "flush", "lock",
              "lock save", "stream", "header", "data"}
    /\ closing \in None .. FLUSH_TIMEOUT /\ idle \in 0 .. KEEP_ALIVE_IDLE
    /\ last_show \in None .. SHOW_CODE_INTERVAL
    /\ guard \in [failures: 0 .. MAX_FAILURES - 1, locked: 0 .. LOCK_MAX,
                  next: LOCK_BASE .. LOCK_MAX]
    /\ buf \in Seq(Tokens) /\ Len(buf) < HEAD_MAX /\ req \in Kinds \cup {NoReq}
    /\ got \in 0 .. Most(UPLOAD_SIZE, FORM_MAX) /\ close \in BOOLEAN
    /\ reply \in 0 .. PageChunks
    /\ effect \in {"none", "card", "config", "reboot", "check"}
    /\ left \in None .. Most(FLUSH_TIMEOUT, Most(SD_LOCK_TIMEOUT, IO_TIMEOUT))
    /\ elapsed \in 0 .. LongAgo
    /\ card \in [Range(Names) -> {"none", "part", "whole"}]
    /\ file \in Range(Names) \cup {NoFile}
    /\ beat \in None .. WEB_LIMIT + 1
    /\ wrongs \in 0 .. MaxWrong /\ waited \in 0 .. MaxWaited
    /\ faults \in 0 .. MaxFaults

(* The server never reads a piece of a body as the head of a request: an   *)
(* answer that leaves the body unread, or that was made after reading too  *)
(* far, closes the connection.                                             *)
InSync == pc = "head" /\ buf = <<>> /\ wire # <<>> => wire[1] # Body

(* Codes cannot be tried out: every MAX_FAILURES wrong codes cost a lock,  *)
(* each one twice as long as the one before, up to LOCK_MAX, and no code   *)
(* is judged while it lasts.                                               *)
LockNo[n \in 0 .. MaxWrong] ==
    IF n = 0 THEN [next |-> LOCK_BASE, sum |-> 0]
    ELSE [next |-> Least(LockNo[n - 1].next * 2, LOCK_MAX),
          sum |-> LockNo[n - 1].sum + LockNo[n - 1].next]
LockedFor == LockNo[wrongs \div MAX_FAILURES].sum
GuessesAreRationed == waited + guard.locked >= LockedFor
ASSUME BoundsSuffice ==
    \A n \in 0 .. MaxWrong : LockNo[n \div MAX_FAILURES].sum <= MaxWaited

(* Whatever the peer does, Web gives its sign of life in time: no chain of *)
(* timeouts, refusals and slow writes without a beat adds up to WEB_LIMIT. *)
(* Nothing is said of Jobs, for which only the blocks of an upload beat.   *)
WebBeatsInTime == beat <= WEB_LIMIT

(* A head without an end and a photo that comes in piece by piece are given *)
(* up: at most one more read, of IO_TIMEOUT, begins before their deadline. *)
(* That is all: forms and answers have a timeout for each read and write,  *)
(* and none for the whole, for which REQUEST_DEADLINE is meant.            *)
GivenUpInTime ==
    /\ pc = "head" => elapsed < IO_TIMEOUT + IO_TIMEOUT
    /\ pc \in {"header", "data"} => elapsed <= UPLOAD_DEADLINE + IO_TIMEOUT

(* An upload that the peer breaks off, delays or gets wrong leaves no      *)
(* photo behind that is not whole; only a card that fails does.            *)
WholeOrGone ==
    pc = "idle" /\ faults = 0 => \A n \in Range(Names) : card[n] # "part"

(* A request changes the photos, the settings, asks for a reboot or for a  *)
(* check only if it is from a page of this board and has the right code.   *)
NothingWithoutCode ==
    effect # "none" => req.code = "right" /\ req.from = "page"

(* A peer that falls silent, in whatever state it leaves the connection,   *)
(* does not keep it: the server listens again.                             *)
ListensAgain == <>[][~PeerSends]_vars => []<>(sock = "Listen")

(* Requests are cut from the stream where they begin and change something  *)
(* only with the code; Web beats in time; a slow head or upload is given   *)
(* up; an upload is whole or gone.                                         *)
ServiceIsSound ==
    TypeOK /\ InSync /\ WebBeatsInTime /\ GivenUpInTime /\ NothingWithoutCode /\ WholeOrGone
=============================================================================
