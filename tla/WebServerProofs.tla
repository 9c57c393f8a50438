--------------------------- MODULE WebServerProofs ---------------------------
(***************************************************************************)
(* What holds of the settings page for every set of requests, every length *)
(* of its buffers, every timeout that fits the supervisor's limit and      *)
(* every number of photos (server.rs, auth.rs).                            *)
(***************************************************************************)
EXTENDS WebServer, TLAPS, SequenceTheorems, WellFoundedInduction, FiniteSetTheorems

-----------------------------------------------------------------------------
(* Arithmetic.                                                             *)

(* Induction over the natural numbers, for a set.  (The library states it  *)
(* for an operator, which these provers cannot instantiate.)               *)
LEMMA SetInduction ==
  ASSUME NEW T, 0 \in T, \A n \in Nat : n \in T => n + 1 \in T
  PROVE  Nat \subseteq T
<1> DEFINE Out == Nat \ T
           Less == {mn \in Nat \X Nat : mn[1] < mn[2]}
<1>1. IsWellFoundedOn(Less, Nat)
  <2>1. Less = OpToRel(<, Nat)
    BY Zenon DEF OpToRel
  <2> QED
    BY Zenon, <2>1, NatLessThanWellFounded
<1>2. SUFFICES ASSUME Out # {} PROVE FALSE
  OBVIOUS
<1>3. PICK n \in Out : \A m \in Out : ~ (<<m, n>> \in Less)
  BY <1>1, <1>2, WFMin
<1>4. n # 0 /\ n \in Nat /\ n - 1 \in Nat
  OBVIOUS
<1>5. n - 1 \in T
  <2>1. <<n - 1, n>> \in Less
    BY <1>4
  <2> QED
    BY <1>3, <1>4, <2>1
<1> QED
  BY <1>4, <1>5

LEMMA DivNext ==
  ASSUME NEW n \in Nat, NEW d \in Nat \ {0}
  PROVE  /\ n \div d \in Nat /\ n \div d <= n /\ n % d \in 0 .. d - 1
         /\ IF (n % d) + 1 = d
            THEN (n + 1) % d = 0 /\ (n + 1) \div d = (n \div d) + 1
            ELSE (n + 1) % d = (n % d) + 1 /\ (n + 1) \div d = n \div d
OBVIOUS

LEMMA OneTick ==
  ASSUME NEW e \in Nat, NEW e1 \in Nat, e1 <= e + 1, NEW l \in Nat, l > 0
  PROVE  /\ e1 + (l - 1) <= e + l
         /\ e1 + (l - 1) \in Nat /\ e + l \in Nat
OBVIOUS

(* A set of numbers that is not empty has a least one.                     *)
LEMMA HasLeast ==
  ASSUME NEW S \in SUBSET Nat, S # {}
  PROVE  \E i \in S : \A j \in S : i <= j
<1> DEFINE T == {n \in Nat : \A m \in 0 .. n : m \notin S}
<1>1. SUFFICES ASSUME \A i \in S : \E j \in S : j < i PROVE FALSE
  OBVIOUS
<1>2. 0 \in T
  BY <1>1
<1>3. ASSUME NEW n \in Nat, n \in T PROVE n + 1 \in T
  <2>1. n + 1 \notin S
    BY <1>1, <1>3
  <2> QED
    BY <1>3, <2>1
<1>4. Nat \subseteq T
  <2> HIDE DEF T
  <2> QED
    BY <1>2, <1>3, SetInduction
<1>5. PICK x \in S : TRUE
  OBVIOUS
<1>6. x \in Nat /\ x \in 0 .. x
  BY <1>5
<1>7. x \in T
  <2> HIDE DEF T
  <2> QED
    BY <1>4, <1>6
<1> QED
  BY <1>5, <1>6, <1>7

-----------------------------------------------------------------------------
(* The locks.                                                              *)

(* A lock after the other: how long it is, and how long those before it.   *)
LEMMA LockNoGoesOn ==
  ASSUME NEW n \in 0 .. MaxWrong
  PROVE  LockNo[n] = IF n = 0 THEN [next |-> LOCK_BASE, sum |-> 0]
                     ELSE [next |-> Least(LockNo[n - 1].next * 2, LOCK_MAX),
                           sum |-> LockNo[n - 1].sum + LockNo[n - 1].next]
<1> DEFINE Entry(f, i) == IF i = 0 THEN [next |-> LOCK_BASE, sum |-> 0]
                         ELSE [next |-> Least(f[i - 1].next * 2, LOCK_MAX),
                               sum |-> f[i - 1].sum + f[i - 1].next]
           UpTo(m) == \E g : g = [i \in 0 .. m |-> Entry(g, i)]
           Built == {m \in Nat : UpTo(m)}
<1>1. Nat \subseteq Built
  <2>1. 0 \in Built
    <3> DEFINE g == [i \in 0 .. 0 |-> [next |-> LOCK_BASE, sum |-> 0]]
    <3>1. g = [i \in 0 .. 0 |-> Entry(g, i)]
      OBVIOUS
    <3> QED
      BY <3>1
  <2>2. ASSUME NEW m \in Nat, m \in Built PROVE m + 1 \in Built
    <3>1. PICK g : g = [i \in 0 .. m |-> Entry(g, i)]
      BY <2>2
    <3> DEFINE h == [i \in 0 .. m + 1 |-> IF i = m + 1 THEN Entry(g, i) ELSE g[i]]
    <3>2. ASSUME NEW i \in 0 .. m + 1 PROVE h[i] = Entry(h, i)
      <4>1. i > 0 => h[i - 1] = g[i - 1]
        OBVIOUS
      <4>2. Entry(h, i) = Entry(g, i)
        <5> HIDE DEF h
        <5> QED
          BY <4>1
      <4> HIDE DEF Entry
      <4>3. i # m + 1 => i \in 0 .. m
        OBVIOUS
      <4>4. i # m + 1 => g[i] = Entry(g, i)
        BY <3>1, <4>3
      <4>5. h[i] = IF i = m + 1 THEN Entry(g, i) ELSE g[i]
        OBVIOUS
      <4> QED
        BY <4>2, <4>4, <4>5
    <3> HIDE DEF Entry
    <3>3. h = [i \in 0 .. m + 1 |-> Entry(h, i)]
      BY <3>2
    <3>4. UpTo(m + 1)
      <4> HIDE DEF h
      <4> QED
        BY <3>3
    <3> HIDE DEF UpTo
    <3> QED
      BY <3>4
  <2> HIDE DEF Built
  <2> QED
    BY <2>1, <2>2, SetInduction
<1>2. \E g : g = [i \in 0 .. MaxWrong |-> Entry(g, i)]
  <2>1. MaxWrong \in Built
    <3> HIDE DEF Built
    <3> QED
      BY <1>1, WebServerAssumption
  <2> HIDE DEF Entry
  <2> QED
    BY <2>1
<1>3. LockNo = [i \in 0 .. MaxWrong |-> Entry(LockNo, i)]
  <2> DEFINE lockno == CHOOSE g : g = [i \in 0 .. MaxWrong |-> Entry(g, i)]
  <2>1. lockno = [i \in 0 .. MaxWrong |-> Entry(lockno, i)]
    <3> HIDE DEF Entry
    <3> QED
      BY <1>2, Zenon
  <2>2. LockNo = lockno
    BY Zenon DEF LockNo
  <2> HIDE DEF Entry, lockno
  <2> QED
    BY <2>1, <2>2
<1> QED
  BY <1>3

LEMMA LockNoBounds ==
  \A n \in 0 .. MaxWrong : LockNo[n].next \in LOCK_BASE .. LOCK_MAX /\ LockNo[n].sum \in Nat
<1> DEFINE T == {n \in Nat : n <= MaxWrong => LockNo[n].next \in LOCK_BASE .. LOCK_MAX
                                              /\ LockNo[n].sum \in Nat}
<1>1. 0 \in T
  <2>1. LockNo[0] = [next |-> LOCK_BASE, sum |-> 0]
    <3>1. 0 \in 0 .. MaxWrong
      BY WebServerAssumption
    <3> QED
      BY <3>1, LockNoGoesOn
  <2> QED
    BY <2>1, WebServerAssumption
<1>2. ASSUME NEW n \in Nat, n \in T PROVE n + 1 \in T
  <2>1. SUFFICES ASSUME n + 1 <= MaxWrong
                 PROVE /\ LockNo[n + 1].next \in LOCK_BASE .. LOCK_MAX
                       /\ LockNo[n + 1].sum \in Nat
    OBVIOUS
  <2>2. n + 1 \in 0 .. MaxWrong /\ n + 1 # 0 /\ n + 1 - 1 = n
    BY <2>1, WebServerAssumption
  <2>3. LockNo[n + 1] = [next |-> Least(LockNo[n].next * 2, LOCK_MAX),
                         sum |-> LockNo[n].sum + LockNo[n].next]
    BY <2>2, LockNoGoesOn
  <2>4. LockNo[n].next \in LOCK_BASE .. LOCK_MAX /\ LockNo[n].sum \in Nat
    BY <1>2, <2>1, WebServerAssumption
  <2> QED
    BY <2>3, <2>4, WebServerAssumption DEF Least
<1>3. Nat \subseteq T
  <2> HIDE DEF T
  <2> QED
    BY <1>1, <1>2, SetInduction
<1> QED
  BY <1>3

-----------------------------------------------------------------------------
(* The invariant.                                                          *)

Reading == {"body", "lock", "lock save", "stream", "header", "data"}

(* What is set where: a connection is served only while it is up or its    *)
(* peer has gone, and nothing of a request outlives its answer.            *)
Tidy ==
    /\ Waiting => closing = None /\ sock \notin {"Listen", "closing"} /\ left \in Nat
    /\ pc # "head" => buf = <<>>
    /\ pc \in {"idle", "busy", "head", "flush"} => close = FALSE /\ effect = "none"
    /\ sock = "Closed" => wire = <<>>

(* A request on its way has passed the checks of the head; on the way to   *)
(* the settings all of its body has been read.                             *)
InHand ==
    /\ req \in Kinds /\ got <= req.size
    /\ req.route \in CodePosts => req.code = "right" /\ req.from = "page"
    /\ req.route = "upload" => req.size = UPLOAD_SIZE
    /\ pc = "body" => req.size <= FORM_MAX /\ req.route \in Posts \ {"upload"}
    /\ pc = "lock save" => req.route \in CodePosts
    /\ pc \in {"header", "data"} => req.route = "upload" /\ file \in Range(Names)
    /\ pc \in {"lock save", "stream"} => got = req.size
    /\ pc = "lock" /\ req.route # "upload" => got = req.size
Requests == pc \in Reading => InHand

Parts ==
    faults = 0 => \A n \in Range(Names) : card[n] = "part" => pc = "data" /\ n = file

(* The beat, and what is left of the await: the chain of timeouts that may *)
(* follow is short enough.                                                 *)
Longest == Most(SD_LOCK_TIMEOUT, IO_TIMEOUT)
Beaten ==
    /\ ~Waiting => beat = None
    /\ pc \in Reading \cup {"head"} => beat + left <= Longest
    /\ pc = "reply" => beat + left <= Longest + IO_TIMEOUT
    /\ pc = "flush" => beat + left <= Longest + IO_TIMEOUT + FLUSH_TIMEOUT
    /\ AtHand => beat = 0

(* The time since `started`, and what is left of the await.                *)
Uploading == pc \in {"header", "data"}
Timed ==
    /\ pc = "head" => elapsed + left < IO_TIMEOUT + IO_TIMEOUT
    /\ pc = "lock" /\ req.route = "upload" => elapsed + left <= SD_LOCK_TIMEOUT
    /\ Uploading => elapsed + left <= UPLOAD_DEADLINE + IO_TIMEOUT
    /\ Uploading /\ AtHand => elapsed <= UPLOAD_DEADLINE

Rationed ==
    /\ guard.failures = wrongs % MAX_FAILURES
    /\ guard.next = LockNo[wrongs \div MAX_FAILURES].next
    /\ GuessesAreRationed

(* The stream: a token belongs to a body if and only if the body that is   *)
(* being read, or one whose head has arrived, reaches as far.              *)
IsHead(t) == t.part = "head"
Covered(w, owed, i) ==
    \/ i <= owed
    \/ \E j \in 1 .. Len(w) : IsHead(w[j]) /\ j < i /\ i <= j + w[j].size
InStep(w, owed, more) ==
    \A i \in Nat \ {0} :
        Covered(w, owed, i) <=> IF i <= Len(w) THEN w[i] = Body ELSE i <= Len(w) + more
Owed == IF pc \in Reading THEN req.size - got ELSE 0
Cut == closing # None \/ close \/ pc = "flush"
Synced ==
    sock \in {"Established", "CloseWait"} /\ ~Cut => InStep(buf \o wire, Owed, todo)

WebInv ==
    /\ TypeOK /\ Tidy /\ Requests /\ NothingWithoutCode /\ Parts
    /\ Beaten /\ Timed /\ Rationed /\ Synced

USE DEF conn, serving, timers, photos, rationing, Server, Unserved, Elsewhere, Awaits, AwaitsRest,
        ReadsOn, Answer, Refuse, Ok, Forgets, KeepAlive, CloseIt, Beats, NoBeat

LEMMA ParseHeadMoves ==
  ASSUME NEW s, ParseHead(s)
  PROVE  \E k \in Parses(s) :
           \/ Refuse(k)
           \/ /\ k.route \in {"page", "json"} /\ k.size = 0
              /\ \E n \in {1, PageChunks} : Answer(k, n, k.close \/ overread(s, k), effect)
           \/ /\ k.route \in CodePosts => k.code = "right" /\ k.from = "page"
              /\ \/ /\ k.route \in {"images", "image"} /\ k.size = 0
                    /\ Starts(k, s, "lock", SD_LOCK_TIMEOUT)
                 \/ /\ k.route = "upload" /\ k.size = UPLOAD_SIZE
                    /\ Starts(k, s, "lock", SD_LOCK_TIMEOUT)
                 \/ /\ k.route \in Posts \ {"upload"} /\ k.size <= FORM_MAX
                    /\ Starts(k, s, "body", IO_TIMEOUT)
<1>1. PICK k \in Parses(s), ip \in BOOLEAN :
        IF Refused(k, ip) THEN Refuse(k) ELSE Authorised(k, s)
  BY DEF ParseHead
<1>2. k \in Kind /\ k.size \in Nat
  BY WebServerAssumption DEF Parses, Kind
<1>3. SUFFICES ASSUME ~Refused(k, ip), ~Refuse(k)
      PROVE  \/ /\ k.route \in {"page", "json"} /\ k.size = 0
                /\ \E n \in {1, PageChunks} : Answer(k, n, k.close \/ overread(s, k), effect)
             \/ /\ k.route \in CodePosts => k.code = "right" /\ k.from = "page"
                /\ \/ /\ k.route \in {"images", "image"} /\ k.size = 0
                      /\ Starts(k, s, "lock", SD_LOCK_TIMEOUT)
                   \/ /\ k.route = "upload" /\ k.size = UPLOAD_SIZE
                      /\ Starts(k, s, "lock", SD_LOCK_TIMEOUT)
                   \/ /\ k.route \in Posts \ {"upload"} /\ k.size <= FORM_MAX
                      /\ Starts(k, s, "body", IO_TIMEOUT)
  BY <1>1
<1>4. Routed(k, s) /\ (k.route \in CodePosts => k.code = "right")
  BY <1>1, <1>3 DEF Authorised, needs_code, Passes
<1>5. k.route \in Posts => k.from = "page"
  BY <1>2, <1>3 DEF Refused, Kind, is_post
<1>6. k.route \in {"page", "json", "images", "image"} => k.size = 0
  BY <1>2, <1>3 DEF Refused, Kind, is_post, Posts, CodePosts
<1>7. FORM_MAX \in Nat
  BY WebServerAssumption
<1> QED
  BY <1>2, <1>3, <1>4, <1>5, <1>6, <1>7 DEF Routed, ReadsBody, Posts, CodePosts

(* The clock of an upload starts when its head has been read.              *)
LEMMA ParseHeadLocks ==
  ASSUME NEW s, ParseHead(s), pc' = "lock", req'.route = "upload"
  PROVE  elapsed' = 0 /\ left' = SD_LOCK_TIMEOUT
<1>1. PICK k \in Parses(s), ip \in BOOLEAN :
        /\ IF Refused(k, ip) THEN Refuse(k) ELSE Authorised(k, s)
        /\ elapsed' = IF k.route = "upload" THEN 0 ELSE elapsed
  BY DEF ParseHead
<1>2. Routed(k, s) /\ ~Refuse(k)
  BY <1>1 DEF Authorised
<1>3. Starts(k, s, "lock", SD_LOCK_TIMEOUT) \/ ReadsBody(k, s)
      \/ \E n, c : Answer(k, n, c, effect)
  BY <1>2 DEF Routed
<1>4. Starts(k, s, "lock", SD_LOCK_TIMEOUT)
  BY <1>3 DEF ReadsBody, Starts
<1> QED
  BY <1>1, <1>4 DEF Starts

LEMMA HeadMoves ==
  ASSUME ReadHead, TypeOK
  PROVE  \E n \in 1 .. Len(wire) : \E s :
           /\ s = buf \o SubSeq(wire, 1, n) /\ wire' = SubSeq(wire, n + 1, Len(wire))
           /\ \/ HasHead(s) /\ ParseHead(s)
              \/ Answer(NoReq, 1, TRUE, effect)
              \/ CloseIt
              \/ /\ Awaits("head", IO_TIMEOUT) /\ buf' = s /\ Len(s) < HEAD_MAX
                 /\ UNCHANGED <<req, got, close, reply, effect>>
<1>1. Len(wire) \in Nat /\ Len(buf) \in Nat /\ HEAD_MAX \in Nat
  <2>1. wire \in Seq(Tokens) /\ buf \in Seq(Tokens)
    BY DEF TypeOK
  <2>2. HEAD_MAX \in Nat
    BY WebServerAssumption
  <2> QED
    BY <2>1, <2>2
<1>2. 1 .. Least(Len(wire), HEAD_MAX - Len(buf)) \subseteq 1 .. Len(wire)
  BY <1>1 DEF Least
<1>3. PICK n \in 1 .. Least(Len(wire), HEAD_MAX - Len(buf)) :
        LET s == buf \o SubSeq(wire, 1, n)
        IN /\ wire' = SubSeq(wire, n + 1, Len(wire))
           /\ \/ HasHead(s) /\ ParseHead(s)
              \/ Answer(NoReq, 1, TRUE, effect)
              \/ CloseIt
              \/ /\ Awaits("head", IO_TIMEOUT) /\ buf' = s /\ Len(s) < HEAD_MAX
                 /\ UNCHANGED <<req, got, close, reply, effect>>
  <2> HIDE DEF Answer, CloseIt, Awaits
  <2> QED
    BY Zenon DEF ReadHead
<1> QED
  BY <1>2, <1>3
LEMMA BeatMoves ==
  ASSUME Serving, TypeOK
  PROVE  \/ pc' = "idle" /\ beat' = None
         \/ /\ pc' = "flush" /\ left' = FLUSH_TIMEOUT /\ beat' \in {0, beat}
            /\ pc \in Reading \cup {"head", "reply"}
         \/ /\ pc' = "reply" /\ left' = IO_TIMEOUT
            /\ beat' = 0 \/ (beat' = beat /\ pc \in Reading \cup {"head"})
         \/ /\ pc' \in Reading \cup {"head"} /\ left' \in {IO_TIMEOUT, SD_LOCK_TIMEOUT}
            /\ beat' = 0 \/ (beat' = beat /\ AtHand)
<1>1. CASE ReadHead
  <2>1. pc = "head" /\ beat' = 0
    BY <1>1 DEF ReadHead
  <2>2. \/ \E s : ParseHead(s)
        \/ Answer(NoReq, 1, TRUE, effect) \/ CloseIt \/ Awaits("head", IO_TIMEOUT)
    BY <1>1, HeadMoves
  <2>3. CASE \E s : ParseHead(s)
    <3>1. \/ \E k, n, c, e : Answer(k, n, c, e)
          \/ Awaits("lock", SD_LOCK_TIMEOUT) \/ Awaits("body", IO_TIMEOUT)
      <4> HIDE DEF Answer, Awaits
      <4> QED
        BY <2>3, ParseHeadMoves DEF Starts, Refuse
    <3> QED
      BY <2>1, <3>1 DEF Reading
  <2> QED
    BY <2>1, <2>2, <2>3 DEF Reading
<1>2. CASE HeadEnds
  BY <1>2 DEF HeadEnds, ReadEnds, CanRecv, Reading, AtHand
<1>3. CASE ReadBody
  BY <1>3 DEF ReadBody, TakesBody, ReadEnds, CanRecv, BodyBeats, Reading, AtHand
<1>4. CASE BodyRead
  BY <1>4 DEF BodyRead, Reading, AtHand
<1>5. CASE Write
  BY <1>5 DEF Write, Broken, Reading, AtHand
<1>6. CASE Flushed
  BY <1>6 DEF Flushed, Reading, AtHand
<1>7. CASE LockRefused
  BY <1>7 DEF LockRefused, Reading, AtHand
<1>8. CASE ListImages
  BY <1>8 DEF ListImages, Locks, Works, Breaks, Reading, AtHand
<1>9. CASE DeleteImage
  BY <1>9 DEF DeleteImage, Locks, Works, Breaks, Reading, AtHand
<1>10. CASE SaveTickerTxt
  BY <1>10 DEF SaveTickerTxt, Works, Breaks, Reading, AtHand
<1>11. CASE OpenImage
  BY <1>11 DEF OpenImage, Locks, Works, Breaks, Reading, AtHand
<1>12. CASE StreamOn
  BY <1>12 DEF StreamOn, Works, Breaks, Broken, Reading, AtHand
<1>13. CASE UploadBegins
  BY <1>13 DEF UploadBegins, Locks, Works, Breaks, GivesUp, Reading, AtHand
<1>14. CASE UploadHeader
  BY <1>14 DEF UploadHeader, ReadSome, ReadFails, ReadEnds, CanRecv, TakesBody,
     GivesUp, Reading, AtHand
<1>15. CASE CreateFile
  BY <1>15 DEF CreateFile, Works, Breaks, GivesUp, Reading, AtHand
<1>16. CASE UploadData
  BY <1>16 DEF UploadData, ReadSome, ReadFails, ReadEnds, CanRecv, TakesBody,
     UploadFails, GivesUp, RemovesThePart, Reading, AtHand
<1>17. CASE UploadWriteFails
  BY <1>17 DEF UploadWriteFails, UploadFails, GivesUp, RemovesThePart, Reading, AtHand
<1>18. CASE UploadDone
  BY <1>18 DEF UploadDone, Reading, AtHand
<1> QED
  BY <1>1, <1>2, <1>3, <1>4, <1>5, <1>6, <1>7, <1>8, <1>9, <1>10, <1>11, <1>12, <1>13,
     <1>14, <1>15, <1>16, <1>17, <1>18 DEF Next, Peer, Request, OnCard, Upload,
     Serving, Round

LEMMA BeatenKept == WebInv /\ Next => Beaten'
<1> SUFFICES ASSUME WebInv, Next PROVE Beaten'
  OBVIOUS
<1>0. /\ SD_LOCK_TIMEOUT \in Nat /\ IO_TIMEOUT \in Nat /\ FLUSH_TIMEOUT \in Nat
      /\ WEB_LIMIT \in Nat /\ Longest \in Nat
      /\ SD_LOCK_TIMEOUT <= Longest /\ IO_TIMEOUT <= Longest
  BY WebServerAssumption DEF Longest, Most
<1>1. Beaten /\ beat \in None .. WEB_LIMIT + 1 /\ (Waiting => left \in Nat)
  BY DEF WebInv, TypeOK, Tidy
<1>2. CASE Serving
  <2>1. AtHand => beat = 0
    BY <1>1 DEF Beaten
  <2>2. beat \in Int
    BY <1>0, <1>1 DEF None
  <2>9. pc \in Reading \cup {"head", "reply"} => left \in Nat
    BY <1>1 DEF Waiting, Reading
  <2>3. pc \in Reading \cup {"head"} => beat + left <= Longest
    BY <1>1 DEF Beaten
  <2>4. pc = "reply" => beat + left <= Longest + IO_TIMEOUT
    BY <1>1 DEF Beaten
  <2>5. CASE pc' = "idle" /\ beat' = None
    BY <2>5 DEF Beaten, Waiting, Reading, AtHand
  <2>6. CASE /\ pc' = "flush" /\ left' = FLUSH_TIMEOUT /\ beat' \in {0, beat}
             /\ pc \in Reading \cup {"head", "reply"}
    <3>1. beat + left <= Longest + IO_TIMEOUT
      BY <1>0, <2>2, <2>9, <2>3, <2>4, <2>6
    <3>2. beat' <= Longest + IO_TIMEOUT /\ beat' \in Int
      BY <1>0, <2>2, <2>9, <2>6, <3>1
    <3>3. beat' + left' <= Longest + IO_TIMEOUT + FLUSH_TIMEOUT
      <4>1. left' = FLUSH_TIMEOUT
        BY <2>6
      <4>2. \A b, l \in Int : b <= Longest + IO_TIMEOUT /\ l = FLUSH_TIMEOUT
                              => b + l <= Longest + IO_TIMEOUT + FLUSH_TIMEOUT
        BY <1>0
      <4>3. left' \in Int /\ Longest + IO_TIMEOUT \in Int
        BY <1>0, <4>1
      <4> QED
        BY <3>2, <4>1, <4>2, <4>3
    <3> QED
      BY <2>6, <3>3 DEF Beaten, Waiting, Reading, AtHand
  <2>7. CASE /\ pc' = "reply" /\ left' = IO_TIMEOUT
             /\ beat' = 0 \/ (beat' = beat /\ pc \in Reading \cup {"head"})
    <3>1. beat' + left' <= Longest + IO_TIMEOUT
      BY <1>0, <2>2, <2>9, <2>3, <2>7
    <3> QED
      BY <2>7, <3>1 DEF Beaten, Waiting, Reading, AtHand
  <2>8. CASE /\ pc' \in Reading \cup {"head"} /\ left' \in {IO_TIMEOUT, SD_LOCK_TIMEOUT}
             /\ beat' = 0 \/ (beat' = beat /\ AtHand)
    <3>1. beat' = 0 /\ beat' + left' <= Longest
      BY <1>0, <2>1, <2>8
    <3> QED
      BY <2>8, <3>1 DEF Beaten, Waiting, Reading, AtHand
  <2> QED
    BY <1>2, <2>5, <2>6, <2>7, <2>8, BeatMoves DEF WebInv
<1>3. CASE Tick
  <2>1. ~AtHand /\ pc' = pc /\ beat' = Later(beat, WEB_LIMIT + 1)
        /\ (Waiting => left' = left - 1) /\ UNCHANGED <<got, req>>
    BY <1>3 DEF Tick
  <2>2. beat' <= beat + 1 \/ beat' = beat
    BY <1>0, <1>1, <2>1 DEF Later, Least, None
  <2>3. beat' \in Int /\ beat \in Int /\ (beat = None => beat' = None)
    BY <1>0, <1>1, <2>1 DEF Later, Least, None
  <2>4. ASSUME Waiting, NEW m \in Int, beat + left <= m
        PROVE  beat' + left' <= m
    <3>1. \A b, l \in Int : b <= beat + 1 /\ l = left - 1 => b + l <= m
      BY <1>1, <2>3, <2>4
    <3>2. beat' <= beat + 1 /\ beat' \in Int
      BY <2>2, <2>3
    <3>3. left' = left - 1 /\ left' \in Int
      BY <1>1, <2>1, <2>4
    <3> QED
      BY <3>1, <3>2, <3>3
  <2>5. ~AtHand'
    BY <2>1 DEF AtHand
  <2>6. (~Waiting)' => beat' = None
    BY <1>1, <2>1, <2>3 DEF Beaten, Waiting
  <2>7. ASSUME pc \in Reading \cup {"head"} PROVE beat' + left' <= Longest
    <3>1. Waiting /\ beat + left <= Longest
      BY <1>1, <2>7 DEF Beaten, Waiting, Reading
    <3> QED
      BY <1>0, <2>4, <3>1
  <2>8. ASSUME pc = "reply" PROVE beat' + left' <= Longest + IO_TIMEOUT
    <3>1. Waiting /\ beat + left <= Longest + IO_TIMEOUT /\ Longest + IO_TIMEOUT \in Int
      BY <1>0, <1>1, <2>8 DEF Beaten, Waiting
    <3> QED
      BY <2>4, <3>1
  <2>9. ASSUME pc = "flush" PROVE beat' + left' <= Longest + IO_TIMEOUT + FLUSH_TIMEOUT
    <3>1. /\ Waiting /\ beat + left <= Longest + IO_TIMEOUT + FLUSH_TIMEOUT
          /\ Longest + IO_TIMEOUT + FLUSH_TIMEOUT \in Int
      BY <1>0, <1>1, <2>9 DEF Beaten, Waiting
    <3> QED
      BY <2>4, <3>1
  <2>10. (pc \in Reading \cup {"head"} => beat + left <= Longest)'
    BY <2>1, <2>7 DEF Longest, Reading
  <2> QED
    BY <2>1, <2>5, <2>6, <2>8, <2>9, <2>10 DEF Beaten, Longest
<1>4. CASE Serve
  BY <1>0, <1>4 DEF Serve, Beaten, Waiting, Reading, AtHand
<1>5. CASE Peer
  <2>1. UNCHANGED <<pc, beat, left, got, req>>
    BY <1>5 DEF Peer, PeerOpens, PeerSends, PeerShuts, PeerGone
  <2> QED
    BY <1>1, <2>1 DEF Beaten, Waiting, AtHand
<1>6. CASE Relisten \/ CloseIdle \/ GetsBusy \/ BusyEnds
  <2>1. pc \in {"idle", "busy"} /\ pc' \in {"idle", "busy"} /\ beat' = beat
    BY <1>6 DEF Relisten, CloseIdle, GetsBusy, BusyEnds
  <2> QED
    BY <1>1, <2>1 DEF Beaten, Waiting, Reading, AtHand
<1> QED
  BY <1>2, <1>3, <1>4, <1>5, <1>6 DEF Next, Round

LEMMA TimedKept == WebInv /\ Next => Timed'
<1> SUFFICES ASSUME WebInv, Next PROVE Timed'
  OBVIOUS
<1>1. Timed /\ elapsed \in Nat /\ (Waiting => left \in Nat)
  <2>1. Timed /\ elapsed \in 0 .. LongAgo /\ (Waiting => left \in Nat)
    BY DEF WebInv, TypeOK, Tidy
  <2>2. LongAgo \in Nat
    BY WebServerAssumption
  <2> QED
    BY <2>1, <2>2
<1>2. /\ IO_TIMEOUT \in Nat \ {0} /\ SD_LOCK_TIMEOUT \in Nat \ {0} /\ UPLOAD_DEADLINE \in Nat
      /\ SD_LOCK_TIMEOUT <= UPLOAD_DEADLINE /\ LongAgo \in Nat
  BY WebServerAssumption
<1>3. CASE Peer \/ Relisten \/ CloseIdle \/ GetsBusy \/ BusyEnds
  BY <1>1, <1>3 DEF Peer, PeerOpens, PeerSends, PeerShuts, PeerGone, Relisten, CloseIdle, GetsBusy,
                    BusyEnds, Timed, Uploading, AtHand
<1>4. CASE Serve
  BY <1>2, <1>4 DEF Serve, Timed, Uploading
<1>5. CASE Tick
  <2>1. ~AtHand /\ UNCHANGED <<pc, req, got>>
    BY <1>5 DEF Tick
  <2>2. ~AtHand'
    BY <2>1 DEF AtHand
  <2>3. CASE Waiting
    <3>1. left' = left - 1 /\ elapsed' <= elapsed + 1 /\ elapsed' \in Nat /\ left \in Nat /\ left > 0
      BY <1>1, <1>2, <1>5, <2>3 DEF Tick, Least
    <3>2. elapsed' + left' <= elapsed + left /\ elapsed' + left' \in Nat /\ elapsed + left \in Nat
      <4>1. /\ elapsed' + (left - 1) <= elapsed + left
            /\ elapsed' + (left - 1) \in Nat /\ elapsed + left \in Nat
        BY <1>1, <3>1, OneTick
      <4> QED
        BY <3>1, <4>1
    <3>3. pc' = "head" => elapsed' + left' < IO_TIMEOUT + IO_TIMEOUT
      BY <1>1, <1>2, <2>1, <3>2 DEF Timed
    <3>4. pc' = "lock" /\ req'.route = "upload" => elapsed' + left' <= SD_LOCK_TIMEOUT
      BY <1>1, <1>2, <2>1, <3>2 DEF Timed
    <3>5. Uploading' => elapsed' + left' <= UPLOAD_DEADLINE + IO_TIMEOUT
      BY <1>1, <1>2, <2>1, <3>2 DEF Timed, Uploading
    <3> QED
      BY <2>2, <3>3, <3>4, <3>5 DEF Timed
  <2>4. CASE ~Waiting
    BY <2>1, <2>4 DEF Waiting, Timed, Uploading
  <2> QED
    BY <2>3, <2>4
<1>6. CASE ReadHead
  <2>1. pc' \in {"lock", "head", "flush", "reply", "body"}
    <3>1. PICK s : ParseHead(s) \/ Answer(NoReq, 1, TRUE, effect) \/ CloseIt
                   \/ Awaits("head", IO_TIMEOUT)
      BY <1>6 DEF ReadHead
    <3>2. ParseHead(s) => pc' \in {"lock", "reply", "body"}
      BY ParseHeadMoves DEF Starts
    <3> QED
      BY <3>1, <3>2
  <2>2. pc' = "head" => elapsed < IO_TIMEOUT /\ elapsed' = elapsed /\ left' = IO_TIMEOUT
    <3>1. PICK s : \/ ParseHead(s) \/ Answer(NoReq, 1, TRUE, effect) \/ CloseIt
                   \/ /\ elapsed < IO_TIMEOUT /\ Awaits("head", IO_TIMEOUT)
                      /\ UNCHANGED elapsed
      BY <1>6 DEF ReadHead
    <3>2. ParseHead(s) => pc' # "head"
      BY ParseHeadMoves DEF Starts
    <3> QED
      BY <3>1, <3>2
  <2>3. pc' = "lock" /\ req'.route = "upload" => elapsed' = 0 /\ left' = SD_LOCK_TIMEOUT
    <3>1. PICK s : \/ ParseHead(s) \/ Answer(NoReq, 1, TRUE, effect) \/ CloseIt
                   \/ Awaits("head", IO_TIMEOUT)
      BY <1>6 DEF ReadHead
    <3>2. ASSUME ParseHead(s), pc' = "lock", req'.route = "upload"
          PROVE  elapsed' = 0 /\ left' = SD_LOCK_TIMEOUT
      BY <3>2, ParseHeadLocks
    <3> QED
      BY <3>1, <3>2
  <2> QED
    BY <1>1, <1>2, <2>1, <2>2, <2>3 DEF Timed, Uploading
<1>7. CASE UploadBegins
  <2>1. pc = "lock" /\ req.route = "upload" /\ UNCHANGED elapsed
    BY <1>7 DEF UploadBegins, Locks
  <2>2. elapsed <= UPLOAD_DEADLINE
    BY <1>1, <1>2, <2>1 DEF Timed, Waiting
  <2>3. (pc' = "header" /\ left' = IO_TIMEOUT) \/ pc' = "reply"
    BY <1>7 DEF UploadBegins, GivesUp
  <2> QED
    BY <1>1, <1>2, <2>1, <2>2, <2>3 DEF Timed, Uploading
<1>8. CASE UploadHeader \/ UploadData
  <2>1. UNCHANGED elapsed
    BY <1>8 DEF UploadHeader, UploadData
  <2>2. \/ pc' = "reply"
        \/ pc' \in {"header", "data"} /\ left' = IO_TIMEOUT /\ elapsed < UPLOAD_DEADLINE
    BY <1>8 DEF UploadHeader, UploadData, ReadSome, GivesUp, UploadFails
  <2> QED
    BY <1>1, <1>2, <2>1, <2>2 DEF Timed, Uploading
<1>9. CASE CreateFile
  <2>1. elapsed <= UPLOAD_DEADLINE /\ UNCHANGED elapsed
    BY <1>1, <1>9 DEF CreateFile, Timed, Uploading, AtHand
  <2>2. pc' = "reply" \/ (pc' = "data" /\ left' = IO_TIMEOUT)
    BY <1>9 DEF CreateFile, GivesUp
  <2> QED
    BY <1>1, <1>2, <2>1, <2>2 DEF Timed, Uploading
<1>10. CASE UploadWriteFails \/ UploadDone
  <2>1. pc' \in {"reply", "lock save"}
    BY <1>10 DEF UploadWriteFails, UploadDone, UploadFails, GivesUp
  <2> QED
    BY <2>1 DEF Timed, Uploading
<1>11. CASE HeadEnds \/ ReadBody \/ Write \/ Flushed \/ OnCard
  <2>1. pc' \in {"idle", "flush", "body", "reply", "lock save", "stream"}
    BY <1>11 DEF HeadEnds, ReadBody, Write, Flushed, OnCard, LockRefused, ListImages, DeleteImage,
                 SaveTickerTxt, OpenImage, StreamOn
  <2> QED
    BY <2>1 DEF Timed, Uploading
<1>12. CASE BodyRead
  <2>1. pc' \in {"reply", "lock save"} \/ (pc' = "lock" /\ req'.route = "delete")
    BY <1>12 DEF BodyRead
  <2> QED
    BY <2>1 DEF Timed, Uploading
<1> QED
  BY <1>3, <1>4, <1>5, <1>6, <1>7, <1>8, <1>9, <1>10, <1>11, <1>12
     DEF Next, Round, Serving, Request, Upload

LEMMA TidyKept == WebInv /\ Next => Tidy'
<1> SUFFICES ASSUME WebInv, Next PROVE Tidy'
  OBVIOUS
<1>0. /\ SD_LOCK_TIMEOUT \in Nat /\ IO_TIMEOUT \in Nat /\ FLUSH_TIMEOUT \in Nat
  BY WebServerAssumption
<1>1. Tidy /\ TypeOK
  BY DEF WebInv
<1>2. CASE PeerOpens
  BY <1>0, <1>1, <1>2 DEF PeerOpens, Tidy, Waiting
<1>3. CASE PeerSends
  BY <1>0, <1>1, <1>3 DEF PeerSends, Tidy, Waiting
<1>4. CASE PeerShuts
  BY <1>0, <1>1, <1>4 DEF PeerShuts, Tidy, Waiting
<1>5. CASE PeerGone
  BY <1>0, <1>1, <1>5 DEF PeerGone, Tidy, Waiting
<1>6. CASE Tick
  <2>1. /\ UNCHANGED <<sock, wire, pc, buf, close, effect>>
        /\ Waiting => left > 0 /\ left' = left - 1
        /\ closing = None => closing' = None
    BY <1>6 DEF Tick, Later
  <2>2. Waiting' => left' \in Nat
    BY <1>1, <2>1 DEF Tidy, Waiting
  <2> QED
    BY <1>1, <2>1, <2>2 DEF Tidy, Waiting
<1>7. CASE Relisten
  BY <1>0, <1>1, <1>7 DEF Relisten, CloseIsOver, Tidy, Waiting
<1>8. CASE CloseIdle
  BY <1>0, <1>1, <1>8 DEF CloseIdle, CanRecv, IsIdle, Tidy, Waiting
<1>9. CASE Serve
  BY <1>0, <1>1, <1>9 DEF Serve, HasRequest, CanRecv, Tidy, Waiting
<1>10. CASE GetsBusy
  BY <1>0, <1>1, <1>10 DEF GetsBusy, Tidy, Waiting
<1>11. CASE BusyEnds
  BY <1>0, <1>1, <1>11 DEF BusyEnds, Tidy, Waiting
<1>12. CASE ReadHead
  <2>1. pc = "head" /\ UNCHANGED <<sock, closing>> /\ sock # "Closed"
    <3>1. pc = "head" /\ wire # <<>>
      BY <1>12 DEF ReadHead, CanRecv
    <3>2. UNCHANGED <<sock, closing>>
      <4> HIDE DEF Answer, CloseIt, Awaits
      <4>1. \/ \E s : ParseHead(s)
            \/ Answer(NoReq, 1, TRUE, effect) \/ CloseIt \/ Awaits("head", IO_TIMEOUT)
        BY <1>1, <1>12, HeadMoves
      <4>2. ASSUME NEW s, ParseHead(s)
            PROVE  \/ \E k, n, c, e : Answer(k, n, c, e)
                   \/ Awaits("lock", SD_LOCK_TIMEOUT) \/ Awaits("body", IO_TIMEOUT)
        BY <4>2, ParseHeadMoves DEF Starts, Refuse
      <4> QED
        BY <4>1, <4>2 DEF Answer, CloseIt, Awaits
    <3> QED
      BY <1>1, <3>1, <3>2 DEF Tidy
  <2>2. PICK n \in 1 .. Len(wire) : \E s :
           \/ ParseHead(s)
           \/ Answer(NoReq, 1, TRUE, effect)
           \/ CloseIt
           \/ /\ Awaits("head", IO_TIMEOUT) /\ UNCHANGED <<req, got, close, reply, effect>>
    <3> HIDE DEF Answer, CloseIt, Awaits
    <3> QED
      BY <1>1, <1>12, HeadMoves
  <2>3. ASSUME NEW s, ParseHead(s) PROVE Tidy'
    <3>1. \/ \E k, m, c, e : Answer(k, m, c, e)
          \/ \E k : Starts(k, s, "lock", SD_LOCK_TIMEOUT)
          \/ \E k : Starts(k, s, "body", IO_TIMEOUT)
      <4> HIDE DEF Answer
      <4> QED
        BY <2>3, ParseHeadMoves DEF Refuse
    <3> QED
      BY <1>0, <1>1, <2>1, <3>1 DEF Starts, Tidy, Waiting
  <2> QED
    BY <1>0, <1>1, <2>1, <2>2, <2>3 DEF Tidy, Waiting
<1>13. CASE HeadEnds
  BY <1>0, <1>1, <1>13 DEF HeadEnds, ReadEnds, CanRecv, Tidy, Waiting
<1>14. CASE ReadBody
  BY <1>0, <1>1, <1>14 DEF ReadBody, TakesBody, ReadEnds, CanRecv, BodyBeats, Tidy,
     Waiting
<1>15. CASE BodyRead
  BY <1>0, <1>1, <1>15 DEF BodyRead, Tidy, Waiting
<1>16. CASE Write
  BY <1>0, <1>1, <1>16 DEF Write, Broken, Tidy, Waiting
<1>17. CASE Flushed
  BY <1>0, <1>1, <1>17 DEF Flushed, Tidy, Waiting
<1>18. CASE LockRefused
  BY <1>0, <1>1, <1>18 DEF LockRefused, Tidy, Waiting
<1>19. CASE ListImages
  BY <1>0, <1>1, <1>19 DEF ListImages, Locks, Works, Breaks, Tidy, Waiting
<1>20. CASE DeleteImage
  BY <1>0, <1>1, <1>20 DEF DeleteImage, Locks, Works, Breaks, Tidy, Waiting
<1>21. CASE SaveTickerTxt
  BY <1>0, <1>1, <1>21 DEF SaveTickerTxt, Works, Breaks, Tidy, Waiting
<1>22. CASE OpenImage
  BY <1>0, <1>1, <1>22 DEF OpenImage, Locks, Works, Breaks, Tidy, Waiting
<1>23. CASE StreamOn
  BY <1>0, <1>1, <1>23 DEF StreamOn, Works, Breaks, Broken, Tidy, Waiting
<1>24. CASE UploadBegins
  BY <1>0, <1>1, <1>24 DEF UploadBegins, Locks, Works, Breaks, GivesUp, Tidy, Waiting
<1>25. CASE UploadHeader
  BY <1>0, <1>1, <1>25 DEF UploadHeader, ReadSome, ReadFails, ReadEnds, CanRecv,
     TakesBody, GivesUp, Tidy, Waiting
<1>26. CASE CreateFile
  BY <1>0, <1>1, <1>26 DEF CreateFile, Works, Breaks, GivesUp, Tidy, Waiting
<1>27. CASE UploadData
  BY <1>0, <1>1, <1>27 DEF UploadData, ReadSome, ReadFails, ReadEnds, CanRecv,
     TakesBody, UploadFails, GivesUp, RemovesThePart, Tidy, Waiting
<1>28. CASE UploadWriteFails
  BY <1>0, <1>1, <1>28 DEF UploadWriteFails, UploadFails, GivesUp, RemovesThePart,
     Tidy, Waiting
<1>29. CASE UploadDone
  BY <1>0, <1>1, <1>29 DEF UploadDone, Tidy, Waiting
<1> QED
  BY <1>2, <1>3, <1>4, <1>5, <1>6, <1>7, <1>8, <1>9, <1>10, <1>11, <1>12, <1>13, <1>14,
     <1>15, <1>16, <1>17, <1>18, <1>19, <1>20, <1>21, <1>22, <1>23, <1>24, <1>25,
     <1>26, <1>27, <1>28, <1>29
     DEF Next, Peer, Request, OnCard, Upload, Serving, Round

LEMMA TakesSome ==
  ASSUME TypeOK, CanRecv, NEW room \in Nat, TakesBody(room)
  PROVE  \E n \in 1 .. Len(wire) :
           n <= room /\ wire' = SubSeq(wire, n + 1, Len(wire)) /\ got' = got + n
<1>1. wire \in Seq(Tokens)
  BY DEF TypeOK
<1>2. Len(wire) \in Nat
  BY <1>1
<1>3. \A n \in 1 .. Least(Len(wire), room) : n \in 1 .. Len(wire) /\ n <= room
  BY <1>2 DEF Least
<1> QED
  BY <1>3, Zenon DEF TakesBody

LEMMA PickName ==
  ASSUME Cardinality(Present) < MAX_FILES
  PROVE  pick_name \in Range(Names)
<1> DEFINE Free == DOMAIN Names \ Present
<1>1. Len(Names) \in Nat /\ DOMAIN Names = 1 .. Len(Names) /\ MAX_FILES <= Len(Names)
      /\ MAX_FILES \in Nat
  BY WebServerAssumption
<1>2. Free # {}
  <2>1. SUFFICES ASSUME Free = {} PROVE FALSE
    OBVIOUS
  <2>2. Present = 1 .. Len(Names)
    BY <1>1, <2>1 DEF Present
  <2>3. Cardinality(Present) = Len(Names)
    <3>1. 1 \in Int /\ Len(Names) \in Int
      BY <1>1
    <3> DEFINE m == Len(Names)
    <3>2. Cardinality(1 .. m) = IF 1 > m THEN 0 ELSE m - 1 + 1
      <4> HIDE DEF m
      <4> QED
        BY <3>1, FS_Interval, Zenon DEF m
    <3> QED
      BY <1>1, <2>2, <3>2
  <2> QED
    BY <1>1, <2>3
<1>3. Free \in SUBSET Nat
  BY <1>1
<1>4. \E i \in Free : \A j \in Free : i <= j
  <2> HIDE DEF Free
  <2> QED
    BY <1>2, <1>3, HasLeast
<1>5. (CHOOSE i \in Free : \A j \in Free : i <= j) \in Free
  <2> HIDE DEF Free
  <2> QED
    BY <1>4
<1> QED
  BY <1>5 DEF pick_name, Range

(* What came with the head of a request is a part of its body.             *)
LEMMA BodyPrefix ==
  ASSUME NEW s \in Seq(Tokens), HasHead(s), NEW k \in Parses(s)
  PROVE  /\ k \in Kinds /\ k.size \in Nat
         /\ EndOfHead(s) \in 1 .. Len(s)
         /\ s[EndOfHead(s)].part = "head" /\ k.size = s[EndOfHead(s)].size
         /\ \A j \in 1 .. EndOfHead(s) - 1 : s[j].part # "head"
         /\ body_prefix(s, k) \in 0 .. k.size
         /\ ~overread(s, k) => body_prefix(s, k) = Len(s) - EndOfHead(s)
<1> DEFINE H == {i \in DOMAIN s : s[i].part = "head"}
<1>0. DOMAIN s = 1 .. Len(s) /\ Len(s) \in Nat
  OBVIOUS
<1>1. k \in Kinds /\ k.size = s[EndOfHead(s)].size
  BY DEF Parses
<1>2. k.size \in Nat
  BY <1>1, WebServerAssumption DEF Kind
<1>3. PICK i \in H : \A j \in H : i <= j
  <2>1. H \in SUBSET Nat /\ H # {}
    BY <1>0 DEF HasHead
  <2> HIDE DEF H
  <2> QED
    BY <2>1, HasLeast
<1>4. i \in DOMAIN s /\ s[i].part = "head" /\ \A j \in 1 .. i - 1 : s[j].part # "head"
  BY <1>0, <1>3
<1>5. /\ EndOfHead(s) \in DOMAIN s /\ s[EndOfHead(s)].part = "head"
      /\ \A j \in 1 .. EndOfHead(s) - 1 : s[j].part # "head"
  BY <1>4, Zenon DEF EndOfHead
<1> QED
  BY <1>0, <1>1, <1>2, <1>5 DEF body_prefix, overread, Least

(* What the requests need of the constants and of the state.               *)
LEMMA HandFacts ==
  ASSUME WebInv
  PROVE  /\ UPLOAD_SIZE \in Nat \ {0} /\ FORM_MAX \in Nat
         /\ \A k \in Kinds : k.size \in Nat
         /\ Tidy /\ NothingWithoutCode /\ TypeOK
         /\ got \in Nat
         /\ pc \in Reading => InHand
<1>1. UPLOAD_SIZE \in Nat \ {0} /\ FORM_MAX \in Nat
  BY WebServerAssumption
<1>2. \A k \in Kinds : k.size \in Nat
  BY WebServerAssumption DEF Kind
<1>3. Tidy /\ NothingWithoutCode /\ TypeOK /\ Requests
  BY DEF WebInv
<1>4. got \in Nat
  <2>1. got \in 0 .. Most(UPLOAD_SIZE, FORM_MAX)
    BY <1>3 DEF TypeOK
  <2> QED
    BY <2>1
<1> QED
  BY <1>1, <1>2, <1>3, <1>4 DEF Requests

LEMMA RequestsKept == WebInv /\ Next => Requests' /\ NothingWithoutCode'
<1> SUFFICES ASSUME WebInv, Next PROVE Requests' /\ NothingWithoutCode'
  OBVIOUS
<1>0. /\ UPLOAD_SIZE \in Nat \ {0} /\ FORM_MAX \in Nat
      /\ \A k \in Kinds : k.size \in Nat
      /\ Tidy /\ NothingWithoutCode /\ TypeOK
      /\ got \in Nat
      /\ pc \in Reading => InHand
  BY HandFacts
<1>1. CASE ReadHead
  <2>1. pc = "head" /\ effect = "none"
    BY <1>0, <1>1 DEF ReadHead, Tidy
  <2>2. CASE \E s : s \in Seq(Tokens) /\ HasHead(s) /\ ParseHead(s)
    <3>1. PICK s : s \in Seq(Tokens) /\ HasHead(s) /\ ParseHead(s)
      BY <2>2
    <3>2. PICK k \in Parses(s) :
           \/ Refuse(k)
           \/ \E n \in {1, PageChunks} : Answer(k, n, k.close \/ overread(s, k), effect)
           \/ /\ k.route \in CodePosts => k.code = "right" /\ k.from = "page"
              /\ \/ /\ k.route \in {"images", "image"} /\ k.size = 0
                    /\ Starts(k, s, "lock", SD_LOCK_TIMEOUT)
                 \/ /\ k.route = "upload" /\ k.size = UPLOAD_SIZE
                    /\ Starts(k, s, "lock", SD_LOCK_TIMEOUT)
                 \/ /\ k.route \in Posts \ {"upload"} /\ k.size <= FORM_MAX
                    /\ Starts(k, s, "body", IO_TIMEOUT)
      <4> HIDE DEF Answer, Refuse
      <4> QED
        BY <3>1, ParseHeadMoves
    <3>3. k \in Kinds /\ body_prefix(s, k) \in 0 .. k.size
      BY <3>1, BodyPrefix
    <3>4. CASE pc' = "reply" /\ effect' = "none"
      BY <3>4 DEF Requests, NothingWithoutCode, Reading
    <3>5. CASE /\ k.route \in CodePosts => k.code = "right" /\ k.from = "page"
               /\ \/ /\ k.route \in {"images", "image"} /\ k.size = 0
                     /\ Starts(k, s, "lock", SD_LOCK_TIMEOUT)
                  \/ /\ k.route = "upload" /\ k.size = UPLOAD_SIZE
                     /\ Starts(k, s, "lock", SD_LOCK_TIMEOUT)
                  \/ /\ k.route \in Posts \ {"upload"} /\ k.size <= FORM_MAX
                     /\ Starts(k, s, "body", IO_TIMEOUT)
      <4>1. req' = k /\ got' = body_prefix(s, k) /\ effect' = "none"
        BY <2>1, <3>5 DEF Starts
      <4>2. /\ pc' \in {"lock", "body"}
            /\ pc' = "lock" => k.route = "upload" \/ k.size = 0
            /\ pc' = "body" => k.size <= FORM_MAX /\ k.route \in Posts \ {"upload"}
            /\ k.route = "upload" => k.size = UPLOAD_SIZE
        BY <3>5 DEF Starts
      <4>3. InHand'
        <5>1. k.size \in Nat
          BY <1>0, <3>3
        <5>2. (pc = "lock" /\ req.route # "upload" => got = req.size)'
          BY <3>3, <4>1, <4>2, <5>1
        <5>3. (pc # "lock save" /\ pc \notin {"header", "data", "stream"})'
          BY <4>2
        <5>4. (req \in Kinds /\ got <= req.size)'
          BY <3>3, <4>1, <5>1
        <5> QED
          BY <3>5, <4>1, <4>2, <5>2, <5>3, <5>4 DEF InHand
      <4> QED
        BY <4>1, <4>3 DEF Requests, NothingWithoutCode
    <3> QED
      BY <2>1, <3>2, <3>4, <3>5
  <2>3. CASE \/ Answer(NoReq, 1, TRUE, effect) \/ CloseIt
             \/ Awaits("head", IO_TIMEOUT) /\ UNCHANGED <<req, got, close, reply, effect>>
    BY <2>1, <2>3 DEF Requests, NothingWithoutCode, Reading
  <2> QED
    <3>1. PICK n \in 1 .. Len(wire) : \E s :
           /\ s = buf \o SubSeq(wire, 1, n)
           /\ \/ HasHead(s) /\ ParseHead(s)
              \/ Answer(NoReq, 1, TRUE, effect)
              \/ CloseIt
              \/ Awaits("head", IO_TIMEOUT) /\ UNCHANGED <<req, got, close, reply, effect>>
      <4> HIDE DEF Answer, CloseIt, Awaits
      <4> QED
        BY <1>0, <1>1, HeadMoves
    <3>2. buf \o SubSeq(wire, 1, n) \in Seq(Tokens)
      <4>1. buf \in Seq(Tokens) /\ wire \in Seq(Tokens)
        BY <1>0 DEF TypeOK
      <4>2. SubSeq(wire, 1, n) \in Seq(Tokens)
        BY <4>1, SubSeqProperties
      <4> QED
        BY <4>1, <4>2, ConcatProperties
    <3> HIDE DEF Answer, CloseIt, Awaits
    <3> QED
      BY <2>2, <2>3, <3>1, <3>2
<1>2. CASE ReadBody
  <2>1. pc = "body" /\ InHand /\ got < req.size
    BY <1>0, <1>2 DEF ReadBody, Reading
  <2>2. CASE Refuse(req)
    BY <1>0, <2>1, <2>2 DEF Requests, NothingWithoutCode, Reading
  <2>3. CASE CanRecv /\ TakesBody(req.size - got) /\ ReadsOn("body")
    <3>1. req.size - got \in Nat /\ req.size \in Nat
      BY <1>0, <2>1 DEF InHand
    <3>2. PICK n \in 1 .. Len(wire) : n <= req.size - got /\ got' = got + n
      BY <1>0, <2>3, <3>1, TakesSome
    <3>3. got' <= req.size
      BY <1>0, <3>1, <3>2
    <3>4. pc' = "body" /\ UNCHANGED <<req, effect>>
      BY <2>3
    <3>5. InHand'
      BY <2>1, <3>3, <3>4 DEF InHand
    <3> QED
      BY <1>0, <3>4, <3>5 DEF Requests, NothingWithoutCode
  <2> QED
    BY <1>2, <2>2, <2>3 DEF ReadBody
(* Nothing is read on, and what is awaited next may be awaited.            *)
<1>3. CASE BodyRead
  <2>1. pc = "body" /\ got = req.size /\ InHand
    BY <1>0, <1>3 DEF BodyRead, Reading
  <2>2. CASE req.route \in {"save", "delete"} /\ pc' \in {"lock", "lock save"} /\ UNCHANGED serving
    <3>1. InHand'
      BY <2>1, <2>2 DEF InHand, CodePosts, Posts
    <3> QED
      BY <1>0, <2>2, <3>1 DEF Requests, NothingWithoutCode
  <2>3. CASE /\ pc' = "reply" /\ req' = req
             /\ effect' = effect \/ req.route \in CodePosts
    BY <1>0, <2>1, <2>3 DEF Requests, NothingWithoutCode, Reading, InHand
  <2> QED
    BY <1>3, <2>2, <2>3 DEF BodyRead, CodePosts
<1>4. CASE DeleteImage \/ SaveTickerTxt
  <2>1. pc \in {"lock", "lock save"} /\ InHand /\ req.route \in CodePosts
        /\ (pc = "lock" => req.route = "delete")
    BY <1>0, <1>4 DEF DeleteImage, SaveTickerTxt, Locks, Reading, InHand, CodePosts
  <2>2. CASE pc' = "reply" /\ req' = req
    BY <1>0, <2>1, <2>2 DEF Requests, NothingWithoutCode, Reading, InHand
  <2>3. CASE pc' = "lock save" /\ pc = "lock" /\ UNCHANGED <<req, got>>
    <3>1. InHand'
      BY <2>1, <2>3 DEF InHand
    <3> QED
      BY <2>1, <2>3, <3>1 DEF Requests, NothingWithoutCode, InHand
  <2> QED
    BY <1>4, <2>2, <2>3 DEF DeleteImage, SaveTickerTxt, Locks
<1>5. CASE UploadBegins \/ UploadHeader \/ CreateFile \/ UploadData \/ UploadWriteFails \/ UploadDone
  <2>1. pc \in {"lock", "header", "data"} /\ InHand /\ req.route = "upload"
        /\ req.size = UPLOAD_SIZE
    BY <1>0, <1>5 DEF UploadBegins, UploadHeader, CreateFile, UploadData,
       UploadWriteFails,
                      UploadDone, Locks, Reading, InHand
  <2>2. CASE pc' = "reply" /\ req' = req
    BY <1>0, <2>1, <2>2 DEF Requests, NothingWithoutCode, Reading, InHand, CodePosts
  <2>3. CASE /\ pc' \in {"header", "data"} /\ req' = req /\ file' \in Range(Names)
             /\ got' <= req.size /\ effect' \in {effect, "card"}
    <3>1. InHand'
      BY <2>1, <2>3 DEF InHand
    <3> QED
      BY <1>0, <2>1, <2>3, <3>1 DEF Requests, NothingWithoutCode, InHand, CodePosts
  <2>4. CASE pc' = "lock save" /\ UNCHANGED serving /\ got = req.size
    <3>1. InHand'
      BY <2>1, <2>4 DEF InHand, CodePosts
    <3> QED
      BY <1>0, <2>4, <3>1 DEF Requests, NothingWithoutCode
  <2>5. CASE UploadBegins
    <3>1. \/ pc' = "reply" /\ req' = req
          \/ /\ Cardinality(Present) < MAX_FILES /\ file' = pick_name
             /\ pc' = "header" /\ UNCHANGED serving
      BY <2>5 DEF UploadBegins, GivesUp
    <3> QED
      BY <2>1, <2>2, <2>3, <3>1, PickName DEF InHand
  <2>6. CASE UploadHeader \/ UploadData
    <3>1. pc \in {"header", "data"} /\ file \in Range(Names)
      BY <2>1, <2>6 DEF UploadHeader, UploadData, InHand
    <3>2. \/ pc' = "reply" /\ req' = req
          \/ \E room \in {1, UPLOAD_SIZE - got} :
               /\ CanRecv /\ TakesBody(room) /\ room \in Nat /\ got + room <= UPLOAD_SIZE
               /\ pc' = pc /\ UNCHANGED <<req, effect, file>>
      BY <1>0, <2>6 DEF UploadHeader, UploadData, GivesUp, UploadFails, ReadSome
    <3>3. ASSUME NEW room \in Nat, CanRecv, TakesBody(room), got + room <= UPLOAD_SIZE
          PROVE  got' <= req.size
      <4>1. PICK n \in 1 .. Len(wire) : n <= room /\ got' = got + n
        BY <1>0, <3>3, TakesSome
      <4> QED
        BY <1>0, <2>1, <3>3, <4>1
    <3> QED
      BY <2>2, <2>3, <3>1, <3>2, <3>3
  <2>7. CASE CreateFile \/ UploadWriteFails
    BY <2>1, <2>2, <2>3, <2>7 DEF CreateFile, UploadWriteFails, UploadFails, GivesUp,
       InHand
  <2>8. CASE UploadDone
    BY <2>1, <2>2, <2>4, <2>8 DEF UploadDone
  <2> QED
    BY <1>5, <2>5, <2>6, <2>7, <2>8
<1>6. CASE HeadEnds \/ Write \/ Flushed \/ LockRefused \/ ListImages \/ StreamOn
  <2>1. CASE pc' \notin Reading /\ (effect' = "none" \/ UNCHANGED <<req, effect>>)
    BY <1>0, <2>1 DEF Requests, NothingWithoutCode
  <2>2. CASE pc' = "stream" /\ pc = "stream" /\ UNCHANGED <<req, got, effect>>
    BY <1>0, <2>2 DEF Requests, NothingWithoutCode, InHand, Reading
  <2> QED
    BY <1>0, <1>6, <2>1, <2>2 DEF HeadEnds, Write, Flushed, LockRefused, ListImages,
       StreamOn,
        Locks, Tidy, Reading
<1>7. CASE OpenImage
  <2>1. CASE pc' = "reply" /\ UNCHANGED <<req, effect>>
    BY <1>0, <2>1 DEF Requests, NothingWithoutCode, Reading
  <2>2. CASE /\ pc' = "stream" /\ pc = "lock" /\ req.route = "image"
             /\ UNCHANGED <<req, got, effect>>
    BY <1>0, <2>2 DEF Requests, NothingWithoutCode, InHand, Reading
  <2> QED
    BY <1>7, <2>1, <2>2 DEF OpenImage, Locks
<1>8. CASE Peer \/ Tick \/ Round \/ GetsBusy \/ BusyEnds
  <2>1. UNCHANGED <<req, got, effect, file>> /\ (pc' = pc \/ pc' \notin Reading)
    BY <1>8 DEF Peer, PeerOpens, PeerSends, PeerShuts, PeerGone, Tick, Round, Relisten,
       CloseIdle,
                Serve, GetsBusy, BusyEnds, Reading
  <2> QED
    BY <1>0, <2>1 DEF Requests, NothingWithoutCode, InHand
<1> QED
  BY <1>1, <1>2, <1>3, <1>4, <1>5, <1>6, <1>7, <1>8 DEF Next, Request, OnCard, Upload,
     Serving

LEMMA PartsKept == WebInv /\ Next => Parts'
<1> SUFFICES ASSUME WebInv, Next PROVE Parts'
  OBVIOUS
<1>1. Parts /\ faults \in Nat /\ card \in [Range(Names) -> {"none", "part", "whole"}]
  <2>1. Parts /\ faults \in 0 .. MaxFaults /\ card \in [Range(Names) -> {"none", "part", "whole"}]
    BY DEF WebInv, TypeOK
  <2> QED
    BY <2>1, WebServerAssumption
<1>2. pc \in {"header", "data"} => file \in Range(Names)
  BY DEF WebInv, Requests, InHand, Reading
(* No card operation of an upload: what is on the card only gets less.     *)
<1>3. ASSUME faults' = 0 => faults = 0, pc # "data", card' = card
      PROVE  Parts'
  BY <1>1, <1>3 DEF Parts
<1>4. CASE Peer \/ Tick \/ Round \/ GetsBusy \/ BusyEnds
  <2>1. UNCHANGED <<card, file, faults>> /\ (pc' = pc \/ pc # "data")
    BY <1>4 DEF Peer, PeerOpens, PeerSends, PeerShuts, PeerGone, Tick, Round, Relisten,
       CloseIdle,
                Serve, GetsBusy, BusyEnds
  <2> QED
    BY <1>1, <2>1 DEF Parts
<1>5. CASE Request \/ LockRefused
  <2>1. UNCHANGED <<card, faults>> /\ pc # "data"
    BY <1>5 DEF Request, ReadHead, HeadEnds, ReadBody, BodyRead, Write, Flushed,
       LockRefused
  <2> QED
    BY <1>3, <2>1
<1>6. ASSUME Works \/ Breaks PROVE faults' = 0 => faults = 0
  BY <1>1, <1>6 DEF Works, Breaks
<1>7. CASE ListImages \/ SaveTickerTxt \/ OpenImage \/ StreamOn \/ UploadBegins
  <2>1. card' = card /\ pc # "data" /\ (Works \/ Breaks)
    BY <1>7 DEF ListImages, SaveTickerTxt, OpenImage, StreamOn, UploadBegins, Locks
  <2> QED
    BY <1>3, <1>6, <2>1
<1>8. CASE DeleteImage
  <2>1. pc = "lock" /\ (Works \/ Breaks)
    BY <1>8 DEF DeleteImage, Locks
  <2>2. card' = card \/ \E n \in Range(Names) : card' = [card EXCEPT ![n] = "none"]
    BY <1>8 DEF DeleteImage
  <2> QED
    BY <1>1, <1>6, <2>1, <2>2 DEF Parts
<1>9. CASE UploadHeader
  BY <1>3, <1>9 DEF UploadHeader
<1>10. CASE CreateFile
  <2>1. pc = "header" /\ (Works \/ Breaks)
    BY <1>10 DEF CreateFile
  <2>2. CASE card' = card
    BY <1>3, <1>6, <2>1, <2>2
  <2>3. CASE card' = [card EXCEPT ![file] = "part"] /\ pc' = "data" /\ file' = file
    BY <1>1, <1>2, <1>6, <2>1, <2>3 DEF Parts
  <2> QED
    BY <1>10, <2>2, <2>3 DEF CreateFile
<1>11. CASE UploadData \/ UploadWriteFails
  <2>1. pc = "data" /\ file \in Range(Names)
    BY <1>2, <1>11 DEF UploadData, UploadWriteFails
  <2>2. CASE UNCHANGED <<card, file, faults>> /\ pc' = "data"
    BY <1>1, <2>2 DEF Parts
  <2>3. CASE faults' # 0
    BY <2>3 DEF Parts
  <2>4. CASE card' = [card EXCEPT ![file] = "none"] /\ faults' = faults
    BY <1>1, <2>1, <2>4 DEF Parts
  <2> QED
    BY <1>1, <1>11, <2>2, <2>3, <2>4
       DEF UploadData, UploadWriteFails, UploadFails, RemovesThePart, ReadSome
<1>12. CASE UploadDone
  <2>1. /\ card' = [card EXCEPT ![file] = "whole"] /\ faults' = faults
        /\ pc = "data" /\ file \in Range(Names)
    BY <1>2, <1>12 DEF UploadDone
  <2> QED
    BY <1>1, <2>1 DEF Parts
<1> QED
  BY <1>4, <1>5, <1>7, <1>8, <1>9, <1>10, <1>11, <1>12 DEF Next, OnCard, Upload, Serving

-----------------------------------------------------------------------------
(* Wrong codes.                                                            *)

LEMMA RationedKept == WebInv /\ Next => Rationed'
<1> SUFFICES ASSUME WebInv, Next PROVE Rationed'
  OBVIOUS
<1> DEFINE q == wrongs \div MAX_FAILURES
<1>1. /\ MAX_FAILURES \in Nat \ {0} /\ MaxWrong \in Nat /\ MaxWaited \in Nat
      /\ wrongs \in 0 .. MaxWrong /\ waited \in 0 .. MaxWaited
      /\ guard \in [failures: 0 .. MAX_FAILURES - 1, locked: 0 .. LOCK_MAX,
                    next: LOCK_BASE .. LOCK_MAX]
      /\ LOCK_BASE \in Nat /\ LOCK_MAX \in Nat /\ LOCK_BASE <= LOCK_MAX
  BY WebServerAssumption DEF WebInv, TypeOK
<1>2. /\ guard.failures = wrongs % MAX_FAILURES
      /\ guard.next = LockNo[q].next
      /\ waited + guard.locked >= LockNo[q].sum
  BY DEF WebInv, Rationed, GuessesAreRationed, LockedFor
<1>3. /\ q \in Nat /\ q <= wrongs /\ wrongs % MAX_FAILURES \in Nat
      /\ wrongs % MAX_FAILURES < MAX_FAILURES
      /\ IF (wrongs % MAX_FAILURES) + 1 = MAX_FAILURES
         THEN (wrongs + 1) % MAX_FAILURES = 0 /\ (wrongs + 1) \div MAX_FAILURES = q + 1
         ELSE /\ (wrongs + 1) % MAX_FAILURES = (wrongs % MAX_FAILURES) + 1
              /\ (wrongs + 1) \div MAX_FAILURES = q
  <2>1. wrongs \in Nat
    BY <1>1
  <2>2. MAX_FAILURES \in Nat \ {0}
    BY <1>1
  <2>3. q \in Nat /\ q <= wrongs /\ wrongs % MAX_FAILURES \in 0 .. MAX_FAILURES - 1
    BY <2>1, <2>2, DivNext
  <2>4. IF (wrongs % MAX_FAILURES) + 1 = MAX_FAILURES
        THEN (wrongs + 1) % MAX_FAILURES = 0 /\ (wrongs + 1) \div MAX_FAILURES = q + 1
        ELSE /\ (wrongs + 1) % MAX_FAILURES = (wrongs % MAX_FAILURES) + 1
             /\ (wrongs + 1) \div MAX_FAILURES = q
    BY <2>1, <2>2, DivNext, Zenon
  <2> QED
    BY <2>2, <2>3, <2>4
<1>4. LockNo[q].sum \in Nat /\ LockNo[q].next \in Nat /\ LockNo[q].sum <= MaxWaited
  <2>1. q \in 0 .. MaxWrong
    <3> HIDE DEF q
    <3> QED
      BY <1>1, <1>3
  <2>2. LockNo[q].sum \in Nat /\ LockNo[q].next \in LOCK_BASE .. LOCK_MAX
    <3> HIDE DEF q
    <3> QED
      BY <2>1, LockNoBounds
  <2>3. LockNo[q].sum <= MaxWaited
    BY <1>1, BoundsSuffice, Zenon
  <2>4. LockNo[q].next \in Nat
    <3> HIDE DEF q
    <3> QED
      BY <1>1, <2>2
  <2> QED
    BY <2>2, <2>3, <2>4
<1>5. CASE UNCHANGED rationing
  BY <1>2, <1>5 DEF Rationed, GuessesAreRationed, LockedFor
<1>6. CASE Tick
  <2>1. /\ wrongs' = wrongs
        /\ guard' = [guard EXCEPT !.locked = IF @ = 0 THEN 0 ELSE @ - 1]
        /\ waited' = IF guard.locked > 0 THEN Least(waited + 1, MaxWaited) ELSE waited
    BY <1>6 DEF Tick
  <2>2. /\ guard'.failures = guard.failures /\ guard'.next = guard.next
        /\ guard'.locked = IF guard.locked = 0 THEN 0 ELSE guard.locked - 1
    BY <1>1, <2>1
  <2>3. waited' + guard'.locked >= LockNo[q].sum
    <3>1. CASE guard.locked = 0
      BY <1>1, <1>2, <1>4, <2>1, <2>2, <3>1
    <3>2. CASE guard.locked > 0
      BY <1>1, <1>2, <1>4, <2>1, <2>2, <3>2 DEF Least
    <3> QED
      BY <1>1, <3>1, <3>2
  <2> QED
    BY <1>2, <2>1, <2>2, <2>3 DEF Rationed, GuessesAreRationed, LockedFor
<1>7. ASSUME NEW k \in Kinds, k.code = "wrong" => wrongs < MaxWrong,
             guard' = check(guard, k.code),
             wrongs' = IF Passes(guard, k.code) THEN 0
                       ELSE IF Judged(guard, k.code) THEN wrongs + 1 ELSE wrongs,
             waited' = IF Passes(guard, k.code) THEN 0 ELSE waited
      PROVE  Rationed'
  <2>1. CASE Passes(guard, k.code)
    <3>1. guard' = Fresh /\ wrongs' = 0 /\ waited' = 0
      BY <1>7, <2>1 DEF check
    <3>2. 0 \div MAX_FAILURES = 0 /\ 0 % MAX_FAILURES = 0 /\ 0 \in 0 .. MaxWrong
      BY <1>1
    <3>3. LockNo[0] = [next |-> LOCK_BASE, sum |-> 0]
      BY <3>2, LockNoGoesOn
    <3> QED
      BY <3>1, <3>2, <3>3 DEF Rationed, GuessesAreRationed, LockedFor, Fresh
  <2>2. CASE Judged(guard, k.code)
    <3>1. k.code = "wrong" /\ guard.locked = 0 /\ ~Passes(guard, k.code)
      BY <2>2 DEF Judged, Passes
    <3>2. wrongs' = wrongs + 1 /\ waited' = waited /\ wrongs < MaxWrong
      BY <1>7, <2>2, <3>1
    <3>3. waited >= LockNo[q].sum
      BY <1>1, <1>2, <1>4, <3>1
    <3>4. CASE guard.failures + 1 >= MAX_FAILURES
      <4>1. guard' = LockedOut(guard)
        BY <1>7, <2>2, <3>1, <3>4 DEF check
      <4>2. (wrongs % MAX_FAILURES) + 1 = MAX_FAILURES
        BY <1>1, <1>2, <1>3, <3>4
      <4>3. (wrongs + 1) % MAX_FAILURES = 0 /\ (wrongs + 1) \div MAX_FAILURES = q + 1
        BY <1>3, <4>2
      <4>4. q + 1 \in 0 .. MaxWrong /\ q + 1 # 0 /\ q + 1 - 1 = q
        <5> HIDE DEF q
        <5> QED
          BY <1>1, <1>3, <3>2
      <4>5. LockNo[q + 1] = [next |-> Least(LockNo[q].next * 2, LOCK_MAX),
                             sum |-> LockNo[q].sum + LockNo[q].next]
        <5> DEFINE n == q + 1
        <5>1. LockNo[n] = [next |-> Least(LockNo[n - 1].next * 2, LOCK_MAX),
                           sum |-> LockNo[n - 1].sum + LockNo[n - 1].next]
          <6>1. n \in 0 .. MaxWrong /\ n # 0
            BY <4>4
          <6> HIDE DEF n
          <6> QED
            BY <6>1, LockNoGoesOn
        <5> HIDE DEF q
        <5>2. n - 1 = q
          BY <1>3
        <5> QED
          BY <5>1, <5>2
      <4>6. guard'.failures = 0 /\ guard'.locked = guard.next
            /\ guard'.next = Least(guard.next * 2, LOCK_MAX)
        BY <4>1 DEF LockedOut
      <4>7. waited' + guard'.locked >= LockNo[q].sum + LockNo[q].next
        BY <1>1, <1>2, <1>4, <3>2, <3>3, <4>6
      <4>8. wrongs' % MAX_FAILURES = 0 /\ wrongs' \div MAX_FAILURES = q + 1
        BY <3>2, <4>3
      <4> HIDE DEF q
      <4> QED
        BY <1>2, <4>5, <4>6, <4>7, <4>8 DEF Rationed, GuessesAreRationed, LockedFor
    <3>5. CASE ~(guard.failures + 1 >= MAX_FAILURES)
      <4>1. guard' = [guard EXCEPT !.failures = @ + 1]
        BY <1>7, <2>2, <3>1, <3>5 DEF check
      <4>2. (wrongs + 1) % MAX_FAILURES = (wrongs % MAX_FAILURES) + 1
            /\ (wrongs + 1) \div MAX_FAILURES = q
        BY <1>1, <1>2, <1>3, <3>5
      <4>3. guard'.failures = (wrongs % MAX_FAILURES) + 1 /\ guard'.next = guard.next
            /\ guard'.locked = 0
        BY <1>1, <1>2, <3>1, <4>1
      <4>4. waited' + guard'.locked >= LockNo[q].sum
        BY <1>1, <1>4, <3>2, <3>3, <4>3
      <4>5. wrongs' % MAX_FAILURES = guard'.failures /\ wrongs' \div MAX_FAILURES = q
        BY <3>2, <4>2, <4>3
      <4> HIDE DEF q
      <4> QED
        BY <1>2, <4>3, <4>4, <4>5 DEF Rationed, GuessesAreRationed, LockedFor
    <3> QED
      BY <3>4, <3>5
  <2>3. CASE ~Passes(guard, k.code) /\ ~Judged(guard, k.code)
    BY <1>5, <1>7, <2>3 DEF check
  <2> QED
    BY <2>1, <2>2, <2>3
<1>8. CASE ReadHead
  <2>1. CASE \E s : ParseHead(s)
    <3>1. PICK s : \E k \in Parses(s) : Authorised(k, s) \/ UNCHANGED rationing
      <4> HIDE DEF rationing
      <4> QED
        BY <2>1 DEF ParseHead
    <3>2. PICK k \in Parses(s) : Authorised(k, s) \/ UNCHANGED rationing
      BY <3>1
    <3>3. k \in Kinds /\ (k.code = "wrong" => wrongs < MaxWrong)
      BY DEF Parses
    <3>4. \/ UNCHANGED rationing
          \/ /\ guard' = check(guard, k.code)
             /\ wrongs' = IF Passes(guard, k.code) THEN 0
                          ELSE IF Judged(guard, k.code) THEN wrongs + 1 ELSE wrongs
             /\ waited' = IF Passes(guard, k.code) THEN 0 ELSE waited
      BY <3>2 DEF Authorised
    <3> QED
      BY <1>5, <1>7, <3>3, <3>4
  <2> QED
    BY <1>5, <1>8, <2>1 DEF ReadHead
<1>9. Next => Tick \/ ReadHead \/ UNCHANGED rationing
  BY DEF Next, Peer, PeerOpens, PeerSends, PeerShuts, PeerGone, Round, Relisten,
     CloseIdle, Serve,
         GetsBusy, BusyEnds, Serving, Request, HeadEnds, ReadBody, BodyRead, Write, Flushed, OnCard,
         LockRefused, ListImages, DeleteImage, SaveTickerTxt, OpenImage, StreamOn, Upload,
         UploadBegins, UploadHeader, CreateFile, UploadData, UploadWriteFails, UploadDone
<1> QED
  BY <1>5, <1>6, <1>8, <1>9

-----------------------------------------------------------------------------
(* The stream of tokens.                                                   *)

LEMMA TokenIs ==
  ASSUME NEW t \in Tokens
  PROVE  IsHead(t) => t # Body /\ t.size \in Nat
<1>1. CASE t = Piece \/ t = Body
  BY <1>1 DEF Piece, Body, IsHead
<1>2. CASE \E n \in Sizes : t = HeadEnd(n)
  <2>1. PICK n \in Sizes : t = HeadEnd(n)
    BY <1>2
  <2>2. n \in Nat
    BY WebServerAssumption DEF Sizes, Kind
  <2>3. t.size = n /\ t.part = "head"
    BY <2>1 DEF HeadEnd
  <2>4. Body.part = "body"
    BY DEF Body
  <2>5. t # Body
    BY <2>3, <2>4
  <2> QED
    BY <2>2, <2>3, <2>5
<1> QED
  BY <1>1, <1>2 DEF Tokens

(* A token that covers no position before the one behind it.               *)
LEMMA OneMoreToken ==
  ASSUME NEW w \in Seq(Tokens), NEW o \in Nat, NEW t \in Tokens,
         NEW i \in Nat \ {0}
  PROVE  Covered(Append(w, t), o, i) <=>
           Covered(w, o, i) \/ (IsHead(t) /\ Len(w) + 1 < i /\ i <= Len(w) + 1 + t.size)
<1> DEFINE a == Append(w, t)
<1>1. /\ Len(w) \in Nat /\ Len(a) = Len(w) + 1 /\ a[Len(w) + 1] = t
      /\ \A j \in 1 .. Len(w) : a[j] = w[j]
  OBVIOUS
<1>2. 1 .. Len(a) = 1 .. Len(w) \cup {Len(w) + 1}
  BY <1>1
<1> HIDE DEF a
<1>3. (\E j \in 1 .. Len(a) : IsHead(a[j]) /\ j < i /\ i <= j + a[j].size) <=>
        \/ \E j \in 1 .. Len(w) : IsHead(a[j]) /\ j < i /\ i <= j + a[j].size
        \/ IsHead(t) /\ Len(w) + 1 < i /\ i <= Len(w) + 1 + t.size
  BY <1>1, <1>2
<1> QED
  BY <1>1, <1>3 DEF Covered, a

LEMMA StepsOn ==
  ASSUME NEW w \in Seq(Tokens), NEW o \in Nat, NEW m \in Nat, InStep(w, o, m)
  PROVE  /\ m > 0 => InStep(Append(w, Body), o, m - 1)
         /\ m = 0 => InStep(Append(w, Piece), o, 0)
         /\ m = 0 => \A n \in Sizes : InStep(Append(w, HeadEnd(n)), o, n)
<1>1. Len(w) \in Nat
  OBVIOUS
<1>2. ASSUME NEW t \in Tokens, NEW r \in Nat, t = Body <=> m > 0,
             IF m > 0 THEN r = m - 1 ELSE r = IF IsHead(t) THEN t.size ELSE 0
      PROVE  InStep(Append(w, t), o, r)
  <2> DEFINE a == Append(w, t)
  <2>1. /\ Len(a) = Len(w) + 1 /\ a[Len(w) + 1] = t
        /\ \A j \in 1 .. Len(w) : a[j] = w[j]
    BY <1>1
  <2>2. SUFFICES ASSUME NEW i \in Nat \ {0}
                 PROVE  Covered(a, o, i) <=>
                          IF i <= Len(a) THEN a[i] = Body ELSE i <= Len(a) + r
    BY DEF InStep
  <2>3. Covered(w, o, i) <=> IF i <= Len(w) THEN w[i] = Body ELSE i <= Len(w) + m
    BY DEF InStep
  <2>4. Covered(a, o, i) <=>
          Covered(w, o, i) \/ (IsHead(t) /\ Len(w) + 1 < i /\ i <= Len(w) + 1 + t.size)
    BY OneMoreToken
  <2>5. IsHead(t) => t # Body /\ t.size \in Nat
    BY TokenIs
  <2> HIDE DEF a
  <2>6. CASE i <= Len(w)
    BY <1>1, <2>1, <2>3, <2>4, <2>6
  <2>7. CASE i = Len(w) + 1
    BY <1>1, <1>2, <2>1, <2>3, <2>4, <2>7
  <2>8. CASE i > Len(w) + 1
    <3>1. CASE IsHead(t)
      BY <1>1, <1>2, <2>1, <2>3, <2>4, <2>5, <2>8, <3>1
    <3>2. CASE ~IsHead(t)
      BY <1>1, <1>2, <2>1, <2>3, <2>4, <2>8, <3>2
    <3> QED
      BY <3>1, <3>2
  <2> QED
    BY <1>1, <2>6, <2>7, <2>8
<1>3. m > 0 => InStep(Append(w, Body), o, m - 1)
  BY <1>2 DEF Tokens
<1>4. m = 0 => InStep(Append(w, Piece), o, 0)
  <2>1. Piece \in Tokens /\ Piece # Body /\ ~IsHead(Piece)
    BY DEF Tokens, Piece, Body, IsHead
  <2> QED
    BY <1>2, <2>1
<1>5. ASSUME m = 0, NEW n \in Sizes PROVE InStep(Append(w, HeadEnd(n)), o, n)
  <2>1. HeadEnd(n) \in Tokens /\ IsHead(HeadEnd(n)) /\ HeadEnd(n).size = n
    BY DEF Tokens, HeadEnd, IsHead
  <2>2. HeadEnd(n) # Body /\ n \in Nat
    BY <2>1, TokenIs
  <2> QED
    BY <1>2, <1>5, <2>1, <2>2
<1> QED
  BY <1>3, <1>4, <1>5

(* What has been read is cut off; o tokens of the body read, or begun, are *)
(* still to come.                                                          *)
LEMMA CutOff ==
  ASSUME NEW s \in Seq(Tokens), NEW v \in Seq(Tokens), NEW o \in Nat, NEW m \in Nat,
         InStep(s \o v, o, m), NEW r \in Nat,
         \A i \in Nat \ {0} :
             \/ i + Len(s) <= o
             \/ \E j \in 1 .. Len(s) : IsHead(s[j]) /\ i + Len(s) <= j + s[j].size
           <=> i <= r
  PROVE  InStep(v, r, m)
<1> DEFINE w == s \o v
           L == Len(s)
<1>1. /\ L \in Nat /\ Len(v) \in Nat /\ Len(w) = L + Len(v)
      /\ \A j \in 1 .. L : w[j] = s[j]
      /\ \A j \in 1 .. Len(v) : w[L + j] = v[j]
  OBVIOUS
<1>2. SUFFICES ASSUME NEW i \in Nat \ {0}
               PROVE  Covered(v, r, i) <=>
                        IF i <= Len(v) THEN v[i] = Body ELSE i <= Len(v) + m
  BY DEF InStep
<1> HIDE DEF w, L
<1>3. i + L \in Nat \ {0}
  BY <1>1
<1>4. Covered(w, o, i + L) <=>
        IF i + L <= Len(w) THEN w[i + L] = Body ELSE i + L <= Len(w) + m
  BY <1>3 DEF InStep, w, L
<1>5. (IF i + L <= Len(w) THEN w[i + L] = Body ELSE i + L <= Len(w) + m)
        <=> IF i <= Len(v) THEN v[i] = Body ELSE i <= Len(v) + m
  <2>1. i + L <= Len(w) <=> i <= Len(v)
    BY <1>1
  <2>2. i + L <= Len(w) + m <=> i <= Len(v) + m
    BY <1>1
  <2>3. i <= Len(v) => w[i + L] = v[i]
    <3>1. i + L = L + i
      BY <1>1
    <3> QED
      BY <1>1, <3>1
  <2> QED
    BY <2>1, <2>2, <2>3
<1>6. Covered(w, o, i + L) <=> Covered(v, r, i)
  <2>1. /\ i + L <= o \/ (\E j \in 1 .. L : IsHead(s[j]) /\ i + L <= j + s[j].size)
        <=> i <= r
    BY DEF L
  <2>2. (\E j \in 1 .. Len(w) : IsHead(w[j]) /\ j < i + L /\ i + L <= j + w[j].size) <=>
          \/ \E j \in 1 .. L : IsHead(s[j]) /\ i + L <= j + s[j].size
          \/ \E j \in 1 .. Len(v) : IsHead(v[j]) /\ j < i /\ i <= j + v[j].size
    <3>1. ASSUME NEW j \in 1 .. Len(w), IsHead(w[j]), j < i + L, i + L <= j + w[j].size
          PROVE  \/ \E h \in 1 .. L : IsHead(s[h]) /\ i + L <= h + s[h].size
                 \/ \E h \in 1 .. Len(v) : IsHead(v[h]) /\ h < i /\ i <= h + v[h].size
      <4>1. CASE j <= L
        BY <1>1, <3>1, <4>1
      <4>2. CASE j > L
        <5> DEFINE h == j - L
        <5>1. h \in 1 .. Len(v) /\ L + h = j
          BY <1>1, <4>2
        <5>2. w[j] = v[h]
          BY <1>1, <5>1
        <5>3. v[h] \in Tokens
          BY <5>1
        <5>4. v[h].size \in Nat /\ IsHead(v[h])
          BY <3>1, <5>2, <5>3, TokenIs
        <5>5. h < i /\ i <= h + v[h].size
          <6> DEFINE z == v[h].size
          <6>1. i + L <= j + z /\ z \in Nat
            BY <3>1, <5>2, <5>4
          <6> HIDE DEF z
          <6>2. h < i /\ i <= h + z
            BY <1>1, <3>1, <6>1
          <6> QED
            BY <6>2 DEF z
        <5> QED
          BY <5>1, <5>4, <5>5
      <4> QED
        BY <1>1, <4>1, <4>2
    <3>2. ASSUME NEW j \in 1 .. L, IsHead(s[j]), i + L <= j + s[j].size
          PROVE  \E h \in 1 .. Len(w) : IsHead(w[h]) /\ h < i + L /\ i + L <= h + w[h].size
      <4>1. j \in 1 .. Len(w) /\ j < i + L /\ w[j] = s[j]
        BY <1>1
      <4> QED
        BY <3>2, <4>1
    <3>3. ASSUME NEW j \in 1 .. Len(v), IsHead(v[j]), j < i, i <= j + v[j].size
          PROVE  \E h \in 1 .. Len(w) : IsHead(w[h]) /\ h < i + L /\ i + L <= h + w[h].size
      <4>1. L + j \in 1 .. Len(w) /\ L + j < i + L /\ w[L + j] = v[j]
        BY <1>1, <3>3
      <4>2. v[j] \in Tokens
        OBVIOUS
      <4>3. v[j].size \in Nat
        BY <3>3, <4>2, TokenIs
      <4>4. i + L <= (L + j) + v[j].size
        <5> DEFINE z == v[j].size
        <5>1. i <= j + z /\ z \in Nat
          BY <3>3, <4>3
        <5> HIDE DEF z
        <5>2. i + L <= (L + j) + z
          BY <1>1, <5>1
        <5> QED
          BY <5>2 DEF z
      <4> QED
        BY <3>3, <4>1, <4>4
    <3> QED
      BY <3>1, <3>2, <3>3
  <2> QED
    BY <2>1, <2>2 DEF Covered
<1> QED
  BY <1>4, <1>5, <1>6

(* The rest of a body that is being read.                                  *)
LEMMA BodyGoesOn ==
  ASSUME NEW w \in Seq(Tokens), NEW o \in Nat, NEW m \in Nat, InStep(w, o, m),
         NEW n \in 1 .. Len(w), n <= o
  PROVE  InStep(SubSeq(w, n + 1, Len(w)), o - n, m)
<1> DEFINE s == SubSeq(w, 1, n)
           v == SubSeq(w, n + 1, Len(w))
<1>1. /\ s \in Seq(Tokens) /\ v \in Seq(Tokens) /\ Len(s) = n /\ w = s \o v
      /\ \A j \in 1 .. n : s[j] = w[j]
  OBVIOUS
<1>2. ASSUME NEW j \in 1 .. n PROVE ~IsHead(s[j])
  <2>1. Covered(w, o, j) /\ j \in Nat \ {0} /\ j <= Len(w)
    BY <1>2 DEF Covered
  <2>2. w[j] = Body
    BY <2>1 DEF InStep
  <2>3. Body \in Tokens
    BY DEF Tokens
  <2> QED
    BY <1>1, <2>2, <2>3, TokenIs
<1> HIDE DEF s, v
<1>3. \A i \in Nat \ {0} :
             \/ i + Len(s) <= o
             \/ \E j \in 1 .. Len(s) : IsHead(s[j]) /\ i + Len(s) <= j + s[j].size
           <=> i <= o - n
  BY <1>1, <1>2
<1>4. o - n \in Nat
  OBVIOUS
<1>5. InStep(v, o - n, m)
  BY <1>1, <1>3, <1>4, CutOff
<1> QED
  BY <1>5 DEF v

(* A head, and what has come with it.                                      *)
LEMMA BodyBegins ==
  ASSUME NEW s \in Seq(Tokens), NEW v \in Seq(Tokens), NEW m \in Nat, InStep(s \o v, 0, m),
         HasHead(s), NEW k \in Parses(s), ~overread(s, k)
  PROVE  InStep(v, k.size - body_prefix(s, k), m)
<1> DEFINE e == EndOfHead(s)
           z == k.size
           w == s \o v
<1>1. /\ z \in Nat /\ e \in 1 .. Len(s) /\ IsHead(s[e]) /\ z = s[e].size
      /\ \A j \in 1 .. e - 1 : ~IsHead(s[j])
      /\ body_prefix(s, k) \in 0 .. z /\ body_prefix(s, k) = Len(s) - e
  BY BodyPrefix DEF IsHead
<1>2. /\ Len(s) \in Nat /\ Len(w) \in Nat /\ Len(s) <= Len(w)
      /\ \A j \in 1 .. Len(s) : w[j] = s[j]
  OBVIOUS
<1>3. Len(s) <= e + z
  BY <1>1, <1>2
<1> HIDE DEF e, z, w
<1>4. ASSUME NEW j \in 1 .. Len(s), j > e PROVE ~IsHead(s[j])
  <2>1. e \in 1 .. Len(w) /\ IsHead(w[e]) /\ e < j /\ j <= e + w[e].size
    BY <1>1, <1>2, <1>3, <1>4
  <2>2. Covered(w, 0, j) /\ j \in Nat \ {0} /\ j <= Len(w)
    BY <1>2, <2>1 DEF Covered
  <2>3. w[j] = Body
    BY <2>2 DEF InStep, w
  <2>4. Body \in Tokens
    BY DEF Tokens
  <2> QED
    BY <1>2, <2>3, <2>4, TokenIs
<1> DEFINE r == z - (Len(s) - e)
<1>5. r \in Nat
  BY <1>1, <1>2, <1>3
<1>6. ASSUME NEW i \in Nat \ {0}
      PROVE  \/ i + Len(s) <= 0
             \/ \E j \in 1 .. Len(s) : IsHead(s[j]) /\ i + Len(s) <= j + s[j].size
           <=> i <= r
  <2>1. ~(i + Len(s) <= 0)
    BY <1>2
  <2>2. i + Len(s) <= e + z <=> i <= r
    BY <1>1, <1>2
  <2>3. ASSUME NEW j \in 1 .. Len(s), IsHead(s[j]) PROVE j = e
    BY <1>1, <1>2, <1>4, <2>3
  <2> QED
    BY <1>1, <2>1, <2>2, <2>3
<1> HIDE DEF r
<1>7. InStep(v, r, m)
  BY <1>5, <1>6, CutOff
<1> QED
  BY <1>1, <1>7 DEF r, z

LEMMA SyncedKept == WebInv /\ Next => Synced'
<1> SUFFICES ASSUME WebInv, Next, (sock \in {"Established", "CloseWait"} /\ ~Cut)'
             PROVE  InStep(buf \o wire, Owed, todo)'
  BY DEF Synced
<1>0. /\ Tidy /\ TypeOK /\ (pc \in Reading => InHand)
      /\ wire \in Seq(Tokens) /\ buf \in Seq(Tokens) /\ todo \in Nat /\ got \in Nat
      /\ UPLOAD_SIZE \in Nat /\ \A k \in Kinds : k.size \in Nat
  BY HandFacts DEF TypeOK
<1>1. Owed \in Nat
  <2>1. CASE pc \in Reading
    <3>1. req.size \in Nat /\ got <= req.size
      BY <1>0, <2>1 DEF InHand
    <3> QED
      BY <1>0, <2>1, <3>1 DEF Owed
  <2> QED
    BY <2>1 DEF Owed
<1>2. sock \in {"Established", "CloseWait"} /\ ~Cut => InStep(buf \o wire, Owed, todo)
  BY DEF WebInv, Synced
<1>3. pc # "head" => buf \o wire = wire
  <2>1. <<>> \o wire = wire
    BY <1>0, ConcatEmptySeq
  <2> QED
    BY <1>0, <2>1 DEF Tidy
(* Nothing moves in the stream.                                            *)
<1>4. ASSUME UNCHANGED <<wire, todo, buf>>, Owed' = Owed, ~Cut,
             sock \in {"Established", "CloseWait"}
      PROVE  InStep(buf \o wire, Owed, todo)'
  BY <1>2, <1>4
<1>5. CASE PeerOpens
  <2>1. sock = "Listen" /\ wire' = <<>> /\ todo' = 0 /\ UNCHANGED <<buf, pc>>
    BY <1>5 DEF PeerOpens
  <2>2. pc \notin Reading /\ buf = <<>>
    BY <1>0, <2>1 DEF Tidy, Waiting, Reading
  <2>3. Owed' = 0 /\ (buf \o wire)' = <<>> \o <<>>
    BY <2>1, <2>2 DEF Owed
  <2>4. <<>> \o <<>> = <<>>
    OBVIOUS
  <2>5. InStep(<<>>, 0, 0)
    BY DEF InStep, Covered
  <2> QED
    BY <2>1, <2>3, <2>4, <2>5
<1>6. CASE PeerSends
  <2>1. sock = "Established" /\ UNCHANGED Server
    BY <1>6 DEF PeerSends
  <2>2. ~Cut /\ Owed' = Owed /\ buf' = buf
    BY <2>1 DEF Cut, Owed
  <2>3. InStep(buf \o wire, Owed, todo) /\ buf \o wire \in Seq(Tokens)
    BY <1>0, <1>2, <2>1, <2>2
  <2>4. \A t \in Tokens : buf \o Append(wire, t) = Append(buf \o wire, t)
    BY <1>0
  <2>5. /\ Piece \in Tokens /\ Body \in Tokens
        /\ \A n \in Sizes : HeadEnd(n) \in Tokens
    BY DEF Tokens
  <2>6. \/ todo > 0 /\ wire' = Append(wire, Body) /\ todo' = todo - 1
        \/ todo = 0 /\ wire' = Append(wire, Piece) /\ todo' = 0
        \/ todo = 0 /\ \E n \in Sizes : wire' = Append(wire, HeadEnd(n)) /\ todo' = n
    BY <1>6 DEF PeerSends
  <2>7. /\ todo > 0 => InStep(Append(buf \o wire, Body), Owed, todo - 1)
        /\ todo = 0 => InStep(Append(buf \o wire, Piece), Owed, 0)
        /\ todo = 0 => \A n \in Sizes : InStep(Append(buf \o wire, HeadEnd(n)), Owed, n)
    <3> DEFINE w == buf \o wire
    <3>1. InStep(w, Owed, todo) /\ w \in Seq(Tokens)
      BY <2>3
    <3> HIDE DEF w
    <3>2. /\ todo > 0 => InStep(Append(w, Body), Owed, todo - 1)
          /\ todo = 0 => InStep(Append(w, Piece), Owed, 0)
          /\ todo = 0 => \A n \in Sizes : InStep(Append(w, HeadEnd(n)), Owed, n)
      BY <1>0, <1>1, <3>1, StepsOn
    <3> QED
      BY <3>2 DEF w
  <2> QED
    BY <2>2, <2>4, <2>5, <2>6, <2>7
<1>7. CASE PeerShuts \/ PeerGone \/ Tick
  <2>1. UNCHANGED <<wire, todo, buf, pc, req, got, close>>
        /\ sock \in {"Established", "CloseWait"}
        /\ (closing' = closing \/ closing' = Later(closing, FLUSH_TIMEOUT))
    BY <1>7 DEF PeerShuts, PeerGone, Tick
  <2>2. closing' = None => closing = None
    <3>1. closing \in None .. FLUSH_TIMEOUT /\ FLUSH_TIMEOUT \in Nat
      BY <1>0, WebServerAssumption DEF TypeOK
    <3> QED
      BY <2>1, <3>1 DEF Later, Least, None
  <2> QED
    <3>1. closing' = None /\ ~close' /\ pc' # "flush"
      BY DEF Cut
    <3>2. ~Cut
      BY <2>1, <2>2, <3>1 DEF Cut
    <3>3. Owed' = Owed
      BY <2>1 DEF Owed
    <3> QED
      BY <1>4, <2>1, <3>2, <3>3
<1>8. CASE Round \/ GetsBusy \/ BusyEnds
  <2>1. UNCHANGED <<sock, wire, todo, buf, req, got, close, closing>>
        /\ pc \in {"idle", "busy"} /\ pc' \in {"idle", "busy", "head"}
    BY <1>8 DEF Round, Relisten, CloseIdle, Serve, GetsBusy, BusyEnds
  <2> QED
    BY <1>4, <2>1 DEF Owed, Cut, Reading
<1>9. CASE ReadHead
  <2>1. pc = "head" /\ Owed = 0 /\ todo' = todo /\ closing = None /\ wire # <<>>
    BY <1>0, <1>9 DEF ReadHead, Owed, Reading, Tidy, Waiting, CanRecv
  <2>2. sock \in {"Established", "CloseWait"} /\ ~Cut
    BY <1>0, <2>1 DEF Tidy, Waiting, Cut, TypeOK
  <2>3. PICK n \in 1 .. Len(wire) : \E s :
           /\ s = buf \o SubSeq(wire, 1, n) /\ wire' = SubSeq(wire, n + 1, Len(wire))
           /\ \/ HasHead(s) /\ ParseHead(s)
              \/ Answer(NoReq, 1, TRUE, effect)
              \/ CloseIt
              \/ Awaits("head", IO_TIMEOUT) /\ buf' = s
    <3> HIDE DEF Answer, CloseIt, Awaits
    <3> QED
      BY <1>0, <1>9, HeadMoves
  <2> DEFINE s == buf \o SubSeq(wire, 1, n)
             v == SubSeq(wire, n + 1, Len(wire))
  <2>4. s \in Seq(Tokens) /\ v \in Seq(Tokens) /\ s \o v = buf \o wire
    <3>1. /\ SubSeq(wire, 1, n) \in Seq(Tokens) /\ v \in Seq(Tokens)
          /\ wire = SubSeq(wire, 1, n) \o v
      BY <1>0
    <3>2. s \o v = buf \o (SubSeq(wire, 1, n) \o v)
      <4> DEFINE a == SubSeq(wire, 1, n)
      <4>1. a \in Seq(Tokens) /\ v \in Seq(Tokens) /\ buf \in Seq(Tokens)
        BY <1>0, <3>1
      <4> HIDE DEF a, v
      <4>2. (buf \o a) \o v = buf \o (a \o v)
        BY <4>1, ConcatAssociative
      <4> QED
        BY <4>2 DEF a
    <3>3. s \in Seq(Tokens)
      BY <1>0, <3>1, ConcatProperties
    <3> QED
      BY <3>1, <3>2, <3>3
  <2>5. wire' = v /\ InStep(s \o v, 0, todo)
    BY <1>2, <2>1, <2>2, <2>3, <2>4
  <2>6. CASE Answer(NoReq, 1, TRUE, effect) \/ CloseIt
    BY <2>6 DEF Cut
  <2>7. CASE Awaits("head", IO_TIMEOUT) /\ buf' = s
    <3>1. Owed' = 0 /\ (buf \o wire)' = s \o v
      <4> HIDE DEF s, v
      <4> QED
        BY <2>5, <2>7 DEF Owed, Reading
    <3> QED
      BY <2>1, <2>5, <3>1
  <2>8. CASE HasHead(s) /\ ParseHead(s)
    <3>1. PICK k \in Parses(s) :
           \/ Refuse(k)
           \/ /\ k.size = 0
              /\ \E c \in {1, PageChunks} : Answer(k, c, k.close \/ overread(s, k), effect)
           \/ Starts(k, s, "lock", SD_LOCK_TIMEOUT) \/ Starts(k, s, "body", IO_TIMEOUT)
      <4> HIDE DEF Answer, Refuse, s
      <4> QED
        BY <2>8, ParseHeadMoves
    <3>2. CASE Refuse(k)
      BY <3>2 DEF Cut
    <3>3. /\ k \in Kinds /\ k.size \in Nat
          /\ body_prefix(s, k) \in 0 .. k.size
      <4> HIDE DEF s
      <4> QED
        BY <2>4, <2>8, BodyPrefix
    <3>4. CASE /\ k.size = 0
               /\ \E c \in {1, PageChunks} : Answer(k, c, k.close \/ overread(s, k), effect)
      <4> HIDE DEF s, v
      <4>1. ~overread(s, k) /\ buf' = <<>> /\ Owed' = 0
        BY <3>4 DEF Cut, Owed, Reading
      <4>2. k.size - body_prefix(s, k) = 0
        BY <3>3, <3>4
      <4>3. InStep(v, 0, todo)
        BY <1>0, <2>4, <2>5, <2>8, <4>1, <4>2, BodyBegins
      <4>4. (buf \o wire)' = v
        BY <2>4, <2>5, <4>1, ConcatEmptySeq
      <4> QED
        BY <2>1, <4>1, <4>3, <4>4
    <3>5. CASE Starts(k, s, "lock", SD_LOCK_TIMEOUT) \/ Starts(k, s, "body", IO_TIMEOUT)
      <4> HIDE DEF s, v
      <4>1. /\ ~overread(s, k) /\ buf' = <<>>
            /\ Owed' = k.size - body_prefix(s, k)
        BY <3>5 DEF Starts, Cut, Owed, Reading
      <4>2. InStep(v, k.size - body_prefix(s, k), todo)
        BY <1>0, <2>4, <2>5, <2>8, <4>1, BodyBegins
      <4>3. (buf \o wire)' = v
        BY <2>4, <2>5, <4>1, ConcatEmptySeq
      <4> QED
        BY <2>1, <4>1, <4>2, <4>3
    <3> QED
      BY <3>1, <3>2, <3>4, <3>5
  <2> QED
    BY <2>3, <2>6, <2>7, <2>8
(* A piece of the body is read.                                            *)
<1>10. ASSUME NEW room \in Nat, room <= req.size - got, CanRecv, TakesBody(room),
              pc \in Reading, pc' = pc, UNCHANGED <<sock, closing, todo, buf, req, close>>
       PROVE  InStep(buf \o wire, Owed, todo)'
  <2>1. PICK n \in 1 .. Len(wire) :
          n <= room /\ wire' = SubSeq(wire, n + 1, Len(wire)) /\ got' = got + n
    BY <1>0, <1>10, TakesSome
  <2>2. sock \in {"Established", "CloseWait"} /\ ~Cut
    BY <1>10 DEF Cut
  <2>3. pc # "head" /\ buf = <<>> /\ buf' = <<>>
    BY <1>0, <1>10 DEF Reading, Tidy
  <2>4. InStep(wire, Owed, todo)
    BY <1>2, <1>3, <2>2, <2>3
  <2>5. Owed = req.size - got /\ Owed' = req.size - got' /\ req.size \in Nat
    BY <1>0, <1>10 DEF Owed, InHand
  <2>6. n <= Owed /\ Owed' = Owed - n
    BY <1>0, <1>10, <2>1, <2>5
  <2>7. InStep(SubSeq(wire, n + 1, Len(wire)), Owed - n, todo)
    BY <1>0, <1>1, <2>4, <2>6, BodyGoesOn
  <2>8. (buf \o wire)' = SubSeq(wire, n + 1, Len(wire))
    <3> DEFINE v == SubSeq(wire, n + 1, Len(wire))
    <3>1. v \in Seq(Tokens)
      BY <1>0
    <3> HIDE DEF v
    <3>2. <<>> \o v = v
      BY <3>1, ConcatEmptySeq
    <3> QED
      BY <2>1, <2>3, <3>2 DEF v
  <2> QED
    BY <1>10, <2>6, <2>7, <2>8
(* A step of a request that reads nothing: it leaves as much of the body   *)
(* unread as before, or closes the connection.                             *)
<1>11. ASSUME UNCHANGED <<sock, closing, wire, todo>>, pc \in Reading \cup {"reply"},
              ~close, buf' \in {buf, <<>>}, Owed' = Owed
       PROVE  InStep(buf \o wire, Owed, todo)'
  <2>1. buf = <<>>
    BY <1>0, <1>11 DEF Tidy, Reading
  <2>2. ~Cut /\ sock \in {"Established", "CloseWait"}
    BY <1>11 DEF Cut, Reading
  <2> QED
    BY <1>4, <1>11, <2>1, <2>2
<1>12. CASE HeadEnds \/ Flushed
  BY <1>0, <1>12 DEF HeadEnds, Flushed, Cut, None
<1>13. CASE ReadBody
  <2>1. pc = "body" /\ got < req.size /\ InHand
    BY <1>0, <1>13 DEF ReadBody, Reading
  <2>2. req.size - got \in Nat
    BY <1>0, <2>1 DEF InHand
  <2>3. todo' = todo
    BY <1>13 DEF ReadBody
  <2>4. CASE Refuse(req)
    BY <2>4 DEF Cut
  <2>5. CASE CanRecv /\ TakesBody(req.size - got) /\ ReadsOn("body")
    BY <1>0, <1>10, <2>1, <2>2, <2>3, <2>5 DEF Reading
  <2> QED
    BY <1>13, <2>4, <2>5 DEF ReadBody
<1>14. CASE UploadHeader \/ UploadData
  <2>1. pc \in {"header", "data"} /\ InHand /\ req.size = UPLOAD_SIZE /\ todo' = todo
    BY <1>0, <1>14 DEF UploadHeader, UploadData, Reading, InHand
  <2>2. CASE Refuse(req)
    BY <2>2 DEF Cut
  <2>3. CASE \E room \in {1, UPLOAD_SIZE - got} :
               CanRecv /\ TakesBody(room) /\ ReadsOn(pc) /\ room \in Nat /\ room <= UPLOAD_SIZE - got
    BY <1>0, <1>10, <2>1, <2>3 DEF Reading
  <2>4. UPLOAD_SIZE \in Nat \ {0}
    BY WebServerAssumption
  <2>5. CASE UploadHeader
    <3>1. 1 \in Nat /\ (got = 0 => 1 <= UPLOAD_SIZE - got)
      BY <2>4
    <3> HIDE DEF ReadsOn, Refuse
    <3> QED
      BY <2>2, <2>3, <2>5, <3>1 DEF UploadHeader, ReadSome, GivesUp
  <2>6. CASE UploadData
    <3>1. UPLOAD_SIZE - got \in Nat
      BY <1>0, <2>6 DEF UploadData
    <3>2. UPLOAD_SIZE - got <= UPLOAD_SIZE - got
      BY <3>1
    <3> HIDE DEF ReadsOn, Refuse
    <3> QED
      BY <2>2, <2>3, <2>6, <3>1, <3>2 DEF UploadData, ReadSome, GivesUp, UploadFails
  <2> QED
    BY <1>14, <2>5, <2>6
<1>15. CASE BodyRead \/ LockRefused \/ ListImages \/ DeleteImage \/ SaveTickerTxt \/ OpenImage
            \/ UploadBegins \/ CreateFile \/ UploadWriteFails \/ UploadDone
  <2>1. pc \in Reading /\ InHand /\ UNCHANGED <<wire, todo>>
    BY <1>0, <1>15 DEF BodyRead, LockRefused, ListImages, DeleteImage, SaveTickerTxt,
       OpenImage,
        UploadBegins, CreateFile, UploadWriteFails, UploadDone, Locks, Reading
  <2>2. CASE Refuse(req)
    BY <2>2 DEF Cut
  <2>3. CASE close' = TRUE
    BY <2>3 DEF Cut
  <2>4. CASE pc' \in Reading /\ UNCHANGED <<sock, closing, buf, req, got, close>>
    BY <1>11, <2>1, <2>4 DEF Owed, Cut
  <2>5. CASE got = req.size /\ \E change : Ok(change)
    <3>1. Owed = 0
      BY <1>0, <2>5 DEF Owed
    <3>2. Owed' = 0
      BY <2>5 DEF Owed, Reading
    <3> QED
      BY <1>11, <2>1, <2>5, <3>1, <3>2 DEF Cut
  <2>6. CASE BodyRead
    <3>1. got = req.size
      BY <2>6 DEF BodyRead
    <3> HIDE DEF Answer, Refuse, Ok
    <3> QED
      BY <2>2, <2>3, <2>4, <2>5, <2>6, <3>1 DEF BodyRead, Reading, Answer
  <2>7. CASE LockRefused \/ UploadWriteFails
    BY <2>2, <2>7 DEF LockRefused, UploadWriteFails, UploadFails, GivesUp
  <2>8. CASE ListImages \/ DeleteImage \/ SaveTickerTxt \/ OpenImage
    <3>1. got = req.size
      BY <2>1, <2>8 DEF ListImages, DeleteImage, SaveTickerTxt, OpenImage, Locks, InHand
    <3> HIDE DEF Answer, Refuse, Ok
    <3> QED
      BY <2>2, <2>4, <2>5, <2>8, <3>1
         DEF ListImages, DeleteImage, SaveTickerTxt, OpenImage, Reading
  <2>9. CASE UploadBegins \/ CreateFile
    BY <2>2, <2>4, <2>9 DEF UploadBegins, CreateFile, GivesUp, Reading
  <2>10. CASE UploadDone
    <3>1. got = req.size
      BY <2>1, <2>10 DEF UploadDone, InHand
    <3> HIDE DEF Answer, Refuse, Ok
    <3> QED
      BY <2>4, <2>5, <2>10, <3>1 DEF UploadDone, Reading
  <2> QED
    BY <1>15, <2>6, <2>7, <2>8, <2>9, <2>10
<1>16. CASE Write \/ StreamOn
  <2>1. pc \in {"reply", "stream"} /\ UNCHANGED <<wire, todo>> /\ (pc = "stream" => InHand)
    BY <1>0, <1>16 DEF Write, StreamOn, Reading
  <2>2. Owed = 0
    <3>1. pc = "stream" => got = req.size
      BY <2>1 DEF InHand
    <3>2. got - got = 0
      BY <1>0
    <3> QED
      BY <2>1, <3>1, <3>2 DEF Owed, Reading
  <2>3. CASE CloseIt
    BY <2>3 DEF Cut
  <2>4. CASE KeepAlive /\ ~close
    <3>1. Owed' = 0
      BY <2>4 DEF Owed, Reading
    <3> QED
      BY <1>11, <2>1, <2>2, <2>4, <3>1 DEF Reading
  <2>5. CASE pc' = pc /\ UNCHANGED <<sock, closing, buf, req, got, close>>
    <3>1. Owed' = Owed
      BY <2>5 DEF Owed
    <3> QED
      BY <1>11, <2>1, <2>5, <3>1 DEF Reading, Cut
  <2> QED
    BY <1>16, <2>1, <2>3, <2>4, <2>5 DEF Write, StreamOn
<1> QED
  BY <1>5, <1>6, <1>7, <1>8, <1>9, <1>12, <1>13, <1>14, <1>15, <1>16
     DEF Next, Peer, Request, OnCard, Upload, Serving

-----------------------------------------------------------------------------
(* Types.                                                                  *)

(* What a step of a request, other than the one that reads its head, leads *)
(* to.                                                                     *)
LEMMA ServingForms ==
  ASSUME Serving, ~ReadHead
  PROVE  \/ \E c \in {close, TRUE}, e \in {effect, "card", "config", "reboot", "check"} :
               Answer(req, 1, c, e)
         \/ KeepAlive
         \/ CloseIt
         \/ Flushed
         \/ \E where \in Reading \cup {"reply"}, t \in {IO_TIMEOUT, SD_LOCK_TIMEOUT} :
               /\ Awaits(where, t)
               /\ UNCHANGED <<buf, req, close>> /\ effect' \in {effect, "card"}
               /\ reply' \in {reply, PageChunks} \/ (reply > 1 /\ reply' = reply - 1)
<1> HIDE DEF Answer, KeepAlive, CloseIt, Awaits
<1>1. CASE HeadEnds
  BY <1>1 DEF HeadEnds, ReadEnds, CanRecv, Reading
<1>2. CASE ReadBody
  BY <1>2 DEF ReadBody, TakesBody, ReadEnds, CanRecv, BodyBeats, Reading
<1>3. CASE BodyRead
  BY <1>3 DEF BodyRead, Reading
<1>4. CASE Write
  BY <1>4 DEF Write, Broken, Reading
<1>5. CASE Flushed
  BY <1>5 DEF Flushed, Reading
<1>6. CASE LockRefused
  BY <1>6 DEF LockRefused, Reading
<1>7. CASE ListImages
  BY <1>7 DEF ListImages, Locks, Works, Breaks, Reading
<1>8. CASE DeleteImage
  BY <1>8 DEF DeleteImage, Locks, Works, Breaks, Reading
<1>9. CASE SaveTickerTxt
  BY <1>9 DEF SaveTickerTxt, Works, Breaks, Reading
<1>10. CASE OpenImage
  BY <1>10 DEF OpenImage, Locks, Works, Breaks, Reading
<1>11. CASE StreamOn
  BY <1>11 DEF StreamOn, Works, Breaks, Broken, Reading
<1>12. CASE UploadBegins
  BY <1>12 DEF UploadBegins, Locks, Works, Breaks, GivesUp, Reading
<1>13. CASE UploadHeader
  BY <1>13 DEF UploadHeader, ReadSome, ReadFails, ReadEnds, CanRecv, TakesBody,
     GivesUp, Reading
<1>14. CASE CreateFile
  BY <1>14 DEF CreateFile, Works, Breaks, GivesUp, Reading
<1>15. CASE UploadData
  BY <1>15 DEF UploadData, ReadSome, ReadFails, ReadEnds, CanRecv, TakesBody,
     UploadFails, GivesUp, RemovesThePart, Reading
<1>16. CASE UploadWriteFails
  BY <1>16 DEF UploadWriteFails, UploadFails, GivesUp, RemovesThePart, Reading
<1>17. CASE UploadDone
  BY <1>17 DEF UploadDone, Reading
<1> QED
  BY <1>1, <1>2, <1>3, <1>4, <1>5, <1>6, <1>7, <1>8, <1>9, <1>10, <1>11, <1>12, <1>13,
     <1>14, <1>15, <1>16, <1>17
     DEF Serving, Request, OnCard, Upload

LEMMA ServingElsewhere ==
  ASSUME Serving, ~ReadHead
  PROVE  /\ UNCHANGED <<todo, last_show, elapsed, rationing>> /\ beat' \in {beat, 0, None}
<1>1. CASE HeadEnds
  BY <1>1 DEF HeadEnds, ReadEnds, CanRecv
<1>2. CASE ReadBody
  BY <1>2 DEF ReadBody, TakesBody, ReadEnds, CanRecv, BodyBeats
<1>3. CASE BodyRead
  BY <1>3 DEF BodyRead
<1>4. CASE Write
  BY <1>4 DEF Write, Broken
<1>5. CASE Flushed
  BY <1>5 DEF Flushed
<1>6. CASE LockRefused
  BY <1>6 DEF LockRefused
<1>7. CASE ListImages
  BY <1>7 DEF ListImages, Locks, Works, Breaks
<1>8. CASE DeleteImage
  BY <1>8 DEF DeleteImage, Locks, Works, Breaks
<1>9. CASE SaveTickerTxt
  BY <1>9 DEF SaveTickerTxt, Works, Breaks
<1>10. CASE OpenImage
  BY <1>10 DEF OpenImage, Locks, Works, Breaks
<1>11. CASE StreamOn
  BY <1>11 DEF StreamOn, Works, Breaks, Broken
<1>12. CASE UploadBegins
  BY <1>12 DEF UploadBegins, Locks, Works, Breaks, GivesUp
<1>13. CASE UploadHeader
  BY <1>13 DEF UploadHeader, ReadSome, ReadFails, ReadEnds, CanRecv, TakesBody, GivesUp
<1>14. CASE CreateFile
  BY <1>14 DEF CreateFile, Works, Breaks, GivesUp
<1>15. CASE UploadData
  BY <1>15 DEF UploadData, ReadSome, ReadFails, ReadEnds, CanRecv, TakesBody,
     UploadFails, GivesUp, RemovesThePart
<1>16. CASE UploadWriteFails
  BY <1>16 DEF UploadWriteFails, UploadFails, GivesUp, RemovesThePart
<1>17. CASE UploadDone
  BY <1>17 DEF UploadDone
<1> QED
  BY <1>1, <1>2, <1>3, <1>4, <1>5, <1>6, <1>7, <1>8, <1>9, <1>10, <1>11, <1>12, <1>13,
     <1>14, <1>15, <1>16, <1>17
     DEF Serving, Request, OnCard, Upload

LEMMA ServingReads ==
  ASSUME Serving, ~ReadHead, WebInv
  PROVE  \/ wire' = wire /\ got' \in {got, 0}
         \/ /\ pc' \in {"body", "header", "data"}
            /\ \E n \in 1 .. Len(wire) : wire' = SubSeq(wire, n + 1, Len(wire)) /\ got' = got + n
<1>0. /\ TypeOK /\ (pc \in Reading => InHand) /\ UPLOAD_SIZE \in Nat /\ got \in Nat
      /\ \A k \in Kinds : k.size \in Nat
  BY HandFacts
<1>1. ASSUME NEW room \in Nat, CanRecv, TakesBody(room)
      PROVE  \E n \in 1 .. Len(wire) : wire' = SubSeq(wire, n + 1, Len(wire)) /\ got' = got + n
  BY <1>0, <1>1, TakesSome
<1>2. CASE ReadBody
  <2>1. req \in Kinds /\ got < req.size
    BY <1>0, <1>2 DEF ReadBody, Reading, InHand
  <2>2. req.size - got \in Nat
    <3>1. req.size \in Nat
      BY <1>0, <2>1
    <3> QED
      BY <1>0, <2>1, <3>1
  <2> QED
    BY <1>1, <1>2, <2>2 DEF ReadBody
<1>3. CASE UploadHeader
  BY <1>1, <1>3 DEF UploadHeader, ReadSome, GivesUp
<1>4. CASE UploadData
  <2>1. UPLOAD_SIZE - got \in Nat
    BY <1>0, <1>4 DEF UploadData
  <2> QED
    BY <1>1, <1>4, <2>1 DEF UploadData, ReadSome, UploadFails, GivesUp
<1>5. CASE ~ReadBody /\ ~UploadHeader /\ ~UploadData
  <2>1. CASE HeadEnds \/ BodyRead \/ Write \/ Flushed \/ LockRefused
    BY <2>1 DEF HeadEnds, BodyRead, Write, Flushed, LockRefused
  <2>2. CASE ListImages \/ DeleteImage \/ SaveTickerTxt \/ OpenImage \/ StreamOn
    BY <2>2 DEF ListImages, DeleteImage, SaveTickerTxt, OpenImage, StreamOn
  <2>3. CASE UploadBegins \/ CreateFile \/ UploadWriteFails \/ UploadDone
    BY <2>3 DEF UploadBegins, CreateFile, UploadWriteFails, UploadDone, UploadFails,
       GivesUp
  <2> QED
    BY <1>5, <2>1, <2>2, <2>3 DEF Serving, Request, OnCard, Upload
<1> QED
  BY <1>2, <1>3, <1>4, <1>5

LEMMA CardKept ==
  ASSUME WebInv, Next
  PROVE  /\ card' \in [Range(Names) -> {"none", "part", "whole"}]
         /\ file' \in Range(Names) \cup {NoFile} /\ faults' \in 0 .. MaxFaults
<1>1. /\ card \in [Range(Names) -> {"none", "part", "whole"}] /\ MaxFaults \in Nat
      /\ file \in Range(Names) \cup {NoFile} /\ faults \in 0 .. MaxFaults
  BY WebServerAssumption DEF WebInv, TypeOK
<1>2. pc \in {"header", "data"} => file \in Range(Names)
  BY DEF WebInv, Requests, InHand, Reading
<1>3. ASSUME Works \/ Breaks PROVE faults' \in 0 .. MaxFaults
  BY <1>1, <1>3 DEF Works, Breaks
<1>4. CASE Peer \/ Tick \/ Round \/ GetsBusy \/ BusyEnds \/ Request \/ LockRefused
  <2>1. UNCHANGED <<card, file, faults>>
    BY <1>4 DEF Peer, PeerOpens, PeerSends, PeerShuts, PeerGone, Tick, Round, Relisten,
       CloseIdle,
                Serve, GetsBusy, BusyEnds, Request, ReadHead, HeadEnds, ReadBody, BodyRead, Write,
                Flushed, LockRefused
  <2> QED
    BY <1>1, <2>1
<1>5. CASE ListImages \/ SaveTickerTxt \/ OpenImage \/ StreamOn
  <2>1. UNCHANGED <<card, file>> /\ (Works \/ Breaks)
    BY <1>5 DEF ListImages, SaveTickerTxt, OpenImage, StreamOn
  <2> QED
    BY <1>1, <1>3, <2>1
<1>6. CASE DeleteImage
  <2>1. file' = file /\ (Works \/ Breaks)
    BY <1>6 DEF DeleteImage
  <2>2. card' = card \/ \E n \in Range(Names) : card' = [card EXCEPT ![n] = "none"]
    BY <1>6 DEF DeleteImage
  <2> QED
    BY <1>1, <1>3, <2>1, <2>2
<1>7. CASE UploadBegins
  <2>1. card' = card /\ (Works \/ Breaks) /\ file' \in Range(Names) \cup {NoFile}
    BY <1>7, PickName DEF UploadBegins, GivesUp
  <2> QED
    BY <1>1, <1>3, <2>1
<1>8. CASE UploadHeader
  BY <1>1, <1>8 DEF UploadHeader, GivesUp
<1>9. CASE CreateFile
  <2>1. /\ file' \in {file, NoFile} /\ (Works \/ Breaks) /\ pc = "header"
        /\ card' = card \/ card' = [card EXCEPT ![file] = "part"]
    BY <1>9 DEF CreateFile, GivesUp
  <2> QED
    BY <1>1, <1>2, <1>3, <2>1
<1>10. CASE UploadData \/ UploadWriteFails
  <2>1. /\ file' \in {file, NoFile} /\ pc = "data"
        /\ card' = card \/ card' = [card EXCEPT ![file] = "none"]
    BY <1>10 DEF UploadData, UploadWriteFails, UploadFails, GivesUp, RemovesThePart
  <2>2. faults' \in 0 .. MaxFaults
    <3>1. CASE UploadData
      BY <1>1, <3>1 DEF UploadData, UploadFails
    <3>2. CASE UploadWriteFails
      BY <1>1, <3>2 DEF UploadWriteFails, UploadFails
    <3> QED
      BY <1>10, <3>1, <3>2
  <2> QED
    BY <1>1, <1>2, <2>1, <2>2
<1>11. CASE UploadDone
  BY <1>1, <1>11 DEF UploadDone
<1> QED
  BY <1>4, <1>5, <1>6, <1>7, <1>8, <1>9, <1>10, <1>11 DEF Next, OnCard, Upload, Serving

LEMMA StreamTyped ==
  ASSUME WebInv, Next
  PROVE  wire' \in Seq(Tokens) /\ Len(wire') <= SOCKET_RX /\ todo' \in Nat
<1>1. wire \in Seq(Tokens) /\ Len(wire) <= SOCKET_RX /\ todo \in Nat /\ SOCKET_RX \in Nat
  BY WebServerAssumption DEF WebInv, TypeOK
<1>2. CASE UNCHANGED <<wire, todo>>
  BY <1>1, <1>2
<1>3. CASE wire' = <<>> /\ todo' = 0
  BY <1>1, <1>3
<1>4. ASSUME NEW n \in 1 .. Len(wire), wire' = SubSeq(wire, n + 1, Len(wire)), todo' = todo
      PROVE  wire' \in Seq(Tokens) /\ Len(wire') <= SOCKET_RX /\ todo' \in Nat
  <2> DEFINE v == SubSeq(wire, n + 1, Len(wire))
  <2>1. v \in Seq(Tokens) /\ Len(v) <= Len(wire) /\ Len(v) \in Nat /\ Len(wire) \in Nat
    BY <1>1
  <2>2. wire' = v
    BY <1>4
  <2> HIDE DEF v
  <2> QED
    BY <1>1, <1>4, <2>1, <2>2
<1>5. CASE PeerSends
  <2>1. /\ Piece \in Tokens /\ Body \in Tokens
        /\ \A n \in Sizes : HeadEnd(n) \in Tokens /\ n \in Nat
    BY WebServerAssumption DEF Tokens, Sizes, Kind
  <2>2. \E t \in Tokens, m \in Nat : wire' = Append(wire, t) /\ todo' = m /\ Len(wire) < SOCKET_RX
    <3>1. CASE todo > 0 /\ wire' = Append(wire, Body) /\ todo' = todo - 1
      <4>1. todo - 1 \in Nat
        BY <1>1, <3>1
      <4> QED
        BY <1>5, <2>1, <3>1, <4>1 DEF PeerSends
    <3>2. CASE todo = 0 /\ wire' = Append(wire, Piece) /\ todo' = 0
      BY <1>5, <2>1, <3>2 DEF PeerSends
    <3>3. CASE \E n \in Sizes : wire' = Append(wire, HeadEnd(n)) /\ todo' = n
      BY <1>5, <2>1, <3>3 DEF PeerSends
    <3> QED
      BY <1>5, <3>1, <3>2, <3>3 DEF PeerSends
  <2>3. PICK t \in Tokens, m \in Nat :
           wire' = Append(wire, t) /\ todo' = m /\ Len(wire) < SOCKET_RX
    BY <2>2
  <2> DEFINE v == Append(wire, t)
  <2>4. v \in Seq(Tokens) /\ Len(v) = Len(wire) + 1 /\ Len(wire) \in Nat
    BY <1>1
  <2>5. wire' = v
    BY <2>3
  <2> HIDE DEF v
  <2> QED
    BY <1>1, <2>3, <2>4, <2>5
<1>6. CASE PeerOpens \/ PeerShuts \/ PeerGone \/ Tick \/ Round \/ GetsBusy \/ BusyEnds
  BY <1>2, <1>3, <1>6 DEF PeerOpens, PeerShuts, PeerGone, Tick, Round, Relisten,
     CloseIdle,
     Serve, GetsBusy, BusyEnds
<1>7. CASE Serving /\ ~ReadHead
  BY <1>2, <1>4, <1>7, ServingReads, ServingElsewhere
<1>8. CASE ReadHead
  <2>1. \E n \in 1 .. Len(wire) : wire' = SubSeq(wire, n + 1, Len(wire))
    <3> HIDE DEF Answer, CloseIt, Awaits
    <3> QED
      BY <1>8, HeadMoves DEF WebInv
  <2>2. todo' = todo
    BY <1>8 DEF ReadHead
  <2> QED
    BY <1>4, <2>1, <2>2
<1> QED
  BY <1>5, <1>6, <1>7, <1>8 DEF Next, Peer

LEMMA GuardTyped ==
  ASSUME WebInv, Next
  PROVE  /\ guard' \in [failures: 0 .. MAX_FAILURES - 1, locked: 0 .. LOCK_MAX,
                        next: LOCK_BASE .. LOCK_MAX]
         /\ wrongs' \in 0 .. MaxWrong /\ waited' \in 0 .. MaxWaited
<1>1. /\ MAX_FAILURES \in Nat \ {0} /\ MaxWrong \in Nat /\ MaxWaited \in Nat
      /\ wrongs \in 0 .. MaxWrong /\ waited \in 0 .. MaxWaited
      /\ guard \in [failures: 0 .. MAX_FAILURES - 1, locked: 0 .. LOCK_MAX,
                    next: LOCK_BASE .. LOCK_MAX]
      /\ LOCK_BASE \in Nat /\ LOCK_MAX \in Nat /\ LOCK_BASE <= LOCK_MAX
  BY WebServerAssumption DEF WebInv, TypeOK
<1>2. CASE UNCHANGED rationing
  BY <1>1, <1>2
<1>3. CASE Tick
  <2>1. /\ wrongs' = wrongs
        /\ guard' = [guard EXCEPT !.locked = IF @ = 0 THEN 0 ELSE @ - 1]
        /\ waited' = IF guard.locked > 0 THEN Least(waited + 1, MaxWaited) ELSE waited
    BY <1>3 DEF Tick
  <2>2. guard' \in [failures: 0 .. MAX_FAILURES - 1, locked: 0 .. LOCK_MAX,
                    next: LOCK_BASE .. LOCK_MAX]
    BY <1>1, <2>1
  <2>3. waited' \in 0 .. MaxWaited
    BY <1>1, <2>1 DEF Least
  <2> QED
    BY <1>1, <2>1, <2>2, <2>3
<1>4. ASSUME NEW k \in Kinds, k.code = "wrong" => wrongs < MaxWrong
      PROVE  /\ check(guard, k.code) \in [failures: 0 .. MAX_FAILURES - 1, locked: 0 .. LOCK_MAX,
                                          next: LOCK_BASE .. LOCK_MAX]
             /\ Judged(guard, k.code) => wrongs + 1 \in 0 .. MaxWrong
  <2>1. Fresh \in [failures: 0 .. MAX_FAILURES - 1, locked: 0 .. LOCK_MAX,
                   next: LOCK_BASE .. LOCK_MAX]
    BY <1>1 DEF Fresh
  <2>2. LockedOut(guard) \in [failures: 0 .. MAX_FAILURES - 1, locked: 0 .. LOCK_MAX,
                              next: LOCK_BASE .. LOCK_MAX]
    BY <1>1 DEF LockedOut, Least
  <2>3. ~(guard.failures + 1 >= MAX_FAILURES) =>
          [guard EXCEPT !.failures = @ + 1]
            \in [failures: 0 .. MAX_FAILURES - 1, locked: 0 .. LOCK_MAX,
                 next: LOCK_BASE .. LOCK_MAX]
    BY <1>1
  <2>4. Judged(guard, k.code) => wrongs + 1 \in 0 .. MaxWrong
    BY <1>1, <1>4 DEF Judged
  <2> QED
    BY <1>1, <2>1, <2>2, <2>3, <2>4 DEF check
<1>5. CASE ReadHead
  <2>1. CASE \E s : ParseHead(s)
    <3>1. PICK s : \E k \in Parses(s) : Authorised(k, s) \/ UNCHANGED rationing
      <4> HIDE DEF rationing
      <4> QED
        BY <2>1 DEF ParseHead
    <3>2. PICK k \in Parses(s) : Authorised(k, s) \/ UNCHANGED rationing
      BY <3>1
    <3>3. k \in Kinds /\ (k.code = "wrong" => wrongs < MaxWrong)
      BY DEF Parses
    <3>4. \/ UNCHANGED rationing
          \/ /\ guard' = check(guard, k.code)
             /\ wrongs' = IF Passes(guard, k.code) THEN 0
                          ELSE IF Judged(guard, k.code) THEN wrongs + 1 ELSE wrongs
             /\ waited' = IF Passes(guard, k.code) THEN 0 ELSE waited
      BY <3>2 DEF Authorised
    <3> QED
      BY <1>1, <1>2, <1>4, <3>3, <3>4
  <2> QED
    BY <1>2, <1>5, <2>1 DEF ReadHead
<1>6. CASE Serving /\ ~ReadHead
  BY <1>2, <1>6, ServingElsewhere
<1>7. CASE Peer \/ Round \/ GetsBusy \/ BusyEnds
  BY <1>2, <1>7 DEF Peer, PeerOpens, PeerSends, PeerShuts, PeerGone, Round, Relisten,
     CloseIdle,
                    Serve, GetsBusy, BusyEnds
<1> QED
  BY <1>3, <1>5, <1>6, <1>7 DEF Next

LEMMA ServingTyped ==
  ASSUME WebInv, Next, Requests'
  PROVE  /\ buf' \in Seq(Tokens) /\ Len(buf') < HEAD_MAX /\ req' \in Kinds \cup {NoReq}
         /\ got' \in 0 .. Most(UPLOAD_SIZE, FORM_MAX) /\ close' \in BOOLEAN
         /\ reply' \in 0 .. PageChunks
         /\ effect' \in {"none", "card", "config", "reboot", "check"}
         /\ pc' \in {"idle", "busy", "head", "body", "reply", "flush", "lock",
                     "lock save", "stream", "header", "data"}
<1> DEFINE G == Most(UPLOAD_SIZE, FORM_MAX)
           Effects == {"none", "card", "config", "reboot", "check"}
<1>1. /\ buf \in Seq(Tokens) /\ Len(buf) < HEAD_MAX /\ req \in Kinds \cup {NoReq}
      /\ got \in 0 .. G /\ close \in BOOLEAN
      /\ reply \in 0 .. PageChunks /\ effect \in Effects /\ wire \in Seq(Tokens)
      /\ pc \in {"idle", "busy", "head", "body", "reply", "flush", "lock",
                 "lock save", "stream", "header", "data"}
  BY DEF WebInv, TypeOK
<1>2. /\ HEAD_MAX \in Nat \ {0} /\ PageChunks \in Nat \ {0}
      /\ \A k \in Kinds : k.size \in Nat /\ k.close \in BOOLEAN
  BY WebServerAssumption DEF Kind
<1>3. G \in Nat /\ UPLOAD_SIZE <= G /\ FORM_MAX <= G /\ UPLOAD_SIZE \in Nat /\ FORM_MAX \in Nat
  BY WebServerAssumption DEF Most
<1>4. <<>> \in Seq(Tokens) /\ Len(<<>>) < HEAD_MAX /\ 0 \in 0 .. G
      /\ 0 \in 0 .. PageChunks /\ 1 \in 0 .. PageChunks /\ PageChunks \in 0 .. PageChunks
  BY <1>2, <1>3
<1> HIDE DEF G
<1>5. CASE Peer \/ Tick \/ Round \/ GetsBusy \/ BusyEnds
  <2>1. UNCHANGED serving /\ pc' \in {pc, "idle", "busy", "head"}
    BY <1>5 DEF Peer, PeerOpens, PeerSends, PeerShuts, PeerGone, Tick, Round, Relisten,
       CloseIdle,
                Serve, GetsBusy, BusyEnds
  <2> QED
    BY <1>1, <2>1 DEF G
<1>6. CASE Serving /\ ~ReadHead
  <2>1. got' \in 0 .. G
    <3>1. CASE got' \in {got, 0}
      BY <1>1, <1>4, <3>1
    <3>2. CASE pc' \in {"body", "header", "data"}
               /\ \E n \in 1 .. Len(wire) : got' = got + n
      <4>1. InHand'
        BY <3>2 DEF Requests, Reading
      <4>2. got' <= req'.size /\ req' \in Kinds
            /\ (req'.size <= FORM_MAX \/ req'.size = UPLOAD_SIZE)
        BY <3>2, <4>1 DEF InHand
      <4>3. got' \in Nat
        <5>1. got \in Nat
          <6>1. got \in 0 .. G /\ G \in Nat
            BY <1>1, <1>3
          <6> QED
            BY <6>1
        <5>2. wire \in Seq(Tokens)
          BY <1>1
        <5>3. \A n \in 1 .. Len(wire) : got + n \in Nat
          BY <5>1, <5>2
        <5> QED
          BY <3>2, <5>3
      <4>4. \A g, z \in Nat : g <= z /\ (z <= FORM_MAX \/ z = UPLOAD_SIZE) => g \in 0 .. G
        BY <1>3
      <4>5. req'.size \in Nat
        BY <1>2, <4>2
      <4> QED
        BY <4>2, <4>3, <4>4, <4>5
    <3> QED
      BY <1>6, <3>1, <3>2, ServingReads
  <2>2. /\ buf' \in Seq(Tokens) /\ Len(buf') < HEAD_MAX /\ req' \in Kinds \cup {NoReq}
        /\ close' \in BOOLEAN /\ reply' \in 0 .. PageChunks /\ effect' \in Effects
        /\ pc' \in {"idle", "busy", "head", "body", "reply", "flush", "lock",
                    "lock save", "stream", "header", "data"}
    <3>1. CASE \E c \in {close, TRUE}, e \in {effect, "card", "config", "reboot", "check"} :
                 Answer(req, 1, c, e)
      BY <1>1, <1>4, <3>1
    <3>2. CASE KeepAlive \/ CloseIt
      BY <1>4, <3>2
    <3>3. CASE Flushed
      BY <1>1, <3>3 DEF Flushed
    <3>4. CASE \E where \in Reading \cup {"reply"}, t \in {IO_TIMEOUT, SD_LOCK_TIMEOUT} :
                 /\ Awaits(where, t)
                 /\ UNCHANGED <<buf, req, close>> /\ effect' \in {effect, "card"}
                 /\ reply' \in {reply, PageChunks} \/ (reply > 1 /\ reply' = reply - 1)
      <4>1. reply > 1 => reply - 1 \in 0 .. PageChunks
        <5>1. reply \in 0 .. PageChunks /\ PageChunks \in Nat
          BY <1>1, <1>2
        <5> QED
          BY <5>1
      <4> QED
        BY <1>1, <1>4, <3>4, <4>1 DEF Reading
    <3> HIDE DEF Answer, KeepAlive, CloseIt, Awaits, Effects
    <3> QED
      BY <1>6, <3>1, <3>2, <3>3, <3>4, ServingForms
  <2> QED
    BY <2>1, <2>2 DEF G
<1>7. CASE ReadHead
  <2>1. PICK n \in 1 .. Len(wire) : \E s :
           /\ s = buf \o SubSeq(wire, 1, n)
           /\ \/ HasHead(s) /\ ParseHead(s)
              \/ Answer(NoReq, 1, TRUE, effect)
              \/ CloseIt
              \/ /\ Awaits("head", IO_TIMEOUT) /\ buf' = s /\ Len(s) < HEAD_MAX
                 /\ UNCHANGED <<req, got, close, reply, effect>>
    <3> HIDE DEF Answer, CloseIt, Awaits
    <3> QED
      BY <1>7, HeadMoves DEF WebInv
  <2> DEFINE s == buf \o SubSeq(wire, 1, n)
  <2>2. s \in Seq(Tokens)
    <3>1. wire \in Seq(Tokens) /\ buf \in Seq(Tokens)
      BY <1>1
    <3>2. SubSeq(wire, 1, n) \in Seq(Tokens)
      BY <3>1
    <3> QED
      BY <3>1, <3>2, ConcatProperties
  <2> HIDE DEF s
  <2>3. CASE Answer(NoReq, 1, TRUE, effect) \/ CloseIt
    BY <1>1, <1>4, <2>3 DEF G
  <2>4. CASE /\ Awaits("head", IO_TIMEOUT) /\ buf' = s /\ Len(s) < HEAD_MAX
             /\ UNCHANGED <<req, got, close, reply, effect>>
    BY <1>1, <2>2, <2>4 DEF G
  <2>5. CASE HasHead(s) /\ ParseHead(s)
    <3>1. PICK k \in Parses(s) :
           \/ Refuse(k)
           \/ \E m \in {1, PageChunks} : Answer(k, m, k.close \/ overread(s, k), effect)
           \/ /\ \/ Starts(k, s, "lock", SD_LOCK_TIMEOUT)
                 \/ Starts(k, s, "body", IO_TIMEOUT)
              /\ k.size = 0 \/ k.size = UPLOAD_SIZE \/ k.size <= FORM_MAX
      <4> HIDE DEF Answer, Refuse
      <4> QED
        BY <2>5, ParseHeadMoves
    <3>2. /\ k \in Kinds /\ k.size \in Nat /\ body_prefix(s, k) \in 0 .. k.size
          /\ overread(s, k) \in BOOLEAN /\ k.close \in BOOLEAN
      BY <1>2, <2>2, <2>5, BodyPrefix DEF overread
    <3>3. k.size = 0 \/ k.size = UPLOAD_SIZE \/ k.size <= FORM_MAX => body_prefix(s, k) \in 0 .. G
      BY <1>3, <3>2
    <3>4. CASE Refuse(k)
      BY <1>1, <1>4, <3>2, <3>4 DEF G
    <3>5. CASE \E m \in {1, PageChunks} : Answer(k, m, k.close \/ overread(s, k), effect)
      BY <1>1, <1>4, <3>2, <3>5 DEF G
    <3>6. CASE /\ \/ Starts(k, s, "lock", SD_LOCK_TIMEOUT)
                  \/ Starts(k, s, "body", IO_TIMEOUT)
               /\ k.size = 0 \/ k.size = UPLOAD_SIZE \/ k.size <= FORM_MAX
      BY <1>1, <1>4, <3>2, <3>3, <3>6 DEF Starts, G
    <3> QED
      BY <3>1, <3>4, <3>5, <3>6
  <2> QED
    BY <2>1, <2>3, <2>4, <2>5 DEF s
<1> QED
  BY <1>5, <1>6, <1>7 DEF Next

LEMMA TimersTyped ==
  ASSUME WebInv, Next
  PROVE  /\ sock' \in {"Closed", "Listen", "Established", "CloseWait", "closing"}
         /\ closing' \in None .. FLUSH_TIMEOUT /\ idle' \in 0 .. KEEP_ALIVE_IDLE
         /\ last_show' \in None .. SHOW_CODE_INTERVAL
         /\ left' \in None .. Most(FLUSH_TIMEOUT, Most(SD_LOCK_TIMEOUT, IO_TIMEOUT))
         /\ elapsed' \in 0 .. LongAgo /\ beat' \in None .. WEB_LIMIT + 1
<1> DEFINE Far == Most(FLUSH_TIMEOUT, Most(SD_LOCK_TIMEOUT, IO_TIMEOUT))
<1>1. /\ sock \in {"Closed", "Listen", "Established", "CloseWait", "closing"}
      /\ closing \in -1 .. FLUSH_TIMEOUT /\ idle \in 0 .. KEEP_ALIVE_IDLE
      /\ last_show \in -1 .. SHOW_CODE_INTERVAL /\ left \in -1 .. Far
      /\ elapsed \in 0 .. LongAgo /\ beat \in -1 .. WEB_LIMIT + 1
      /\ Waiting => left \in Nat
  BY DEF WebInv, TypeOK, Tidy, None
<1>2. /\ FLUSH_TIMEOUT \in Nat /\ IO_TIMEOUT \in Nat /\ SD_LOCK_TIMEOUT \in Nat
      /\ KEEP_ALIVE_IDLE \in Nat /\ SHOW_CODE_INTERVAL \in Nat /\ LongAgo \in Nat
      /\ WEB_LIMIT \in Nat
  BY WebServerAssumption
<1>3. /\ Far \in Nat /\ FLUSH_TIMEOUT <= Far /\ IO_TIMEOUT <= Far /\ SD_LOCK_TIMEOUT <= Far
  BY <1>2 DEF Most
<1> HIDE DEF Far
<1>4. \A t, most \in Int : t >= -1 /\ t <= most /\ most >= 0 => Later(t, most) \in -1 .. most
  BY DEF Later, Least, None
<1>5. CASE Tick
  <2>1. /\ left' = IF Waiting THEN left - 1 ELSE left
        /\ Waiting => left > 0
        /\ elapsed' = IF Waiting THEN Least(elapsed + 1, LongAgo) ELSE elapsed
        /\ closing' = Later(closing, FLUSH_TIMEOUT)
        /\ idle' = Least(idle + 1, KEEP_ALIVE_IDLE)
        /\ last_show' \in {None, Later(last_show, SHOW_CODE_INTERVAL)}
        /\ beat' = Later(beat, WEB_LIMIT + 1)
        /\ sock' = sock
    BY <1>5 DEF Tick
  <2>2. left' \in -1 .. Far
    BY <1>1, <1>3, <2>1
  <2>3. elapsed' \in 0 .. LongAgo /\ idle' \in 0 .. KEEP_ALIVE_IDLE
    BY <1>1, <1>2, <2>1 DEF Least
  <2>4. closing' \in -1 .. FLUSH_TIMEOUT
    BY <1>1, <1>2, <1>4, <2>1
  <2>5. last_show' \in -1 .. SHOW_CODE_INTERVAL
    BY <1>1, <1>2, <1>4, <2>1 DEF None
  <2>6. beat' \in -1 .. WEB_LIMIT + 1
    BY <1>1, <1>2, <1>4, <2>1
  <2> QED
    BY <1>1, <2>1, <2>2, <2>3, <2>4, <2>5, <2>6 DEF None, Far
<1>6. ASSUME /\ sock' \in {"Closed", "Listen", "Established", "CloseWait", "closing"}
             /\ closing' \in {closing, -1, 0} /\ idle' \in {idle, 0}
             /\ last_show' \in {last_show, 0}
             /\ left' \in {left, -1, IO_TIMEOUT, SD_LOCK_TIMEOUT, FLUSH_TIMEOUT}
             /\ elapsed' \in {elapsed, 0} /\ beat' \in {beat, 0, -1}
      PROVE  /\ sock' \in {"Closed", "Listen", "Established", "CloseWait", "closing"}
             /\ closing' \in None .. FLUSH_TIMEOUT /\ idle' \in 0 .. KEEP_ALIVE_IDLE
             /\ last_show' \in None .. SHOW_CODE_INTERVAL /\ left' \in None .. Far
             /\ elapsed' \in 0 .. LongAgo /\ beat' \in None .. WEB_LIMIT + 1
  BY <1>1, <1>2, <1>3, <1>6 DEF None
<1>7. CASE Peer \/ Round \/ GetsBusy \/ BusyEnds
  BY <1>1, <1>6, <1>7 DEF Peer, PeerOpens, PeerSends, PeerShuts, PeerGone, Round,
     Relisten,
     CloseIdle, Serve, GetsBusy, BusyEnds, None, Far
<1>8. CASE Serving /\ ~ReadHead
  <2>1. UNCHANGED <<last_show, elapsed>> /\ beat' \in {beat, 0, -1}
    BY <1>8, ServingElsewhere DEF None
  <2>2. /\ sock' \in {"Closed", "Listen", "Established", "CloseWait", "closing"}
        /\ closing' \in {closing, 0} /\ idle' \in {idle, 0}
        /\ left' \in {-1, IO_TIMEOUT, SD_LOCK_TIMEOUT, FLUSH_TIMEOUT}
    <3>1. \/ \E c, e : Answer(req, 1, c, e)
          \/ KeepAlive \/ CloseIt \/ Flushed
          \/ \E where : \E t \in {IO_TIMEOUT, SD_LOCK_TIMEOUT} : Awaits(where, t)
      <4> HIDE DEF Answer, KeepAlive, CloseIt, Awaits
      <4> QED
        BY <1>8, ServingForms
    <3> QED
      BY <1>1, <3>1 DEF Flushed, None
  <2> QED
    BY <1>6, <2>1, <2>2 DEF Far
<1>9. CASE ReadHead
  <2>1. /\ sock' = sock /\ closing' = closing /\ idle' \in {idle, 0}
        /\ left' \in {IO_TIMEOUT, SD_LOCK_TIMEOUT, FLUSH_TIMEOUT}
    <3>1. \/ \E s : ParseHead(s)
          \/ Answer(NoReq, 1, TRUE, effect) \/ CloseIt \/ Awaits("head", IO_TIMEOUT)
      <4> HIDE DEF Answer, CloseIt, Awaits
      <4> QED
        BY <1>9, HeadMoves DEF WebInv
    <3>2. ASSUME NEW s, ParseHead(s)
          PROVE  \/ \E k, n, c, e : Answer(k, n, c, e)
                 \/ Awaits("lock", SD_LOCK_TIMEOUT) \/ Awaits("body", IO_TIMEOUT)
      <4> HIDE DEF Answer, Awaits
      <4> QED
        BY <3>2, ParseHeadMoves DEF Starts, Refuse
    <3> QED
      BY <3>1, <3>2
  <2>2. last_show' \in {last_show, 0} /\ elapsed' \in {elapsed, 0} /\ beat' = 0
    BY <1>9 DEF ReadHead, ParseHead, Authorised
  <2> QED
    BY <1>1, <1>6, <2>1, <2>2 DEF Far
<1> QED
  BY <1>5, <1>7, <1>8, <1>9 DEF Next

-----------------------------------------------------------------------------
(* The invariant holds.                                                    *)

LEMMA WebInvInit == Init => WebInv
<1> SUFFICES ASSUME Init PROVE WebInv
  OBVIOUS
<1>1. TypeOK
  <2>1. /\ wire \in Seq(Tokens) /\ Len(wire) = 0 /\ buf \in Seq(Tokens) /\ Len(buf) = 0
    BY DEF Init
  <2>2. guard \in [failures: 0 .. MAX_FAILURES - 1, locked: 0 .. LOCK_MAX,
                   next: LOCK_BASE .. LOCK_MAX]
    BY WebServerAssumption DEF Init, Fresh
  <2>3. card \in [Range(Names) -> {"none", "part", "whole"}]
    BY DEF Init
  <2>4. 0 \in 0 .. Most(UPLOAD_SIZE, FORM_MAX)
        /\ -1 \in -1 .. Most(FLUSH_TIMEOUT, Most(SD_LOCK_TIMEOUT, IO_TIMEOUT))
    BY WebServerAssumption DEF Most
  <2>5. /\ 0 < HEAD_MAX /\ 0 <= SOCKET_RX /\ -1 \in -1 .. FLUSH_TIMEOUT
        /\ 0 \in 0 .. KEEP_ALIVE_IDLE /\ -1 \in -1 .. SHOW_CODE_INTERVAL
        /\ 0 \in 0 .. PageChunks /\ 0 \in 0 .. LongAgo /\ -1 \in -1 .. WEB_LIMIT + 1
        /\ 0 \in 0 .. MaxWrong /\ 0 \in 0 .. MaxWaited /\ 0 \in 0 .. MaxFaults
    BY WebServerAssumption
  <2> QED
    BY <2>1, <2>2, <2>3, <2>4, <2>5 DEF Init, TypeOK, None
<1>2. Tidy /\ Requests /\ NothingWithoutCode
  BY DEF Init, Tidy, Waiting, Requests, Reading, NothingWithoutCode
<1>3. Parts
  BY DEF Init, Parts
<1>4. Beaten /\ Timed
  BY DEF Init, Beaten, Timed, Uploading, Waiting, Reading, AtHand
<1>5. Rationed
  <2>1. 0 \div MAX_FAILURES = 0 /\ 0 % MAX_FAILURES = 0 /\ 0 \in 0 .. MaxWrong
    BY WebServerAssumption
  <2>2. LockNo[0] = [next |-> LOCK_BASE, sum |-> 0]
    BY <2>1, LockNoGoesOn
  <2> QED
    BY <2>1, <2>2 DEF Init, Rationed, GuessesAreRationed, LockedFor, Fresh
<1>6. Synced
  BY DEF Init, Synced
<1> QED
  BY <1>1, <1>2, <1>3, <1>4, <1>5, <1>6 DEF WebInv

LEMMA WebInvNext == WebInv /\ [Next]_vars => WebInv'
<1> SUFFICES ASSUME WebInv, [Next]_vars PROVE WebInv'
  OBVIOUS
<1>1. CASE Next
  <2>1. TypeOK'
    BY <1>1, StreamTyped, GuardTyped, CardKept, ServingTyped, TimersTyped, RequestsKept
       DEF TypeOK
  <2> QED
    BY <1>1, <2>1, TidyKept, RequestsKept, PartsKept, BeatenKept, TimedKept,
       RationedKept, SyncedKept DEF WebInv
<1>2. CASE UNCHANGED vars
  <2>1. TypeOK'
    BY ZenonT(40), <1>2 DEF vars, WebInv, TypeOK
  <2>4. Tidy' /\ NothingWithoutCode'
    BY <1>2 DEF vars, WebInv, Tidy, Waiting, NothingWithoutCode
  <2>5. Requests'
    BY <1>2 DEF vars, WebInv, Requests, InHand
  <2>2. Parts' /\ Beaten' /\ Timed'
    BY <1>2 DEF vars, WebInv, Parts, Beaten, Timed, Uploading, AtHand, Waiting
  <2>3. Rationed' /\ Synced'
    BY <1>2 DEF vars, WebInv, Rationed, GuessesAreRationed, LockedFor, Synced, Cut, Owed
  <2> QED
    BY <2>1, <2>2, <2>3, <2>4, <2>5 DEF WebInv
<1> QED
  BY <1>1, <1>2

(* The settings page is always in the state that the lemmas describe: the  *)
(* peer, the timeouts and the card may do what they like.                  *)
THEOREM WebInvHolds == Spec => []WebInv
<1> QED
  BY WebInvInit, WebInvNext, PTL DEF Spec

(* ServiceIsSound: no piece of a body is read as the head of a request,    *)
(* the supervisor hears of Web in time, a head or an upload that does not  *)
(* end is given up, nothing is changed without the code, and without a     *)
(* fault of the card no photo stays in part.                               *)
THEOREM ServiceIsSoundHolds == Spec => []ServiceIsSound
<1>1. WebInv => InSync
  <2> SUFFICES ASSUME WebInv, pc = "head", buf = <<>>, wire # <<>> PROVE wire[1] # Body
    BY DEF InSync
  <2>1. Tidy /\ TypeOK /\ Synced /\ wire \in Seq(Tokens)
    BY DEF WebInv, TypeOK
  <2>2. sock \in {"Established", "CloseWait"} /\ ~Cut /\ Owed = 0
    BY <2>1 DEF Tidy, TypeOK, Waiting, Cut, Owed, Reading
  <2>3. buf \o wire = wire
    BY <2>1, ConcatEmptySeq
  <2>4. InStep(wire, 0, todo)
    BY <2>1, <2>2, <2>3 DEF Synced
  <2>5. ~Covered(wire, 0, 1)
    BY <2>1 DEF Covered
  <2>6. 1 <= Len(wire)
    BY <2>1
  <2> QED
    BY <2>4, <2>5, <2>6 DEF InStep
<1>2. WebInv => WebBeatsInTime
  <2> SUFFICES ASSUME WebInv PROVE beat <= WEB_LIMIT
    BY DEF WebBeatsInTime
  <2>1. /\ SD_LOCK_TIMEOUT \in Nat /\ IO_TIMEOUT \in Nat /\ FLUSH_TIMEOUT \in Nat
        /\ WEB_LIMIT \in Nat /\ Longest \in Nat
        /\ Longest + IO_TIMEOUT + FLUSH_TIMEOUT <= WEB_LIMIT
    BY WebServerAssumption DEF Longest, Most
  <2>2. beat \in Int
    <3>1. beat \in -1 .. WEB_LIMIT + 1
      BY DEF WebInv, TypeOK, None
    <3> QED
      BY <2>1, <3>1
  <2>3. CASE ~Waiting
    <3>1. beat = -1
      BY <2>3 DEF WebInv, Beaten, None
    <3> QED
      BY <2>1, <3>1
  <2>4. CASE Waiting
    <3>1. left \in Nat
      BY <2>4 DEF WebInv, Tidy
    <3>2. pc \in Reading \cup {"head", "reply", "flush"}
      BY <2>4 DEF WebInv, TypeOK, Waiting, Reading
    <3>3. \/ beat + left <= Longest \/ beat + left <= Longest + IO_TIMEOUT
          \/ beat + left <= Longest + IO_TIMEOUT + FLUSH_TIMEOUT
      BY <3>2 DEF WebInv, Beaten
    <3> HIDE DEF Longest
    <3> QED
      BY <2>1, <2>2, <3>1, <3>3
  <2> QED
    BY <2>3, <2>4
<1>3. WebInv => WholeOrGone
  BY DEF WebInv, Parts, WholeOrGone
<1>4. WebInv => GivenUpInTime
  <2> SUFFICES ASSUME WebInv, pc \in {"head", "header", "data"} PROVE GivenUpInTime
    BY DEF GivenUpInTime
  <2>1. Timed /\ left \in Nat /\ elapsed \in 0 .. LongAgo
    BY DEF WebInv, TypeOK, Tidy, Waiting
  <2>2. IO_TIMEOUT \in Nat /\ UPLOAD_DEADLINE \in Nat /\ LongAgo \in Nat
    BY WebServerAssumption
  <2> QED
    BY <2>1, <2>2 DEF Timed, Uploading, GivenUpInTime
<1>5. WebInv => ServiceIsSound
  BY <1>1, <1>2, <1>3, <1>4 DEF WebInv, ServiceIsSound
<1> QED
  BY <1>5, WebInvHolds, PTL

(* GuessesAreRationed: however requests, locks and restarts of the counter *)
(* interleave, the wrong codes judged since the last right one were paid   *)
(* for with the locks of auth.rs, each twice as long as the one before.    *)
THEOREM GuessesAreRationedHolds == Spec => []GuessesAreRationed
<1>1. WebInv => GuessesAreRationed
  BY DEF WebInv, Rationed
<1> QED
  BY <1>1, WebInvHolds, PTL
=============================================================================
