----------------------------- MODULE ShowProofs -----------------------------
(***************************************************************************)
(* What runs on the screen.                                                *)
(*                                                                         *)
(* The photos (the first part, module Slideshow): whatever the page, the   *)
(* card and the checks do to the photo that is being shown, the show stays *)
(* sound: for every set of photos, every length of the list and every      *)
(* length of a frame.                                                      *)
(*                                                                         *)
(* The text (the second, module Ticker): for all texts, sources, addresses *)
(* and speeds, and for every width of the screen and room for the line     *)
(* that TextAssumption allows, it is the text of the shared model, whole,  *)
(* and stays in reach (scroll.rs, ticker.rs).                              *)
(***************************************************************************)
EXTENDS Slideshow, Ticker, TLAPS, SequenceTheorems, FiniteSetTheorems, WellFoundedInduction

-----------------------------------------------------------------------------
(* Induction over the natural numbers, for a set.  (The library states it  *)
(* for an operator, which these provers cannot instantiate.)               *)
LEMMA SetInduction ==
  ASSUME NEW T, 0 \in T, \A n \in Nat : n \in T => n + 1 \in T
  PROVE  Nat \subseteq T
<1> DEFINE Out == Nat \ T
           Less == {mn \in Nat \X Nat : mn[1] < mn[2]}
<1>1. IsWellFoundedOn(Less, Nat)
  <2>1. Less = OpToRel(<, Nat)
    BY Zenon DEF OpToRel
  <2> QED
    BY Zenon, <2>1, NatLessThanWellFounded
<1>2. SUFFICES ASSUME Out # {} PROVE FALSE
  OBVIOUS
<1>3. PICK n \in Out : \A m \in Out : ~ (<<m, n>> \in Less)
  BY <1>1, <1>2, WFMin
<1>4. n # 0 /\ n \in Nat /\ n - 1 \in Nat
  OBVIOUS
<1>5. n - 1 \in T
  <2>1. <<n - 1, n>> \in Less
    BY <1>4
  <2> QED
    BY <1>3, <1>4, <2>1
<1> QED
  BY <1>4, <1>5

-----------------------------------------------------------------------------
(* Lists.                                                                  *)

LEMMA ListIsSeq ==
  ASSUME NEW l \in Lists
  PROVE  /\ l \in Seq(Photo) /\ Len(l) \in 0 .. MAX_IMAGES
         /\ l = <<>> <=> Len(l) = 0
         /\ \A i \in 1 .. Len(l) : l[i] \in Photo
<1>1. PICK m \in 0 .. MAX_IMAGES : l \in [1 .. m -> Photo]
  BY SlideshowAssumption DEF Lists, SeqOf
<1>2. l \in Seq(Photo) /\ Len(l) = m
  BY <1>1
<1> QED
  BY <1>1, <1>2, EmptySeq

LEMMA SeqIsList ==
  ASSUME NEW l \in Seq(Photo), Len(l) <= MAX_IMAGES
  PROVE  l \in Lists
<1>1. Len(l) \in 0 .. MAX_IMAGES /\ l \in [1 .. Len(l) -> Photo]
  BY SlideshowAssumption, LenProperties
<1>2. [1 .. Len(l) -> Photo] \in {[1 .. m -> Photo] : m \in 0 .. MAX_IMAGES}
  BY <1>1
<1> QED
  BY <1>1, <1>2 DEF Lists, SeqOf

(* What is left of a list without one of its photos is a list.             *)
LEMMA WithoutIsList ==
  ASSUME NEW images \in Lists, NEW p
  PROVE  Without(images, p) \in Lists
<1> DEFINE N == Len(images)
           Body(g, n) == IF n = 0 THEN <<>>
                         ELSE IF images[n] = p THEN g[n - 1]
                              ELSE Append(g[n - 1], images[n])
           kept == CHOOSE kept : kept = [n \in 0 .. N |-> Body(kept, n)]
           Kept(n) == \E g : g = [k \in 0 .. n |-> Body(g, k)]
           Short(n) == kept[n] \in Seq(Photo) /\ Len(kept[n]) <= n
           Built == {n \in Nat : n <= N => Kept(n)}
           Fits == {n \in Nat : n <= N => Short(n)}
<1>1. N \in Nat /\ N <= MAX_IMAGES /\ \A i \in 1 .. N : images[i] \in Photo
  BY ListIsSeq
<1>2. Nat \subseteq Built
  <2>1. 0 \in Built
    <3> DEFINE g == [k \in 0 .. 0 |-> <<>>]
    <3>1. ASSUME NEW k \in 0 .. 0 PROVE Body(g, k) = <<>>
      <4>1. k = 0
        OBVIOUS
      <4> QED
        BY <4>1
    <3> HIDE DEF Body
    <3>2. g = [k \in 0 .. 0 |-> Body(g, k)]
      BY <3>1
    <3> QED
      BY <3>2
  <2>2. ASSUME NEW n \in Nat, n \in Built PROVE n + 1 \in Built
    <3>1. SUFFICES ASSUME n + 1 <= N
                   PROVE Kept(n + 1)
      <4> HIDE DEF Kept
      <4> QED
        BY <2>2
    <3>2. PICK g : g = [k \in 0 .. n |-> Body(g, k)]
      <4>1. Kept(n)
        <5> HIDE DEF Kept
        <5> QED
          BY <1>1, <2>2, <3>1
      <4> QED
        BY <4>1
    <3> DEFINE h == [k \in 0 .. n + 1 |-> IF k = n + 1 THEN Body(g, k) ELSE g[k]]
    <3>3. ASSUME NEW k \in 0 .. n + 1 PROVE h[k] = Body(h, k)
      <4>1. k # 0 => h[k - 1] = g[k - 1]
        OBVIOUS
      <4>2. Body(h, k) = Body(g, k)
        BY <4>1
      <4>3. k # n + 1 => k \in 0 .. n
        OBVIOUS
      <4> HIDE DEF Body
      <4>4. k # n + 1 => g[k] = Body(g, k)
        BY <3>2, <4>3
      <4>5. h[k] = IF k = n + 1 THEN Body(g, k) ELSE g[k]
        OBVIOUS
      <4> QED
        BY <4>2, <4>4, <4>5
    <3> HIDE DEF Body
    <3>4. h = [k \in 0 .. n + 1 |-> Body(h, k)]
      BY <3>3
    <3> QED
      BY <3>4
  <2> HIDE DEF Built
  <2> QED
    BY <2>1, <2>2, SetInduction
<1>3. kept = [n \in 0 .. N |-> Body(kept, n)]
  <2>1. \E g : g = [n \in 0 .. N |-> Body(g, n)]
    BY <1>1, <1>2
  <2> QED
    BY <2>1
<1>4. Nat \subseteq Fits
  <2> HIDE DEF kept
  <2>1. 0 \in Fits
    <3>1. Body(kept, 0) = <<>>
      OBVIOUS
    <3>2. kept[0] = Body(kept, 0)
      <4> HIDE DEF Body
      <4> QED
        BY <1>1, <1>3
    <3>3. Short(0)
      BY <3>1, <3>2, EmptySeq
    <3> HIDE DEF Short
    <3> QED
      BY <3>3
  <2>2. ASSUME NEW n \in Nat, n \in Fits PROVE n + 1 \in Fits
    <3>1. SUFFICES ASSUME n + 1 <= N
                   PROVE Short(n + 1)
      <4> HIDE DEF Short
      <4> QED
        BY <2>2
    <3>2. kept[n] \in Seq(Photo) /\ Len(kept[n]) <= n /\ images[n + 1] \in Photo
      BY <1>1, <2>2, <3>1
    <3>3. n + 1 \in 0 .. N /\ n + 1 # 0 /\ (n + 1) - 1 = n
      BY <1>1, <3>1
    <3>4. Body(kept, n + 1) \in {kept[n], Append(kept[n], images[n + 1])}
      BY <3>3
    <3>5. kept[n + 1] = Body(kept, n + 1)
      <4> HIDE DEF Body
      <4> QED
        BY <1>3, <3>3
    <3> QED
      BY <3>2, <3>4, <3>5, AppendProperties
  <2> HIDE DEF Fits
  <2> QED
    BY <2>1, <2>2, SetInduction
<1>5. Short(N)
  <2> HIDE DEF Short
  <2> QED
    BY <1>1, <1>4
<1>6. Without(images, p) = kept[N]
  BY DEF Without
<1> HIDE DEF kept
<1> QED
  BY SlideshowAssumption, <1>1, <1>5, <1>6, SeqIsList, LenProperties

-----------------------------------------------------------------------------
(* Levels of a fade.                                                       *)

LEMMA EaseBounded ==
  ASSUME NEW t \in 0 .. 256
  PROVE  ease(t) \in 0 .. 256
<1> DEFINE n == 3 * t * t * 256 - 2 * t * t * t
           u == 256 - t
<1>1. t \in Nat /\ u \in Nat /\ Lesser(t, 256) = t
  BY DEF Lesser
<1>2. n \in Int /\ 0 <= n /\ n <= 16777216
  <2>1. t * t \in Nat /\ 768 - 2 * t \in Nat /\ u * u \in Nat /\ 128 + t \in Nat
    BY <1>1
  <2>2. n = (t * t) * (768 - 2 * t) /\ 16777216 - n = 2 * ((u * u) * (128 + t))
    BY SMT, <1>1
  <2> DEFINE a == (t * t) * (768 - 2 * t)
             b == (u * u) * (128 + t)
  <2>3. a \in Nat /\ b \in Nat
    BY <2>1
  <2>4. n = a /\ 16777216 - n = 2 * b
    BY SMT, <2>2
  <2> HIDE DEF n, a, b
  <2> QED
    BY SMT, <2>3, <2>4
<1>3. ease(t) = n \div 65536
  BY SMT, <1>1 DEF ease
<1> HIDE DEF n
<1> QED
  BY SMT, <1>2, <1>3

LEMMA LevelBounded ==
  ASSUME NEW ms \in Nat
  PROVE  /\ fade_out_level(ms) \in LOADING_LEVEL .. 32
         /\ fade_in_level(ms) \in LOADING_LEVEL .. 32
<1> DEFINE a == (Lesser(ms, FADE_OUT_MS) * 256) \div FADE_OUT_MS
           b == (Lesser(ms, FADE_IN_MS) * 256) \div FADE_IN_MS
<1>1. Lesser(ms, FADE_OUT_MS) \in 0 .. 500 /\ Lesser(ms, FADE_IN_MS) \in 0 .. 700
  BY DEF Lesser, FADE_OUT_MS, FADE_IN_MS
<1>2. a \in 0 .. 256 /\ b \in 0 .. 256
  BY <1>1 DEF FADE_OUT_MS, FADE_IN_MS
<1>3. ease(a) \in 0 .. 256 /\ ease(b) \in 0 .. 256
  BY <1>2, EaseBounded
<1>4. /\ fade_out_level(ms) = 32 - (25 * ease(a)) \div 256
      /\ fade_in_level(ms) = 7 + (25 * ease(b)) \div 256
  BY DEF fade_out_level, fade_in_level, LOADING_LEVEL
<1> HIDE DEF a, b
<1> QED
  BY <1>3, <1>4 DEF LOADING_LEVEL

-----------------------------------------------------------------------------
(* The inductive invariant.                                                *)

Loading == {"lock", "reading", "frame"}

(* index, shown and failures belong to the list at hand: while there is    *)
(* one, it is not empty, and a photo is tried only while not all failed.   *)
LocalsFit ==
    pc \in Listed \ {"empty"} =>
        /\ index <= Len(list) /\ shown <= Len(list) /\ failures <= Len(list)
        /\ pc # "fade in" => failures < Len(list)
(* The layout of a round is the present one, or a reload is due.           *)
RoundIsCurrent ==
    pc \in Loading \cup {"fade in"} =>
        layout \in Layout /\ (~RELOAD => layout = LIVE.layout)
(* While a photo loads the level is that of loading; only then may BG be   *)
(* half a photo.                                                           *)
LoadsDim ==
    /\ pc \in Loading => LEVEL = LOADING_LEVEL
    /\ BG.what = PARTIAL => pc \in Loading
(* What comes to light is shaded for the layout of its round.              *)
Shaded ==
    /\ pc = "fade in" => BG.layout = layout
    /\ (~RELOAD /\ pc \in {"empty", "rest", "all failed", "stopped"})
          => BG.layout = LIVE.layout
(* The list is current whatever the page is at.                            *)
ListNow ==
    /\ (~RELOAD /\ pc \in Listed /\ fresh)
         => IF LIVE.images # <<>> THEN list = LIVE.images ELSE list \in RootBmps
    /\ (~RELOAD /\ pc = "lock list") => LIVE.images = <<>>

ShowInv ==
    /\ TypeOK /\ OneOpensTheCard
    /\ LocalsFit /\ RoundIsCurrent /\ LoadsDim /\ Shaded /\ ListNow

LEMMA InvIsSound ==
  ASSUME ShowInv
  PROVE  ShowIsSound
<1>1. LEVEL # 32 \/ pc \notin Loading
  BY DEF ShowInv, LoadsDim, LOADING_LEVEL
<1>2. HalfIsDim
  BY DEF ShowInv, LoadsDim, HalfIsDim
<1>3. ListIsCurrent
  BY DEF ShowInv, ListNow, ListIsCurrent
<1>4. LayoutIsCurrent
  BY <1>1 DEF ShowInv, LoadsDim, Shaded, RoundIsCurrent, LayoutIsCurrent, Loading,
              Listed, Places
<1> QED
  BY <1>2, <1>3, <1>4 DEF ShowInv, ShowIsSound

LEMMA EmptyIsList == <<>> \in Lists
<1>1. <<>> \in Seq(Photo) /\ Len(<<>>) = 0
  BY EmptySeq
<1>2. Len(<<>>) <= MAX_IMAGES
  BY SlideshowAssumption, <1>1
<1> QED
  BY Zenon, <1>1, <1>2, SeqIsList

LEMMA InitSound ==
  ASSUME Init
  PROVE  ShowInv
<1>1. LIVE \in Lives /\ LIVE.layout \in Layout
  BY SlideshowAssumption DEF Init, Lives
<1>2. BG \in [what: Photo \cup {GRADIENT, PARTIAL}, layout: Layout]
  BY <1>1 DEF Init, Gradient
<1>3. page \in Pages /\ card \in [Photo -> {"ok", "bad", "none"}]
      /\ sd \in {"good", "slow", "flaky"}
  BY SlideshowAssumption DEF Init, Pages
<1>4. /\ index \in 1 .. MAX_IMAGES /\ shown \in 0 .. MAX_IMAGES /\ failures \in 0 .. MAX_IMAGES
      /\ fade_ms \in 0 .. FADE_IN_MS /\ LEVEL \in LOADING_LEVEL .. 32
  BY SlideshowAssumption DEF Init, FADE_IN_MS, LOADING_LEVEL, None
<1>5. TypeOK
  BY <1>1, <1>2, <1>3, <1>4, EmptyIsList DEF Init, TypeOK, Places
<1> QED
  BY <1>5 DEF Init, ShowInv, OneOpensTheCard, LocalsFit, RoundIsCurrent, LoadsDim, Shaded,
     ListNow, Loading, Listed, Idle, Gradient, GRADIENT, PARTIAL

(* The card, the settings and what can be asked of them stay as they are.  *)
LEMMA SameRoot ==
  ASSUME card' = card
  PROVE  RootBmps' = RootBmps
BY DEF RootBmps, InRoot

-----------------------------------------------------------------------------
(* The steps that only go on to another place.                             *)
LEMMA MovesKeep ==
  ASSUME ShowInv, Delayed \/ Starts \/ Relist \/ ListNeedsCard \/ Rested \/ Resumes \/ ReadsOn
  PROVE  ShowInv'
<1> DEFINE Moves ==
             \/ Goes("delay", "start") \/ Goes("start", "relist") \/ Goes("relist", "quiet list")
             \/ Goes("quiet list", "lock list") \/ Goes("rest", "unpaused")
             \/ Goes("all failed", "unpaused") \/ Goes("reading", "frame")
             \/ Goes("frame", "reading")
<1>1. /\ Moves
      /\ UNCHANGED <<fade_ms, list, index, shown, failures, fast, layout, START, PAUSE, FIRST_DONE,
                     LEVEL, BG, SD_LOCK, sd, page, card, LIVE, hold>>
      /\ UNCHANGED fresh
      /\ RELOAD' = RELOAD \/ (RELOAD' = FALSE /\ pc = "relist")
      /\ pc = "quiet list" => LIVE.images = <<>>
  BY DEF Delayed, Starts, Relist, ListNeedsCard, Rested, Resumes, ReadsOn, Keeps, page_vars,
         locals, Goes
<1>2. (fresh' => fresh) /\ (pc # "relist" => (~RELOAD' => ~RELOAD))
  <2>1. (fresh' = fresh => (fresh' => fresh)) /\ (RELOAD' = RELOAD => (~RELOAD' => ~RELOAD))
    OBVIOUS
  <2>2. fresh' = fresh /\ (pc # "relist" => RELOAD' = RELOAD)
    BY <1>1
  <2> QED
    BY Zenon, <2>1, <2>2
<1>3. /\ pc' \in Places /\ (pc' \in Listed => pc \in Listed \ {"empty", "fade in"})
      /\ (pc' \in Loading <=> pc \in Loading)
      /\ pc' \notin {"empty", "rest", "all failed", "stopped", "fade in"}
      /\ pc' = "lock list" => LIVE.images = <<>>
      /\ pc' \in Listed \/ pc' \in Loading \/ pc' = "lock list" => (~RELOAD' => ~RELOAD)
      /\ pc' \in {"reading", "frame"} <=> pc \in {"reading", "frame"}
  BY <1>1, <1>2 DEF Goes, Places, Listed, Loading
<1>4. RELOAD' \in BOOLEAN
  BY <1>1 DEF ShowInv, TypeOK
<1> HIDE DEF Moves
<1>5. TypeOK'
  BY ZenonT(40), <1>1, <1>3, <1>4 DEF ShowInv, TypeOK
<1>6. OneOpensTheCard'
  BY <1>1, <1>3 DEF ShowInv, OneOpensTheCard
<1>7. LocalsFit'
  BY <1>1, <1>3 DEF ShowInv, LocalsFit
<1>8. RoundIsCurrent' /\ LoadsDim' /\ Shaded'
  BY <1>1, <1>3 DEF ShowInv, RoundIsCurrent, LoadsDim, Shaded
<1>9. ListNow'
  <2>1. RootBmps' = RootBmps
    BY <1>1, SameRoot
  <2> QED
    BY <1>1, <1>2, <1>3, <2>1 DEF ShowInv, ListNow
<1> QED
  BY <1>5, <1>6, <1>7, <1>8, <1>9 DEF ShowInv

(* A list begins: the one LIVE names, or what the card was found to hold.  *)
LEMMA ListsKeep ==
  ASSUME ShowInv, ListIsSet \/ ScanRoot
  PROVE  ShowInv'
<1>1. \E found \in Lists :
        /\ HasList(found)
        /\ ~RELOAD /\ fresh'
             => IF LIVE.images # <<>> THEN found = LIVE.images ELSE found \in RootBmps
  <2>1. CASE ListIsSet
    BY <2>1 DEF ListIsSet, ShowInv, TypeOK, Lives
  <2>2. CASE ScanRoot
    <3>1. ~RELOAD => LIVE.images = <<>>
      BY <2>2 DEF ScanRoot, ShowInv, ListNow
    <3>2. CASE \E found \in RootBmps : HasList(found)
      BY <3>1, <3>2 DEF RootBmps
    <3>3. CASE HasList(<<>>) /\ fresh' = FALSE
      BY <3>3, EmptyIsList
    <3> QED
      BY <2>2, <3>2, <3>3 DEF ScanRoot
  <2> QED
    BY <2>1, <2>2
<1>2. PICK found \in Lists :
        /\ HasList(found)
        /\ ~RELOAD /\ fresh'
             => IF LIVE.images # <<>> THEN found = LIVE.images ELSE found \in RootBmps
  BY <1>1
<1>3. /\ pc \in {"quiet list", "lock list"} /\ fresh' \in BOOLEAN
      /\ UNCHANGED <<fade_ms, fast, layout, RELOAD, LEVEL, SD_LOCK, START, PAUSE, sd, page, card,
                     LIVE, hold>>
  BY DEF ListIsSet, ScanRoot, Keeps, page_vars
<1>4. RootBmps' = RootBmps /\ (~RELOAD' => ~RELOAD)
  <2>1. (RELOAD' = RELOAD) => (~RELOAD' => ~RELOAD)
    OBVIOUS
  <2> QED
    BY <1>3, <2>1, SameRoot
<1>5. OneOpensTheCard'
  <2>1. pc' \in {"empty", "unpaused"}
    BY <1>2 DEF HasList, NothingToShow
  <2> QED
    BY <1>3, <2>1 DEF ShowInv, OneOpensTheCard
<1>6. CASE found = <<>>
  <2>1. /\ list' = <<>> /\ pc' = "empty" /\ BG' = Gradient(LIVE.layout) /\ FIRST_DONE' = TRUE
        /\ UNCHANGED <<index, shown, failures>>
    BY <1>2, <1>6 DEF HasList, NothingToShow
  <2>2. BG' \in [what: Photo \cup {GRADIENT, PARTIAL}, layout: Layout]
    BY <2>1 DEF ShowInv, TypeOK, Lives, Gradient
  <2>3. BG'.what # PARTIAL /\ BG'.layout = LIVE.layout
    BY <2>1 DEF Gradient, GRADIENT, PARTIAL
  <2>4. TypeOK'
    BY <1>3, <2>1, <2>2, EmptyIsList DEF ShowInv, TypeOK, Places
  <2>5. LocalsFit' /\ RoundIsCurrent' /\ LoadsDim' /\ Shaded'
    BY <1>3, <2>1, <2>3 DEF LocalsFit, RoundIsCurrent, LoadsDim, Shaded, Listed, Loading
  <2>6. ListNow'
    BY <1>2, <1>3, <1>4, <1>6, <2>1 DEF ListNow
  <2> QED
    BY <1>5, <2>4, <2>5, <2>6 DEF ShowInv
<1>7. CASE found # <<>>
  <2>1. /\ list' = found /\ pc' = "unpaused" /\ UNCHANGED <<BG, FIRST_DONE>>
        /\ index' = 1 /\ shown' = 0 /\ failures' = 0
    BY <1>2, <1>7 DEF HasList, None
  <2>2. Len(found) \in Nat /\ Len(found) # 0
    BY SlideshowAssumption, <1>7, ListIsSeq
  <2>3. TypeOK'
    <3>1. /\ index' \in 1 .. MAX_IMAGES /\ shown' \in 0 .. MAX_IMAGES
          /\ failures' \in 0 .. MAX_IMAGES
      BY SlideshowAssumption, <2>1
    <3> QED
      BY ZenonT(40), <1>3, <2>1, <3>1 DEF ShowInv, TypeOK, Places
  <2>4. LocalsFit'
    BY <2>1, <2>2 DEF LocalsFit
  <2>5. RoundIsCurrent' /\ LoadsDim' /\ Shaded'
    BY <1>3, <2>1 DEF ShowInv, RoundIsCurrent, LoadsDim, Shaded, Loading
  <2>6. ListNow'
    BY <1>2, <1>3, <1>4, <2>1 DEF ListNow
  <2> QED
    BY <1>5, <2>3, <2>4, <2>5, <2>6 DEF ShowInv
<1> QED
  BY <1>6, <1>7

(* A reload, or the way to the next photo.                                 *)
LEMMA SwitchesKeep ==
  ASSUME ShowInv, Reload \/ Unpaused \/ Quiet
  PROVE  ShowInv'
<1>1. /\ UNCHANGED <<fade_ms, fast, layout, RELOAD, FIRST_DONE, LEVEL, BG, SD_LOCK, START, PAUSE, sd,
                     page, card, LIVE, hold>>
      /\ pc \in {"empty", "stopped", "rest", "all failed", "unpaused", "quiet"}
  BY DEF Reload, Unpaused, Quiet, Keeps, page_vars
<1>2. \/ ToRelist
      \/ /\ pc \in {"unpaused", "quiet"} /\ pc' \in {"quiet", "fade out"}
         /\ UNCHANGED <<list, index, shown, failures, fresh>>
  BY DEF Reload, Unpaused, Quiet, BeginsSwitch
<1>3. BG.what # PARTIAL
  BY <1>1 DEF ShowInv, LoadsDim, Loading
<1>4. CASE ToRelist
  <2>1. /\ pc' = "relist" /\ list' = <<>> /\ index' = 1 /\ shown' = 0 /\ failures' = 0
        /\ fresh' = TRUE
    BY <1>4 DEF ToRelist, None
  <2>2. TypeOK'
    <3>1. index' \in 1 .. MAX_IMAGES /\ shown' \in 0 .. MAX_IMAGES /\ failures' \in 0 .. MAX_IMAGES
      BY SlideshowAssumption, <2>1
    <3> QED
      BY ZenonT(40), <1>1, <2>1, <3>1, EmptyIsList DEF ShowInv, TypeOK, Places
  <2> QED
    BY <1>1, <1>3, <2>1, <2>2 DEF ShowInv, OneOpensTheCard, LocalsFit, RoundIsCurrent,
       LoadsDim, Shaded, ListNow, Listed, Loading
<1>5. CASE /\ pc \in {"unpaused", "quiet"} /\ pc' \in {"quiet", "fade out"}
           /\ UNCHANGED <<list, index, shown, failures, fresh>>
  <2>1. TypeOK'
    <3>1. pc' \in Places
      BY <1>5 DEF Places
    <3>2. /\ list' \in Lists /\ index' \in 1 .. MAX_IMAGES /\ shown' \in 0 .. MAX_IMAGES
          /\ failures' \in 0 .. MAX_IMAGES /\ fresh' \in BOOLEAN
      BY <1>5 DEF ShowInv, TypeOK
    <3> QED
      BY ZenonT(40), <1>1, <3>1, <3>2 DEF ShowInv, TypeOK
  <2>2. OneOpensTheCard' /\ RoundIsCurrent' /\ LoadsDim' /\ Shaded'
    BY <1>1, <1>3, <1>5 DEF ShowInv, OneOpensTheCard, RoundIsCurrent, LoadsDim, Shaded, Loading
  <2>3. pc \in Listed \ {"empty", "fade in"}
    BY <1>5 DEF Listed, Places
  <2>4. LocalsFit'
    BY <1>5, <2>3 DEF ShowInv, LocalsFit
  <2>5. ListNow'
    <3>1. RootBmps' = RootBmps
      BY <1>1, SameRoot
    <3>2. (fresh' = fresh => (fresh' => fresh)) /\ (RELOAD' = RELOAD => (~RELOAD' => ~RELOAD))
      OBVIOUS
    <3>3. (fresh' => fresh) /\ (~RELOAD' => ~RELOAD)
      BY <1>1, <1>5, <3>2
    <3> QED
      BY <1>1, <1>5, <2>3, <3>1, <3>3 DEF ShowInv, ListNow
  <2> QED
    BY <2>1, <2>2, <2>4, <2>5 DEF ShowInv
<1> QED
  BY <1>2, <1>4, <1>5

-----------------------------------------------------------------------------
(* The fades.                                                              *)
LEMMA FadeInGoes == AfterPhoto \in {"all failed", "unpaused", "stopped", "rest"}
BY DEF AfterPhoto

LEMMA FadesKeepTheList ==
  ASSUME ShowInv, FadeOut \/ FadeIn
  PROVE  /\ UNCHANGED <<list, shown, fast, RELOAD, FIRST_DONE, BG, SD_LOCK, START, PAUSE, sd, page,
                        card, LIVE, hold, fresh>>
         /\ BG.what # PARTIAL /\ (~RELOAD' => ~RELOAD) /\ ListNow'
         /\ Len(list) \in 1 .. MAX_IMAGES /\ index \in 1 .. Len(list)
         /\ shown \in 0 .. Len(list) /\ failures \in 0 .. Len(list)
<1>1. /\ UNCHANGED <<list, shown, fast, RELOAD, FIRST_DONE, BG, SD_LOCK, START, PAUSE, sd, page, card,
                     LIVE, hold, fresh>>
      /\ pc \in {"fade out", "fade in"} /\ pc \in Listed \ {"empty"}
  BY DEF FadeOut, FadeIn, Keeps, page_vars, Listed, Places
<1>2. BG.what # PARTIAL
  BY <1>1 DEF ShowInv, LoadsDim, Loading
<1>3. index \in Nat \ {0} /\ shown \in Nat /\ failures \in Nat
  BY SlideshowAssumption DEF ShowInv, TypeOK
<1>4. index <= Len(list) /\ shown <= Len(list) /\ failures <= Len(list)
  BY <1>1 DEF ShowInv, LocalsFit
<1>5. Len(list) \in 0 .. MAX_IMAGES
  BY ListIsSeq DEF ShowInv, TypeOK
<1>6. RootBmps' = RootBmps /\ (~RELOAD' => ~RELOAD) /\ (fresh' => fresh)
  <2>1. (fresh' = fresh => (fresh' => fresh)) /\ (RELOAD' = RELOAD => (~RELOAD' => ~RELOAD))
    OBVIOUS
  <2> QED
    BY <1>1, <2>1, SameRoot
<1>7. pc' # "lock list"
  <2>1. CASE FadeOut
    BY <2>1 DEF FadeOut
  <2>2. CASE FadeIn
    BY <1>1, <2>2, FadeInGoes DEF FadeIn
  <2> QED
    BY <2>1, <2>2
<1>8. ListNow'
  BY <1>1, <1>6, <1>7 DEF ShowInv, ListNow
<1>9. /\ Len(list) \in 1 .. MAX_IMAGES /\ index \in 1 .. Len(list)
      /\ shown \in 0 .. Len(list) /\ failures \in 0 .. Len(list)
  BY SlideshowAssumption, <1>3, <1>4, <1>5
<1> QED
  BY <1>1, <1>2, <1>6, <1>8, <1>9

LEMMA FadeOutKeeps ==
  ASSUME ShowInv, FadeOut
  PROVE  ShowInv'
<1>1. /\ UNCHANGED <<list, shown, fast, RELOAD, FIRST_DONE, BG, SD_LOCK, START, PAUSE, sd, page, card,
                     LIVE, hold, fresh>>
      /\ BG.what # PARTIAL /\ ListNow'
  BY FadesKeepTheList
<1>2. pc = "fade out" /\ UNCHANGED index /\ UNCHANGED failures
  BY DEF FadeOut
<1>3. PICK ms \in {fade_ms + FrameMs, fade_ms + 2 * FrameMs} :
        IF ms < FADE_OUT_MS
        THEN /\ fade_ms' = ms /\ LEVEL' = fade_out_level(ms)
             /\ UNCHANGED <<pc, layout>>
        ELSE /\ fade_ms' = 0 /\ LEVEL' = LOADING_LEVEL
             /\ layout' = LIVE.layout
             /\ pc' = "lock"
  BY DEF FadeOut
<1>4. ms \in Nat
  <2>1. fade_ms \in Nat /\ FrameMs \in Nat
    BY SlideshowAssumption DEF ShowInv, TypeOK, FADE_IN_MS
  <2> QED
    BY <2>1
<1>5. LIVE.layout \in Layout
  BY DEF ShowInv, TypeOK, Lives
<1>6. CASE ms < FADE_OUT_MS
  <2>1. fade_ms' = ms /\ LEVEL' = fade_out_level(ms) /\ pc' = "fade out" /\ UNCHANGED layout
    BY <1>2, <1>3, <1>6
  <2>2. fade_ms' \in 0 .. FADE_IN_MS /\ LEVEL' \in LOADING_LEVEL .. 32
    <3>1. LEVEL' \in LOADING_LEVEL .. 32
      BY <1>4, <2>1, LevelBounded
    <3>2. fade_ms' \in 0 .. FADE_IN_MS
      <4>1. ms < 500 /\ FADE_IN_MS = 700
        BY <1>6 DEF FADE_OUT_MS, FADE_IN_MS
      <4>2. fade_ms' = ms
        BY <2>1
      <4> QED
        BY <1>4, <4>1, <4>2
    <3> QED
      BY <3>1, <3>2
  <2>3. TypeOK'
    BY ZenonT(40), <1>1, <1>2, <2>1, <2>2 DEF ShowInv, TypeOK, Places
  <2>4. LocalsFit'
    BY <1>1, <1>2, <2>1 DEF ShowInv, LocalsFit
  <2>5. OneOpensTheCard' /\ RoundIsCurrent' /\ LoadsDim' /\ Shaded'
    BY <1>1, <1>2, <2>1 DEF ShowInv, OneOpensTheCard, RoundIsCurrent, LoadsDim, Shaded, Loading
  <2> QED
    BY <1>1, <2>3, <2>4, <2>5 DEF ShowInv
<1>7. CASE ~ (ms < FADE_OUT_MS)
  <2>1. fade_ms' = 0 /\ LEVEL' = LOADING_LEVEL /\ layout' = LIVE.layout /\ pc' = "lock"
    BY <1>3, <1>7
  <2>2. fade_ms' \in 0 .. FADE_IN_MS /\ LEVEL' \in LOADING_LEVEL .. 32
    BY <2>1 DEF FADE_IN_MS, LOADING_LEVEL
  <2>3. TypeOK'
    BY ZenonT(40), <1>1, <1>2, <1>5, <2>1, <2>2 DEF ShowInv, TypeOK, Places
  <2>4. LocalsFit'
    BY <1>1, <1>2, <2>1 DEF ShowInv, LocalsFit, Listed, Places
  <2>5. OneOpensTheCard' /\ RoundIsCurrent' /\ LoadsDim' /\ Shaded'
    BY <1>1, <1>2, <1>5, <2>1 DEF ShowInv, OneOpensTheCard, RoundIsCurrent, LoadsDim, Shaded, Loading
  <2> QED
    BY <1>1, <2>3, <2>4, <2>5 DEF ShowInv
<1> QED
  BY <1>6, <1>7

LEMMA FadeInKeeps ==
  ASSUME ShowInv, FadeIn
  PROVE  ShowInv'
<1>1. /\ UNCHANGED <<list, shown, fast, RELOAD, FIRST_DONE, BG, SD_LOCK, START, PAUSE, sd, page, card,
                     LIVE, hold, fresh>>
      /\ BG.what # PARTIAL /\ (~RELOAD' => ~RELOAD) /\ ListNow'
      /\ Len(list) \in 1 .. MAX_IMAGES /\ index \in 1 .. Len(list)
      /\ shown \in 0 .. Len(list) /\ failures \in 0 .. Len(list)
  BY FadesKeepTheList
<1>2. pc = "fade in"
  BY DEF FadeIn
<1>3. PICK ms \in {fade_ms + FrameMs, fade_ms + 2 * FrameMs} :
        IF ms < FADE_IN_MS
        THEN /\ fade_ms' = ms /\ LEVEL' = fade_in_level(ms)
             /\ UNCHANGED <<pc, index, failures, layout>>
        ELSE /\ fade_ms' = 0 /\ LEVEL' = 32 /\ layout' = NoLayout
             /\ index' = NextIndex
             /\ failures' = IF failures >= Len(list) THEN 0 ELSE failures
             /\ pc' = AfterPhoto
  BY DEF FadeIn
<1>4. ms \in Nat
  <2>1. fade_ms \in Nat /\ FrameMs \in Nat
    BY SlideshowAssumption DEF ShowInv, TypeOK, FADE_IN_MS
  <2> QED
    BY <2>1
<1>5. CASE ms < FADE_IN_MS
  <2>1. /\ fade_ms' = ms /\ LEVEL' = fade_in_level(ms) /\ pc' = pc
        /\ UNCHANGED index /\ UNCHANGED failures /\ UNCHANGED layout
    BY <1>3, <1>5
  <2>2. fade_ms' \in 0 .. FADE_IN_MS /\ LEVEL' \in LOADING_LEVEL .. 32
    BY <1>4, <1>5, <2>1, LevelBounded DEF FADE_IN_MS
  <2>3. TypeOK'
    BY <1>1, <2>1, <2>2 DEF ShowInv, TypeOK
  <2>4. LocalsFit' /\ OneOpensTheCard'
    BY <1>1, <2>1 DEF ShowInv, LocalsFit, OneOpensTheCard
  <2>5. RoundIsCurrent' /\ LoadsDim' /\ Shaded'
    BY <1>1, <1>2, <2>1 DEF ShowInv, RoundIsCurrent, LoadsDim, Shaded, Loading
  <2> QED
    BY <1>1, <2>3, <2>4, <2>5 DEF ShowInv
<1>6. CASE ~ (ms < FADE_IN_MS)
  <2>1. /\ fade_ms' = 0 /\ LEVEL' = 32 /\ layout' = NoLayout /\ index' = NextIndex
        /\ failures' = IF failures >= Len(list) THEN 0 ELSE failures
    BY <1>3, <1>6
  <2>2. pc' \in {"all failed", "unpaused", "stopped", "rest"}
    BY <1>3, <1>6, FadeInGoes
  <2>3. NextIndex \in 1 .. Len(list)
    BY <1>1 DEF NextIndex
  <2>4. failures' \in 0 .. Len(list) /\ failures' < Len(list)
    BY <1>1, <2>1
  <2>5. index' \in 1 .. MAX_IMAGES /\ failures' \in 0 .. MAX_IMAGES
    BY SlideshowAssumption, <1>1, <2>1, <2>3, <2>4
  <2>6. TypeOK'
    <3>1. fade_ms' \in 0 .. FADE_IN_MS /\ LEVEL' \in LOADING_LEVEL .. 32
      BY <2>1 DEF FADE_IN_MS, LOADING_LEVEL
    <3>2. pc' \in Places
      BY <2>2 DEF Places
    <3> QED
      BY <1>1, <2>1, <2>5, <3>1, <3>2 DEF ShowInv, TypeOK
  <2>7. LocalsFit'
    <3>1. index' <= Len(list) /\ shown' <= Len(list) /\ failures' < Len(list) /\ failures' <= Len(list)
      BY <1>1, <2>1, <2>3, <2>4
    <3>2. list' = list
      BY <1>1
    <3> QED
      BY <3>1, <3>2 DEF LocalsFit
  <2>8. OneOpensTheCard' /\ RoundIsCurrent' /\ LoadsDim' /\ Shaded'
    BY <1>1, <1>2, <2>2 DEF ShowInv, OneOpensTheCard, RoundIsCurrent, LoadsDim, Shaded, Loading
  <2> QED
    BY <1>1, <2>6, <2>7, <2>8 DEF ShowInv
<1> QED
  BY <1>5, <1>6

-----------------------------------------------------------------------------
(* The load of a photo.                                                    *)

(* What both steps of a load leave alone, and what follows from it.        *)
LEMMA LoadsKeepTheList ==
  ASSUME ShowInv, OpenPhoto \/ LoadEnds
  PROVE  /\ UNCHANGED <<fade_ms, list, index, layout, RELOAD, LEVEL, fresh, START, PAUSE, sd, page,
                        card, LIVE, hold>>
         /\ pc \in {"lock", "frame"} /\ LEVEL = LOADING_LEVEL
         /\ layout \in Layout /\ (~RELOAD => layout = LIVE.layout) /\ (~RELOAD' => ~RELOAD)
         /\ pc' \in {"reading", "fade in", "lock"} => ListNow'
         /\ Len(list) \in 1 .. MAX_IMAGES /\ index \in 1 .. Len(list) /\ Name \in Photo
         /\ shown \in 0 .. Len(list) /\ failures \in 0 .. Len(list) - 1
<1>1. /\ UNCHANGED <<fade_ms, list, index, layout, RELOAD, LEVEL, fresh, START, PAUSE, sd, page, card,
                     LIVE, hold>>
      /\ pc \in {"lock", "frame"}
  BY DEF OpenPhoto, LoadEnds, Keeps, page_vars
<1>2. /\ LEVEL = LOADING_LEVEL /\ layout \in Layout /\ (~RELOAD => layout = LIVE.layout)
      /\ pc \in Listed \ {"empty"} /\ pc # "fade in"
  BY <1>1 DEF ShowInv, LoadsDim, RoundIsCurrent, Loading, Listed, Places
<1>3. index \in Nat \ {0} /\ shown \in Nat /\ failures \in Nat /\ list \in Lists
  BY SlideshowAssumption DEF ShowInv, TypeOK
<1>4. index <= Len(list) /\ shown <= Len(list) /\ failures < Len(list)
  BY <1>2 DEF ShowInv, LocalsFit
<1>5. Len(list) \in 0 .. MAX_IMAGES /\ \A i \in 1 .. Len(list) : list[i] \in Photo
  BY <1>3, ListIsSeq
<1>6. RootBmps' = RootBmps /\ (~RELOAD' => ~RELOAD) /\ (fresh' => fresh)
  <2>1. (fresh' = fresh => (fresh' => fresh)) /\ (RELOAD' = RELOAD => (~RELOAD' => ~RELOAD))
    OBVIOUS
  <2> QED
    BY <1>1, <2>1, SameRoot
<1>7. pc' \in {"reading", "fade in", "lock"} => ListNow'
  BY <1>1, <1>2, <1>6 DEF ShowInv, ListNow
<1>8. /\ Len(list) \in 1 .. MAX_IMAGES /\ index \in 1 .. Len(list)
      /\ shown \in 0 .. Len(list) /\ failures \in 0 .. Len(list) - 1
  BY SlideshowAssumption, <1>3, <1>4, <1>5
<1>9. Name \in Photo
  BY <1>5, <1>8 DEF Name
<1> QED
  BY <1>1, <1>2, <1>6, <1>7, <1>8, <1>9

(* A load that begins, or reads on at the slow clock.                      *)
LEMMA LoadGoesOn ==
  ASSUME ShowInv, OpenPhoto \/ LoadEnds,
         /\ UNCHANGED failures /\ UNCHANGED shown /\ UNCHANGED FIRST_DONE /\ fast' \in BOOLEAN
         /\ pc' \in {"reading", "lock"} /\ BG' \in {BG, Partial}
         /\ SD_LOCK' \in {"free", "show", "page"} /\ OneOpensTheCard'
  PROVE  ShowInv'
<1>1. /\ UNCHANGED <<fade_ms, list, index, layout, RELOAD, LEVEL, fresh, START, PAUSE, sd, page,
                     card, LIVE, hold>>
      /\ LEVEL = LOADING_LEVEL /\ layout \in Layout /\ (~RELOAD => layout = LIVE.layout)
      /\ (~RELOAD' => ~RELOAD) /\ ListNow'
      /\ Len(list) \in 1 .. MAX_IMAGES /\ index \in 1 .. Len(list)
      /\ shown \in 0 .. Len(list) /\ failures \in 0 .. Len(list) - 1
  BY LoadsKeepTheList
<1>2. BG' \in [what: Photo \cup {GRADIENT, PARTIAL}, layout: Layout]
  BY <1>1 DEF ShowInv, TypeOK, Partial
<1>3. TypeOK'
  BY <1>1, <1>2 DEF ShowInv, TypeOK, Places
<1>4. LocalsFit'
  <2>1. index <= Len(list) /\ shown <= Len(list) /\ failures <= Len(list) /\ failures < Len(list)
    BY <1>1
  <2>2. list' = list /\ index' = index /\ shown' = shown /\ failures' = failures
    BY <1>1
  <2> QED
    BY <2>1, <2>2 DEF LocalsFit
<1>5. RoundIsCurrent' /\ LoadsDim' /\ Shaded'
  BY <1>1 DEF RoundIsCurrent, LoadsDim, Shaded, Loading
<1> QED
  BY <1>1, <1>3, <1>4, <1>5 DEF ShowInv

(* A load that ends, well or badly.                                        *)
LEMMA LoadIsOver ==
  ASSUME ShowInv, OpenPhoto \/ LoadEnds, Loaded \/ Failed,
         SD_LOCK' \in {"free", "show", "page"}, OneOpensTheCard'
  PROVE  ShowInv'
<1>1. /\ UNCHANGED <<fade_ms, list, index, layout, RELOAD, LEVEL, fresh, START, PAUSE, sd, page,
                     card, LIVE, hold>>
      /\ LEVEL = LOADING_LEVEL /\ layout \in Layout /\ (~RELOAD => layout = LIVE.layout)
      /\ (~RELOAD' => ~RELOAD) /\ (pc' \in {"reading", "fade in", "lock"} => ListNow')
  BY LoadsKeepTheList
<1>2. /\ Len(list) \in 1 .. MAX_IMAGES /\ index \in 1 .. Len(list) /\ Name \in Photo
      /\ shown \in 0 .. Len(list) /\ failures \in 0 .. Len(list) - 1 /\ layout \in Layout
  BY LoadsKeepTheList
<1>3. pc' = "fade in" /\ FIRST_DONE' = TRUE /\ UNCHANGED fast
  BY DEF Loaded, Failed
<1>4. BG'.layout = layout /\ BG'.what # PARTIAL
      /\ BG' \in [what: Photo \cup {GRADIENT, PARTIAL}, layout: Layout]
  <2>1. PICK w \in Photo \cup {GRADIENT} : BG' = [what |-> w, layout |-> layout]
    BY <1>2 DEF Loaded, Failed, Gradient
  <2>2. w # PARTIAL /\ layout \in Layout
    BY SlideshowAssumption, <1>2 DEF PARTIAL, GRADIENT
  <2> QED
    BY <2>1, <2>2
<1>5. /\ shown' \in {index, shown, 0} /\ failures' \in {0, failures + 1}
      /\ Len(list) \in 1 .. MAX_IMAGES
  BY <1>2 DEF Loaded, Failed, None
<1>6. shown' \in 0 .. Len(list) /\ failures' \in 0 .. Len(list)
  <2>1. index \in 0 .. Len(list) /\ shown \in 0 .. Len(list) /\ failures + 1 \in 0 .. Len(list)
    BY <1>2
  <2> QED
    BY <1>5, <2>1
<1>7. TypeOK'
  <2>1. shown' \in 0 .. MAX_IMAGES /\ failures' \in 0 .. MAX_IMAGES
    BY SlideshowAssumption, <1>5, <1>6
  <2> QED
    BY <1>1, <1>3, <1>4, <2>1 DEF ShowInv, TypeOK, Places
<1>8. LocalsFit'
  <2>1. index <= Len(list) /\ shown' <= Len(list) /\ failures' <= Len(list)
    BY <1>2, <1>6
  <2>2. list' = list /\ index' = index
    BY <1>1
  <2> QED
    BY <1>3, <2>1, <2>2 DEF LocalsFit
<1>9. RoundIsCurrent' /\ LoadsDim' /\ Shaded'
  BY <1>1, <1>3, <1>4 DEF RoundIsCurrent, LoadsDim, Shaded, Loading
<1> QED
  BY <1>1, <1>3, <1>7, <1>8, <1>9 DEF ShowInv

LEMMA OpenPhotoKeeps ==
  ASSUME ShowInv, OpenPhoto
  PROVE  ShowInv'
<1>1. pc = "lock" /\ SD_LOCK = "free" /\ UNCHANGED page
  BY DEF OpenPhoto, CardIsFree, Keeps, page_vars
<1>3. CASE /\ SD_LOCK' = "show" /\ BG' = Partial /\ pc' = "reading"
           /\ UNCHANGED <<failures, shown, FIRST_DONE, fast>>
  <2>1. OneOpensTheCard'
    BY <1>1, <1>3 DEF ShowInv, OneOpensTheCard
  <2>2. fast' \in BOOLEAN
    BY <1>3 DEF ShowInv, TypeOK
  <2> QED
    BY <1>3, <2>1, <2>2, LoadGoesOn
<1>4. CASE Failed /\ UNCHANGED SD_LOCK
  <2>1. OneOpensTheCard'
    BY <1>1, <1>4 DEF ShowInv, OneOpensTheCard, Failed
  <2> QED
    BY <1>1, <1>4, <2>1, LoadIsOver
<1>5. CASE fast /\ IoError /\ UNCHANGED SD_LOCK
  <2>1. /\ fast' = FALSE /\ pc' = "lock" /\ BG' = BG
        /\ UNCHANGED failures /\ UNCHANGED shown /\ UNCHANGED FIRST_DONE
    BY <1>5 DEF IoError
  <2>2. OneOpensTheCard'
    BY <1>1, <1>5, <2>1 DEF ShowInv, OneOpensTheCard
  <2> QED
    BY <1>1, <1>5, <2>1, <2>2, LoadGoesOn
<1> QED
  BY <1>3, <1>4, <1>5 DEF OpenPhoto, IoError

LEMMA LoadEndsKeeps ==
  ASSUME ShowInv, LoadEnds
  PROVE  ShowInv'
<1>1. pc = "frame" /\ SD_LOCK' = "free" /\ UNCHANGED page
  BY DEF LoadEnds, Keeps, page_vars
<1>3. ~ (page # Idle /\ page.at = "using")
  BY <1>1 DEF ShowInv, OneOpensTheCard
<1>4. CASE Loaded \/ Failed
  <2>1. OneOpensTheCard'
    BY <1>1, <1>3, <1>4 DEF OneOpensTheCard, Loaded, Failed
  <2> QED
    BY <1>1, <1>4, <2>1, LoadIsOver
<1>5. CASE fast /\ IoError
  <2>1. /\ fast' = FALSE /\ pc' = "lock" /\ BG' = BG
        /\ UNCHANGED failures /\ UNCHANGED shown /\ UNCHANGED FIRST_DONE
    BY <1>5 DEF IoError
  <2>2. OneOpensTheCard'
    BY <1>1, <1>3, <2>1 DEF OneOpensTheCard
  <2> QED
    BY <1>1, <2>1, <2>2, LoadGoesOn
<1> QED
  BY <1>4, <1>5 DEF LoadEnds, IoError

-----------------------------------------------------------------------------
(* The page and the checks.                                                *)

(* What a request brings along.                                            *)
LEMMA JobTyped ==
  ASSUME NEW request \in Jobs \cup {AnyJob}
  PROVE  /\ request.do \in {"delete", "upload"} => request.photo \in Photo
         /\ request.do = "save" => request.live \in Lives /\ request.reload \in BOOLEAN
<1>1. CASE request \in [do: {"read"}]
  <2>1. request.do = "read"
    BY <1>1
  <2> QED
    BY Zenon, <2>1
<1>2. CASE request \in [do: {"delete", "upload"}, photo: Photo]
  <2>1. request.do \in {"delete", "upload"} /\ request.photo \in Photo
    BY <1>2
  <2> QED
    BY Zenon, <2>1
<1>3. CASE request \in [do: {"save"}, live: Lives, reload: BOOLEAN]
  <2>1. request.do = "save" /\ request.live \in Lives /\ request.reload \in BOOLEAN
    BY <1>3
  <2> QED
    BY Zenon, <2>1
<1>4. CASE request = AnyJob
  <2>1. request.do = "any"
    BY <1>4 DEF AnyJob
  <2> QED
    BY Zenon, <2>1
<1> QED
  BY <1>1, <1>2, <1>3, <1>4 DEF Jobs

LEMMA PageTyped ==
  ASSUME page \in Pages, page # Idle
  PROVE  page.at \in {"waiting", "using"} /\ page.job \in Jobs \cup {AnyJob}
BY DEF Pages

LEMMA AsksTyped ==
  ASSUME NEW request \in Jobs \cup {AnyJob}, AsksFor(request)
  PROVE  page' \in Pages /\ page' # Idle /\ page'.at = "waiting"
BY DEF AsksFor, Pages, Idle

(* What is left to show of a step that leaves the photo task alone.        *)
LEMMA OthersKeep ==
  ASSUME ShowInv, UNCHANGED ShowButFresh,
         START' \in BOOLEAN, PAUSE' \in BOOLEAN, RELOAD' \in BOOLEAN, hold' \in BOOLEAN,
         fresh' \in BOOLEAN, SD_LOCK' \in {"free", "show", "page"}, LIVE' \in Lives,
         card' \in [Photo -> {"ok", "bad", "none"}], page' \in Pages,
         OneOpensTheCard',
         ~RELOAD' => ~RELOAD /\ LIVE'.images = LIVE.images /\ LIVE'.layout = LIVE.layout,
         (~RELOAD' /\ fresh') => fresh /\ (LIVE.images = <<>> => card' = card)
  PROVE  ShowInv'
<1>1. /\ pc' = pc /\ fade_ms' = fade_ms /\ list' = list /\ index' = index /\ shown' = shown
      /\ failures' = failures /\ fast' = fast /\ layout' = layout /\ FIRST_DONE' = FIRST_DONE
      /\ LEVEL' = LEVEL /\ BG' = BG /\ sd' = sd
  BY DEF ShowButFresh, locals
<1>2. TypeOK'
  BY <1>1 DEF ShowInv, TypeOK
<1>3. LocalsFit' /\ LoadsDim'
  BY <1>1 DEF ShowInv, LocalsFit, LoadsDim
<1>4. RoundIsCurrent' /\ Shaded'
  BY <1>1 DEF ShowInv, RoundIsCurrent, Shaded
<1>5. ListNow'
  BY <1>1, SameRoot DEF ShowInv, ListNow
<1> QED
  BY <1>2, <1>3, <1>4, <1>5 DEF ShowInv

(* Every job of the page needs the card, and has it alone.                 *)
LEMMA PageHasCard ==
  ASSUME ShowInv, page # Idle, page.at = "using"
  PROVE  SD_LOCK = "page" /\ pc \notin {"reading", "frame"}
BY DEF ShowInv, OneOpensTheCard

LEMMA PageKeeps ==
  ASSUME ShowInv, PageAsks \/ PageGetsCard \/ PageRefused \/ PageRead
  PROVE  ShowInv'
<1>1. UNCHANGED <<pc, fade_ms, locals, FIRST_DONE, LEVEL, BG, sd, fresh, START, PAUSE, RELOAD, card, LIVE>>
  BY DEF PageAsks, PageGetsCard, PageRefused, PageRead, Show, ShowButFresh
<1>2. START' \in BOOLEAN /\ PAUSE' \in BOOLEAN /\ RELOAD' \in BOOLEAN /\ fresh' \in BOOLEAN
      /\ LIVE' \in Lives /\ card' \in [Photo -> {"ok", "bad", "none"}]
  BY <1>1 DEF ShowInv, TypeOK
<1>3. hold' \in BOOLEAN /\ SD_LOCK' \in {"free", "show", "page"} /\ page' \in Pages /\ OneOpensTheCard'
  <2>1. CASE PageAsks
    <3>1. page' \in Pages /\ page' # Idle /\ page'.at = "waiting"
      BY <2>1, AsksTyped DEF PageAsks
    <3>2. hold' = TRUE /\ SD_LOCK' = SD_LOCK
      BY <2>1 DEF PageAsks
    <3> QED
      BY <1>1, <3>1, <3>2 DEF ShowInv, TypeOK, OneOpensTheCard
  <2>2. CASE PageGetsCard
    <3>1. Requests \subseteq Jobs
      <4>1. Changing \subseteq Photo /\ Settings \subseteq Lives
        BY SlideshowAssumption
      <4>2. [do: {"delete"}, photo: Changing] \subseteq [do: {"delete", "upload"}, photo: Photo]
        BY <4>1
      <4>3. [do: {"upload"}, photo: {p \in Changing : card[p] = "none"}]
              \subseteq [do: {"delete", "upload"}, photo: Photo]
        BY <4>1
      <4>4. [do: {"save"}, live: Settings, reload: {FALSE}]
              \subseteq [do: {"save"}, live: Lives, reload: BOOLEAN]
        BY <4>1
      <4>5. [do |-> "read"] \in [do: {"read"}]
        OBVIOUS
      <4> QED
        BY Zenon, <4>2, <4>3, <4>4, <4>5 DEF Requests, Jobs
    <3>2. page.job \in Jobs \cup {AnyJob}
      BY <2>2, PageTyped DEF PageGetsCard, ShowInv, TypeOK
    <3>3. PICK request \in Jobs \cup {AnyJob} : page' = [at |-> "using", job |-> request]
      BY <2>2, <3>1, <3>2 DEF PageGetsCard
    <3>4. page' \in Pages
      BY <3>3 DEF Pages
    <3>5. hold' = hold /\ SD_LOCK' = "page" /\ SD_LOCK = "free"
      BY <2>2 DEF PageGetsCard, CardIsFree
    <3> QED
      BY <1>1, <3>4, <3>5 DEF ShowInv, TypeOK, OneOpensTheCard
  <2>3. CASE PageRefused
    <3>1. page' = Idle /\ hold' = hold /\ SD_LOCK' = SD_LOCK
      BY <2>3 DEF PageRefused
    <3>2. page' \in Pages
      BY <3>1 DEF Pages
    <3> QED
      BY <1>1, <3>1, <3>2 DEF ShowInv, TypeOK, OneOpensTheCard
  <2>4. CASE PageRead
    <3>1. page' = Idle /\ hold' \in {hold, TRUE} /\ SD_LOCK' = "free"
          /\ pc \notin {"reading", "frame"}
      BY <2>4, PageHasCard DEF PageRead, Using, HoldsOn
    <3>2. page' \in Pages
      BY <3>1 DEF Pages
    <3> QED
      BY <1>1, <3>1, <3>2 DEF ShowInv, TypeOK, OneOpensTheCard
  <2> QED
    BY <2>1, <2>2, <2>3, <2>4
<1>4. (~RELOAD' => ~RELOAD) /\ (fresh' => fresh)
  <2>1. (fresh' = fresh => (fresh' => fresh)) /\ (RELOAD' = RELOAD => (~RELOAD' => ~RELOAD))
    OBVIOUS
  <2> QED
    BY <1>1, <2>1
<1>5. UNCHANGED ShowButFresh
  BY <1>1 DEF ShowButFresh
<1>6. LIVE' = LIVE /\ card' = card
  BY <1>1
<1> QED
  BY <1>2, <1>3, <1>4, <1>5, <1>6, OthersKeep

(* What changes the card: the page has it, and gives it back.              *)
LEMMA NowShowTyped ==
  ASSUME ShowInv, NEW images \in Lists, NEW kept \in BOOLEAN, NowShow(images, kept)
  PROVE  /\ page' \in Pages /\ (page' # Idle => page'.at = "waiting") /\ hold' = TRUE
         /\ RELOAD' \in BOOLEAN /\ (~RELOAD' => ~RELOAD /\ kept)
<1>1. CASE kept
  <2> DEFINE request == [do |-> "save", live |-> [LIVE EXCEPT !.images = images], reload |-> TRUE]
  <2>1. [LIVE EXCEPT !.images = images] \in Lives
    BY DEF ShowInv, TypeOK, Lives
  <2>2. request \in Jobs
    BY <2>1 DEF Jobs
  <2>3. AsksFor(request) /\ hold' = TRUE /\ RELOAD' = RELOAD
    BY <1>1 DEF NowShow
  <2>4. page' \in Pages /\ page'.at = "waiting"
    BY <2>2, <2>3, AsksTyped
  <2>5. (RELOAD' = RELOAD) => (~RELOAD' => ~RELOAD)
    OBVIOUS
  <2> QED
    BY <1>1, <2>3, <2>4, <2>5 DEF ShowInv, TypeOK
<1>2. CASE ~ kept
  BY <1>2 DEF NowShow, Pages
<1> QED
  BY <1>1, <1>2

LEMMA PageChangesCard ==
  ASSUME ShowInv, PageDeleted \/ PageUploaded
  PROVE  ShowInv'
<1>1. /\ UNCHANGED ShowButFresh /\ fresh' = fresh /\ START' = START /\ PAUSE' = PAUSE /\ LIVE' = LIVE
      /\ SD_LOCK' = "free" /\ pc \notin {"reading", "frame"}
      /\ page # Idle /\ page.job.do \in {"delete", "upload"}
  BY PageHasCard DEF PageDeleted, PageUploaded, Using, Show, ShowButFresh
<1>2. page.job.photo \in Photo
  BY <1>1, PageTyped, JobTyped DEF ShowInv, TypeOK
<1>3. LIVE.images \in Lists
  BY DEF ShowInv, TypeOK, Lives
<1>4. card' \in [Photo -> {"ok", "bad", "none"}]
  BY <1>2 DEF PageDeleted, PageUploaded, ShowInv, TypeOK
<1>5. /\ page' \in Pages /\ (page' # Idle => page'.at = "waiting") /\ hold' = TRUE
      /\ RELOAD' \in BOOLEAN
      /\ ~RELOAD' => ~RELOAD /\ (LIVE.images = <<>> => card' = card)
  <2>1. CASE PageDeleted /\ card[page.job.photo] = "none"
    <3>1. page' = Idle /\ hold' = TRUE /\ RELOAD' = RELOAD /\ card' = card
      BY <2>1 DEF PageDeleted
    <3>2. (RELOAD' = RELOAD) => (~RELOAD' => ~RELOAD)
      OBVIOUS
    <3> QED
      BY <3>1, <3>2 DEF Pages, ShowInv, TypeOK
  <2>2. CASE PageDeleted /\ card[page.job.photo] # "none"
    <3> DEFINE images == Without(LIVE.images, page.job.photo)
               kept == LIVE.images # <<>>
    <3>1. NowShow(images, kept)
      BY <2>2 DEF PageDeleted
    <3>2. images \in Lists /\ kept \in BOOLEAN
      BY <1>3, WithoutIsList
    <3> HIDE DEF images
    <3> QED
      BY <3>1, <3>2, NowShowTyped
  <2>3. CASE PageUploaded
    <3> DEFINE images == Append(LIVE.images, page.job.photo)
               kept == LIVE.images # <<>> /\ Len(LIVE.images) < MAX_IMAGES
    <3>1. NowShow(images, kept)
      BY <2>3 DEF PageUploaded
    <3>2. kept \in BOOLEAN
      OBVIOUS
    <3>3. CASE kept
      <4>1. images \in Lists
        <5>1. /\ LIVE.images \in Seq(Photo) /\ Len(LIVE.images) \in Nat /\ Len(LIVE.images) < MAX_IMAGES
          BY <1>3, <3>3, ListIsSeq, LenProperties
        <5>2. images \in Seq(Photo) /\ Len(images) = Len(LIVE.images) + 1
          BY <1>2, <5>1, AppendProperties
        <5>3. Len(images) <= MAX_IMAGES
          BY SlideshowAssumption, <5>1, <5>2
        <5> HIDE DEF images
        <5> QED
          BY <5>2, <5>3, SeqIsList
      <4> HIDE DEF images
      <4> QED
        BY <3>1, <3>2, <3>3, <4>1, NowShowTyped
    <3>4. CASE ~ kept
      BY <3>1, <3>4 DEF NowShow, Pages
    <3> QED
      BY <3>3, <3>4
  <2> QED
    BY <2>1, <2>2, <2>3
<1>6. OneOpensTheCard'
  BY <1>1, <1>5 DEF OneOpensTheCard, ShowButFresh
<1>7. START' \in BOOLEAN /\ PAUSE' \in BOOLEAN /\ fresh' \in BOOLEAN /\ LIVE' \in Lives
  BY <1>1 DEF ShowInv, TypeOK
<1>8. fresh' => fresh
  <2>1. (fresh' = fresh) => (fresh' => fresh)
    OBVIOUS
  <2> QED
    BY <1>1, <2>1
<1> QED
  BY <1>1, <1>4, <1>5, <1>6, <1>7, <1>8, OthersKeep

LEMMA PageEndsKeep ==
  ASSUME ShowInv, PageSaved \/ PageFails
  PROVE  ShowInv'
<1>1. /\ UNCHANGED ShowButFresh /\ START' = START /\ PAUSE' = PAUSE
      /\ SD_LOCK' = "free" /\ pc \notin {"reading", "frame"} /\ page # Idle /\ page' = Idle
      /\ hold' \in {hold, TRUE}
  BY PageHasCard DEF PageSaved, PageFails, Using, Show, ShowButFresh, HoldsOn
<1>2. page.job \in Jobs \cup {AnyJob}
  BY <1>1, PageTyped DEF ShowInv, TypeOK
<1>3. START' \in BOOLEAN /\ PAUSE' \in BOOLEAN /\ hold' \in BOOLEAN /\ page' \in Pages
  BY <1>1 DEF ShowInv, TypeOK, Pages
<1>4. OneOpensTheCard'
  BY <1>1 DEF OneOpensTheCard, ShowButFresh
<1>5. CASE PageSaved
  <2>1. page.job.live \in Lives /\ page.job.reload \in BOOLEAN
    BY <1>2, <1>5, JobTyped DEF PageSaved, Using
  <2>2. /\ LIVE' = page.job.live /\ card' = card /\ fresh' = fresh
        /\ RELOAD' = (RELOAD \/ page.job.reload \/ NeedsReload(page.job.live))
    BY <1>5 DEF PageSaved, Show
  <2>3. RELOAD' \in BOOLEAN
    BY <2>2 DEF NeedsReload
  <2>4. ~RELOAD' => ~RELOAD /\ ~NeedsReload(page.job.live)
    BY Zenon, <2>2
  <2>5. fresh' => fresh
    <3>1. (fresh' = fresh) => (fresh' => fresh)
      OBVIOUS
    <3> QED
      BY <2>2, <3>1
  <2>6. fresh' \in BOOLEAN /\ card' \in [Photo -> {"ok", "bad", "none"}] /\ LIVE' \in Lives
    BY <2>1, <2>2 DEF ShowInv, TypeOK
  <2>7. ~RELOAD' => ~RELOAD /\ LIVE'.images = LIVE.images /\ LIVE'.layout = LIVE.layout
    BY <2>2, <2>4 DEF NeedsReload
  <2> QED
    BY <1>1, <1>3, <1>4, <2>2, <2>3, <2>5, <2>6, <2>7, OthersKeep
<1>6. CASE PageFails
  <2>1. LIVE' = LIVE /\ RELOAD' = RELOAD
    BY <1>6 DEF PageFails
  <2>2. \/ card' = card /\ fresh' = fresh
        \/ card' \in [Photo -> {"ok", "bad", "none"}] /\ fresh' = FALSE
    <3>1. page.job.do = "upload" => page.job.photo \in Photo
      BY <1>2, JobTyped
    <3> QED
      BY <1>6, <3>1 DEF PageFails, ShowInv, TypeOK
  <2>3. RELOAD' \in BOOLEAN /\ LIVE' \in Lives /\ fresh' \in BOOLEAN
        /\ card' \in [Photo -> {"ok", "bad", "none"}]
    BY <2>1, <2>2 DEF ShowInv, TypeOK
  <2>4. (~RELOAD' => ~RELOAD) /\ (fresh' => fresh /\ card' = card)
    <3>1. (fresh' = fresh => (fresh' => fresh)) /\ (RELOAD' = RELOAD => (~RELOAD' => ~RELOAD))
      OBVIOUS
    <3> QED
      BY <2>1, <2>2, <3>1
  <2> QED
    BY <1>1, <1>3, <1>4, <2>1, <2>3, <2>4, OthersKeep
<1> QED
  BY <1>5, <1>6

LEMMA ChecksKeep ==
  ASSUME ShowInv, CheckBegins \/ CheckEnds \/ HoldEnds
  PROVE  ShowInv'
<1>1. /\ UNCHANGED ShowButFresh /\ fresh' = fresh /\ RELOAD' = RELOAD /\ SD_LOCK' = SD_LOCK
      /\ page' = page /\ card' = card /\ LIVE' = LIVE
  BY DEF CheckBegins, CheckEnds, HoldEnds, Show, ShowButFresh, page_vars
<1>2. START' \in BOOLEAN /\ PAUSE' \in BOOLEAN /\ hold' \in BOOLEAN
  BY DEF CheckBegins, CheckEnds, HoldEnds, page_vars, ShowInv, TypeOK
<1>3. /\ fresh' \in BOOLEAN /\ RELOAD' \in BOOLEAN /\ SD_LOCK' \in {"free", "show", "page"}
      /\ page' \in Pages /\ card' \in [Photo -> {"ok", "bad", "none"}] /\ LIVE' \in Lives
  BY <1>1 DEF ShowInv, TypeOK
<1>4. OneOpensTheCard'
  BY <1>1 DEF ShowInv, OneOpensTheCard, ShowButFresh
<1>5. (~RELOAD' => ~RELOAD) /\ (fresh' => fresh)
  <2>1. (fresh' = fresh => (fresh' => fresh)) /\ (RELOAD' = RELOAD => (~RELOAD' => ~RELOAD))
    OBVIOUS
  <2> QED
    BY <1>1, <2>1
<1> QED
  BY <1>1, <1>2, <1>3, <1>4, <1>5, OthersKeep

LEMMA StutterKeeps ==
  ASSUME ShowInv, UNCHANGED vars
  PROVE  ShowInv'
<1>1. /\ UNCHANGED ShowButFresh /\ fresh' = fresh /\ RELOAD' = RELOAD /\ SD_LOCK' = SD_LOCK
      /\ page' = page /\ card' = card /\ LIVE' = LIVE /\ START' = START /\ PAUSE' = PAUSE
      /\ hold' = hold
  BY DEF vars, page_vars, ShowButFresh
<1>2. /\ fresh' \in BOOLEAN /\ RELOAD' \in BOOLEAN /\ SD_LOCK' \in {"free", "show", "page"}
      /\ page' \in Pages /\ card' \in [Photo -> {"ok", "bad", "none"}] /\ LIVE' \in Lives
      /\ START' \in BOOLEAN /\ PAUSE' \in BOOLEAN /\ hold' \in BOOLEAN
  BY <1>1 DEF ShowInv, TypeOK
<1>3. OneOpensTheCard'
  BY <1>1 DEF ShowInv, OneOpensTheCard, ShowButFresh
<1>4. (~RELOAD' => ~RELOAD) /\ (fresh' => fresh)
  <2>1. (fresh' = fresh => (fresh' => fresh)) /\ (RELOAD' = RELOAD => (~RELOAD' => ~RELOAD))
    OBVIOUS
  <2> QED
    BY <1>1, <2>1
<1> QED
  BY <1>1, <1>2, <1>3, <1>4, OthersKeep

-----------------------------------------------------------------------------
(* The invariant holds in every state of every behaviour.                  *)
THEOREM ShowInvHolds == Spec => []ShowInv
<1>1. Init => ShowInv
  BY InitSound
<1>2. ShowInv /\ [Next]_vars => ShowInv'
  <2> SUFFICES ASSUME ShowInv, [Next]_vars PROVE ShowInv'
    OBVIOUS
  <2>1. CASE Task
    BY <2>1, MovesKeep, ListsKeep, SwitchesKeep, FadeOutKeeps, FadeInKeeps, OpenPhotoKeeps,
       LoadEndsKeeps DEF Task, Frames
  <2>2. CASE Page
    BY <2>2, PageKeeps, PageChangesCard, PageEndsKeep DEF Page
  <2>3. CASE CheckBegins \/ CheckEnds \/ HoldEnds
    BY <2>3, ChecksKeep
  <2>4. CASE UNCHANGED vars
    BY <2>4, StutterKeeps
  <2> QED
    BY <2>1, <2>2, <2>3, <2>4 DEF Next
<1> QED
  BY <1>1, <1>2, PTL DEF Spec

(* One task has the card at a time, half a photo stays dim, and once no    *)
(* reload is due the list and the shading are those of the present         *)
(* settings, whatever the page and the card did meanwhile.                 *)
THEOREM ShowIsSoundHolds == Spec => []ShowIsSound
<1>1. ShowInv => ShowIsSound
  BY InvIsSound
<1> QED
  BY <1>1, ShowInvHolds, PTL
-----------------------------------------------------------------------------
(* The line: what a push adds, and what a line is composed of.             *)
Inks == {"Message", "Sep", "Label", "Value", "Note"}
Names == Texts \cup Urls
Spans == [ink : Inks, of : Names, chars : Nat, x : Nat, w : Nat]
LinesOf == [bytes : 0 .. TEXT_MAX, width : Nat, spans : Seq(Spans), settings : {NoPart} \cup (Nat \X Nat)]
Pieces == [ink : Inks, of : Names, chars : Nat, unit : {1, 2}, px : {1}]

LEMMA Bounds ==
  /\ TEXT_MAX \in Nat /\ TEXT_MAX >= 10 /\ AREA \in Nat \ {0} /\ SCROLL_PX \in Nat \ {0}
  /\ ELAPSED_MAX \in Nat \ {0} /\ JUMP_PAD \in Nat /\ MaxSaves \in Nat /\ NoText \in Texts
BY TextAssumption

LEMMA PiecesAre ==
  ASSUME NEW text \in Texts, NEW chars \in Nat, NEW url \in Urls \cup {NoText}
  PROVE  {SEP, LABEL_SETTINGS, LABEL_CODE, WAITING, Message(text, chars), Url(url), Code} \subseteq Pieces
BY TextAssumption DEF SEP, LABEL_SETTINGS, LABEL_CODE, WAITING, Message, Url, Code, Piece, Pieces, Inks, Names

(* A piece for which there is room is pushed whole.                        *)
Whole(l, p, r) ==
  /\ r \in LinesOf /\ r.settings = l.settings
  /\ r.bytes = l.bytes + p.chars * p.unit
  /\ r.width = l.width + p.chars
  /\ Len(r.spans) = Len(l.spans) + 1
  /\ \A i \in 1 .. Len(l.spans) : r.spans[i] = l.spans[i]
  /\ r.spans[Len(r.spans)] =
       [ink |-> p.ink, of |-> p.of, chars |-> p.chars, x |-> l.width, w |-> p.chars]

Shows(span, ink, chars) == span.ink = ink /\ span.chars = chars

LEMMA WholeAfter ==
  ASSUME NEW l, NEW p, NEW r, Whole(l, p, r), NEW n \in Nat, Len(l.spans) = n
  PROVE  /\ Len(r.spans) = n + 1 /\ Shows(r.spans[n + 1], p.ink, p.chars)
         /\ r.spans[n + 1].x = l.width /\ r.spans[n + 1].w = p.chars
         /\ \A i \in 1 .. n : r.spans[i] = l.spans[i]
<1>1. Len(r.spans) = n + 1 /\ \A i \in 1 .. n : r.spans[i] = l.spans[i]
  BY Zenon DEF Whole
<1>2. r.spans[n + 1] = [ink |-> p.ink, of |-> p.of, chars |-> p.chars, x |-> l.width, w |-> p.chars]
  BY Zenon, <1>1 DEF Whole
<1> QED
  BY <1>1, <1>2 DEF Shows

LEMMA PushWhole ==
  ASSUME NEW l \in LinesOf, NEW p \in Pieces, p.chars > 0, Len(l.spans) < SPANS_MAX,
         l.bytes + p.chars * p.unit <= TEXT_MAX
  PROVE  Whole(l, p, Push(l, p))
<1> DEFINE chars == Smaller(p.chars, (TEXT_MAX - l.bytes) \div p.unit)
           span == [ink |-> p.ink, of |-> p.of, chars |-> p.chars, x |-> l.width, w |-> p.chars]
<1>1. /\ l.bytes \in Nat /\ l.width \in Nat /\ p.chars \in Nat /\ TEXT_MAX \in Nat
      /\ p.unit \in {1, 2} /\ p.px = 1 /\ l.spans \in Seq(Spans)
  BY TextAssumption DEF LinesOf, Pieces
<1>2. chars = p.chars
  <2>1. p.chars <= (TEXT_MAX - l.bytes) \div p.unit
    BY <1>1
  <2> QED
    BY SMTT(30), <1>1, <2>1 DEF Smaller
<1>3. chars * p.px = p.chars
  BY <1>1, <1>2
<1>4. span \in Spans
  BY <1>1 DEF Spans, Pieces
<1>5. ~(chars = 0 \/ Len(l.spans) = SPANS_MAX)
  <2> HIDE DEF chars, span
  <2>1. Len(l.spans) \in Nat
    BY <1>1, LenProperties
  <2>2. Len(l.spans) # SPANS_MAX
    <3>1. SPANS_MAX \in Nat
      BY DEF SPANS_MAX
    <3>2. ASSUME NEW a \in Nat, NEW b \in Nat, a < b PROVE a # b
      BY <3>2
    <3> QED
      BY <2>1, <3>1, <3>2
  <2> QED
    BY <1>1, <1>2, <2>2
<1> DEFINE r == [bytes |-> l.bytes + p.chars * p.unit, width |-> l.width + p.chars,
                 spans |-> Append(l.spans, span), settings |-> l.settings]
<1>6. Push(l, p) = r
  <2> HIDE DEF chars
  <2> QED
    BY Zenon, <1>2, <1>3, <1>5 DEF Push, chars
<1>7. /\ Append(l.spans, span) \in Seq(Spans)
      /\ Len(Append(l.spans, span)) = Len(l.spans) + 1
      /\ \A i \in 1 .. Len(l.spans) : Append(l.spans, span)[i] = l.spans[i]
      /\ Append(l.spans, span)[Len(l.spans) + 1] = span
  BY <1>1, <1>4
<1>8. l.bytes + p.chars * p.unit \in 0 .. TEXT_MAX /\ l.width + p.chars \in Nat
  BY <1>1
<1>9. r.settings = l.settings /\ r.bytes = l.bytes + p.chars * p.unit
      /\ r.width = l.width + p.chars /\ r.spans = Append(l.spans, span)
  BY Zenon
<1>10. r \in LinesOf
  <2> HIDE DEF span
  <2> QED
    BY <1>7, <1>8 DEF LinesOf
<1> HIDE DEF r
<1>11. Whole(l, p, r)
  <2> HIDE DEF span
  <2>1. r.spans[Len(r.spans)] = span
    BY <1>1, <1>7, <1>9
  <2> QED
    BY <1>7, <1>9, <1>10, <2>1 DEF Whole, span
<1> QED
  BY <1>6, <1>11

LEMMA PushNothing ==
  ASSUME NEW l \in LinesOf, NEW p \in Pieces, p.chars = 0
  PROVE  Push(l, p) = l
<1>1. Smaller(p.chars, (TEXT_MAX - l.bytes) \div p.unit) = 0
  BY TextAssumption DEF Smaller, LinesOf, Pieces
<1> QED
  BY Zenon, <1>1 DEF Push

LEMMA EmptySpans == <<>> \in Seq(Spans) /\ Len(<<>>) = 0
OBVIOUS

LEMMA BlankIs == Blank \in LinesOf /\ Blank.settings = NoPart /\ Blank.bytes = 0 /\ Blank.width = 0 /\ Blank.spans = <<>>
BY TextAssumption, EmptySpans DEF Blank, LinesOf

(* The message with its separator: there is room for the rest.             *)
Room(of) == IF of = "Hidden" THEN 0 ELSE IF of = "Waiting" THEN 6 ELSE 8

LEMMA LeadIs ==
  ASSUME NEW text \in Texts, NEW of \in Parts, NEW url \in Urls \cup {NoText},
         NEW l, l = Lead(Cut(text, of, url), of)
  PROVE  /\ l \in LinesOf /\ l.settings = NoPart /\ Len(l.spans) \in 0 .. 2
         /\ l.width <= l.bytes /\ l.bytes + Room(of) <= TEXT_MAX
<1> DEFINE n == Smaller(Length(text), Budget(of, url) \div 2)
           p == Message(text, n)
<1>1. TailLen(of, url) = IF of = "Hidden" THEN 0 ELSE IF of = "Waiting" THEN 8 ELSE 10
  <2>1. /\ Bytes(SEP) = 1 * 2 /\ Bytes(WAITING) = 2 * 2 /\ Bytes(LABEL_SETTINGS) = 1 * 2
        /\ Bytes(Url(url)) = 2 * 1 /\ Bytes(LABEL_CODE) = 1 * 1 /\ Bytes(Code) = 1 * 1
    BY Zenon DEF Bytes, SEP, WAITING, LABEL_SETTINGS, LABEL_CODE, Url, Code, Piece
  <2> QED
    BY <2>1 DEF TailLen, Parts
<1>2. Budget(of, url) = TEXT_MAX - TailLen(of, url)
  BY <1>1, TextAssumption DEF Budget, Greater
<1>3. n \in Nat /\ 2 * n <= TEXT_MAX - TailLen(of, url)
  BY <1>1, <1>2, TextAssumption DEF Smaller
<1> HIDE DEF n
<1>4. /\ p \in Pieces /\ p.chars = n /\ p.unit = 2 /\ SEP \in Pieces /\ SEP.chars = 1 /\ SEP.unit = 2
      /\ p = Cut(text, of, url)
  BY <1>3, PiecesAre DEF Message, SEP, Piece, Cut, n
<1> HIDE DEF p
<1> DEFINE m == Push(Blank, p)
<1>5. CASE n = 0
  <2>1. l = Blank
    BY <1>4, <1>5, BlankIs, PushNothing DEF Lead
  <2> QED
    BY <2>1, BlankIs, TextAssumption DEF Room
<1>6. CASE n > 0
  <2>1. Whole(Blank, p, m)
    BY <1>1, <1>3, <1>4, <1>6, BlankIs, PushWhole, TextAssumption DEF SPANS_MAX
  <2>2. m \in LinesOf /\ m.settings = NoPart /\ Len(m.spans) = 1 /\ m.width = n /\ m.bytes = 2 * n
    BY <1>3, <1>4, <2>1, BlankIs DEF Whole
  <2>3. CASE of = "Hidden"
    <3>1. l = m
      BY <2>3, <1>4 DEF Lead
    <3> QED
      BY <1>1, <1>3, <2>2, <2>3, <3>1, TextAssumption DEF Room
  <2>4. CASE of # "Hidden"
    <3> HIDE DEF m
    <3>1. l = Push(m, SEP)
      BY Zenon, <1>4, <1>6, <2>4 DEF Lead, PushBoth, m
    <3>2. Whole(m, SEP, l)
      <4>1. SEP.chars > 0 /\ Len(m.spans) < SPANS_MAX /\ m.bytes + SEP.chars * SEP.unit <= TEXT_MAX
        BY <1>1, <1>3, <1>4, <2>2, <2>4, TextAssumption DEF SPANS_MAX
      <4> QED
        BY <1>4, <2>2, <3>1, <4>1, PushWhole
    <3> QED
      BY <1>1, <1>3, <1>4, <2>2, <2>4, <3>2, TextAssumption DEF Whole, Room
  <2> QED
    BY <2>3, <2>4
<1> QED
  BY <1>3, <1>5, <1>6

(* The spans of the settings, from the k-th on, for the pieces of a part.  *)
InSettings(l, of, k) ==
  IF of = "Waiting"
  THEN /\ Len(l.spans) = k /\ Shows(l.spans[k], "Note", 2)
       /\ l.width = l.spans[k].x + l.spans[k].w
  ELSE /\ Len(l.spans) = k + 3
       /\ Shows(l.spans[k], "Label", 1) /\ Shows(l.spans[k + 1], "Value", 2)
       /\ Shows(l.spans[k + 2], "Label", 1) /\ Shows(l.spans[k + 3], "Value", 1)
       /\ l.spans[k + 1].x = l.spans[k].x + l.spans[k].w
       /\ l.spans[k + 2].x = l.spans[k + 1].x + l.spans[k + 1].w
       /\ l.spans[k + 3].x = l.spans[k + 2].x + l.spans[k + 2].w
       /\ l.width = l.spans[k + 3].x + l.spans[k + 3].w

LEMMA SettingsArePushed ==
  ASSUME NEW l \in LinesOf, NEW of \in {"Waiting", "Ready"}, NEW url \in Urls \cup {NoText},
         NEW n \in 0 .. 2, Len(l.spans) = n, l.settings = NoPart, l.width <= l.bytes,
         l.bytes + Room(of) <= TEXT_MAX,
         NEW r, r = PushSettings(l, of, url)
  PROVE  /\ r \in LinesOf /\ r.settings = NoPart /\ Len(r.spans) \in 1 .. 6
         /\ r.width <= r.bytes /\ r.bytes + 2 <= TEXT_MAX /\ l.width < r.width
         /\ InSettings(r, of, n + 1)
         /\ r.spans[n + 1].x = l.width
<1> DEFINE k == n + 1
<1>1. l.bytes \in Nat /\ l.width \in Nat /\ TEXT_MAX \in Nat /\ k \in 1 .. 3 /\ k = n + 1
  <2>1. l.bytes \in Nat /\ l.width \in Nat /\ TEXT_MAX \in Nat
    BY Bounds DEF LinesOf
  <2> QED
    BY <2>1
<1> HIDE DEF k
<1>2. /\ WAITING \in Pieces /\ WAITING.chars = 2 /\ WAITING.unit = 2 /\ WAITING.ink = "Note"
      /\ LABEL_SETTINGS \in Pieces /\ LABEL_SETTINGS.chars = 1 /\ LABEL_SETTINGS.unit = 2 /\ LABEL_SETTINGS.ink = "Label"
      /\ Url(url) \in Pieces /\ Url(url).chars = 2 /\ Url(url).unit = 1 /\ Url(url).ink = "Value"
      /\ LABEL_CODE \in Pieces /\ LABEL_CODE.chars = 1 /\ LABEL_CODE.unit = 1 /\ LABEL_CODE.ink = "Label"
      /\ Code \in Pieces /\ Code.chars = 1 /\ Code.unit = 1 /\ Code.ink = "Value"
  <2>1. {LABEL_SETTINGS, LABEL_CODE, WAITING, Url(url), Code} \subseteq Pieces
    BY TextAssumption, PiecesAre
  <2> QED
    BY <2>1 DEF WAITING, LABEL_SETTINGS, LABEL_CODE, Url, Code, Piece
<1>3. CASE of = "Waiting"
  <2>1. r = Push(l, WAITING)
    BY Zenon, <1>3 DEF PushSettings
  <2>2. Whole(l, WAITING, r)
    <3>1. WAITING.chars > 0 /\ Len(l.spans) < SPANS_MAX /\ l.bytes + WAITING.chars * WAITING.unit <= TEXT_MAX
      BY <1>1, <1>2, <1>3 DEF SPANS_MAX, Room
    <3> QED
      BY <1>2, <2>1, <3>1, PushWhole
  <2>3. /\ r \in LinesOf /\ r.settings = NoPart /\ r.bytes = l.bytes + 4 /\ r.width = l.width + 2
        /\ Len(r.spans) = k /\ Shows(r.spans[k], "Note", 2)
        /\ r.spans[k].x = l.width /\ r.spans[k].w = 2
    BY <1>1, <1>2, <2>2 DEF Whole, Shows
  <2>4. l.bytes + 6 <= TEXT_MAX
    BY <1>3 DEF Room
  <2>5. InSettings(r, of, k)
    BY <1>1, <1>3, <2>3 DEF InSettings
  <2> QED
    BY <1>1, <2>3, <2>4, <2>5
<1>4. CASE of = "Ready"
  <2> DEFINE a == Push(l, LABEL_SETTINGS)
             b == Push(a, Url(url))
             c == Push(b, LABEL_CODE)
  <2>1. r = Push(c, Code)
    BY Zenon, <1>4 DEF PushSettings, PushBoth
  <2>2. Whole(l, LABEL_SETTINGS, a)
    <3>1. LABEL_SETTINGS.chars > 0 /\ Len(l.spans) < SPANS_MAX
          /\ l.bytes + LABEL_SETTINGS.chars * LABEL_SETTINGS.unit <= TEXT_MAX
      BY <1>1, <1>2, <1>4 DEF SPANS_MAX, Room
    <3> QED
      BY <1>2, <3>1, PushWhole
  <2> HIDE DEF a
  <2>3. /\ a \in LinesOf /\ a.settings = NoPart /\ a.bytes = l.bytes + 2 /\ a.width = l.width + 1
        /\ Len(a.spans) = k /\ Shows(a.spans[k], "Label", 1)
        /\ a.spans[k].x = l.width /\ a.spans[k].w = 1
    BY <1>1, <1>2, <2>2 DEF Whole, Shows
  <2>4. Whole(a, Url(url), b)
    <3>1. Url(url).chars > 0 /\ Len(a.spans) < SPANS_MAX /\ a.bytes + Url(url).chars * Url(url).unit <= TEXT_MAX
      BY <1>1, <1>2, <1>4, <2>3 DEF SPANS_MAX, Room
    <3> QED
      BY <1>2, <2>3, <3>1, PushWhole
  <2> HIDE DEF b
  <2>5. /\ b \in LinesOf /\ b.settings = NoPart /\ b.bytes = l.bytes + 4 /\ b.width = l.width + 3
        /\ Len(b.spans) = k + 1 /\ Shows(b.spans[k + 1], "Value", 2) /\ b.spans[k] = a.spans[k]
        /\ b.spans[k + 1].x = l.width + 1 /\ b.spans[k + 1].w = 2
    BY <1>1, <1>2, <2>3, <2>4 DEF Whole, Shows
  <2>6. Whole(b, LABEL_CODE, c)
    <3>1. LABEL_CODE.chars > 0 /\ Len(b.spans) < SPANS_MAX /\ b.bytes + LABEL_CODE.chars * LABEL_CODE.unit <= TEXT_MAX
      BY <1>1, <1>2, <1>4, <2>5 DEF SPANS_MAX, Room
    <3> QED
      BY <1>2, <2>5, <3>1, PushWhole
  <2> HIDE DEF c
  <2>7. /\ c \in LinesOf /\ c.settings = NoPart /\ c.bytes = l.bytes + 5 /\ c.width = l.width + 4
        /\ Len(c.spans) = k + 2 /\ Shows(c.spans[k + 2], "Label", 1)
        /\ c.spans[k] = a.spans[k] /\ c.spans[k + 1] = b.spans[k + 1]
        /\ c.spans[k + 2].x = l.width + 3 /\ c.spans[k + 2].w = 1
    <3>0. k + 1 \in Nat /\ k + 1 + 1 = k + 2 /\ k \in 1 .. k + 1 /\ k + 1 \in 1 .. k + 1
      BY <1>1
    <3>1. /\ Len(c.spans) = k + 1 + 1 /\ Shows(c.spans[k + 1 + 1], LABEL_CODE.ink, LABEL_CODE.chars)
          /\ c.spans[k + 1 + 1].x = b.width /\ c.spans[k + 1 + 1].w = LABEL_CODE.chars
          /\ \A i \in 1 .. k + 1 : c.spans[i] = b.spans[i]
      BY SMTT(30), <2>5, <2>6, <3>0, WholeAfter
    <3>2. /\ Len(c.spans) = k + 2 /\ Shows(c.spans[k + 2], "Label", 1)
          /\ c.spans[k] = b.spans[k] /\ c.spans[k + 1] = b.spans[k + 1]
          /\ c.spans[k + 2].x = b.width /\ c.spans[k + 2].w = 1
      BY Zenon, <1>2, <3>0, <3>1
    <3> QED
      BY <1>1, <1>2, <2>5, <2>6, <3>2 DEF Whole
  <2>8. Whole(c, Code, r)
    <3>1. Code.chars > 0 /\ Len(c.spans) < SPANS_MAX /\ c.bytes + Code.chars * Code.unit <= TEXT_MAX
      BY <1>1, <1>2, <1>4, <2>7 DEF SPANS_MAX, Room
    <3> QED
      BY <1>2, <2>1, <2>7, <3>1, PushWhole
  <2>9. /\ r \in LinesOf /\ r.settings = NoPart /\ r.bytes = l.bytes + 6 /\ r.width = l.width + 5
        /\ Len(r.spans) = k + 3 /\ Shows(r.spans[k + 3], "Value", 1)
        /\ r.spans[k] = a.spans[k] /\ r.spans[k + 1] = b.spans[k + 1] /\ r.spans[k + 2] = c.spans[k + 2]
        /\ r.spans[k + 3].x = l.width + 4 /\ r.spans[k + 3].w = 1
    <3> DEFINE n3 == k + 2
    <3>0. n3 \in Nat /\ n3 + 1 = k + 3 /\ k \in 1 .. n3 /\ k + 1 \in 1 .. n3 /\ k + 2 \in 1 .. n3
      BY <1>1
    <3>c. Len(c.spans) = n3
      BY Zenon, <2>7
    <3> HIDE DEF n3
    <3>1. /\ Len(r.spans) = n3 + 1 /\ Shows(r.spans[n3 + 1], Code.ink, Code.chars)
          /\ r.spans[n3 + 1].x = c.width /\ r.spans[n3 + 1].w = Code.chars
          /\ \A i \in 1 .. n3 : r.spans[i] = c.spans[i]
      BY <2>8, <3>0, <3>c, WholeAfter
    <3>2. /\ Len(r.spans) = k + 3 /\ Shows(r.spans[k + 3], "Value", 1)
          /\ r.spans[k] = c.spans[k] /\ r.spans[k + 1] = c.spans[k + 1] /\ r.spans[k + 2] = c.spans[k + 2]
          /\ r.spans[k + 3].x = c.width /\ r.spans[k + 3].w = 1
      BY Zenon, <1>2, <3>0, <3>1
    <3>3. r \in LinesOf /\ r.settings = NoPart /\ r.bytes = c.bytes + 1 * 1 /\ r.width = c.width + 1
      BY Zenon, <1>2, <2>7, <2>8 DEF Whole
    <3>4. r.bytes = l.bytes + 6 /\ r.width = l.width + 5 /\ c.width = l.width + 4
      BY <1>1, <2>7, <3>3
    <3> QED
      BY Zenon, <2>7, <3>2, <3>3, <3>4
  <2>10. InSettings(r, of, k) /\ r.spans[k].x = l.width
    <3>1. r.spans[k].x = l.width /\ r.spans[k].w = 1 /\ Shows(r.spans[k], "Label", 1)
      BY Zenon, <2>3, <2>9
    <3>2. r.spans[k + 1].x = l.width + 1 /\ r.spans[k + 1].w = 2 /\ Shows(r.spans[k + 1], "Value", 2)
      BY Zenon, <2>5, <2>9
    <3>3. r.spans[k + 2].x = l.width + 3 /\ r.spans[k + 2].w = 1 /\ Shows(r.spans[k + 2], "Label", 1)
      BY Zenon, <2>7, <2>9
    <3>4. r.spans[k + 3].x = l.width + 4 /\ r.spans[k + 3].w = 1 /\ Shows(r.spans[k + 3], "Value", 1)
          /\ r.width = l.width + 5 /\ Len(r.spans) = k + 3
      BY Zenon, <2>9
    <3>5. /\ r.spans[k + 1].x = r.spans[k].x + r.spans[k].w
          /\ r.spans[k + 2].x = r.spans[k + 1].x + r.spans[k + 1].w
          /\ r.spans[k + 3].x = r.spans[k + 2].x + r.spans[k + 2].w
          /\ r.width = r.spans[k + 3].x + r.spans[k + 3].w
      BY <1>1, <3>1, <3>2, <3>3, <3>4
    <3>6. of # "Waiting"
      BY <1>4
    <3> QED
      BY Zenon, <3>1, <3>2, <3>3, <3>4, <3>5, <3>6 DEF InSettings
  <2>11. l.bytes + 8 <= TEXT_MAX
    BY <1>4 DEF Room
  <2>12. n + 1 = k /\ k + 3 \in 1 .. 6 /\ l.bytes \in Nat /\ l.width \in Nat /\ TEXT_MAX \in Nat
    BY <1>1
  <2>13. Len(r.spans) \in 1 .. 6 /\ r.width <= r.bytes /\ r.bytes + 2 <= TEXT_MAX /\ l.width < r.width
    BY SMTT(30), <2>9, <2>11, <2>12
  <2> QED
    BY Zenon, <2>9, <2>10, <2>12, <2>13
<1> QED
  BY <1>3, <1>4

LEMMA MarkedIs ==
  ASSUME NEW l \in LinesOf, NEW start \in Nat, start <= l.width
  PROVE  /\ Marked(l, start) \in LinesOf
         /\ Marked(l, start).settings = <<start, l.width - start>>
         /\ Marked(l, start).spans = l.spans /\ Marked(l, start).width = l.width
         /\ Marked(l, start).bytes = l.bytes
<1>1. l.width - start \in Nat
  BY DEF LinesOf
<1>2. <<start, l.width - start>> \in Nat \X Nat
  BY <1>1
<1> QED
  BY <1>2 DEF Marked, LinesOf

(* The spans from the k-th to the separator that ends the line.            *)
Spread(spans, of, k) ==
  IF of = "Waiting"
  THEN Shows(spans[k], "Note", 2) /\ spans[k + 1].x = spans[k].x + spans[k].w
  ELSE /\ Shows(spans[k], "Label", 1) /\ Shows(spans[k + 1], "Value", 2)
       /\ Shows(spans[k + 2], "Label", 1) /\ Shows(spans[k + 3], "Value", 1)
       /\ spans[k + 1].x = spans[k].x + spans[k].w
       /\ spans[k + 2].x = spans[k + 1].x + spans[k + 1].w
       /\ spans[k + 3].x = spans[k + 2].x + spans[k + 2].w
       /\ spans[k + 4].x = spans[k + 3].x + spans[k + 3].w

(* What the screen can rely on, of a line with a part `of'.                *)
Shaped(l, of) ==
  /\ l \in LinesOf /\ l.width <= l.bytes /\ Len(l.spans) \in 0 .. SPANS_MAX
  /\ of = "Hidden" <=> l.settings = NoPart
  /\ of # "Hidden" =>
       /\ l.settings \in Nat \X Nat /\ l.settings[1] + l.settings[2] < l.width
       /\ \E k \in 1 .. 3 :
            LET n == IF of = "Waiting" THEN k + 1 ELSE k + 4
            IN  /\ Len(l.spans) = n /\ l.spans[n].ink = "Sep"
                /\ Spread(l.spans, of, k)
                /\ l.settings[1] = l.spans[k].x
                /\ l.settings[1] + l.settings[2] = l.spans[n].x

LEMMA ComposeIs ==
  ASSUME NEW text \in Texts, NEW of \in Parts, NEW url \in Urls \cup {NoText}
  PROVE  Shaped(Compose(text, of, url), of)
<1> DEFINE l == Lead(Cut(text, of, url), of)
<1>1. /\ l \in LinesOf /\ l.settings = NoPart /\ Len(l.spans) \in 0 .. 2
      /\ l.width <= l.bytes /\ l.bytes + Room(of) <= TEXT_MAX
  BY LeadIs
<1>2. CASE of = "Hidden"
  <2>1. Compose(text, of, url) = l
    BY Zenon, <1>2 DEF Compose
  <2> HIDE DEF l
  <2> QED
    BY <1>1, <1>2, <2>1 DEF Shaped, SPANS_MAX
<1>3. CASE of # "Hidden"
  <2> DEFINE s == PushSettings(l, of, url)
             m == Marked(s, l.width)
             r == Push(m, SEP)
  <2>1. Compose(text, of, url) = r
    BY Zenon, <1>3 DEF Compose
  <2> HIDE DEF l
  <2>2. PICK n \in 0 .. 2 : Len(l.spans) = n
    BY <1>1
  <2> DEFINE k == n + 1
             last == IF of = "Waiting" THEN k + 1 ELSE k + 4
  <2>3. of \in {"Waiting", "Ready"} /\ l.width \in Nat /\ k \in 1 .. 3
    BY <1>1, <1>3 DEF Parts, LinesOf
  <2>4. /\ s \in LinesOf /\ s.settings = NoPart /\ Len(s.spans) \in 1 .. 6
        /\ s.width <= s.bytes /\ s.bytes + 2 <= TEXT_MAX /\ l.width < s.width
        /\ InSettings(s, of, k) /\ s.spans[k].x = l.width
    BY ZenonT(40), <1>1, <2>2, <2>3, SettingsArePushed
  <2> HIDE DEF s, k
  <2>5. /\ m \in LinesOf /\ m.settings = <<l.width, s.width - l.width>>
        /\ m.spans = s.spans /\ m.width = s.width /\ m.bytes = s.bytes
    BY <2>3, <2>4, MarkedIs DEF LinesOf
  <2> HIDE DEF m
  <2>6. SEP \in Pieces /\ SEP.chars = 1 /\ SEP.unit = 2 /\ SEP.ink = "Sep"
    BY Bounds, PiecesAre DEF SEP, Piece
  <2>7. Whole(m, SEP, r)
    <3>1. SEP.chars > 0 /\ Len(m.spans) < SPANS_MAX /\ m.bytes + SEP.chars * SEP.unit <= TEXT_MAX
      <4>1. \A j \in 1 .. 6 : j < SPANS_MAX
        BY DEF SPANS_MAX
      <4>2. Len(m.spans) < SPANS_MAX
        BY <2>4, <2>5, <4>1
      <4>3. s.bytes + 1 * 2 <= TEXT_MAX
        BY <2>4
      <4> QED
        BY <2>5, <2>6, <4>2, <4>3
    <3> QED
      BY <2>5, <2>6, <3>1, PushWhole
  <2> HIDE DEF r
  <2>8. PICK j \in Nat : j + 1 = last /\ Len(s.spans) = j /\ k \in 1 .. j /\ j \in 1 .. 6
    <3>1. CASE of = "Waiting"
      BY <2>3, <2>4, <3>1 DEF InSettings
    <3>2. CASE of # "Waiting"
      <4>1. k + 3 \in Nat /\ k + 3 + 1 = last /\ Len(s.spans) = k + 3 /\ k \in 1 .. k + 3 /\ k + 3 \in 1 .. 6
        BY <2>3, <2>4, <3>2 DEF InSettings
      <4> QED
        BY <4>1
    <3> QED
      BY <3>1, <3>2
  <2>9. /\ r \in LinesOf /\ r.settings = <<l.width, s.width - l.width>> /\ r.width = s.width + 1
        /\ r.bytes = s.bytes + 2
    BY <2>5, <2>6, <2>7 DEF Whole
  <2>10. /\ Len(r.spans) = j + 1 /\ Shows(r.spans[j + 1], SEP.ink, SEP.chars)
         /\ r.spans[j + 1].x = m.width
         /\ \A i \in 1 .. j : r.spans[i] = m.spans[i]
    BY <2>5, <2>7, <2>8, WholeAfter
  <2>11. /\ Len(r.spans) = last /\ r.spans[last].ink = "Sep" /\ r.spans[last].x = s.width
         /\ \A i \in 1 .. j : r.spans[i] = s.spans[i]
    BY <2>5, <2>6, <2>8, <2>10 DEF Shows
  <2>12. Spread(r.spans, of, k)
    <3>1. CASE of = "Waiting"
      BY <2>3, <2>4, <2>8, <2>11, <3>1 DEF InSettings, Spread
    <3>2. CASE of # "Waiting"
      <4>1. k + 3 = j /\ k + 4 = last
        BY <2>3, <2>8, <3>2
      <4>2. r.spans[k] = s.spans[k] /\ r.spans[k + 1] = s.spans[k + 1]
            /\ r.spans[k + 2] = s.spans[k + 2] /\ r.spans[k + 3] = s.spans[k + 3]
        <5>1. k \in 1 .. j /\ k + 1 \in 1 .. j /\ k + 2 \in 1 .. j /\ k + 3 \in 1 .. j
          BY <2>3, <2>8, <4>1
        <5> QED
          BY Zenon, <2>11, <5>1
      <4> QED
        BY Zenon, <2>4, <2>11, <3>2, <4>1, <4>2 DEF InSettings, Spread
    <3> QED
      BY <3>1, <3>2
  <2>13. /\ r.settings \in Nat \X Nat /\ r.settings[1] = l.width /\ r.settings[2] = s.width - l.width
         /\ r.settings[1] + r.settings[2] = s.width /\ s.width < r.width /\ r.width <= r.bytes
    <3>1. s.width \in Nat /\ s.bytes \in Nat /\ s.width - l.width \in Nat
      BY <2>3, <2>4, Bounds DEF LinesOf
    <3> QED
      BY <2>3, <2>4, <2>9, <3>1
  <2>14. r.spans[k] = s.spans[k] /\ Len(r.spans) \in 0 .. SPANS_MAX /\ r.settings # NoPart
    <3>1. \A i \in 1 .. 7 : i \in 0 .. SPANS_MAX
      BY DEF SPANS_MAX
    <3>2. last \in 1 .. 7
      BY <2>8
    <3> QED
      BY <2>8, <2>9, <2>11, <3>1, <3>2 DEF NoPart
  <2>15. /\ Len(r.spans) = last /\ r.spans[last].ink = "Sep" /\ Spread(r.spans, of, k)
         /\ r.settings[1] = r.spans[k].x /\ r.settings[1] + r.settings[2] = r.spans[last].x
    BY <2>4, <2>11, <2>12, <2>13, <2>14
  <2> QED
    BY <1>3, <2>1, <2>3, <2>9, <2>13, <2>14, <2>15 DEF Shaped
<1> QED
  BY <1>2, <1>3

-----------------------------------------------------------------------------
(***************************************************************************)
(* Where the line is.                                                      *)
(***************************************************************************)
LEMMA Quotient ==
  ASSUME NEW n \in Nat, NEW w \in Nat \ {0}
  PROVE  /\ n \div w \in Nat /\ w * (n \div w) \in Nat
         /\ w * (n \div w) <= n /\ n < w * (n \div w) + w
BY SMTT(30)

LEMMA WholeRounds ==
  ASSUME NEW w \in Nat \ {0}, NEW q \in Nat
  PROVE  (-(w * q)) % w = 0
BY SMTT(30)

LEMMA RoundsApart ==
  ASSUME NEW w \in Nat \ {0}, NEW j \in Int, NEW k \in Int, j < k
  PROVE  j * w + w <= k * w
<1>1. PICK d \in Nat : k = j + 1 + d
  <2>1. k - j - 1 \in Nat /\ k = j + 1 + (k - j - 1)
    OBVIOUS
  <2> QED
    BY <2>1
<1>2. k * w = j * w + w + d * w /\ d * w \in Nat /\ j * w \in Int
  BY <1>1, SMTT(30)
<1> QED
  BY <1>2

LEMMA AdvanceIs ==
  ASSUME NEW at \in Int, NEW step \in Nat, NEW l, l.width \in Nat,
         NEW a, a = Advance(at, step, l)
  PROVE  /\ a \in Int
         /\ l.width = 0 => a = at
         /\ a <= at \/ a <= 0 \/ a = AREA
         /\ l.width > 0 => IF Looped(l) THEN a > -l.width ELSE a + l.width >= 0
         /\ l.width > 0 /\ Looped(l) => \E q \in Nat : a = at - step + l.width * q
<1> DEFINE to == at - step
           w == l.width
<1>0. to \in Int /\ w \in Nat /\ to <= at
  OBVIOUS
<1>1. CASE w = 0
  BY <1>1 DEF Advance
<1>2. CASE w # 0 /\ Looped(l) /\ to <= -w
  <2>1. a = to + w * ((-to) \div w)
    BY <1>2 DEF Advance
  <2> DEFINE n == -to
             q == n \div w
  <2>2. n \in Nat /\ w \in Nat \ {0}
    BY <1>0, <1>2
  <2> HIDE DEF n, w
  <2>3. q \in Nat /\ w * q \in Nat /\ w * q <= n /\ n < w * q + w
    BY <2>2, Quotient
  <2> HIDE DEF q
  <2>4. a = to + w * q /\ to = -n
    BY <1>0, <2>1 DEF q, n
  <2> HIDE DEF to
  <2>5. a \in Int /\ a <= 0 /\ a > -w
    BY <1>0, <2>2, <2>3, <2>4
  <2> QED
    BY <1>2, <2>3, <2>4, <2>5 DEF w, to
<1>3. CASE w # 0 /\ Looped(l) /\ ~(to <= -w)
  <2>1. a = to
    BY <1>3 DEF Advance
  <2>2. 0 \in Nat /\ to + w * 0 = to
    BY <1>0
  <2> QED
    BY <1>0, <1>3, <2>1, <2>2
<1>4. CASE w # 0 /\ ~Looped(l)
  <2>1. a = IF to + w < 0 THEN AREA ELSE to
    BY <1>4 DEF Advance
  <2> QED
    BY <1>0, <1>4, <2>1, Bounds
<1> QED
  BY <1>1, <1>2, <1>3, <1>4

(* Every pixel of the screen behind the beginning shows one copy.          *)
LEMMA NoGap ==
  ASSUME NEW l, l.width \in Nat \ {0}, Looped(l), NEW at \in Int,
         NEW p \in Greater(at, 0) .. AREA - 1
  PROVE  \E c \in Copies(l, at) :
           /\ c <= p /\ p < c + l.width
           /\ \A d \in Copies(l, at) : (d <= p /\ p < d + l.width) => d = c
<1> DEFINE w == l.width
           n == p - at
           k == n \div w
           c == at + k * w
           m == Greater(AREA - at, 0)
<1>1. p \in Int /\ at <= p /\ 0 <= p /\ p < AREA /\ AREA \in Nat /\ n \in Nat /\ w \in Nat \ {0}
  BY Bounds DEF Greater
<1>2. Greater(l.width, 1) = w
  BY <1>1 DEF Greater
<1>3. Count(l, at) = m \div w + 2
  BY <1>1, <1>2 DEF Count
<1>4. Copies(l, at) = {z \in {at + i * w : i \in 0 .. m \div w + 1} : z < AREA /\ z + w > 0}
  <2>1. (m \div w + 2) - 1 = m \div w + 1
    <3>1. m \in Nat
      BY <1>1 DEF Greater
    <3> HIDE DEF m, w
    <3>2. m \div w \in Nat
      BY <1>1, <3>1, Quotient
    <3> QED
      BY <3>2
  <2>2. Copies(l, at) =
          {z \in {at + i * Greater(l.width, 1) : i \in 0 .. Count(l, at) - 1} :
             z < AREA /\ z + Greater(l.width, 1) > 0}
    BY Zenon DEF Copies
  <2> HIDE DEF w, m
  <2>3. Count(l, at) - 1 = m \div w + 1
    BY Zenon, <1>3, <2>1
  <2> QED
    BY Zenon, <1>2, <2>2, <2>3
<1>5. m \in Nat /\ n <= m
  BY <1>1 DEF Greater
<1> HIDE DEF w, n, m
<1>6. k \in Nat /\ w * k \in Nat /\ w * k <= n /\ n < w * k + w
  BY <1>1, Quotient
<1>7. m \div w \in Nat /\ m < w * (m \div w) + w /\ w * (m \div w) \in Nat
  BY <1>1, <1>5, Quotient
<1> HIDE DEF k
<1>8. k \in 0 .. m \div w + 1
  <2> DEFINE e == m \div w
  <2> HIDE DEF e
  <2>1. e \in Nat /\ m < w * e + w
    BY <1>7 DEF e
  <2>2. CASE e + 1 < k
    <3>1. e < k /\ w * e = e * w /\ w * k = k * w
      <4>1. \A a, b \in Nat : a * b = b * a
        OBVIOUS
      <4> QED
        BY <1>1, <1>6, <2>1, <2>2, <4>1
    <3>2. e * w + w <= k * w
      BY <1>1, <1>6, <2>1, <3>1, RoundsApart
    <3> QED
      BY <1>1, <1>5, <1>6, <1>7, <2>1, <3>1, <3>2 DEF e
  <2> QED
    BY <1>6, <2>1, <2>2 DEF e
<1>9. k * w = w * k /\ n = p - at
  BY <1>1, <1>6 DEF n
<1> HIDE DEF c
<1>10. c \in Int /\ c <= p /\ p < c + w /\ c = at + k * w
  BY <1>1, <1>6, <1>9 DEF c
<1>11. c \in Copies(l, at)
  BY <1>1, <1>4, <1>8, <1>10
<1>12. ASSUME NEW d \in Copies(l, at), d <= p, p < d + w PROVE d = c
  <2>1. PICK i \in 0 .. m \div w + 1 : d = at + i * w
    BY <1>4
  <2>2. i \in Int /\ k \in Int /\ i * w \in Int /\ k * w \in Int
    BY <1>1, <1>6, <1>7, <2>1
  <2>3. CASE i < k
    <3>1. i * w + w <= k * w
      BY <1>1, <2>2, <2>3, RoundsApart
    <3> QED
      BY <1>1, <1>10, <1>12, <2>1, <2>2, <3>1
  <2>4. CASE k < i
    <3>1. k * w + w <= i * w
      BY <1>1, <2>2, <2>4, RoundsApart
    <3> QED
      BY <1>1, <1>10, <1>12, <2>1, <2>2, <3>1
  <2>5. CASE i = k
    BY <1>10, <2>1, <2>5
  <2> QED
    BY <2>2, <2>3, <2>4, <2>5
<1> QED
  BY <1>10, <1>11, <1>12 DEF w

-----------------------------------------------------------------------------
(***************************************************************************)
(* The invariant.  render_task never looks at a text: what it knows of the *)
(* model is that nothing was changed without a generation number moving.   *)
(***************************************************************************)
Current == ~news.message /\ ~news.web => line = Lines[model.message][part][model.url]

Rest ==
  /\ config \in [source : Sources \cup LocalTexts, show : BOOLEAN]
  /\ model \in [message : Texts, url : Urls \cup {NoText}, listening : BOOLEAN, forced : BOOLEAN]
  /\ news \in [message : BOOLEAN, web : BOOLEAN, jump : BOOLEAN]
  /\ ip \in Urls \cup {NoText}
  /\ job \in [due : BOOLEAN, failed : BOOLEAN] /\ fetching \in BOOLEAN
  /\ from \in Sources \cup LocalTexts \cup {NoText}
  /\ saves \in 0 .. MaxSaves

Placed ==
  /\ part \in Parts /\ Shaped(line, part)
  /\ x \in -TEXT_MAX .. Greater(AREA, JUMP_PAD)
  /\ line.width > 0 => IF Looped(line) THEN x > -line.width ELSE x + line.width >= 0

(* A fetch is of a source, never of a local text: no save comes between.   *)
FetchIsOfSource == fetching => ~Local(config)

LineInv == Rest /\ Placed /\ Current /\ OldMessageIsReplaced /\ FetchIsOfSource

LEMMA LinesAre ==
  ASSUME NEW text \in Texts, NEW of \in Parts, NEW url \in Urls \cup {NoText}
  PROVE  Shaped(Lines[text][of][url], of)
<1>1. Lines[text][of][url] = Compose(text, of, url)
  BY Zenon DEF Lines
<1> QED
  BY <1>1, ComposeIs

LEMMA ShapedFacts ==
  ASSUME NEW of \in Parts, NEW l, Shaped(l, of)
  PROVE  /\ l.bytes \in 0 .. TEXT_MAX /\ l.width \in Nat /\ l.width <= TEXT_MAX
         /\ Looped(l) <=> of # "Hidden"
         /\ Looped(l) => /\ l.settings[1] \in Nat /\ l.settings[2] \in Nat
                         /\ l.settings[1] < l.width /\ l.width > 0
<1>1. l \in LinesOf
  BY DEF Shaped
<1>2. l.bytes \in 0 .. TEXT_MAX /\ l.width \in Nat /\ TEXT_MAX \in Nat
  BY <1>1, Bounds DEF LinesOf
<1>3. Looped(l) <=> of # "Hidden"
  BY DEF Shaped, Looped
<1>4. ASSUME Looped(l)
      PROVE  /\ l.settings[1] \in Nat /\ l.settings[2] \in Nat
             /\ l.settings[1] < l.width /\ l.width > 0
  <2>1. l.settings \in Nat \X Nat /\ l.settings[1] + l.settings[2] < l.width
    BY <1>3, <1>4 DEF Shaped
  <2>2. l.settings[1] \in Nat /\ l.settings[2] \in Nat
    BY <2>1
  <2> QED
    BY <1>2, <2>1, <2>2
<1> QED
  BY <1>2, <1>3, <1>4 DEF Shaped

LEMMA LineInit == TickerInit => LineInv
<1> SUFFICES ASSUME TickerInit PROVE LineInv
  OBVIOUS
<1>1. Rest
  <2>1. config.source \in Sources \cup LocalTexts /\ 0 \in 0 .. MaxSaves
    BY Bounds DEF TickerInit
  <2>2. Local(config) => config.source \in Texts
    BY TextAssumption DEF Local
  <2>3. (IF Local(config) THEN config.source ELSE NoText) \in Texts
    BY <2>2, Bounds
  <2>4. (IF Local(config) THEN config.source ELSE NoText) \in Sources \cup LocalTexts \cup {NoText}
    BY <2>1
  <2> QED
    BY <2>1, <2>3, <2>4 DEF TickerInit, Rest
<1>2. Placed
  <2>1. line = Blank /\ part = "Hidden" /\ x = 0
    BY DEF TickerInit
  <2>2. Shaped(Blank, "Hidden")
    <3>1. 0 \in 0 .. SPANS_MAX /\ Len(Blank.spans) = 0
      BY BlankIs DEF SPANS_MAX
    <3> QED
      BY <3>1, BlankIs DEF Shaped
  <2>3. 0 \in -TEXT_MAX .. Greater(AREA, JUMP_PAD)
    BY Bounds DEF Greater
  <2> QED
    BY <2>1, <2>2, <2>3, BlankIs DEF Placed, Parts
<1>3. Current /\ OldMessageIsReplaced /\ FetchIsOfSource
  BY DEF TickerInit, Current, OldMessageIsReplaced, FetchIsOfSource
<1> QED
  BY <1>1, <1>2, <1>3 DEF LineInv

(* The steps of jobs_task and of the world leave the screen alone.         *)
LEMMA ScreenKeeps ==
  ASSUME Placed, UNCHANGED screen
  PROVE  Placed'
BY DEF Placed, screen, Shaped, Looped, LinesOf, Spread, Shows

LEMMA JobsSteps ==
  ASSUME LineInv, Listens \/ PublishUrl \/ ShowCode \/ ForcedEnds \/ TimerRuns
                  \/ BeginFetch \/ FetchFails \/ AddressChanges
  PROVE  LineInv'
<1>1. UNCHANGED screen
  BY DEF Listens, PublishUrl, ShowCode, ForcedEnds, TimerRuns, BeginFetch, FetchFails, AddressChanges
<1>2. Placed'
  BY <1>1, ScreenKeeps DEF LineInv
<1>3. Rest'
  <2>1. CASE Listens \/ PublishUrl \/ ShowCode \/ ForcedEnds
    BY <2>1 DEF LineInv, Rest, Listens, PublishUrl, ShowCode, ForcedEnds, WebNews, jobs
  <2>2. CASE TimerRuns \/ BeginFetch \/ FetchFails \/ AddressChanges
    <3>1. UNCHANGED <<config, from, saves, model, news>> /\ ip' \in Urls \cup {NoText}
          /\ job' \in [due : BOOLEAN, failed : BOOLEAN] /\ fetching' \in BOOLEAN
      <4>1. CASE TimerRuns
        BY <4>1 DEF LineInv, Rest, TimerRuns
      <4>2. CASE BeginFetch
        BY <4>2 DEF LineInv, Rest, BeginFetch
      <4>3. CASE FetchFails
        BY <4>3 DEF LineInv, Rest, FetchFails
      <4>4. CASE AddressChanges
        BY <4>4 DEF LineInv, Rest, AddressChanges
      <4> QED
        BY <2>2, <4>1, <4>2, <4>3, <4>4
    <3> QED
      BY <3>1 DEF LineInv, Rest
  <2> QED
    BY <2>1, <2>2
<1>4. Current'
  BY <1>1 DEF LineInv, Current, Rest, Listens, PublishUrl, ShowCode, ForcedEnds, TimerRuns, BeginFetch, FetchFails,
         AddressChanges, WebNews, jobs, screen
<1>5. OldMessageIsReplaced' /\ FetchIsOfSource'
  BY DEF LineInv, Rest, OldMessageIsReplaced, FetchIsOfSource, Local, Listens, PublishUrl, ShowCode, ForcedEnds,
         TimerRuns, BeginFetch, FetchFails, AddressChanges, jobs
<1> QED
  BY <1>2, <1>3, <1>4, <1>5 DEF LineInv

LEMMA ShownKeeps ==
  ASSUME Rest, Current, NEW text \in Texts, Shown(text), UNCHANGED screen
  PROVE  /\ Current' /\ model' \in [message : Texts, url : Urls \cup {NoText}, listening : BOOLEAN, forced : BOOLEAN]
         /\ news' \in [message : BOOLEAN, web : BOOLEAN, jump : BOOLEAN]
<1>1. /\ model'.message = text /\ model'.url = model.url
      /\ model' \in [message : Texts, url : Urls \cup {NoText}, listening : BOOLEAN, forced : BOOLEAN]
  BY DEF Shown, Rest
<1>2. /\ news' \in [message : BOOLEAN, web : BOOLEAN, jump : BOOLEAN]
      /\ news'.message = (news.message \/ text # model.message) /\ news'.web = news.web
  BY DEF Shown, Rest, IsNews
<1>3. Current'
  BY <1>1, <1>2 DEF Current, screen
<1> QED
  BY <1>1, <1>2, <1>3

LEMMA SaveStep ==
  ASSUME LineInv, NEW new \in [source : Sources \cup LocalTexts, show : BOOLEAN], Save(new)
  PROVE  LineInv'
<1>1. UNCHANGED <<ip, fetching>> /\ UNCHANGED screen /\ config' = new /\ job' = JobAfter(config, new) /\ ~fetching
      /\ saves' = saves + 1 /\ saves < MaxSaves
  BY DEF Save, NoFetch
<1>2. Placed'
  BY <1>1, ScreenKeeps DEF LineInv
<1>3. job' \in [due : BOOLEAN, failed : BOOLEAN] /\ saves' \in 0 .. MaxSaves
  BY <1>1, Bounds DEF JobAfter, LineInv, Rest
<1>4. CASE Local(new)
  <2>1. new.source \in Texts /\ Shown(new.source) /\ from' = new.source
    BY <1>4, TextAssumption DEF Save, Local
  <2>2. /\ Current' /\ model' \in [message : Texts, url : Urls \cup {NoText}, listening : BOOLEAN, forced : BOOLEAN]
        /\ news' \in [message : BOOLEAN, web : BOOLEAN, jump : BOOLEAN]
    BY <1>1, <2>1, ShownKeeps DEF LineInv
  <2>3. Rest'
    BY <1>1, <1>3, <1>4, <2>1, <2>2 DEF LineInv, Rest, Local
  <2> QED
    BY <1>1, <1>2, <2>1, <2>2, <2>3 DEF LineInv, OldMessageIsReplaced, FetchIsOfSource
<1>5. CASE ~Local(new)
  <2>1. UNCHANGED <<model, news, from>>
    BY <1>5 DEF Save
  <2>2. Rest' /\ Current'
    BY <1>1, <1>3, <2>1 DEF LineInv, Rest, Current, screen
  <2>3. OldMessageIsReplaced'
    BY <1>1, <1>5, <2>1 DEF LineInv, Rest, OldMessageIsReplaced, JobAfter
  <2> QED
    BY <1>1, <1>2, <2>2, <2>3 DEF LineInv, FetchIsOfSource
<1> QED
  BY <1>4, <1>5

LEMMA FetchedStep ==
  ASSUME LineInv, NEW text \in Served(config.source), Fetched(text)
  PROVE  LineInv'
<1>1. UNCHANGED <<config, ip, saves>> /\ UNCHANGED screen /\ fetching /\ fetching' = FALSE
      /\ job' = [due |-> FALSE, failed |-> FALSE] /\ Shown(text) /\ from' = config.source
  BY DEF Fetched
<1>2. config.source \in Sources /\ text \in Texts
  <2>1. config.source \in Sources \cup LocalTexts /\ ~Local(config)
    BY <1>1 DEF LineInv, Rest, FetchIsOfSource
  <2>2. config.source \in Sources
    BY <2>1 DEF Local
  <2> QED
    BY <2>2, TextAssumption
<1>3. /\ Current' /\ model' \in [message : Texts, url : Urls \cup {NoText}, listening : BOOLEAN, forced : BOOLEAN]
      /\ news' \in [message : BOOLEAN, web : BOOLEAN, jump : BOOLEAN]
  BY <1>1, <1>2, ShownKeeps DEF LineInv
<1>4. Placed'
  BY <1>1, ScreenKeeps DEF LineInv
<1>5. Rest'
  BY <1>1, <1>2, <1>3 DEF LineInv, Rest
<1> QED
  BY <1>1, <1>3, <1>4, <1>5 DEF LineInv, OldMessageIsReplaced, FetchIsOfSource

LEMMA SettingsPartIs == SettingsPart \in Parts
BY DEF SettingsPart, Parts

LEMMA PositionIs ==
  ASSUME NEW at \in Int, at >= -TEXT_MAX, at <= Greater(AREA, JUMP_PAD),
         NEW of \in Parts, NEW l, Shaped(l, of), NEW step \in Nat, NEW to,
         \/ to = AREA
         \/ to = Advance(at, step, l)
         \/ Looped(l) /\ to = JUMP_PAD - l.settings[1]
  PROVE  /\ to \in -TEXT_MAX .. Greater(AREA, JUMP_PAD)
         /\ l.width > 0 => IF Looped(l) THEN to > -l.width ELSE to + l.width >= 0
<1>1. /\ l.bytes \in 0 .. TEXT_MAX /\ l.width \in Nat /\ l.width <= TEXT_MAX
      /\ Looped(l) => l.settings[1] \in Nat /\ l.settings[1] < l.width /\ l.width > 0
  BY ShapedFacts
<1>2. /\ Greater(AREA, JUMP_PAD) \in Nat /\ AREA <= Greater(AREA, JUMP_PAD) /\ JUMP_PAD <= Greater(AREA, JUMP_PAD)
      /\ AREA \in Nat \ {0} /\ JUMP_PAD \in Nat /\ TEXT_MAX \in Nat
  BY Bounds DEF Greater
<1>3. CASE to = AREA
  BY <1>1, <1>2, <1>3
<1>4. CASE to = Advance(at, step, l)
  <2>1. /\ to \in Int
        /\ l.width = 0 => to = at
        /\ to <= at \/ to <= 0 \/ to = AREA
        /\ l.width > 0 => IF Looped(l) THEN to > -l.width ELSE to + l.width >= 0
    BY <1>1, <1>4, AdvanceIs
  <2> QED
    BY <1>1, <1>2, <2>1
<1>5. CASE Looped(l) /\ to = JUMP_PAD - l.settings[1]
  BY <1>1, <1>2, <1>5
<1> QED
  BY <1>3, <1>4, <1>5

LEMMA FrameStep ==
  ASSUME LineInv, NEW elapsed \in 1 .. ELAPSED_MAX, Frame(elapsed)
  PROVE  LineInv'
<1>1. /\ UNCHANGED <<config, ip, job, fetching, from, saves>> /\ model' = model /\ part' = SettingsPart
      /\ line' = Composed /\ x' = Position(elapsed)
      /\ news' = [message |-> FALSE, web |-> FALSE, jump |-> FALSE]
  BY DEF Frame, jobs
<1>2. SettingsPart \in Parts /\ model.message \in Texts /\ model.url \in Urls \cup {NoText}
  BY SettingsPartIs DEF LineInv, Rest
<1>3. Rest'
  BY <1>1 DEF LineInv, Rest
<1>4. Current'
  BY <1>1, <1>2 DEF LineInv, Current, Composed
<1>5. Shaped(line', part')
  <2>1. CASE line' = Lines[model.message][SettingsPart][model.url]
    BY <1>1, <1>2, <2>1, LinesAre
  <2>2. CASE line' = line /\ part = SettingsPart
    BY <1>1, <2>2 DEF LineInv, Placed
  <2> QED
    BY <1>1, <2>1, <2>2 DEF Composed
<1>6. /\ x' \in -TEXT_MAX .. Greater(AREA, JUMP_PAD)
      /\ line'.width > 0 => IF Looped(line') THEN x' > -line'.width ELSE x' + line'.width >= 0
  <2> DEFINE step == SCROLL_PX * elapsed
  <2>1. step \in Nat
    BY Bounds
  <2>2. x \in Int /\ x >= -TEXT_MAX /\ x <= Greater(AREA, JUMP_PAD)
    BY Bounds DEF LineInv, Placed, Greater
  <2>3. \/ x' = AREA
        \/ x' = Advance(x, step, line')
        \/ Looped(line') /\ x' = JUMP_PAD - line'.settings[1]
    BY Zenon, <1>1 DEF Position
  <2> HIDE DEF step
  <2>4. part' \in Parts
    BY <1>1, <1>2
  <2> QED
    BY <1>5, <2>1, <2>2, <2>3, <2>4, PositionIs
<1>7. Placed'
  BY <1>1, <1>2, <1>5, <1>6 DEF Placed, Shaped, Looped, LinesOf, Spread, Shows, Spans, Names
<1> QED
  BY <1>1, <1>3, <1>4, <1>7 DEF LineInv, OldMessageIsReplaced, FetchIsOfSource, Local

(* Whoever writes the model, and whenever a frame is drawn: the line is    *)
(* made of the pieces it has to be made of, it is where it can be seen,    *)
(* and render_task knows of every text it does not show yet.               *)
THEOREM LineInvHolds == TickerSpec => []LineInv
<1>1. TickerInit => LineInv
  BY LineInit
<1>2. LineInv /\ [TickerNext]_tickerVars => LineInv'
  <2> SUFFICES ASSUME LineInv, [TickerNext]_tickerVars PROVE LineInv'
    OBVIOUS
  <2>1. CASE UNCHANGED tickerVars
    <3>1. UNCHANGED <<config, model, news, ip, job, fetching, from, saves, line, part>> /\ UNCHANGED screen
      BY <2>1 DEF tickerVars, jobs, screen
    <3>2. Placed'
      BY <3>1, ScreenKeeps DEF LineInv
    <3> QED
      BY <3>1, <3>2 DEF LineInv, Rest, Current, OldMessageIsReplaced, FetchIsOfSource, Local
  <2>2. CASE AnySave
    BY <2>2, SaveStep DEF AnySave
  <2>3. CASE AnyText
    BY <2>3, FetchedStep DEF AnyText
  <2>4. CASE AnyFrame
    BY <2>4, FrameStep DEF AnyFrame
  <2> QED
    BY <2>1, <2>2, <2>3, <2>4, JobsSteps DEF TickerNext
<1> QED
  BY <1>1, <1>2, PTL DEF TickerSpec

-----------------------------------------------------------------------------
(* What runs is what there is to say, although only numbers are compared.  *)
THEOREM LineIsCurrentHolds == TickerSpec => []LineIsCurrent
<1>1. LineInv => LineIsCurrent
  BY DEF LineInv, Current, LineIsCurrent
<1> QED
  BY <1>1, LineInvHolds, PTL

LEMMA PiecesOfSettings ==
  ASSUME NEW of \in {"Waiting", "Ready"}
  PROVE  /\ of = "Waiting" => /\ Len(SettingsPieces(of)) = 1
                              /\ SettingsPieces(of)[1].ink = "Note" /\ SettingsPieces(of)[1].chars = 2
         /\ of = "Ready" => /\ Len(SettingsPieces(of)) = 4
                            /\ SettingsPieces(of)[1].ink = "Label" /\ SettingsPieces(of)[1].chars = 1
                            /\ SettingsPieces(of)[2].ink = "Value" /\ SettingsPieces(of)[2].chars = 2
                            /\ SettingsPieces(of)[3].ink = "Label" /\ SettingsPieces(of)[3].chars = 1
                            /\ SettingsPieces(of)[4].ink = "Value" /\ SettingsPieces(of)[4].chars = 1
BY DEF SettingsPieces, WAITING, LABEL_SETTINGS, LABEL_CODE, Url, Code, Piece

LEMMA ShapedIsWhole ==
  ASSUME part \in Parts, Shaped(line, part)
  PROVE  SettingsAreWhole
<1> SUFFICES ASSUME part # "Hidden" PROVE SettingsAreWhole
  BY DEF SettingsAreWhole, Shaped, Looped
<1> DEFINE pieces == SettingsPieces(part)
           spans == line.spans
           n == Len(pieces)
           before == Len(spans) - Len(pieces) - 1
<1>1. part \in {"Waiting", "Ready"}
  BY DEF Parts
<1>2. PICK k \in 1 .. 3 :
        LET m == IF part = "Waiting" THEN k + 1 ELSE k + 4
        IN  /\ Len(line.spans) = m /\ line.spans[m].ink = "Sep"
            /\ Spread(line.spans, part, k)
            /\ line.settings[1] = line.spans[k].x
            /\ line.settings[1] + line.settings[2] = line.spans[m].x
  BY DEF Shaped
<1>3. CASE part = "Waiting"
  <2>1. Len(pieces) = 1 /\ pieces[1].ink = "Note" /\ pieces[1].chars = 2
    BY <1>1, <1>3, PiecesOfSettings
  <2>2. /\ Len(spans) = k + 1 /\ spans[k + 1].ink = "Sep" /\ Spread(spans, part, k)
        /\ line.settings[1] = spans[k].x /\ line.settings[1] + line.settings[2] = spans[k + 1].x
    BY <1>2, <1>3
  <2>3. spans[k].ink = "Note" /\ spans[k].chars = 2 /\ spans[k + 1].x = spans[k].x + spans[k].w
    BY Zenon, <1>3, <2>2 DEF Spread, Shows
  <2> HIDE DEF spans, pieces
  <2>4. before = k - 1 /\ before + 1 = k /\ before >= 0
    BY <2>1, <2>2
  <2> HIDE DEF before
  <2>5. \A i \in 1 .. Len(pieces) :
           /\ spans[before + i].ink = pieces[i].ink
           /\ spans[before + i].chars = pieces[i].chars
           /\ spans[before + i + 1].x = spans[before + i].x + spans[before + i].w
    <3> TAKE i \in 1 .. Len(pieces)
    <3>1. i = 1 /\ before + i = k /\ before + i + 1 = k + 1
      BY <2>1, <2>4
    <3> QED
      BY Zenon, <2>1, <2>3, <3>1
  <2>6. spans[Len(spans)].ink = "Sep" /\ line.settings[1] = spans[before + 1].x
        /\ line.settings[1] + line.settings[2] = spans[Len(spans)].x
    BY Zenon, <2>2, <2>4
  <2> QED
    BY Zenon, <2>4, <2>5, <2>6 DEF SettingsAreWhole, spans, pieces, before
<1>4. CASE part = "Ready"
  <2>1. Len(pieces) = 4
    BY <1>1, <1>4, PiecesOfSettings
  <2>2. /\ Len(spans) = k + 4 /\ spans[k + 4].ink = "Sep" /\ Spread(spans, part, k)
        /\ line.settings[1] = spans[k].x /\ line.settings[1] + line.settings[2] = spans[k + 4].x
    BY <1>2, <1>4
  <2>3. /\ Shows(spans[k], "Label", 1) /\ Shows(spans[k + 1], "Value", 2)
        /\ Shows(spans[k + 2], "Label", 1) /\ Shows(spans[k + 3], "Value", 1)
        /\ spans[k + 1].x = spans[k].x + spans[k].w
        /\ spans[k + 2].x = spans[k + 1].x + spans[k + 1].w
        /\ spans[k + 3].x = spans[k + 2].x + spans[k + 2].w
        /\ spans[k + 4].x = spans[k + 3].x + spans[k + 3].w
    <3>1. part # "Waiting"
      BY <1>4
    <3> QED
      BY Zenon, <2>2, <3>1 DEF Spread
  <2>4. /\ pieces[1].ink = "Label" /\ pieces[1].chars = 1 /\ pieces[2].ink = "Value" /\ pieces[2].chars = 2
        /\ pieces[3].ink = "Label" /\ pieces[3].chars = 1 /\ pieces[4].ink = "Value" /\ pieces[4].chars = 1
    BY <1>1, <1>4, PiecesOfSettings
  <2> HIDE DEF spans, pieces
  <2>5. before = k - 1 /\ before + 1 = k /\ before >= 0
    BY <2>1, <2>2
  <2> HIDE DEF before
  <2>6. \A i \in 1 .. Len(pieces) :
           /\ spans[before + i].ink = pieces[i].ink
           /\ spans[before + i].chars = pieces[i].chars
           /\ spans[before + i + 1].x = spans[before + i].x + spans[before + i].w
    <3> TAKE i \in 1 .. Len(pieces)
    <3>1. CASE i = 1
      <4>1. before + i = k /\ before + i + 1 = k + 1
        BY <2>5, <3>1
      <4> QED
        BY Zenon, <2>3, <2>4, <3>1, <4>1 DEF Shows
    <3>2. CASE i = 2
      <4>1. before + i = k + 1 /\ before + i + 1 = k + 2
        BY <2>5, <3>2
      <4> QED
        BY Zenon, <2>3, <2>4, <3>2, <4>1 DEF Shows
    <3>3. CASE i = 3
      <4>1. before + i = k + 2 /\ before + i + 1 = k + 3
        BY <2>5, <3>3
      <4> QED
        BY Zenon, <2>3, <2>4, <3>3, <4>1 DEF Shows
    <3>4. CASE i = 4
      <4>1. before + i = k + 3 /\ before + i + 1 = k + 4
        BY <2>5, <3>4
      <4> QED
        BY Zenon, <2>3, <2>4, <3>4, <4>1 DEF Shows
    <3> QED
      BY <2>1, <3>1, <3>2, <3>3, <3>4
  <2>7. spans[Len(spans)].ink = "Sep" /\ line.settings[1] = spans[before + 1].x
        /\ line.settings[1] + line.settings[2] = spans[Len(spans)].x
    BY Zenon, <2>2, <2>5
  <2> QED
    BY Zenon, <2>5, <2>6, <2>7 DEF SettingsAreWhole, spans, pieces, before
<1> QED
  BY <1>1, <1>3, <1>4

(* For every length of the texts and every speed: the line is whole, its   *)
(* URL and code uncut, it never leaves the screen for good and leaves no   *)
(* gap on it, and is not left with the text of a source that was changed.  *)
THEOREM LineIsSoundHolds == TickerSpec => []LineIsSound
<1>1. LineInv => LineIsSound
  <2> SUFFICES ASSUME LineInv PROVE LineIsSound
    OBVIOUS
  <2>1. part \in Parts /\ Shaped(line, part) /\ Placed
    BY DEF LineInv, Placed
  <2>2. /\ line.bytes \in 0 .. TEXT_MAX /\ line.width \in Nat
        /\ Looped(line) => line.width > 0
    BY <2>1, ShapedFacts
  <2>3. Len(line.spans) <= SPANS_MAX
    <3>1. SPANS_MAX \in Nat
      BY DEF SPANS_MAX
    <3>2. Len(line.spans) \in 0 .. SPANS_MAX
      BY Zenon, <2>1 DEF Shaped
    <3>3. \A n \in 0 .. SPANS_MAX : n <= SPANS_MAX
      BY <3>1
    <3> QED
      BY Zenon, <3>2, <3>3
  <2>4. TickerTypeOK
    BY <2>1, <2>2, <2>3 DEF LineInv, Rest, Placed, TickerTypeOK
  <2>5. SettingsAreWhole
    BY <2>1, ShapedIsWhole
  <2>6. StaysInReach
    BY <2>1, Bounds DEF StaysInReach, Placed, Greater
  <2>7. LoopHasNoGap
    <3>1. x \in Int
      BY <2>1, Bounds DEF Placed, Greater
    <3> QED
      BY <2>2, <3>1, NoGap DEF LoopHasNoGap
  <2> QED
    BY <2>4, <2>5, <2>6, <2>7 DEF LineInv, LineIsSound
<1> QED
  BY <1>1, LineInvHolds, PTL

LEMMA LoopMoves ==
  ASSUME NEW at \in Int, NEW step \in Nat, NEW l, l.width \in Nat, l.width > 0, Looped(l),
         NEW a, a = Advance(at, step, l)
  PROVE  (at - step - a) % l.width = 0
<1> DEFINE w == l.width
<1>1. w \in Nat \ {0}
  OBVIOUS
<1>2. PICK q \in Nat : a = at - step + w * q
  BY AdvanceIs
<1> HIDE DEF w
<1>3. at - step - a = -(w * q)
  <2>1. w * q \in Int
    BY <1>1
  <2> QED
    BY <1>2, <2>1
<1>4. (at - step - a) % w = 0
  BY <1>1, <1>3, WholeRounds
<1> QED
  BY <1>4 DEF w

(* However late a frame is: a loop moves by the pixels of the frames that  *)
(* passed, as seen on the screen, wherever its end meets its beginning.    *)
THEOREM MovesEvenlyHolds == TickerSpec => MovesEvenly
<1> DEFINE Even ==
      (Looped(line) /\ Looped(line') /\ line.width = line'.width /\ x' # x
       /\ ~news.message /\ ~news.jump)
      => \E elapsed \in 1 .. ELAPSED_MAX : (x - SCROLL_PX * elapsed - x') % line.width = 0
<1>1. LineInv /\ [TickerNext]_tickerVars => [Even]_tickerVars
  <2> SUFFICES ASSUME LineInv, TickerNext, Looped(line), Looped(line'), line.width = line'.width, x' # x,
                      ~news.message, ~news.jump
               PROVE  \E elapsed \in 1 .. ELAPSED_MAX : (x - SCROLL_PX * elapsed - x') % line.width = 0
    OBVIOUS
  <2>1. PICK elapsed \in 1 .. ELAPSED_MAX : Frame(elapsed)
    BY DEF TickerNext, Listens, PublishUrl, AnySave, Save, ShowCode, BeginFetch, AnyText, Fetched, FetchFails,
           TimerRuns, ForcedEnds, AddressChanges, AnyFrame, screen
  <2> DEFINE step == SCROLL_PX * elapsed
             w == line.width
  <2>2. x' = Advance(x, step, line')
    BY Zenon, <2>1 DEF Frame, Position
  <2>3. line'.width = w /\ line'.width > 0 /\ line'.width \in Nat /\ Looped(line')
    <3>1. w \in Nat /\ w > 0
      BY ShapedFacts DEF LineInv, Placed
    <3> QED
      BY <3>1
  <2>4. step \in Nat /\ x \in Int /\ w \in Nat \ {0}
    <3>1. step \in Nat
      BY Bounds
    <3>2. x \in Int
      BY Bounds DEF LineInv, Placed, Greater
    <3>3. w \in Nat /\ w > 0
      BY ShapedFacts DEF LineInv, Placed
    <3> QED
      BY <3>1, <3>2, <3>3
  <2> HIDE DEF step, w
  <2>5. (x - step - x') % line'.width = 0
    BY Zenon, <2>2, <2>3, <2>4, LoopMoves
  <2>6. (x - step - x') % w = 0
    BY Zenon, <2>3, <2>5
  <2> QED
    BY <2>6 DEF step, w
<1> QED
  BY <1>1, LineInvHolds, PTL DEF TickerSpec, MovesEvenly

=============================================================================
