---------------------------- MODULE UpdateProofs ----------------------------
(***************************************************************************)
(* What holds of an update, from its download to the end of its trial.     *)
(*                                                                         *)
(* The check (OtaCheck), for every size of a sector, of a slot and of the  *)
(* releases, and for every first sector: the program's parser and the boot *)
(* ROM read an image that was let through alike; what is received keeps    *)
(* its place in RAM and on the flash, however it comes in chunks; and a    *)
(* slot can be booted only with a release that has been examined, whatever *)
(* breaks off when (image.rs, slot.rs, app.rs).                            *)
(*                                                                         *)
(* The supervised boot that follows (Trial), for every clock width, set of *)
(* tasks, limit and deadline that SupervisorAssumption and TrialAssumption *)
(* allow (supervisor.rs, app.rs).                                          *)
(***************************************************************************)
EXTENDS Trial, MCOtaCheck, TLAPS, SequenceTheorems, WellFoundedInduction, FiniteSetTheorems


-----------------------------------------------------------------------------
(* The parser and the boot ROM.                                            *)

(* Induction over the natural numbers, for a set.  (The library states it  *)
(* for an operator, which these provers cannot instantiate.)               *)
LEMMA SetInduction ==
  ASSUME NEW T, 0 \in T, \A n \in Nat : n \in T => n + 1 \in T
  PROVE  Nat \subseteq T
<1> DEFINE Out == Nat \ T
           Less == {mn \in Nat \X Nat : mn[1] < mn[2]}
<1>1. IsWellFoundedOn(Less, Nat)
  <2>1. Less = OpToRel(<, Nat)
    BY Zenon DEF OpToRel
  <2> QED
    BY Zenon, <2>1, NatLessThanWellFounded
<1>2. SUFFICES ASSUME Out # {} PROVE FALSE
  OBVIOUS
<1>3. PICK n \in Out : \A m \in Out : ~ (<<m, n>> \in Less)
  BY <1>1, <1>2, WFMin
<1>4. n # 0 /\ n \in Nat /\ n - 1 \in Nat
  OBVIOUS
<1>5. n - 1 \in T
  <2>1. <<n - 1, n>> \in Less
    BY <1>4
  <2> QED
    BY <1>3, <1>4, <2>1
<1> QED
  BY <1>4, <1>5

-----------------------------------------------------------------------------
(* A sector.                                                               *)

LEMMA SectorFacts ==
  ASSUME NEW s, IsSector(s)
  PROVE  /\ Len(s) \in Nat /\ DOMAIN s = 1 .. Len(s)
         /\ \A q \in 1 .. Len(s) : s[q].size \in Nat
BY DEF IsSector

(* Chain goes on from an item to the one behind it.                        *)
LEMMA ChainGoesOn ==
  ASSUME NEW s, IsSector(s), NEW p \in 1 .. Len(s) + 1
  PROVE  Chain(s, p) =
           IF p > Len(s) THEN <<>>
           ELSE IF s[p].kind = "last" THEN <<p>>
           ELSE IF s[p].size = 0 \/ p + s[p].size - 1 > Len(s) THEN <<>>
           ELSE IF Chain(s, p + s[p].size) = <<>> THEN <<>>
           ELSE <<p>> \o Chain(s, p + s[p].size)
<1> DEFINE N == Len(s)
           Body(c, q) ==
             IF q > N THEN <<>>
             ELSE IF s[q].kind = "last" THEN <<q>>
             ELSE IF s[q].size = 0 \/ q + s[q].size - 1 > N THEN <<>>
             ELSE LET rest == c[q + s[q].size]
                  IN  IF rest = <<>> THEN <<>> ELSE <<q>> \o rest
           chain == CHOOSE chain : chain = [q \in 1 .. N + 1 |-> Body(chain, q)]
           From(n) == \E g : g = [q \in N + 1 - n .. N + 1 |-> Body(g, q)]
           Built == {n \in Nat : n <= N => From(n)}
<1>1. N \in Nat /\ \A q \in 1 .. N : s[q].size \in Nat
  BY SectorFacts
<1>2. Nat \subseteq Built
  <2>1. 0 \in Built
    <3> DEFINE g == [q \in N + 1 .. N + 1 |-> <<>>]
    <3>1. ASSUME NEW q \in N + 1 .. N + 1 PROVE Body(g, q) = <<>>
      BY <1>1
    <3> HIDE DEF Body
    <3>2. g = [q \in N + 1 .. N + 1 |-> Body(g, q)]
      BY <3>1
    <3>3. N + 1 - 0 = N + 1
      BY <1>1
    <3> QED
      BY <3>2, <3>3
  <2>2. ASSUME NEW n \in Nat, n \in Built PROVE n + 1 \in Built
    <3>1. SUFFICES ASSUME n + 1 <= N
                   PROVE From(n + 1)
      <4> HIDE DEF From
      <4> QED
        BY <2>2
    <3>2. PICK g : g = [q \in N + 1 - n .. N + 1 |-> Body(g, q)]
      <4>1. From(n)
        <5> HIDE DEF From
        <5> QED
          BY <1>1, <2>2, <3>1
      <4> QED
        BY <4>1
    <3>3. N + 1 - (n + 1) = N - n /\ N - n \in 1 .. N
      BY <1>1, <3>1
    <3> DEFINE h == [q \in N - n .. N + 1 |-> IF q = N - n THEN Body(g, q) ELSE g[q]]
    <3>4. ASSUME NEW q \in N - n .. N + 1 PROVE h[q] = Body(h, q)
      <4>1. q <= N /\ s[q].size # 0 /\ q + s[q].size - 1 <= N
              => h[q + s[q].size] = g[q + s[q].size]
        BY <1>1, <3>3
      <4>2. Body(h, q) = Body(g, q)
        <5> HIDE DEF h
        <5>1. CASE q > N \/ s[q].kind = "last" \/ s[q].size = 0 \/ q + s[q].size - 1 > N
          BY <5>1
        <5>2. CASE ~(q > N \/ s[q].kind = "last" \/ s[q].size = 0 \/ q + s[q].size - 1 > N)
          <6>1. h[q + s[q].size] = g[q + s[q].size]
            BY <1>1, <3>3, <4>1, <5>2
          <6> QED
            BY <6>1
        <5> QED
          BY <5>1, <5>2
      <4>3. q # N - n => q \in N + 1 - n .. N + 1
        BY <1>1, <3>3
      <4> HIDE DEF Body
      <4>4. q # N - n => g[q] = Body(g, q)
        BY <3>2, <4>3
      <4>5. h[q] = IF q = N - n THEN Body(g, q) ELSE g[q]
        OBVIOUS
      <4> QED
        BY <4>2, <4>4, <4>5
    <3> HIDE DEF Body
    <3>5. h = [q \in N - n .. N + 1 |-> Body(h, q)]
      BY <3>4
    <3> QED
      BY <3>3, <3>5
  <2> HIDE DEF Built
  <2> QED
    BY <2>1, <2>2, SetInduction
<1>3. chain = [q \in 1 .. N + 1 |-> Body(chain, q)]
  <2>1. From(N)
    <3> HIDE DEF From
    <3> QED
      BY <1>1, <1>2
  <2>2. \E g : g = [q \in 1 .. N + 1 |-> Body(g, q)]
    <3>1. N + 1 - N = 1
      BY <1>1
    <3> HIDE DEF Body
    <3> QED
      BY <2>1, <3>1
  <2> QED
    BY <2>2
<1>4. \A q \in 1 .. N + 1 : Chain(s, q) = chain[q]
  BY DEF Chain
<1>5. Chain(s, p) = Body(chain, p)
  <2> HIDE DEF Body, chain
  <2> QED
    BY <1>3, <1>4
<1> HIDE DEF chain
<1>6. CASE p > N \/ s[p].kind = "last" \/ s[p].size = 0 \/ p + s[p].size - 1 > N
  BY <1>5, <1>6
<1>7. CASE ~(p > N \/ s[p].kind = "last" \/ s[p].size = 0 \/ p + s[p].size - 1 > N)
  <2>1. p + s[p].size \in 1 .. N + 1
    BY <1>1, <1>7
  <2>2. Chain(s, p + s[p].size) = chain[p + s[p].size]
    BY <1>4, <2>1
  <2> QED
    BY <1>5, <1>7, <2>2
<1> QED
  BY <1>6, <1>7

(* The items from q on as the boot ROM follows them, up to the last one, l. *)
Run(s, q, I, l) ==
    /\ I \subseteq q .. Len(s) /\ q \in I /\ l \in I
    /\ \A i \in I : i <= l
    /\ \A i \in I :
         IF s[i].kind = "last" THEN i = l
         ELSE /\ s[i].size > 0 /\ i + s[i].size \in I
              /\ \A j \in I : j <= i \/ j >= i + s[i].size
Elements(c) == {c[k] : k \in DOMAIN c}

LEMMA OneMoreItem ==
  ASSUME NEW q \in Nat, NEW rest \in Seq(Nat), rest # <<>>
  PROVE  /\ <<q>> \o rest \in Seq(Nat) /\ <<q>> \o rest # <<>>
         /\ Elements(<<q>> \o rest) = {q} \cup Elements(rest)
         /\ (<<q>> \o rest)[Len(<<q>> \o rest)] = rest[Len(rest)]
<1> DEFINE c == <<q>> \o rest
<1>1. <<q>> \in Seq(Nat) /\ Len(<<q>>) = 1 /\ <<q>>[1] = q /\ Len(rest) \in Nat \ {0}
  BY EmptySeq
<1>2. /\ c \in Seq(Nat) /\ Len(c) = 1 + Len(rest)
      /\ \A i \in 1 .. 1 + Len(rest) : c[i] = IF i <= 1 THEN q ELSE rest[i - 1]
  BY <1>1, ConcatProperties
<1> HIDE DEF c
<1>3. DOMAIN c = 1 .. 1 + Len(rest) /\ DOMAIN rest = 1 .. Len(rest)
  BY <1>2, LenProperties
<1>4. ASSUME NEW i \in 1 .. 1 + Len(rest) PROVE c[i] \in {q} \cup Elements(rest)
  <2>1. CASE i <= 1
    BY <1>2, <2>1
  <2>2. CASE i > 1
    <3>1. i - 1 \in 1 .. Len(rest) /\ c[i] = rest[i - 1]
      BY <1>1, <1>2, <2>2
    <3> QED
      BY <1>3, <3>1 DEF Elements
  <2> QED
    BY <1>1, <2>1, <2>2
<1>5. q \in Elements(c)
  <2>1. 1 \in 1 .. 1 + Len(rest) /\ c[1] = q
    BY <1>1, <1>2
  <2> QED
    BY <1>3, <2>1 DEF Elements
<1>6. ASSUME NEW i \in 1 .. Len(rest) PROVE rest[i] \in Elements(c)
  <2>1. i + 1 \in 1 .. 1 + Len(rest) /\ c[i + 1] = rest[i]
    BY <1>1, <1>2
  <2> QED
    BY <1>3, <2>1 DEF Elements
<1>7. Elements(c) = {q} \cup Elements(rest)
  <2>1. Elements(c) = {c[i] : i \in 1 .. 1 + Len(rest)}
    BY <1>3 DEF Elements
  <2>2. Elements(rest) = {rest[i] : i \in 1 .. Len(rest)}
    BY <1>3 DEF Elements
  <2>3. Elements(c) \subseteq {q} \cup Elements(rest)
    BY <1>4, <2>1
  <2>4. Elements(rest) \subseteq Elements(c)
    BY <1>6, <2>2
  <2> QED
    BY <1>5, <2>3, <2>4
<1>8. c # <<>> /\ c[Len(c)] = rest[Len(rest)]
  BY <1>1, <1>2, EmptySeq
<1> QED
  BY <1>2, <1>7, <1>8 DEF c

LEMMA HasGreatest ==
  ASSUME NEW n \in Nat, NEW J \in SUBSET (0 .. n), J # {}
  PROVE  \E l \in J : \A i \in J : i <= l
<1> DEFINE T == {m \in Nat : \A K \in SUBSET (0 .. m) : K # {} => \E l \in K : \A i \in K : i <= l}
<1>1. 0 \in T
  <2>1. ASSUME NEW K \in SUBSET (0 .. 0), K # {} PROVE \E l \in K : \A i \in K : i <= l
    <3>1. PICK l \in K : TRUE
      BY <2>1
    <3>2. \A i \in K : i = 0
      OBVIOUS
    <3> QED
      BY <3>1, <3>2
  <2> QED
    BY <2>1
<1>2. ASSUME NEW m \in Nat, m \in T PROVE m + 1 \in T
  <2>1. SUFFICES ASSUME NEW K \in SUBSET (0 .. m + 1), K # {}
                 PROVE \E l \in K : \A i \in K : i <= l
    OBVIOUS
  <2>2. CASE m + 1 \in K
    BY <2>2
  <2>3. CASE m + 1 \notin K
    <3>1. K \in SUBSET (0 .. m)
      BY <2>3
    <3> QED
      BY <1>2, <2>1, <3>1
  <2> QED
    BY <2>2, <2>3
<1> HIDE DEF T
<1>3. n \in T
  BY <1>1, <1>2, SetInduction
<1> QED
  BY <1>3 DEF T

LEMMA GreatestIsMax ==
  ASSUME NEW n \in Nat, NEW J \in SUBSET (0 .. n), NEW l \in J, \A i \in J : i <= l
  PROVE  Max(J) = l
<1>1. J \subseteq Nat
  OBVIOUS
<1>2. l \in J /\ \A i \in J : l >= i
  BY <1>1
<1>3. Max(J) \in J /\ \A i \in J : Max(J) >= i
  BY Zenon, <1>2 DEF Max
<1>4. Max(J) \in Nat /\ l \in Nat /\ Max(J) >= l /\ l >= Max(J)
  BY <1>1, <1>2, <1>3
<1> QED
  BY <1>4

(* What Items chooses are the runs.                                        *)
LEMMA ItemsAreRuns ==
  ASSUME NEW s, IsSector(s), NEW p \in 1 .. Len(s), NEW I
  PROVE  I \in Items(s, p) <=> \E l : Run(s, p + 1, I, l)
<1>1. Len(s) \in Nat
  BY SectorFacts
<1>2. ASSUME I \in Items(s, p) PROVE Run(s, p + 1, I, Max(I))
  <2>1. I \in SUBSET (0 .. Len(s)) /\ I \subseteq p + 1 .. Len(s) /\ p + 1 \in I
    BY <1>1, <1>2 DEF Items
  <2>2. PICK l \in I : \A i \in I : i <= l
    BY <1>1, <2>1, HasGreatest
  <2>3. Max(I) = l
    BY <1>1, <2>1, <2>2, GreatestIsMax
  <2> QED
    BY <1>2, <2>1, <2>2, <2>3 DEF Items, Run
<1>3. ASSUME NEW l, Run(s, p + 1, I, l) PROVE I \in Items(s, p)
  <2>1. I \in SUBSET (0 .. Len(s))
    BY <1>1, <1>3 DEF Run
  <2>2. Max(I) = l
    BY <1>1, <1>3, <2>1, GreatestIsMax DEF Run
  <2> QED
    BY <1>3, <2>2 DEF Items, Run
<1> QED
  BY <1>2, <1>3

(* The chain that the program finds is a run, and the only one.            *)
LEMMA ChainIsRun ==
  ASSUME NEW s, IsSector(s), NEW p \in 1 .. Len(s) + 1
  PROVE  /\ Chain(s, p) \in Seq(Nat)
         /\ Chain(s, p) # <<>>
              => Run(s, p, Elements(Chain(s, p)), Chain(s, p)[Len(Chain(s, p))])
<1> DEFINE N == Len(s)
           C(q) == Chain(s, q)
           P(q) == C(q) \in Seq(Nat) /\ (C(q) # <<>> => Run(s, q, Elements(C(q)), C(q)[Len(C(q))]))
           T == {n \in Nat : \A q \in 1 .. N + 1 : q >= N + 1 - n => P(q)}
<1>1. N \in Nat /\ \A q \in 1 .. N : s[q].size \in Nat
  BY SectorFacts
<1>2. 0 \in T
  <2>1. ASSUME NEW q \in 1 .. N + 1, q >= N + 1 PROVE P(q)
    <3>1. q > Len(s)
      BY <1>1, <2>1
    <3>2. Chain(s, q) = <<>>
      BY <3>1, ChainGoesOn
    <3> QED
      BY <3>2, EmptySeq
  <2> HIDE DEF P
  <2> QED
    BY <1>1, <2>1
<1>3. ASSUME NEW n \in Nat, n \in T PROVE n + 1 \in T
  <2>1. SUFFICES ASSUME NEW q \in 1 .. N + 1, q >= N - n PROVE P(q)
    <3> HIDE DEF P
    <3> QED
      BY <1>1
  <2>2. CASE q >= N + 1 - n
    <3> HIDE DEF P
    <3> QED
      BY <1>3, <2>2
  <2>3. CASE q = N - n
    <3>0. q \in 1 .. N
      BY <1>1, <2>3
    <3>1. CASE s[q].kind = "last"
      <4>0. ~(q > Len(s)) /\ q \in 1 .. Len(s) + 1
        BY <1>1, <3>0
      <4>1. Chain(s, q) = <<q>>
        BY <3>1, <4>0, ChainGoesOn
      <4>2. Elements(<<q>>) = {q} /\ <<q>>[Len(<<q>>)] = q /\ <<q>> \in Seq(Nat)
        BY <3>0 DEF Elements
      <4>3. Run(s, q, {q}, q)
        BY <1>1, <3>0, <3>1 DEF Run
      <4>4. C(q) \in Seq(Nat) /\ Elements(C(q)) = {q} /\ C(q)[Len(C(q))] = q
        BY <4>1, <4>2
      <4> QED
        BY <4>3, <4>4
    <3>2. CASE s[q].kind # "last" /\ (s[q].size = 0 \/ q + s[q].size - 1 > N)
      <4>1. C(q) = <<>>
        BY <1>1, <3>0, <3>2, ChainGoesOn
      <4> QED
        BY <4>1, EmptySeq
    <3>3. CASE s[q].kind # "last" /\ ~(s[q].size = 0 \/ q + s[q].size - 1 > N)
      <4> DEFINE r == q + s[q].size
                 rest == C(r)
                 J == Elements(rest)
                 l == rest[Len(rest)]
      <4>1. r \in 1 .. N + 1 /\ r > q /\ s[q].size > 0 /\ r >= N + 1 - n
        BY SMTT(30), <1>1, <2>3, <3>0, <3>3
      <4>2. P(r)
        <5> HIDE DEF P, r
        <5> QED
          BY <1>3, <4>1
      <4>3. C(q) = IF rest = <<>> THEN <<>> ELSE <<q>> \o rest
        <5>1. ~(q > Len(s)) /\ q \in 1 .. Len(s) + 1
          BY <1>1, <3>0
        <5>2. Chain(s, q) = IF Chain(s, q + s[q].size) = <<>> THEN <<>>
                            ELSE <<q>> \o Chain(s, q + s[q].size)
          BY <3>3, <5>1, ChainGoesOn
        <5> QED
          BY <5>2
      <4>4. CASE rest = <<>>
        <5>1. C(q) = <<>>
          BY <4>3, <4>4
        <5> QED
          BY <5>1, EmptySeq
      <4>5. CASE rest # <<>>
        <5>1. rest \in Seq(Nat) /\ Run(s, r, J, l)
          BY <4>2, <4>5
        <5>2. C(q) = <<q>> \o rest /\ q \in Nat
          BY <3>0, <4>3, <4>5
        <5> HIDE DEF C, P, r
        <5>3. rest # <<>>
          BY <4>5
        <5>4. /\ C(q) \in Seq(Nat) /\ C(q) # <<>>
              /\ Elements(C(q)) = {q} \cup J /\ C(q)[Len(C(q))] = l
          BY <5>1, <5>2, <5>3, OneMoreItem
        <5>7. Run(s, q, {q} \cup J, l)
          <6>1. r = q + s[q].size
            BY DEF r
          <6>2. J \subseteq r .. N /\ r \in J /\ l \in J /\ \A i \in J : i <= l
            BY <5>1 DEF Run
          <6>3. \A i \in J : IF s[i].kind = "last" THEN i = l
                   ELSE /\ s[i].size > 0 /\ i + s[i].size \in J
                        /\ \A j \in J : j <= i \/ j >= i + s[i].size
            BY <5>1 DEF Run
          <6> HIDE DEF J, l
          <6>4. {q} \cup J \subseteq q .. N /\ l \in {q} \cup J /\ \A i \in {q} \cup J : i <= l
            BY <1>1, <3>0, <4>1, <6>2
          <6>5. ASSUME NEW i \in {q} \cup J
                PROVE IF s[i].kind = "last" THEN i = l
                      ELSE /\ s[i].size > 0 /\ i + s[i].size \in {q} \cup J
                           /\ \A j \in {q} \cup J : j <= i \/ j >= i + s[i].size
            <7>1. CASE i = q
              BY <1>1, <3>0, <3>3, <4>1, <6>1, <6>2, <7>1
            <7>2. CASE i \in J
              <8>1. q <= i
                BY <1>1, <3>0, <4>1, <6>2, <7>2
              <8> QED
                BY <6>3, <7>2, <8>1
            <7> QED
              BY <7>1, <7>2
          <6> QED
            BY <6>4, <6>5 DEF Run
        <5> QED
          BY <5>4, <5>7 DEF P
      <4> QED
        BY <4>4, <4>5
    <3> QED
      BY <3>1, <3>2, <3>3
  <2> QED
    BY <1>1, <2>1, <2>2, <2>3
<1> HIDE DEF P
<1>4. N \in T
  <2> HIDE DEF T
  <2> QED
    BY <1>1, <1>2, <1>3, SetInduction
<1>5. P(p)
  BY <1>1, <1>4
<1> QED
  BY <1>5 DEF P

LEMMA RunIsChain ==
  ASSUME NEW s, IsSector(s), NEW p \in 1 .. Len(s) + 1, NEW I, NEW l, Run(s, p, I, l)
  PROVE  Chain(s, p) # <<>> /\ I = Elements(Chain(s, p))
<1> DEFINE N == Len(s)
           P(q) == \A J, m : Run(s, q, J, m) => Chain(s, q) # <<>> /\ J = Elements(Chain(s, q))
           T == {n \in Nat : \A q \in 1 .. N + 1 : q >= N + 1 - n => P(q)}
<1>1. N \in Nat /\ \A q \in 1 .. N : s[q].size \in Nat
  BY SectorFacts
<1>2. 0 \in T
  <2>1. ASSUME NEW q \in 1 .. N + 1, q >= N + 1 PROVE P(q)
    BY <1>1, <2>1 DEF Run
  <2> HIDE DEF P
  <2> QED
    BY <1>1, <2>1
<1>3. ASSUME NEW n \in Nat, n \in T PROVE n + 1 \in T
  <2>1. SUFFICES ASSUME NEW q \in 1 .. N + 1, q >= N - n PROVE P(q)
    <3> HIDE DEF P
    <3> QED
      BY <1>1
  <2>2. CASE q >= N + 1 - n
    <3> HIDE DEF P
    <3> QED
      BY <1>3, <2>2
  <2>3. CASE q = N - n
    <3>0. q \in 1 .. N
      BY <1>1, <2>3
    <3>1. SUFFICES ASSUME NEW J, NEW m, Run(s, q, J, m)
                   PROVE Chain(s, q) # <<>> /\ J = Elements(Chain(s, q))
      OBVIOUS
    <3>2. /\ J \subseteq q .. N /\ q \in J /\ m \in J /\ \A i \in J : i <= m
          /\ \A i \in J : IF s[i].kind = "last" THEN i = m
                  ELSE /\ s[i].size > 0 /\ i + s[i].size \in J
                       /\ \A j \in J : j <= i \/ j >= i + s[i].size
      BY <3>1 DEF Run
    <3>3. CASE s[q].kind = "last"
      <4>1. Chain(s, q) = <<q>> /\ Elements(<<q>>) = {q}
        BY <1>1, <3>0, <3>3, ChainGoesOn DEF Elements
      <4>2. J = {q}
        <5>1. q = m
          BY <3>2, <3>3
        <5>2. \A i \in J : i = q
          BY <1>1, <3>0, <3>2, <5>1
        <5> QED
          BY <3>2, <5>2
      <4> QED
        BY <4>1, <4>2
    <3>4. CASE s[q].kind # "last"
      <4> DEFINE r == q + s[q].size
                 rest == Chain(s, r)
                 K == J \ {q}
      <4>1. s[q].size > 0 /\ r \in J /\ \A j \in J : j <= q \/ j >= r
        BY <3>2, <3>4
      <4>2. r \in q + 1 .. N /\ r >= N + 1 - n
        BY <1>1, <2>3, <3>0, <3>2, <4>1
      <4>3. Run(s, r, K, m)
        <5> HIDE DEF r
        <5>1. K \subseteq r .. N /\ r \in K
          BY <1>1, <3>0, <3>2, <4>1, <4>2
        <5>2. m \in K /\ \A i \in K : i <= m
          BY <1>1, <3>0, <3>2, <4>1, <4>2
        <5>3. ASSUME NEW i \in K
              PROVE IF s[i].kind = "last" THEN i = m
                    ELSE /\ s[i].size > 0 /\ i + s[i].size \in K
                         /\ \A j \in K : j <= i \/ j >= i + s[i].size
          <6>1. i \in q + 1 .. N /\ i \in J
            BY <1>1, <3>0, <4>2, <5>1, <5>3
          <6>2. s[i].kind # "last" => i + s[i].size # q
            BY <1>1, <3>0, <3>2, <6>1
          <6> QED
            BY <3>2, <6>1, <6>2
        <5> QED
          BY <5>1, <5>2, <5>3 DEF Run
      <4>4. rest # <<>> /\ K = Elements(rest)
        <5>1. P(r)
          <6> HIDE DEF P, r
          <6> QED
            BY <1>1, <1>3, <3>0, <4>2
        <5> QED
          BY <4>3, <5>1
      <4>5. Chain(s, q) = <<q>> \o rest
        BY SMTT(30), <1>1, <3>0, <3>4, <4>1, <4>2, <4>4, ChainGoesOn
      <4>6. rest \in Seq(Nat) /\ q \in Nat
        BY <1>1, <3>0, <4>2, ChainIsRun
      <4> HIDE DEF r, rest, K
      <4>7. Chain(s, q) # <<>> /\ Elements(Chain(s, q)) = {q} \cup Elements(rest)
        BY <4>4, <4>5, <4>6, OneMoreItem
      <4>10. J = {q} \cup K
        BY <3>2 DEF K
      <4> QED
        BY <4>4, <4>7, <4>10
    <3> QED
      BY <3>3, <3>4
  <2> QED
    BY <1>1, <2>1, <2>2, <2>3
<1> HIDE DEF P
<1>4. N \in T
  <2> HIDE DEF T
  <2> QED
    BY <1>1, <1>2, <1>3, SetInduction
<1>5. P(p)
  BY <1>1, <1>4
<1> QED
  BY <1>5 DEF P

(* What the program takes for a block the boot ROM does, and with the same *)
(* items.                                                                  *)
LEMMA BlockOfBoth ==
  ASSUME NEW s, IsSector(s), NEW p \in 1 .. Len(s)
  PROVE  /\ IsBlock(s, p) <=> s[p] = Start /\ RomItems(s, p) # {}
         /\ IsBlock(s, p) =>
              /\ RomItems(s, p) = {Elements(Chain(s, p + 1))}
              /\ Max(Elements(Chain(s, p + 1))) = Chain(s, p + 1)[Len(Chain(s, p + 1))]
<1> DEFINE c == Chain(s, p + 1)
           I == Elements(c)
           l == c[Len(c)]
<1>1. Len(s) \in Nat /\ p + 1 \in 1 .. Len(s) + 1
  BY SectorFacts
<1>2. c # <<>> => Run(s, p + 1, I, l)
  BY <1>1, ChainIsRun
<1>3. \A J, m : Run(s, p + 1, J, m) => c # <<>> /\ J = I
  BY <1>1, RunIsChain
<1> HIDE DEF c
<1>4. c # <<>> => I \in Items(s, p)
  <2> HIDE DEF I, l
  <2> QED
    BY <1>2, ItemsAreRuns
<1>5. \A J \in Items(s, p) : c # <<>> /\ J = I
  <2> HIDE DEF I, l
  <2> QED
    BY <1>3, ItemsAreRuns
<1>6. c # <<>> => Max(I) = l
  <2>1. SUFFICES ASSUME c # <<>> PROVE Max(I) = l
    OBVIOUS
  <2>2. I \in SUBSET (0 .. Len(s)) /\ l \in I /\ \A i \in I : i <= l
    <3> HIDE DEF I, l
    <3> QED
      BY <1>1, <1>2, <2>1 DEF Run
  <2> HIDE DEF I, l
  <2> QED
    BY <1>1, <2>2, GreatestIsMax
<1>7. IsBlock(s, p) <=> s[p] = Start /\ c # <<>> /\ s[l].size = l - p - 1
                        /\ l + 2 <= Len(s) /\ s[l + 2] = End
  BY DEF IsBlock, c
<1> HIDE DEF I, l
<1>8. c # <<>> => (I \in RomItems(s, p) <=>
                     l + 2 <= Len(s) /\ s[l + 2] = End /\ s[l].size = l - p - 1)
  BY <1>4, <1>6 DEF RomItems
<1>9. RomItems(s, p) \subseteq {I} /\ (RomItems(s, p) # {} => c # <<>>)
  BY <1>5 DEF RomItems
<1>10. IsBlock(s, p) => RomItems(s, p) = {I}
  BY <1>7, <1>8, <1>9
<1>11. s[p] = Start /\ RomItems(s, p) # {} => IsBlock(s, p)
  BY <1>7, <1>8, <1>9
<1>12. IsBlock(s, p) => Max(I) = l
  BY <1>6, <1>7
<1> QED
  BY <1>7, <1>10, <1>11, <1>12 DEF I, l, c

(* Of a first sector that passes the program's check the boot ROM can      *)
(* think nothing else than that it is to be tried before it is bought, and *)
(* that it is of the version of the manifest: the two parsers, one in      *)
(* image.rs and one in the ROM, never disagree to the harm of the board.   *)
THEOREM RomReadsTheSame ==
  ASSUME NEW s, IsSector(s), NEW version, Checked(s, version)
  PROVE  RomMay(s) = {<<"tbyb", Folded(version)>>}
<1>1. Len(s) \in Nat /\ DOMAIN s = 1 .. Len(s)
  BY SectorFacts
<1>2. RomBlocks(s) = Blocks(s)
  <2>1. \A p \in 1 .. Len(s) : IsBlock(s, p) <=> s[p] = Start /\ RomItems(s, p) # {}
    BY BlockOfBoth
  <2> QED
    BY <1>1, <2>1 DEF RomBlocks, Blocks
<1> DEFINE p == Min(Blocks(s))
           c == Chain(s, p + 1)
           I == Elements(c)
           l == c[Len(c)]
<1>3. /\ Blocks(s) # {} /\ IsAcceptable(s, p)
      /\ s[p + 1].val = "tbyb"
      /\ \E i \in ItemsOf(s, p, "version") : s[i + 1].val = Folded(version)
  BY DEF Checked, IsTbyb
<1>4. p \in 1 .. Len(s) /\ IsBlock(s, p)
  <2>1. \E x \in Blocks(s) : \A y \in Blocks(s) : x <= y
    <3>1. Blocks(s) \subseteq 1 .. Len(s)
      BY <1>1 DEF Blocks
    <3> DEFINE J == {Len(s) - x : x \in Blocks(s)}
    <3>2. J \in SUBSET (0 .. Len(s)) /\ J # {}
      BY <1>1, <1>3, <3>1
    <3>3. PICK m \in J : \A i \in J : i <= m
      <4> HIDE DEF J
      <4> QED
        BY <1>1, <3>2, HasGreatest
    <3>4. PICK x \in Blocks(s) : m = Len(s) - x
      BY <3>3
    <3>5. ASSUME NEW y \in Blocks(s) PROVE x <= y
      <4>1. Len(s) - y <= Len(s) - x
        BY <3>3, <3>4
      <4> QED
        BY <1>1, <3>1, <4>1
    <3> QED
      BY <3>5
  <2>2. p \in Blocks(s)
    BY Zenon, <2>1 DEF Min
  <2> QED
    BY <1>1, <2>2 DEF Blocks
<1> HIDE DEF p
<1>5. RomItems(s, p) = {I} /\ Max(I) = l
  BY <1>4, BlockOfBoth
<1>6. \A kind : ItemsOf(s, p, kind) = {i \in I : IsItem(s[i], kind)}
  BY DEF ItemsOf, Elements
<1>7. LinkOf(s, p) = s[l + 1].val
  BY DEF LinkOf
<1> HIDE DEF I, l, c
<1>8. {i \in I : IsItem(s[i], "type")} = {p + 1} /\ s[l + 1].val = "0"
  BY <1>3, <1>6, <1>7 DEF IsAcceptable
<1>9. {s[i].val : i \in {j \in I : IsItem(s[j], "type")}} = {"tbyb"}
  BY <1>3, <1>8
<1>10. {s[i + 1].val : i \in {j \in I : IsItem(s[j], "version")}} = {Folded(version)}
  <2>1. PICK i \in {j \in I : IsItem(s[j], "version")} : s[i + 1].val = Folded(version)
    BY <1>3, <1>6
  <2>2. \A j \in {j \in I : IsItem(s[j], "version")} : j = i
    BY <1>3, <1>6, <2>1 DEF IsAcceptable
  <2> QED
    BY <2>1, <2>2
<1>11. UNION RomItems(s, p) = I
  BY <1>5
<1>12. RomMay(s) = {s[i].val : i \in {j \in I : IsItem(s[j], "type")}}
                   \X {s[i + 1].val : i \in {j \in I : IsItem(s[j], "version")}}
  <2>1. RomBlocks(s) # {} /\ Min(RomBlocks(s)) = p
    BY <1>2, <1>3 DEF p
  <2>2. ~(s[Max(UNION RomItems(s, p)) + 1].val # "0")
    BY <1>5, <1>8, <1>11
  <2> QED
    BY Zenon, <1>11, <2>1, <2>2 DEF RomMay
<1> QED
  BY <1>9, <1>10, <1>12

-----------------------------------------------------------------------------
(* The inductive invariant.                                                *)

(* What may be booted is a release that fits into the slot.                *)
BootableFits == \A i \in Releases : Bootable(i) => Size[i] <= Capacity

(* An asset is asked for only after the manifest has come, for a release   *)
(* that fits, and only its download writes.                                *)
Asset == {"begin", "stream", "finish", "commit", "program", "readback", "invalidate"}
AskedFor ==
    /\ pc \in Asset => what = "asset"
    /\ pc = "manifest" => what = "manifest"
    /\ what = "asset" => answered /\ Size[want] \in 1 .. Capacity
    /\ parsed => answered
    /\ result \notin {"none", "Transport", "BadResponse", "Local"} => answered

(* While pages are asked for, received and written nothing in the slot can *)
(* be booted; the writer begins anew.                                      *)
Receiving == pc \in {"stream", "finish", "commit", "program"}
Asking == pc = "ask" /\ what = "asset"
NoneBootable == Receiving \/ Asking => \A i \in Releases : ~Bootable(i)
Fresh == Asking => buf = <<>> /\ first = <<>> /\ hash = <<>> /\ next_sector = 0

(* Where the pages received are: on the flash, in RAM, still to be copied. *)
Flushed == next_sector * Pages
AllFlushed == pc \in {"finish", "commit", "program"} /\ buf = <<>>
Counted ==
    /\ Len(hash) <= Size[want] /\ Len(buf) <= Pages /\ Len(first) <= Pages
    /\ AllFlushed => chunk = <<>> /\ Len(hash) <= Flushed
    /\ ~AllFlushed => Len(hash) = Flushed + Len(buf) + Len(chunk)
    /\ pc = "finish" => chunk = <<>> /\ Len(buf) < Pages
    /\ next_sector = 0 => first = <<>>
    /\ Len(first) <= Len(hash)
Placed ==
    /\ \A k \in 1 .. Len(chunk) : chunk[k] = hash[Len(hash) - Len(chunk) + k]
    /\ \A k \in 1 .. Len(buf) : buf[k] = hash[Flushed + k]
    /\ \A k \in 1 .. Len(first) : first[k] = hash[k]
    /\ \A o \in Pages .. Len(hash) - 1 : o < Flushed => flash[o] \in {hash[o + 1], Garbage}

(* What is made bootable is what was wanted, whole and examined.           *)
Examined ==
    /\ pc \in {"commit", "program"} => hash = Image(want) /\ want \in Sound /\ buf = <<>>
    /\ sector # <<>> => pc = "commit" /\ Checked(sector, Version[want])

CheckInv ==
    /\ TypeOK /\ NeighbourIntact /\ FirstSectorLast /\ BootableFits /\ AskedFor /\ NoneBootable /\ Fresh
    /\ Receiving => Counted /\ Placed
    /\ Examined

-----------------------------------------------------------------------------
(* Sectors, pages and images.                                              *)

LEMMA SlotSize ==
  /\ Pages \in Nat \ {0} /\ Sectors \in Nat \ {0} /\ Capacity \in Nat /\ Pages <= Capacity
  /\ \A s \in Nat : s * Pages \in Nat /\ (s + 1) * Pages = s * Pages + Pages
  /\ \A s \in Nat : s < Sectors => s * Pages + Pages <= Capacity
  /\ \A s \in Nat : s * Pages < Capacity => s < Sectors
  /\ \A s \in Nat \ {0} : s * Pages >= Pages
<1>1. Pages \in Nat \ {0} /\ Sectors \in Nat \ {0}
  BY SlotWriterAssumption
<1>2. \A a, b, c \in Nat : a <= b => a * c <= b * c
  <2>1. ASSUME NEW a \in Nat, NEW b \in Nat, NEW c \in Nat, a <= b PROVE a * c <= b * c
    <3>1. b - a \in Nat /\ (b - a) * c \in Nat
      BY <2>1
    <3>2. b * c = a * c + (b - a) * c
      BY <2>1
    <3> QED
      BY <3>1, <3>2
  <2> QED
    BY <2>1
<1>3. \A s \in Nat : s * Pages \in Nat /\ (s + 1) * Pages = s * Pages + Pages
  BY <1>1
<1>4. Capacity = Sectors * Pages /\ Capacity \in Nat
  BY <1>1 DEF Capacity
<1>5. Pages <= Capacity
  <2>1. 1 * Pages <= Sectors * Pages
    BY <1>1, <1>2
  <2> QED
    BY <1>1, <1>4, <2>1
<1>6. ASSUME NEW s \in Nat, s < Sectors PROVE s * Pages + Pages <= Capacity
  <2>1. (s + 1) * Pages <= Sectors * Pages
    BY <1>1, <1>2, <1>6
  <2> QED
    BY <1>3, <1>4, <2>1
<1>7. ASSUME NEW s \in Nat, s * Pages < Capacity PROVE s < Sectors
  <2>1. Sectors <= s => Sectors * Pages <= s * Pages
    BY <1>1, <1>2
  <2> QED
    BY <1>1, <1>3, <1>4, <1>7, <2>1
<1>8. ASSUME NEW s \in Nat \ {0} PROVE s * Pages >= Pages
  <2>1. 1 * Pages <= s * Pages
    BY <1>1, <1>2
  <2> QED
    BY <1>1, <1>3, <2>1
<1> QED
  BY <1>1, <1>3, <1>4, <1>5, <1>6, <1>7, <1>8

LEMMA PagesOfImages ==
  /\ {Erased, Own, Garbage} \subseteq Page
  /\ \A i, p : p \in Nat \ {0} => <<i, p>> \notin {Erased, Own, Garbage}
  /\ \A i \in Releases : /\ Size[i] \in Nat
                         /\ Image(i) \in Seq(Page) /\ Len(Image(i)) = Size[i]
                         /\ \A p \in 1 .. Size[i] : Image(i)[p] = <<i, p>>
<1>1. {Erased, Own, Garbage} \subseteq Page
  BY DEF Page
<1>2. \A i, p : p \in Nat \ {0} => <<i, p>> \notin {Erased, Own, Garbage}
  BY DEF Erased, Own, Garbage
<1>3. ASSUME NEW i \in Releases
      PROVE  /\ Size[i] \in Nat
             /\ Image(i) \in Seq(Page) /\ Len(Image(i)) = Size[i]
             /\ \A p \in 1 .. Size[i] : Image(i)[p] = <<i, p>>
  <2>1. Size[i] \in Nat
    BY SlotWriterAssumption
  <2>2. \A p \in 1 .. Size[i] : <<i, p>> \in Page
    BY DEF Page
  <2>3. Image(i) = [p \in 1 .. Size[i] |-> <<i, p>>]
    BY DEF Image
  <2>4. Image(i) \in [1 .. Size[i] -> Page]
    BY <2>2, <2>3
  <2> QED
    BY <2>1, <2>3, <2>4
<1> QED
  BY <1>1, <1>2, <1>3

LEMMA Erasing ==
  ASSUME NEW f \in [Offsets -> Page], NEW s \in Nat
  PROVE  /\ EraseSector(f, s) \in [Offsets -> Page] /\ Scrambled(f, s) \in [Offsets -> Page]
         /\ \A o \in Offsets :
              IF o \in s * Pages .. s * Pages + Pages - 1
              THEN EraseSector(f, s)[o] = Erased /\ Scrambled(f, s)[o] = Garbage
              ELSE EraseSector(f, s)[o] = f[o] /\ Scrambled(f, s)[o] = f[o]
<1>1. SectorOf(s) = s * Pages .. s * Pages + Pages - 1
  BY SlotSize DEF SectorOf
<1>2. EraseSector(f, s) = [o \in Offsets |-> IF o \in SectorOf(s) THEN Erased ELSE f[o]]
  BY DEF EraseSector
<1>3. Scrambled(f, s) = [o \in Offsets |-> IF o \in SectorOf(s) THEN Garbage ELSE f[o]]
  BY DEF Scrambled
<1> QED
  BY <1>1, <1>2, <1>3, PagesOfImages

LEMMA Programming ==
  ASSUME NEW f \in [Offsets -> Page], NEW s \in Nat, NEW data \in Seq(Page)
  PROVE  /\ ProgramSector(f, s, data) \in [Offsets -> Page]
         /\ \A o \in Offsets :
              ProgramSector(f, s, data)[o] =
                IF o \in s * Pages .. s * Pages + Len(data) - 1 THEN data[o - s * Pages + 1] ELSE f[o]
<1>1. s * Pages \in Nat /\ Len(data) \in Nat /\ Offsets \subseteq Nat
  BY SlotSize, LenProperties DEF Offsets
<1>2. ProgramSector(f, s, data) =
        [o \in Offsets |-> IF o - s * Pages \in 0 .. Len(data) - 1
                           THEN data[o - s * Pages + 1] ELSE f[o]]
  BY DEF ProgramSector
<1>3. \A o \in Offsets : o - s * Pages \in 0 .. Len(data) - 1
                         <=> o \in s * Pages .. s * Pages + Len(data) - 1
  BY <1>1
<1>4. \A o \in Offsets : o - s * Pages \in 0 .. Len(data) - 1 => data[o - s * Pages + 1] \in Page
  <2>1. \A k \in 1 .. Len(data) : data[k] \in Page
    BY ElementOfSeq
  <2> QED
    BY <1>1, <2>1
<1> QED
  BY <1>2, <1>3, <1>4

(* What the flash must be like, whatever is being done to it.              *)
SlotOK(f) ==
    /\ f \in [Offsets -> Page]
    /\ \A o \in Offsets : o >= Capacity => f[o] = Own
    /\ \A i \in Releases : f[0] = <<i, 1>> =>
         /\ i \in Sound /\ Size[i] <= Capacity
         /\ \A o \in Pages .. Size[i] - 1 : f[o] \in {<<i, o + 1>>, Garbage}

LEMMA SlotOKMeans ==
  /\ TypeOK /\ NeighbourIntact /\ FirstSectorLast /\ BootableFits => SlotOK(flash)
  /\ SlotOK(flash') => NeighbourIntact' /\ FirstSectorLast' /\ BootableFits' /\ flash' \in [Offsets -> Page]
BY DEF SlotOK, NeighbourIntact, FirstSectorLast, BootableFits, Bootable, TypeOK, WriterTypeOK

LEMMA SoundIsRelease == Sound \subseteq Releases
BY DEF Sound

-----------------------------------------------------------------------------
(* The requests and the examination: they leave the flash alone.           *)

LEMMA RequestsKeep ==
  ASSUME CheckInv,
         \/ CheckBegins \/ AskFails \/ Redirected \/ ManifestFails \/ StreamFails
         \/ (\E status \in {404, 500} : Refused(status))
         \/ Readback \/ RolledBack
  PROVE  CheckInv'
<1>1. /\ UNCHANGED <<flash, stream, writer, sector>>
      /\ pc' \in {"idle", "ask", "invalidate", "reboot"}
      /\ pc' = "invalidate" => what' = "asset"
      /\ pc' = "ask" /\ what' = "asset" => pc = "ask"
      /\ what' \in {what, "manifest"}
      /\ faults' \in 0 .. MaxFaults /\ redirects' \in 0 .. MAX_REDIRECTS
      /\ sector = <<>>
      /\ pc \notin {"begin", "commit", "program"}
  BY SMTT(30), OtaCheckAssumption, SlotWriterAssumption
  DEF CheckBegins, AskFails, Redirected, ManifestFails, StreamFails, Refused, Readback,
      RolledBack, Ends, Fails, GoTo, Fault, BetweenChunks, CheckInv, TypeOK, WriterTypeOK,
      AskedFor, Asset, Examined
<1>2. /\ result' \in Failures \cup Phases \cup {"none"} /\ parsed' \in BOOLEAN /\ answered' \in BOOLEAN
      /\ what' = "asset" => answered'
      /\ parsed' => answered'
      /\ result' \notin {"none", "Transport", "BadResponse", "Local"} => answered'
  <2>1. /\ result \in Failures \cup Phases \cup {"none"} /\ parsed \in BOOLEAN /\ answered \in BOOLEAN
        /\ (what = "asset" => answered) /\ (parsed => answered)
        /\ result \notin {"none", "Transport", "BadResponse", "Local"} => answered
        /\ what \in {"asset", "manifest"} /\ (pc = "readback" => what = "asset")
    BY DEF CheckInv, TypeOK, AskedFor, Asset
  <2>2. CASE CheckBegins \/ RolledBack
    BY <2>1, <2>2 DEF CheckBegins, RolledBack
  <2>3. CASE AskFails \/ ManifestFails \/ StreamFails
    BY <2>1, <2>3 DEF AskFails, ManifestFails, StreamFails, Fails, Failures
  <2>4. CASE Redirected
    BY <2>1, <2>4 DEF Redirected, Fails, Failures
  <2>5. CASE \E status \in {404, 500} : Refused(status)
    BY <2>1, <2>5 DEF Refused, Ends, Fails, Failures, Phases
  <2>6. CASE Readback
    BY <2>1, <2>6 DEF Readback, Fails, Failures, Phases
  <2> QED
    BY <2>2, <2>3, <2>4, <2>5, <2>6
<1>3. TypeOK' /\ NeighbourIntact' /\ FirstSectorLast' /\ BootableFits'
  BY <1>1, <1>2 DEF CheckInv, TypeOK, WriterTypeOK, NeighbourIntact, FirstSectorLast, BootableFits, Bootable,
     PCs, stream, writer
<1>4. AskedFor'
  BY <1>1, <1>2 DEF CheckInv, AskedFor, Asset, stream
<1>5. NoneBootable' /\ Fresh' /\ ~Receiving'
  BY <1>1 DEF CheckInv, NoneBootable, Fresh, Asking, Receiving, Bootable, writer
<1>6. Examined'
  BY <1>1 DEF Examined
<1> QED
  BY <1>3, <1>4, <1>5, <1>6 DEF CheckInv

(* The body of the asset begins.                                           *)
LEMMA AcceptedKeeps ==
  ASSUME CheckInv, NEW i \in Releases, Accepted200(i)
  PROVE  CheckInv'
<1>1. /\ pc = "ask" /\ UNCHANGED <<flash, want, writer, faults, what, result, parsed, sector, answered>>
      /\ redirects' = 0 /\ sector = <<>>
      /\ \/ what = "manifest" /\ pc' = "manifest" /\ UNCHANGED <<body, sent, chunk>>
         \/ what = "asset" /\ pc' = "stream" /\ body' = i /\ sent' = 0 /\ chunk' = <<>>
  BY DEF Accepted200, GoTo, stream, CheckInv, Examined, TypeOK
<1>2. TypeOK'
  <2>1. sent' \in 0 .. Size[body'] /\ body' \in Releases /\ chunk' \in Seq(Page)
    <3>1. sent \in 0 .. Size[body] /\ body \in Releases /\ chunk \in Seq(Page)
      BY DEF CheckInv, TypeOK, WriterTypeOK
    <3>2. CASE what = "manifest"
      BY <1>1, <3>1, <3>2
    <3>3. CASE what = "asset"
      BY <1>1, <3>3, PagesOfImages, EmptySeq
    <3> QED
      BY <1>1, <3>2, <3>3
  <2>2. pc' \in PCs /\ redirects' \in 0 .. MAX_REDIRECTS
    BY <1>1, OtaCheckAssumption DEF PCs
  <2> QED
    BY <1>1, <2>1, <2>2 DEF CheckInv, TypeOK, WriterTypeOK, writer
<1>3. NeighbourIntact' /\ FirstSectorLast' /\ BootableFits' /\ NoneBootable' /\ Fresh'
  BY <1>1 DEF CheckInv, NeighbourIntact, FirstSectorLast, BootableFits, Bootable, NoneBootable, Fresh,
     Receiving, Asking, writer
<1>4. AskedFor' /\ Examined'
  BY <1>1 DEF CheckInv, AskedFor, Asset, Examined
<1>5. ASSUME Receiving' PROVE Counted' /\ Placed'
  <2>1. /\ pc' = "stream" /\ buf = <<>> /\ first = <<>> /\ hash = <<>> /\ next_sector = 0
        /\ buf' = <<>> /\ first' = <<>> /\ hash' = <<>> /\ next_sector' = 0 /\ chunk' = <<>>
        /\ Size[want'] \in Nat
    BY <1>1, <1>5, PagesOfImages DEF Receiving, CheckInv, Fresh, Asking, writer, TypeOK, WriterTypeOK
  <2>2. Flushed' = 0 /\ Pages \in Nat \ {0}
    BY <2>1, SlotSize DEF Flushed
  <2> QED
    BY <2>1, <2>2, EmptySeq DEF Counted, Placed, AllFlushed
<1> QED
  BY <1>2, <1>3, <1>4, <1>5 DEF CheckInv

(* The manifest has come.                                                  *)
LEMMA ManifestKeeps ==
  ASSUME CheckInv, NEW i \in Releases, Manifest(i)
  PROVE  CheckInv'
<1>1. /\ pc = "manifest" /\ what = "manifest" /\ sector = <<>>
      /\ UNCHANGED <<flash, body, sent, chunk, writer, faults, redirects, sector>>
      /\ parsed' = TRUE /\ answered' = TRUE
      /\ pc' \in {"idle", "reboot", "begin"} /\ want' \in {want, i}
      /\ what' = "asset" => pc' = "begin" /\ Size[want'] > 0 /\ Size[want'] <= Capacity
      /\ what' \in {"asset", "manifest"}
      /\ pc' = "begin" => what' = "asset"
      /\ result' \in Failures \cup Phases \cup {"none"}
  BY DEF Manifest, Ends, GoTo, CheckInv, AskedFor, Examined, TypeOK, Failures, Phases
<1>2. TypeOK' /\ NeighbourIntact' /\ FirstSectorLast' /\ BootableFits'
  BY <1>1 DEF CheckInv, TypeOK, WriterTypeOK, NeighbourIntact, FirstSectorLast, BootableFits, Bootable,
     PCs, writer
<1>3. AskedFor'
  <2>1. what' = "asset" => Size[want'] \in 1 .. Capacity
    <3>1. want' \in Releases
      BY <1>1 DEF CheckInv, TypeOK, WriterTypeOK
    <3>2. Size[want'] \in Nat /\ Capacity \in Nat
      BY <3>1, SlotSize, PagesOfImages
    <3>3. what' = "asset" => Size[want'] > 0 /\ Size[want'] <= Capacity
      BY <1>1
    <3> QED
      BY ONLY <3>2, <3>3
  <2> QED
    BY <1>1, <2>1 DEF AskedFor, Asset
<1>4. NoneBootable' /\ Fresh' /\ ~Receiving' /\ Examined'
  BY <1>1 DEF NoneBootable, Fresh, Asking, Receiving, Examined
<1> QED
  BY <1>2, <1>3, <1>4 DEF CheckInv

(* The body ends; the examination.                                         *)
LEMMA EndOfBodyKeeps ==
  ASSUME CheckInv, EndOfBody
  PROVE  CheckInv'
<1>1. /\ pc = "stream" /\ chunk = <<>> /\ Len(buf) < Pages /\ pc' = "finish"
      /\ UNCHANGED <<flash, stream, writer, faults, check>> /\ sector = <<>>
  BY DEF EndOfBody, BetweenChunks, GoTo, CheckInv, Examined
<1>2. TypeOK' /\ NeighbourIntact' /\ FirstSectorLast' /\ BootableFits' /\ AskedFor'
      /\ NoneBootable' /\ Fresh' /\ Examined'
  BY <1>1 DEF CheckInv, TypeOK, WriterTypeOK, NeighbourIntact, FirstSectorLast, BootableFits, Bootable, PCs,
     writer, stream, check, AskedFor, Asset, NoneBootable, Fresh, Receiving, Asking, Examined
<1>3. Counted /\ Placed /\ ~AllFlushed
  BY <1>1 DEF CheckInv, Receiving, AllFlushed
<1>4. Counted'
  <2>1. Flushed' = Flushed /\ UNCHANGED <<hash, buf, chunk, first, next_sector, want>>
    BY <1>1 DEF Flushed, writer, stream
  <2>2. Len(hash) = Flushed + Len(buf) + Len(chunk) /\ Len(hash) <= Size[want]
        /\ Len(first) <= Pages /\ Len(first) <= Len(hash) /\ (next_sector = 0 => first = <<>>)
        /\ Len(buf) <= Pages
    BY <1>3 DEF Counted
  <2>3. Len(chunk) = 0 /\ (buf = <<>> => Len(buf) = 0) /\ Flushed \in Nat
    BY <1>1, EmptySeq, SlotSize DEF Flushed, CheckInv, TypeOK, WriterTypeOK
  <2>4. AllFlushed' => Len(hash) <= Flushed
    BY <2>1, <2>2, <2>3 DEF AllFlushed
  <2> QED
    BY <1>1, <2>1, <2>2, <2>4 DEF Counted
<1>5. Placed'
  BY <1>1, <1>3 DEF Placed, Flushed, writer, stream
<1> QED
  BY <1>2, <1>4, <1>5 DEF CheckInv

LEMMA VerifyKeeps ==
  ASSUME CheckInv, Verify
  PROVE  CheckInv'
<1>1. /\ pc = "finish" /\ buf = <<>> /\ sector = <<>>
      /\ UNCHANGED <<flash, stream, writer, faults, what, redirects, parsed, answered>>
      /\ what = "asset" /\ result' \in {result, "Local"}
      /\ \/ pc' = "invalidate" /\ sector' = <<>>
         \/ /\ pc' = "commit" /\ hash = Image(want)
            /\ sector' \in FirstSector[want] /\ Checked(sector', Version[want])
  BY DEF Verify, GoTo, Fails, DigestMatches, CheckInv, Examined, AskedFor, Asset
<1>2. TypeOK' /\ NeighbourIntact' /\ FirstSectorLast' /\ BootableFits'
  BY <1>1 DEF CheckInv, TypeOK, WriterTypeOK, NeighbourIntact, FirstSectorLast, BootableFits, Bootable, PCs,
     writer, stream, Failures
<1>3. AskedFor' /\ NoneBootable' /\ Fresh'
  BY <1>1 DEF CheckInv, AskedFor, Asset, NoneBootable, Fresh, Receiving, Asking, Bootable, writer, stream
<1>4. Examined'
  BY <1>1 DEF Examined, Image, writer, stream, Sound, CheckInv, TypeOK, WriterTypeOK
<1>5. ASSUME Receiving' PROVE Counted' /\ Placed'
  <2>1. Counted /\ Placed /\ pc' = "commit" /\ AllFlushed /\ AllFlushed'
    BY <1>1, <1>5 DEF CheckInv, Receiving, AllFlushed, writer
  <2>2. Flushed' = Flushed /\ UNCHANGED <<hash, buf, chunk, first, next_sector, want, flash>>
    BY <1>1 DEF Flushed, writer, stream
  <2> QED
    BY <2>1, <2>2 DEF Counted, Placed
<1> QED
  BY <1>2, <1>3, <1>4, <1>5 DEF CheckInv

-----------------------------------------------------------------------------
(* The writer.                                                             *)

LEMMA FirstSectorGone ==
  ASSUME NEW f, SlotOK(f), NEW g \in {EraseSector(f, 0), Scrambled(f, 0)}
  PROVE  /\ SlotOK(g) /\ \A i \in Releases : g[0] # <<i, 1>>
         /\ \A o \in Offsets : o >= Pages => g[o] = f[o]
<1>1. f \in [Offsets -> Page] /\ 0 \in Offsets /\ Offsets \subseteq Nat
  BY SlotSize DEF SlotOK, Offsets
<1>2. 0 * Pages = 0 /\ Pages \in Nat \ {0} /\ Capacity \in Nat /\ Pages <= Capacity
  BY SlotSize
<1>3. /\ g \in [Offsets -> Page]
      /\ \A o \in Offsets : IF o \in 0 .. Pages - 1 THEN g[o] \in {Erased, Garbage} ELSE g[o] = f[o]
  BY <1>1, <1>2, Erasing
<1>4. g[0] \in {Erased, Garbage}
  BY <1>1, <1>2, <1>3
<1>5. ASSUME NEW i \in Releases PROVE g[0] # <<i, 1>>
  <2>1. <<i, 1>> \notin {Erased, Garbage}
    BY DEF Erased, Garbage
  <2> QED
    BY <1>4, <2>1
<1>6. \A o \in Offsets : o >= Pages => g[o] = f[o]
  BY <1>1, <1>2, <1>3
<1> QED
  BY <1>1, <1>2, <1>3, <1>5, <1>6 DEF SlotOK

(* A sector behind the first one changes, and nothing can be booted.       *)
LEMMA LaterSector ==
  ASSUME NEW f, SlotOK(f), NEW s \in Nat \ {0}, s < Sectors,
         \A i \in Releases : f[0] # <<i, 1>>,
         NEW g \in [Offsets -> Page],
         \A o \in Offsets : g[o] = f[o] \/ o \in s * Pages .. s * Pages + Pages - 1
  PROVE  SlotOK(g) /\ \A i \in Releases : g[0] # <<i, 1>>
<1>1. /\ s * Pages + Pages <= Capacity /\ s * Pages \in Nat /\ s * Pages >= Pages
      /\ Pages \in Nat \ {0} /\ Capacity \in Nat
  BY SlotSize
<1>2. 0 \in Offsets /\ Offsets \subseteq Nat
  BY SlotSize DEF Offsets
<1>3. g[0] = f[0]
  BY <1>1, <1>2
<1>4. ASSUME NEW o \in Offsets, o >= Capacity PROVE g[o] = f[o]
  <2> DEFINE a == s * Pages
  <2>1. a + Pages <= Capacity /\ a \in Nat /\ Pages \in Nat /\ o \in Nat /\ Capacity \in Nat
    BY <1>1, <1>2
  <2>2. g[o] = f[o] \/ o \in a .. a + Pages - 1
    OBVIOUS
  <2> HIDE DEF a
  <2> QED
    BY <1>4, <2>1, <2>2
<1>5. \A i \in Releases : g[0] = <<i, 1>> => f[0] = <<i, 1>>
  BY <1>3
<1> QED
  BY <1>3, <1>4 DEF SlotOK

LEMMA BeginKeeps ==
  ASSUME CheckInv, Begin, UNCHANGED check
  PROVE  CheckInv'
<1>1. /\ pc = "begin" /\ pc' = "ask" /\ flash' = EraseSector(flash, 0) /\ sector = <<>>
      /\ buf' = <<>> /\ first' = <<>> /\ hash' = <<>> /\ next_sector' = 0
      /\ UNCHANGED <<want, body, sent, chunk, faults, what, redirects, result, parsed, sector, answered>>
  BY DEF Begin, GoTo, stream, check, CheckInv, Examined
<1>2. SlotOK(flash') /\ \A i \in Releases : flash'[0] # <<i, 1>>
  BY <1>1, SlotOKMeans, FirstSectorGone DEF CheckInv
<1>3. NeighbourIntact' /\ FirstSectorLast' /\ BootableFits' /\ flash' \in [Offsets -> Page]
  BY <1>2, SlotOKMeans
<1>4. TypeOK'
  <2>1. buf' \in Seq(Page) /\ first' \in Seq(Page) /\ hash' \in Seq(Page) /\ next_sector' \in 0 .. Sectors
    BY <1>1, EmptySeq, SlotSize
  <2> QED
    BY <1>1, <1>3, <2>1 DEF CheckInv, TypeOK, WriterTypeOK, PCs
<1>5. AskedFor' /\ NoneBootable' /\ Fresh' /\ ~Receiving' /\ Examined'
  BY <1>1, <1>2 DEF CheckInv, AskedFor, Asset, NoneBootable, Fresh, Receiving, Asking, Bootable, Examined
<1> QED
  BY <1>3, <1>4, <1>5 DEF CheckInv

(* What keeps the flash, want and the check.                               *)
LEMMA RamKeeps ==
  ASSUME CheckInv, UNCHANGED <<flash, want, body, faults, what, redirects, parsed, sector, answered>>,
         pc \in {"stream", "finish"}, sent' \in 0 .. Size[body],
         \/ pc' = pc /\ result' = result
         \/ pc = "stream" /\ pc' = "invalidate" /\ result' = "Local",
         chunk' \in Seq(Page), buf' \in Seq(Page), first' \in Seq(Page), hash' \in Seq(Page),
         next_sector' \in 0 .. Sectors,
         pc' = pc => Counted' /\ Placed'
  PROVE  CheckInv'
<1>1. TypeOK' /\ NeighbourIntact' /\ FirstSectorLast' /\ BootableFits'
  BY DEF CheckInv, TypeOK, WriterTypeOK, NeighbourIntact, FirstSectorLast, BootableFits, Bootable, PCs, Failures
<1>2. AskedFor' /\ NoneBootable' /\ Fresh' /\ Examined'
  BY DEF CheckInv, AskedFor, Asset, NoneBootable, Fresh, Receiving, Asking, Bootable, Examined
<1>3. Receiving' => pc' = pc
  BY DEF Receiving
<1> QED
  BY <1>1, <1>2, <1>3 DEF CheckInv

LEMMA PushKeeps ==
  ASSUME CheckInv, NEW n \in 1 .. Capacity + Pages, Push(n),
         result' = IF pc' = "invalidate" THEN "Local" ELSE result,
         UNCHANGED <<what, redirects, parsed, sector, answered>>
  PROVE  CheckInv'
<1>1. /\ pc = "stream" /\ chunk = <<>> /\ n \in 1 .. Size[body] - sent /\ sent' = sent + n
      /\ UNCHANGED <<flash, want, body, buf, first, next_sector, faults>>
      /\ \/ pc' = "invalidate" /\ UNCHANGED <<chunk, hash>>
         \/ /\ pc' = pc /\ ~TooLong(n) /\ chunk' = SubSeq(Image(body), sent + 1, sent + n)
            /\ hash' = hash \o chunk'
  BY DEF Push, GoTo
<1>2. /\ body \in Releases /\ sent \in 0 .. Size[body] /\ Size[body] \in Nat /\ Size[want] \in Nat
      /\ chunk \in Seq(Page) /\ buf \in Seq(Page) /\ first \in Seq(Page) /\ hash \in Seq(Page)
      /\ next_sector \in 0 .. Sectors
  BY PagesOfImages DEF CheckInv, TypeOK, WriterTypeOK
<1>3. sent' \in 0 .. Size[body]
  BY <1>1, <1>2
<1>4. CASE pc' = "invalidate"
  BY <1>1, <1>2, <1>3, <1>4, RamKeeps
<1>5. CASE pc' = pc
  <2>0. ~TooLong(n) /\ chunk' = SubSeq(Image(body), sent + 1, sent + n) /\ hash' = hash \o chunk'
    BY <1>1, <1>5
  <2>1. chunk' \in Seq(Page) /\ Len(chunk') = n
    <3>1. \A k \in sent + 1 .. sent + n : Image(body)[k] \in Page
      BY <1>1, <1>2, PagesOfImages, ElementOfSeq
    <3>2. /\ sent + 1 \in Int /\ sent + n \in Int /\ sent + 1 <= sent + n
          /\ sent + n - (sent + 1) + 1 = n /\ Image(body) \in Seq(Page)
      BY <1>1, <1>2, PagesOfImages
    <3> DEFINE a == Image(body)
               l == sent + 1
               r == sent + n
    <3>3. l \in Int /\ r \in Int /\ l <= r /\ r - l + 1 = n
      BY <1>1, <1>2
    <3>6. \A k \in l .. r : a[k] \in Page
      BY <3>1
    <3>4. chunk' = SubSeq(a, l, r)
      BY <2>0
    <3> HIDE DEF a, l, r
    <3>5. SubSeq(a, l, r) \in Seq(Page) /\ Len(SubSeq(a, l, r)) = r - l + 1
      BY <3>3, <3>6, SubSeqProperties
    <3> QED
      BY <3>3, <3>4, <3>5
  <2>2. /\ hash' \in Seq(Page) /\ Len(hash') = Len(hash) + n
        /\ \A k \in 1 .. Len(hash) + n : hash'[k] = IF k <= Len(hash) THEN hash[k] ELSE chunk'[k - Len(hash)]
    BY <1>2, <2>0, <2>1, ConcatProperties
  <2>3. /\ Counted /\ Placed /\ Len(hash) = Flushed + Len(buf) + 0
        /\ Len(buf) \in Nat /\ Len(first) \in Nat /\ Len(hash) \in Nat /\ Flushed \in Nat
    <3>1. Counted /\ Placed /\ ~AllFlushed
      BY <1>1 DEF CheckInv, Receiving, AllFlushed
    <3>2. Len(chunk) = 0 /\ Len(buf) \in Nat /\ Len(first) \in Nat /\ Len(hash) \in Nat /\ Flushed \in Nat
      BY <1>1, <1>2, EmptySeq, LenProperties, SlotSize DEF Flushed
    <3> QED
      BY <3>1, <3>2 DEF Counted
  <2>4. Counted'
    <3>1. Len(hash') <= Size[want]
      BY <1>2, <2>0, <2>2, <2>3 DEF TooLong
    <3>2. Flushed' = Flushed /\ ~AllFlushed'
      BY <1>1, <1>5 DEF Flushed, AllFlushed
    <3>3. Len(hash') = Flushed + Len(buf) + Len(chunk')
      BY <2>1, <2>2, <2>3
    <3>4. /\ want' = want /\ buf' = buf /\ first' = first /\ next_sector' = next_sector /\ pc' = "stream"
      BY <1>1, <1>5
    <3>5. /\ Len(buf) <= Pages /\ Len(first) <= Pages /\ (next_sector = 0 => first = <<>>)
          /\ Len(first) <= Len(hash')
      BY <1>2, <2>2, <2>3 DEF Counted
    <3> QED
      BY <3>1, <3>2, <3>3, <3>4, <3>5 DEF Counted
  <2>5. Placed'
    <3>1. \A k \in 1 .. Len(chunk') : chunk'[k] = hash'[Len(hash') - Len(chunk') + k]
      <4> TAKE k \in 1 .. Len(chunk')
      <4>1. n \in Nat /\ k \in 1 .. n /\ Len(hash) \in Nat
        BY <1>2, <2>1, <2>3
      <4>2. Len(hash') - Len(chunk') + k = Len(hash) + k /\ Len(hash) + k \in 1 .. Len(hash) + n
        BY <2>1, <2>2, <4>1
      <4>3. ~(Len(hash) + k <= Len(hash)) /\ Len(hash) + k - Len(hash) = k
        BY <4>1
      <4> QED
        BY <2>2, <4>2, <4>3
    <3>2. \A k \in 1 .. Len(buf) : buf[k] = hash'[Flushed + k]
      BY <2>2, <2>3 DEF Placed
    <3>3. \A k \in 1 .. Len(first) : first[k] = hash'[k]
      BY <2>2, <2>3 DEF Placed, Counted
    <3>4. ASSUME NEW o \in Pages .. Len(hash') - 1, o < Flushed
          PROVE  flash[o] \in {hash'[o + 1], Garbage}
      <4>1. o \in Nat /\ o + 1 \in 1 .. Len(hash) /\ o \in Pages .. Len(hash) - 1
        BY SlotSize, <2>3, <3>4
      <4>2. hash'[o + 1] = hash[o + 1]
        BY <1>2, <2>2, <2>3, <4>1
      <4> QED
        BY <2>3, <3>4, <4>1, <4>2 DEF Placed
    <3>5. Flushed' = Flushed
      BY <1>1 DEF Flushed
    <3> QED
      BY <1>1, <3>1, <3>2, <3>3, <3>4, <3>5 DEF Placed
  <2> QED
    BY <1>1, <1>2, <1>3, <1>5, <2>1, <2>2, <2>4, <2>5, RamKeeps
<1> QED
  BY <1>1, <1>4, <1>5

LEMMA FillKeeps ==
  ASSUME CheckInv, Fill, UNCHANGED check
  PROVE  CheckInv'
<1> DEFINE room == Pages - Len(buf)
           n == IF room < Len(chunk) THEN room ELSE Len(chunk)
<1>1. /\ pc = "stream" /\ chunk # <<>> /\ Len(buf) < Pages /\ pc' = pc
      /\ buf' = buf \o SubSeq(chunk, 1, n) /\ chunk' = SubSeq(chunk, n + 1, Len(chunk))
      /\ UNCHANGED <<flash, want, body, sent, first, hash, next_sector, faults>>
      /\ UNCHANGED <<what, redirects, result, parsed, sector, answered>>
  BY DEF Fill, check
<1>2. /\ chunk \in Seq(Page) /\ buf \in Seq(Page) /\ first \in Seq(Page) /\ hash \in Seq(Page)
      /\ next_sector \in 0 .. Sectors /\ sent \in 0 .. Size[body]
      /\ Len(chunk) \in Nat \ {0} /\ Len(buf) \in Nat /\ Len(hash) \in Nat /\ Flushed \in Nat
      /\ Pages \in Nat \ {0}
  <2>1. /\ chunk \in Seq(Page) /\ buf \in Seq(Page) /\ first \in Seq(Page) /\ hash \in Seq(Page)
        /\ next_sector \in 0 .. Sectors /\ sent \in 0 .. Size[body]
    BY DEF CheckInv, TypeOK, WriterTypeOK
  <2>2. Len(chunk) \in Nat \ {0} /\ Len(buf) \in Nat /\ Len(hash) \in Nat
    BY <1>1, <2>1, EmptySeq, LenProperties
  <2>3. Flushed \in Nat /\ Pages \in Nat \ {0}
    BY <2>1, SlotSize DEF Flushed
  <2> QED
    BY <2>1, <2>2, <2>3
<1>3. n \in 1 .. Len(chunk) /\ n <= Pages - Len(buf)
  BY <1>1, <1>2
<1> HIDE DEF n
<1>4. \A k \in 1 .. Len(chunk) : chunk[k] \in Page
  BY <1>2, ElementOfSeq
<1>5. /\ SubSeq(chunk, 1, n) \in Seq(Page) /\ Len(SubSeq(chunk, 1, n)) = n
      /\ \A k \in 1 .. n : SubSeq(chunk, 1, n)[k] = chunk[k]
  <2>1. \A k \in 1 .. n : chunk[k] \in Page
    BY <1>2, <1>3, <1>4
  <2>2. n \in Int /\ 1 <= n
    BY <1>2, <1>3
  <2>3. /\ SubSeq(chunk, 1, n) \in Seq(Page) /\ Len(SubSeq(chunk, 1, n)) = n - 1 + 1
        /\ \A k \in 1 .. n - 1 + 1 : SubSeq(chunk, 1, n)[k] = chunk[1 + k - 1]
    BY <2>1, <2>2, SubSeqProperties
  <2> QED
    BY <2>2, <2>3
<1>6. /\ chunk' \in Seq(Page) /\ Len(chunk') = Len(chunk) - n
      /\ \A k \in 1 .. Len(chunk) - n : chunk'[k] = chunk[n + k]
  <2>1. \A k \in n + 1 .. Len(chunk) : chunk[k] \in Page
    BY <1>2, <1>3, <1>4
  <2>2. n + 1 \in Int /\ Len(chunk) \in Int
    BY <1>2, <1>3
  <2>3. /\ chunk' \in Seq(Page)
        /\ Len(chunk') = IF n + 1 <= Len(chunk) THEN Len(chunk) - (n + 1) + 1 ELSE 0
        /\ \A k \in 1 .. Len(chunk) - (n + 1) + 1 : chunk'[k] = chunk[n + 1 + k - 1]
    BY SMTT(30), <1>1, <2>1, <2>2, SubSeqProperties
  <2> QED
    BY <1>2, <1>3, <2>3
<1>7. /\ buf' \in Seq(Page) /\ Len(buf') = Len(buf) + n
      /\ \A k \in 1 .. Len(buf) + n : buf'[k] = IF k <= Len(buf) THEN buf[k] ELSE chunk[k - Len(buf)]
  <2>1. /\ buf' \in Seq(Page) /\ Len(buf') = Len(buf) + n
        /\ \A k \in 1 .. Len(buf) + n :
             buf'[k] = IF k <= Len(buf) THEN buf[k] ELSE SubSeq(chunk, 1, n)[k - Len(buf)]
    BY <1>1, <1>2, <1>5, ConcatProperties
  <2>2. ASSUME NEW k \in 1 .. Len(buf) + n, ~(k <= Len(buf))
        PROVE  SubSeq(chunk, 1, n)[k - Len(buf)] = chunk[k - Len(buf)]
    <3>1. k - Len(buf) \in 1 .. n
      BY <1>2, <1>3, <2>2
    <3> QED
      BY <1>5, <3>1
  <2> QED
    BY <2>1, <2>2
<1>8. Counted /\ Placed /\ Len(hash) = Flushed + Len(buf) + Len(chunk)
  BY <1>1 DEF CheckInv, Receiving, AllFlushed, Counted
<1>9. Counted'
  <2>1. Flushed' = Flushed /\ ~AllFlushed' /\ pc' # "finish"
    BY <1>1 DEF Flushed, AllFlushed
  <2>2. Len(hash) = Flushed + Len(buf') + Len(chunk') /\ Len(buf') <= Pages
    BY <1>2, <1>3, <1>6, <1>7, <1>8
  <2> QED
    BY <1>1, <1>8, <2>1, <2>2 DEF Counted
<1>10. Placed'
  <2>1. \A k \in 1 .. Len(chunk') : chunk'[k] = hash[Len(hash) - Len(chunk') + k]
    <3> SUFFICES ASSUME NEW k \in 1 .. Len(chunk')
                 PROVE  chunk'[k] = hash[Len(hash) - Len(chunk') + k]
      OBVIOUS
    <3>1. n + k \in 1 .. Len(chunk) /\ chunk'[k] = chunk[n + k]
      BY <1>2, <1>3, <1>6
    <3>2. chunk[n + k] = hash[Len(hash) - Len(chunk) + (n + k)]
      BY <1>8, <3>1 DEF Placed
    <3>3. Len(hash) - Len(chunk) + (n + k) = Len(hash) - Len(chunk') + k
      BY <1>2, <1>3, <1>6
    <3> QED
      BY <3>1, <3>2, <3>3
  <2>2. \A k \in 1 .. Len(buf') : buf'[k] = hash[Flushed + k]
    <3> SUFFICES ASSUME NEW k \in 1 .. Len(buf') PROVE buf'[k] = hash[Flushed + k]
      OBVIOUS
    <3>1. CASE k <= Len(buf)
      <4>1. k \in 1 .. Len(buf) /\ buf'[k] = buf[k]
        BY <1>2, <1>3, <1>7, <3>1
      <4> QED
        BY <1>8, <4>1 DEF Placed
    <3>2. CASE k > Len(buf)
      <4>1. k - Len(buf) \in 1 .. Len(chunk) /\ buf'[k] = chunk[k - Len(buf)]
        BY <1>2, <1>3, <1>7, <3>2
      <4>2. chunk[k - Len(buf)] = hash[Len(hash) - Len(chunk) + (k - Len(buf))]
        BY <1>8, <4>1 DEF Placed
      <4>3. Len(hash) - Len(chunk) + (k - Len(buf)) = Flushed + k
        BY <1>2, <1>7, <1>8
      <4> QED
        BY <4>1, <4>2, <4>3
    <3> QED
      BY <1>2, <1>7, <3>1, <3>2
  <2>3. Flushed' = Flushed
    BY <1>1 DEF Flushed
  <2> QED
    BY <1>1, <1>8, <2>1, <2>2, <2>3 DEF Placed
<1> QED
  BY <1>1, <1>2, <1>6, <1>7, <1>9, <1>10, RamKeeps

-----------------------------------------------------------------------------
(* A sector is written out.                                                *)

LEMMA SectorFull ==
  ASSUME CheckInv, MustFlush
  PROVE  /\ pc \in {"stream", "finish"} /\ Counted /\ Placed /\ sector = <<>>
         /\ buf \in Seq(Page) /\ first \in Seq(Page) /\ hash \in Seq(Page) /\ chunk \in Seq(Page)
         /\ Len(buf) \in 1 .. Pages /\ Len(chunk) \in Nat /\ Len(hash) \in Nat /\ Len(first) \in Nat
         /\ Flushed \in Nat /\ Len(hash) = Flushed + Len(buf) + Len(chunk)
         /\ next_sector \in Nat /\ next_sector < Sectors
         /\ Pages \in Nat \ {0} /\ (next_sector + 1) * Pages = Flushed + Pages
         /\ pc = "stream" => Len(buf) = Pages
         /\ pc = "finish" => chunk = <<>> /\ Len(chunk) = 0
         /\ Len(hash) <= Capacity /\ Capacity \in Nat
<1>1. /\ pc \in {"stream", "finish"} /\ (pc = "stream" => Len(buf) = Pages)
      /\ pc = "finish" => buf # <<>>
  BY DEF MustFlush, AtEnd
<1>2. Counted /\ Placed /\ sector = <<>> /\ Size[want] \in 1 .. Capacity
  BY <1>1 DEF CheckInv, Receiving, Examined, AskedFor, Asset
<1>3. /\ buf \in Seq(Page) /\ first \in Seq(Page) /\ hash \in Seq(Page) /\ chunk \in Seq(Page)
      /\ next_sector \in 0 .. Sectors
  BY DEF CheckInv, TypeOK, WriterTypeOK
<1>4. /\ Len(buf) \in Nat /\ Len(chunk) \in Nat /\ Len(hash) \in Nat /\ Len(first) \in Nat
      /\ (buf # <<>> => Len(buf) > 0) /\ Len(<<>>) = 0
  BY <1>3, EmptySeq, LenProperties
<1>5. /\ Pages \in Nat \ {0} /\ Sectors \in Nat /\ next_sector \in Nat /\ Flushed \in Nat
      /\ (next_sector + 1) * Pages = Flushed + Pages /\ Capacity \in Nat
  BY <1>3, SlotSize DEF Flushed
<1>6. buf # <<>>
  BY <1>1, <1>4, <1>5
<1>7. Len(hash) = Flushed + Len(buf) + Len(chunk) /\ Len(hash) <= Size[want] /\ Len(buf) <= Pages
      /\ (pc = "finish" => chunk = <<>>)
  BY <1>2, <1>6 DEF Counted, AllFlushed
<1>8. next_sector < Sectors
  <2>1. Flushed < Capacity
    BY <1>2, <1>4, <1>5, <1>6, <1>7
  <2> QED
    BY <1>5, <2>1, SlotSize DEF Flushed
<1> QED
  BY <1>1, <1>2, <1>3, <1>4, <1>5, <1>6, <1>7, <1>8

(* Where it is from then on.                                               *)
LEMMA WrittenOut ==
  ASSUME CheckInv, MustFlush, UNCHANGED <<pc, want, hash, chunk>>,
         buf' = <<>>, next_sector' = next_sector + 1,
         Len(first') <= Pages, Len(first') <= Len(hash),
         \A k \in 1 .. Len(first') : first'[k] = hash[k],
         \A o \in Pages .. Len(hash) - 1 :
           o < Flushed + Pages => flash'[o] \in {hash[o + 1], Garbage}
  PROVE  Counted' /\ Placed'
<1>1. /\ pc \in {"stream", "finish"} /\ Counted /\ Placed
      /\ Len(buf) \in 1 .. Pages /\ Len(chunk) \in Nat /\ Len(hash) \in Nat
      /\ Flushed \in Nat /\ Len(hash) = Flushed + Len(buf) + Len(chunk)
      /\ next_sector \in Nat
      /\ Pages \in Nat \ {0} /\ (next_sector + 1) * Pages = Flushed + Pages
      /\ pc = "stream" => Len(buf) = Pages
      /\ pc = "finish" => chunk = <<>> /\ Len(chunk) = 0
  BY SectorFull
<1>2. Flushed' = Flushed + Pages /\ next_sector' # 0 /\ Len(<<>>) = 0
  BY <1>1, EmptySeq DEF Flushed
<1>3. Len(hash) <= Size[want]
  BY <1>1 DEF Counted
<1>4. CASE pc = "stream"
  <2>1. Len(hash) = Flushed' + 0 + Len(chunk) /\ ~AllFlushed'
    BY <1>1, <1>2, <1>4 DEF AllFlushed
  <2>2. Counted'
    BY <1>1, <1>2, <1>3, <1>4, <2>1 DEF Counted
  <2>3. Placed'
    BY <1>1, <1>2 DEF Placed
  <2> QED
    BY <2>2, <2>3
<1>5. CASE pc = "finish"
  <2>1. Len(hash) <= Flushed' /\ AllFlushed'
    BY <1>1, <1>2, <1>5 DEF AllFlushed
  <2>2. Counted'
    BY <1>1, <1>2, <1>3, <1>5, <2>1 DEF Counted
  <2>3. Placed'
    BY <1>1, <1>2 DEF Placed
  <2> QED
    BY <2>2, <2>3
<1> QED
  BY <1>1, <1>4, <1>5

LEMMA FlushFirstKeeps ==
  ASSUME CheckInv, FlushFirst, UNCHANGED check
  PROVE  CheckInv'
<1>1. /\ MustFlush /\ next_sector = 0 /\ first' = buf /\ buf' = <<>> /\ next_sector' = next_sector + 1
      /\ UNCHANGED <<flash, pc, want, body, sent, chunk, hash, faults>>
      /\ UNCHANGED <<what, redirects, result, parsed, sector, answered>>
  BY DEF FlushFirst, KeepInRam, stream, check
<1>2. /\ pc \in {"stream", "finish"} /\ Counted /\ Placed
      /\ buf \in Seq(Page) /\ hash \in Seq(Page) /\ chunk \in Seq(Page)
      /\ Len(buf) \in 1 .. Pages /\ Len(chunk) \in Nat /\ Len(hash) \in Nat
      /\ Len(hash) = Flushed + Len(buf) + Len(chunk)
      /\ next_sector' \in 0 .. Sectors /\ Pages \in Nat \ {0}
  <2>1. Sectors \in Nat
    BY SlotSize
  <2> QED
    BY <1>1, <2>1, SectorFull
<1>3. Flushed = 0
  BY <1>1, SlotSize DEF Flushed
<1>4. Counted' /\ Placed'
  <2>1. Len(first') <= Pages /\ Len(first') <= Len(hash)
    BY <1>1, <1>2, <1>3
  <2>2. \A k \in 1 .. Len(first') : first'[k] = hash[k]
    <3>1. \A k \in 1 .. Len(buf) : buf[k] = hash[0 + k]
      BY <1>2, <1>3 DEF Placed
    <3> QED
      BY <1>1, <1>2, <3>1
  <2>3. \A o \in Pages .. Len(hash) - 1 : ~(o < Flushed + Pages)
    BY <1>2, <1>3
  <2> QED
    BY <1>1, <2>1, <2>2, <2>3, WrittenOut
<1>5. <<>> \in Seq(Page) /\ sent' \in 0 .. Size[body]
  BY <1>1, EmptySeq DEF CheckInv, TypeOK, WriterTypeOK
<1> QED
  BY <1>1, <1>2, <1>4, <1>5, RamKeeps

LEMMA PrefixProperties ==
  ASSUME NEW S, NEW q \in Seq(S), NEW n \in 0 .. Len(q)
  PROVE  /\ SubSeq(q, 1, n) \in Seq(S) /\ Len(SubSeq(q, 1, n)) = n
         /\ \A k \in 1 .. n : SubSeq(q, 1, n)[k] = q[k]
<1>1. Len(q) \in Nat /\ n \in Int /\ 1 \in Int /\ \A k \in 1 .. n : q[k] \in S
  BY LenProperties, ElementOfSeq
<1>2. /\ SubSeq(q, 1, n) \in Seq(S)
      /\ Len(SubSeq(q, 1, n)) = IF 1 <= n THEN n - 1 + 1 ELSE 0
      /\ \A k \in 1 .. n - 1 + 1 : SubSeq(q, 1, n)[k] = q[1 + k - 1]
  BY <1>1, SubSeqProperties
<1> QED
  BY <1>1, <1>2

LEMMA ProgramNothing ==
  ASSUME NEW f \in [Offsets -> Page], NEW s \in Nat
  PROVE  ProgramSector(f, s, <<>>) = f
<1>1. <<>> \in Seq(Page) /\ Len(<<>>) = 0 /\ s * Pages \in Nat
  BY EmptySeq, SlotSize
<1> DEFINE a == s * Pages
           g == ProgramSector(f, s, <<>>)
<1>2. /\ g \in [Offsets -> Page]
      /\ \A o \in Offsets :
           g[o] = IF o \in a .. a + Len(<<>>) - 1 THEN <<>>[o - a + 1] ELSE f[o]
  BY <1>1, Programming
<1>3. \A o : o \notin a .. a + Len(<<>>) - 1
  <2>1. a \in Nat
    BY <1>1
  <2> HIDE DEF a
  <2> QED
    BY <1>1, <2>1
<1> HIDE DEF a, g
<1>4. \A o \in Offsets : g[o] = f[o]
  BY <1>2, <1>3
<1>5. g = f
  BY <1>2, <1>4
<1> QED
  BY <1>5 DEF g

(* What may become of a later sector.                                      *)
LEMMA LaterWritten ==
  ASSUME NEW f, SlotOK(f), NEW s \in Nat \ {0}, s < Sectors,
         \A i \in Releases : f[0] # <<i, 1>>,
         NEW data \in Seq(Page), Len(data) <= Pages
  PROVE  /\ SlotOK(Scrambled(f, s)) /\ \A i \in Releases : Scrambled(f, s)[0] # <<i, 1>>
         /\ SlotOK(ProgramSector(EraseSector(f, s), s, data))
         /\ \A i \in Releases : ProgramSector(EraseSector(f, s), s, data)[0] # <<i, 1>>
         /\ \A o \in Offsets :
              ProgramSector(EraseSector(f, s), s, data)[o] =
                IF o \in s * Pages .. s * Pages + Len(data) - 1 THEN data[o - s * Pages + 1]
                ELSE IF o \in s * Pages .. s * Pages + Pages - 1 THEN Erased ELSE f[o]
<1> DEFINE e == EraseSector(f, s)
           g == ProgramSector(e, s, data)
           h == Scrambled(f, s)
           a == s * Pages
<1>1. f \in [Offsets -> Page]
  BY DEF SlotOK
<1>2. /\ e \in [Offsets -> Page] /\ h \in [Offsets -> Page]
      /\ \A o \in Offsets : IF o \in a .. a + Pages - 1 THEN e[o] = Erased ELSE e[o] = f[o] /\ h[o] = f[o]
  BY <1>1, Erasing
<1>3. /\ g \in [Offsets -> Page]
      /\ \A o \in Offsets : g[o] = IF o \in a .. a + Len(data) - 1 THEN data[o - a + 1] ELSE e[o]
  BY <1>2, Programming
<1>4. Len(data) \in Nat /\ a \in Nat /\ Pages \in Nat
  BY SlotSize, LenProperties
<1>5. \A o : o \in a .. a + Len(data) - 1 => o \in a .. a + Pages - 1
  <2> HIDE DEF a
  <2> QED
    BY <1>4
<1> HIDE DEF e, g, h
<1>6. \A o \in Offsets : g[o] = f[o] \/ o \in a .. a + Pages - 1
  BY <1>2, <1>3, <1>5
<1>7. \A o \in Offsets : h[o] = f[o] \/ o \in a .. a + Pages - 1
  BY <1>2
<1>8. SlotOK(g) /\ \A i \in Releases : g[0] # <<i, 1>>
  BY <1>3, <1>6, LaterSector
<1>9. SlotOK(h) /\ \A i \in Releases : h[0] # <<i, 1>>
  BY <1>2, <1>7, LaterSector
<1>10. \A o \in Offsets :
         g[o] = IF o \in a .. a + Len(data) - 1 THEN data[o - a + 1]
                ELSE IF o \in a .. a + Pages - 1 THEN Erased ELSE f[o]
  <2> HIDE DEF a
  <2> QED
    BY <1>2, <1>3
<1> QED
  BY <1>8, <1>9, <1>10 DEF e, g, h

LEMMA FlushSectorKeeps ==
  ASSUME CheckInv, FlushSector, UNCHANGED check
  PROVE  CheckInv'
<1> DEFINE s == next_sector
<1>1. /\ MustFlush /\ s # 0 /\ buf' = <<>> /\ next_sector' = s + 1
      /\ flash' = ProgramSector(EraseSector(flash, s), s, buf)
      /\ UNCHANGED <<pc, want, body, sent, chunk, first, hash, faults>>
      /\ UNCHANGED <<what, redirects, result, parsed, sector, answered>>
  BY DEF FlushSector, KeepInRam, stream, check
<1>2. /\ pc \in {"stream", "finish"} /\ Counted /\ Placed /\ sector = <<>>
      /\ buf \in Seq(Page) /\ first \in Seq(Page) /\ hash \in Seq(Page) /\ chunk \in Seq(Page)
      /\ Len(buf) \in 1 .. Pages /\ Len(chunk) \in Nat /\ Len(hash) \in Nat /\ Len(first) \in Nat
      /\ Flushed \in Nat /\ Len(hash) = Flushed + Len(buf) + Len(chunk)
      /\ s \in Nat \ {0} /\ s < Sectors /\ Pages \in Nat \ {0}
      /\ pc = "stream" => Len(buf) = Pages
      /\ pc = "finish" => Len(chunk) = 0
      /\ Len(hash) <= Capacity /\ Capacity \in Nat
  BY <1>1, SectorFull
<1>3. SlotOK(flash) /\ \A i \in Releases : flash[0] # <<i, 1>>
  BY <1>2, SlotOKMeans DEF CheckInv, NoneBootable, Receiving, Bootable
<1>4. /\ SlotOK(flash') /\ \A i \in Releases : flash'[0] # <<i, 1>>
      /\ \A o \in Offsets :
           flash'[o] = IF o \in Flushed .. Flushed + Len(buf) - 1 THEN buf[o - Flushed + 1]
                       ELSE IF o \in Flushed .. Flushed + Pages - 1 THEN Erased ELSE flash[o]
  <2> DEFINE g == ProgramSector(EraseSector(flash, s), s, buf)
  <2>1. Len(buf) <= Pages
    BY <1>2
  <2>2. /\ SlotOK(g) /\ \A i \in Releases : g[0] # <<i, 1>>
        /\ \A o \in Offsets :
             g[o] = IF o \in s * Pages .. s * Pages + Len(buf) - 1 THEN buf[o - s * Pages + 1]
                    ELSE IF o \in s * Pages .. s * Pages + Pages - 1 THEN Erased ELSE flash[o]
    <3>1. buf \in Seq(Page) /\ s \in Nat \ {0} /\ s < Sectors
      BY <1>2
    <3> HIDE DEF s
    <3> QED
      BY <1>3, <2>1, <3>1, LaterWritten
  <2>3. flash' = g /\ Flushed = s * Pages
    BY <1>1 DEF Flushed
  <2> HIDE DEF g, s
  <2> QED
    BY <2>2, <2>3
<1>5. NeighbourIntact' /\ FirstSectorLast' /\ BootableFits' /\ flash' \in [Offsets -> Page]
  BY <1>4, SlotOKMeans
<1>6. Counted' /\ Placed'
  <2>1. Len(first') <= Pages /\ Len(first') <= Len(hash)
    BY <1>1, <1>2 DEF Counted
  <2>2. \A k \in 1 .. Len(first') : first'[k] = hash[k]
    BY <1>1, <1>2 DEF Placed
  <2>3. ASSUME NEW o \in Pages .. Len(hash) - 1, o < Flushed + Pages
        PROVE  flash'[o] \in {hash[o + 1], Garbage}
    <3>1. o \in Offsets /\ o \in Nat
      BY <1>2 DEF Offsets
    <3>2. CASE o < Flushed
      <4>1. o \notin Flushed .. Flushed + Len(buf) - 1 /\ o \notin Flushed .. Flushed + Pages - 1
        BY <1>2, <3>1, <3>2
      <4>2. flash'[o] = flash[o]
        BY <1>4, <3>1, <4>1
      <4> QED
        BY <1>2, <3>2, <4>2 DEF Placed
    <3>3. CASE ~(o < Flushed)
      <4>1. o \in Flushed .. Flushed + Len(buf) - 1
        BY <1>2, <2>3, <3>1, <3>3
      <4>2. flash'[o] = buf[o - Flushed + 1] /\ o - Flushed + 1 \in 1 .. Len(buf)
        BY <1>2, <1>4, <3>1, <4>1
      <4>3. buf[o - Flushed + 1] = hash[Flushed + (o - Flushed + 1)]
        BY <1>2, <4>2 DEF Placed
      <4>4. Flushed + (o - Flushed + 1) = o + 1
        BY <1>2, <3>1
      <4> QED
        BY <4>2, <4>3, <4>4
    <3> QED
      BY <3>2, <3>3
  <2> QED
    BY <1>1, <2>1, <2>2, <2>3, WrittenOut
<1>7. TypeOK'
  <2>1. buf' \in Seq(Page) /\ next_sector' \in 0 .. Sectors
    BY <1>1, <1>2, EmptySeq, SlotSize
  <2> QED
    BY <1>1, <1>5, <2>1 DEF CheckInv, TypeOK, WriterTypeOK
<1>8. AskedFor' /\ NoneBootable' /\ Fresh' /\ Examined'
  <2>1. sector' = <<>> /\ pc' \in {"stream", "finish"}
    BY <1>1, <1>2
  <2> QED
    BY <1>1, <1>4, <2>1 DEF CheckInv, AskedFor, Asset, NoneBootable, Fresh, Receiving, Asking,
       Bootable, Examined
<1> QED
  BY <1>5, <1>6, <1>7, <1>8 DEF CheckInv

-----------------------------------------------------------------------------
(* Sector 0 is made bootable.                                              *)

LEMMA CommitEraseKeeps ==
  ASSUME CheckInv, CommitErase, sector' = <<>>,
         UNCHANGED <<what, redirects, result, parsed, answered>>
  PROVE  CheckInv'
<1>1. /\ pc = "commit" /\ pc' = "program" /\ flash' = EraseSector(flash, 0)
      /\ UNCHANGED <<want, body, sent, chunk, buf, first, hash, next_sector, faults>>
  BY DEF CommitErase, GoTo, stream, writer
<1>2. /\ SlotOK(flash') /\ \A i \in Releases : flash'[0] # <<i, 1>>
      /\ \A o \in Offsets : o >= Pages => flash'[o] = flash[o]
  BY <1>1, SlotOKMeans, FirstSectorGone DEF CheckInv
<1>3. NeighbourIntact' /\ FirstSectorLast' /\ BootableFits' /\ flash' \in [Offsets -> Page]
  BY <1>2, SlotOKMeans
<1>4. TypeOK'
  BY <1>1, <1>3 DEF CheckInv, TypeOK, WriterTypeOK, PCs
<1>5. AskedFor' /\ NoneBootable' /\ Fresh' /\ Examined'
  BY <1>1, <1>2 DEF CheckInv, AskedFor, Asset, NoneBootable, Fresh, Receiving, Asking, Bootable, Examined
<1>6. Counted /\ Placed /\ AllFlushed /\ AllFlushed' /\ Flushed' = Flushed
  BY <1>1 DEF CheckInv, Receiving, AllFlushed, Flushed, Examined
<1>7. Counted'
  BY <1>1, <1>6 DEF Counted
<1>8. \A o \in Pages .. Len(hash) - 1 : o \in Offsets /\ o >= Pages
  <2>1. Len(hash) \in Nat /\ Len(hash) <= Size[want] /\ Size[want] \in 1 .. Capacity
        /\ Pages \in Nat /\ Capacity \in Nat
    BY <1>1, <1>6, SlotSize, LenProperties
    DEF Counted, CheckInv, AskedFor, Asset, TypeOK, WriterTypeOK
  <2> QED
    BY <2>1 DEF Offsets
<1>9. \A o \in Pages .. Len(hash) - 1 : flash'[o] = flash[o]
  BY <1>2, <1>8
<1>10. Placed'
  BY <1>1, <1>6, <1>9 DEF Placed
<1> QED
  BY <1>3, <1>4, <1>5, <1>7, <1>10 DEF CheckInv

(* Of the first sector some pages, or all, have been programmed.           *)
LEMMA FirstWritten ==
  ASSUME CheckInv, pc = "program", NEW data \in Seq(Page),
         Len(data) <= Len(first), \A k \in 1 .. Len(data) : data[k] = first[k]
  PROVE  SlotOK(ProgramSector(flash, 0, data))
<1> DEFINE g == ProgramSector(flash, 0, data)
<1>1. /\ flash \in [Offsets -> Page] /\ want \in Releases
      /\ first \in Seq(Page) /\ hash \in Seq(Page) /\ Counted /\ Placed /\ AllFlushed
      /\ hash = Image(want) /\ want \in Sound /\ Size[want] \in 1 .. Capacity
      /\ \A i \in Releases : flash[0] # <<i, 1>>
      /\ SlotOK(flash)
  BY SlotOKMeans DEF CheckInv, TypeOK, WriterTypeOK, AskedFor, Asset, NoneBootable, Receiving,
     Bootable, Examined, AllFlushed
<1>2. /\ Len(data) \in Nat /\ Len(first) \in Nat /\ Len(first) <= Pages /\ Pages \in Nat \ {0}
      /\ Capacity \in Nat /\ Pages <= Capacity /\ 0 * Pages = 0 /\ Flushed \in Nat
      /\ Len(hash) = Size[want] /\ Len(hash) <= Flushed
      /\ \A p \in 1 .. Size[want] : hash[p] = <<want, p>>
      /\ Len(first) <= Len(hash)
  <2>1. /\ Len(data) \in Nat /\ Len(first) \in Nat
        /\ Pages \in Nat \ {0} /\ Capacity \in Nat /\ Pages <= Capacity
    BY <1>1, SlotSize, LenProperties
  <2>2. 0 * Pages = 0 /\ Flushed \in Nat
    <3>1. next_sector \in Nat
      BY SlotSize DEF CheckInv, TypeOK, WriterTypeOK
    <3>2. Flushed \in Nat
      BY <3>1, SlotSize DEF Flushed
    <3>3. 0 * Pages = 0
      BY <2>1
    <3> QED
      BY <3>2, <3>3
  <2>3. Len(hash) = Size[want] /\ \A p \in 1 .. Size[want] : hash[p] = <<want, p>>
    BY <1>1, PagesOfImages
  <2>4. Len(first) <= Pages /\ Len(hash) <= Flushed /\ Len(first) <= Len(hash)
    BY <1>1 DEF Counted
  <2> QED
    BY <2>1, <2>2, <2>3, <2>4
<1>3. /\ g \in [Offsets -> Page]
      /\ \A o \in Offsets : g[o] = IF o \in 0 .. Len(data) - 1 THEN data[o + 1] ELSE flash[o]
  <2>1. /\ g \in [Offsets -> Page]
        /\ \A o \in Offsets :
             g[o] = IF o \in 0 * Pages .. 0 * Pages + Len(data) - 1 THEN data[o - 0 * Pages + 1]
                    ELSE flash[o]
    BY <1>1, Programming
  <2>2. 0 .. 0 + Len(data) - 1 = 0 .. Len(data) - 1 /\ \A o \in Offsets : o - 0 + 1 = o + 1
    BY <1>2 DEF Offsets
  <2> HIDE DEF g
  <2> QED
    BY <1>2, <2>1, <2>2
<1> HIDE DEF g
<1>4. \A o \in Offsets : o >= Pages => g[o] = flash[o]
  BY <1>2, <1>3
<1>5. \A o \in Offsets : o >= Capacity => g[o] = Own
  BY <1>1, <1>2, <1>4 DEF SlotOK, Offsets
<1>6. ASSUME NEW i \in Releases, g[0] = <<i, 1>>
      PROVE  i = want
  <2>1. 0 \in Offsets
    BY <1>2 DEF Offsets
  <2>2. Len(data) >= 1 /\ g[0] = data[0 + 1]
    <3>1. g[0] = IF 0 \in 0 .. Len(data) - 1 THEN data[0 + 1] ELSE flash[0]
      BY <1>3, <2>1, Zenon
    <3>2. g[0] # flash[0]
      BY <1>1, <1>6
    <3>3. 0 \in 0 .. Len(data) - 1
      BY <3>1, <3>2, Zenon
    <3> QED
      BY <1>2, <3>1, <3>3
  <2>3. data[1] = first[1] /\ first[1] = hash[1] /\ hash[1] = <<want, 1>>
    BY <1>1, <1>2, <2>2 DEF Placed
  <2> QED
    BY <1>6, <2>2, <2>3
<1>7. \A o \in Pages .. Size[want] - 1 : g[o] \in {<<want, o + 1>>, Garbage}
  <2> SUFFICES ASSUME NEW o \in Pages .. Size[want] - 1
               PROVE  g[o] \in {<<want, o + 1>>, Garbage}
    OBVIOUS
  <2>1. o \in Offsets /\ o >= Pages /\ o < Flushed /\ o \in Pages .. Len(hash) - 1
        /\ o + 1 \in 1 .. Size[want]
    BY <1>1, <1>2 DEF Offsets
  <2>2. g[o] = flash[o] /\ flash[o] \in {hash[o + 1], Garbage}
    BY <1>1, <1>4, <2>1 DEF Placed
  <2>3. hash[o + 1] = <<want, o + 1>>
    BY <1>2, <2>1
  <2> QED
    BY <2>2, <2>3
<1>8. SlotOK(g)
  BY <1>1, <1>3, <1>5, <1>6, <1>7 DEF SlotOK
<1> QED
  BY <1>8 DEF g

LEMMA CommitProgramKeeps ==
  ASSUME CheckInv, CommitProgram, UNCHANGED check
  PROVE  CheckInv' /\ Examined /\ pc' = "readback"
<1>1. /\ pc = "program" /\ pc' = "readback" /\ flash' = ProgramSector(flash, 0, first)
      /\ UNCHANGED <<want, body, sent, chunk, buf, first, hash, next_sector, faults>>
      /\ UNCHANGED <<what, redirects, result, parsed, sector, answered>> /\ sector = <<>>
  BY DEF CommitProgram, GoTo, stream, writer, check, CheckInv, Examined
<1>2. first \in Seq(Page) /\ Len(first) <= Len(first)
  BY LenProperties DEF CheckInv, TypeOK, WriterTypeOK
<1>3. SlotOK(flash')
  BY <1>1, <1>2, FirstWritten
<1>4. NeighbourIntact' /\ FirstSectorLast' /\ BootableFits' /\ flash' \in [Offsets -> Page]
  BY <1>3, SlotOKMeans
<1>5. TypeOK'
  BY <1>1, <1>4 DEF CheckInv, TypeOK, WriterTypeOK, PCs
<1>6. AskedFor' /\ NoneBootable' /\ Fresh' /\ Examined' /\ ~Receiving'
  BY <1>1 DEF CheckInv, AskedFor, Asset, NoneBootable, Fresh, Receiving, Asking, Examined
<1> QED
  BY <1>1, <1>4, <1>5, <1>6 DEF CheckInv

LEMMA InvalidateKeeps ==
  ASSUME CheckInv, Invalidate, UNCHANGED check
  PROVE  CheckInv'
<1>1. /\ pc = "invalidate" /\ pc' = "idle" /\ flash' = EraseSector(flash, 0)
      /\ UNCHANGED <<want, body, sent, chunk, buf, first, hash, next_sector, faults>>
      /\ UNCHANGED <<what, redirects, result, parsed, sector, answered>> /\ sector = <<>>
  BY DEF Invalidate, GoTo, stream, writer, check, CheckInv, Examined
<1>2. SlotOK(flash')
  BY <1>1, SlotOKMeans, FirstSectorGone DEF CheckInv
<1>3. NeighbourIntact' /\ FirstSectorLast' /\ BootableFits' /\ flash' \in [Offsets -> Page]
  BY <1>2, SlotOKMeans
<1>4. TypeOK'
  BY <1>1, <1>3 DEF CheckInv, TypeOK, WriterTypeOK, PCs
<1>5. AskedFor' /\ NoneBootable' /\ Fresh' /\ Examined' /\ ~Receiving'
  BY <1>1 DEF CheckInv, AskedFor, Asset, NoneBootable, Fresh, Receiving, Asking, Examined
<1> QED
  BY <1>3, <1>4, <1>5 DEF CheckInv

-----------------------------------------------------------------------------
(* What goes wrong.                                                        *)

(* A sector goes bad.                                                      *)
LEMMA Spoiled ==
  ASSUME NEW f, SlotOK(f), NEW s \in Nat, s < Sectors
  PROVE  /\ SlotOK(Scrambled(f, s))
         /\ \A o \in Offsets : Scrambled(f, s)[o] \in {f[o], Garbage}
         /\ \A i \in Releases : Scrambled(f, s)[0] = <<i, 1>> => f[0] = <<i, 1>>
<1> DEFINE g == Scrambled(f, s)
           a == s * Pages
<1>1. f \in [Offsets -> Page] /\ 0 \in Offsets /\ Offsets \subseteq Nat /\ Capacity \in Nat
  BY SlotSize DEF SlotOK, Offsets
<1>2. /\ g \in [Offsets -> Page]
      /\ \A o \in Offsets : IF o \in a .. a + Pages - 1 THEN g[o] = Garbage ELSE g[o] = f[o]
  BY <1>1, Erasing
<1>3. a + Pages <= Capacity /\ a \in Nat /\ Pages \in Nat \ {0}
  BY SlotSize
<1> HIDE DEF g, a
<1>4. \A o \in Offsets : g[o] \in {f[o], Garbage}
  BY <1>2
<1>5. \A o \in Offsets : o >= Capacity => g[o] = f[o]
  BY <1>1, <1>2, <1>3
<1>6. ASSUME NEW i \in Releases, g[0] = <<i, 1>> PROVE f[0] = <<i, 1>>
  <2>1. <<i, 1>> # Garbage
    BY DEF Garbage
  <2> QED
    BY <1>1, <1>4, <1>6, <2>1
<1>7. ASSUME NEW i \in Releases, g[0] = <<i, 1>>, NEW o \in Pages .. Size[i] - 1
      PROVE  g[o] \in {<<i, o + 1>>, Garbage}
  <2>1. f[0] = <<i, 1>>
    BY <1>6, <1>7
  <2>2. f[o] \in {<<i, o + 1>>, Garbage}
    BY <2>1 DEF SlotOK
  <2>3. o \in Offsets
    <3>1. Size[i] \in Nat /\ Size[i] <= Capacity
      BY <2>1, PagesOfImages DEF SlotOK
    <3> QED
      BY <1>1, <1>3, <3>1 DEF Offsets
  <2> QED
    BY <1>4, <2>2, <2>3
<1>8. SlotOK(g)
  BY <1>2, <1>5, <1>6, <1>7 DEF SlotOK
<1> QED
  BY <1>4, <1>6, <1>8 DEF g

LEMMA BadPagesKeeps ==
  ASSUME CheckInv, BadPages, UNCHANGED check
  PROVE  /\ CheckInv'
         /\ \A o \in 0 .. Capacity - 1 : flash'[o] \in {flash[o], Garbage}
<1>1. PICK s \in 0 .. Sectors - 1 : flash' = Scrambled(flash, s)
  BY DEF BadPages
<1>2. /\ pc \in {"finish", "program", "readback"} /\ pc' = pc /\ faults' \in 0 .. MaxFaults
      /\ UNCHANGED <<want, body, sent, chunk, buf, first, hash, next_sector>>
      /\ UNCHANGED <<what, redirects, result, parsed, sector, answered>> /\ sector = <<>>
  BY SlotWriterAssumption
  DEF BadPages, Fault, stream, writer, check, CheckInv, Examined, TypeOK, WriterTypeOK
<1>3. s \in Nat /\ s < Sectors /\ SlotOK(flash)
  BY SlotSize, SlotOKMeans DEF CheckInv
<1>4. /\ SlotOK(flash')
      /\ \A o \in Offsets : flash'[o] \in {flash[o], Garbage}
      /\ \A i \in Releases : flash'[0] = <<i, 1>> => flash[0] = <<i, 1>>
  BY <1>1, <1>3, Spoiled
<1>5. NeighbourIntact' /\ FirstSectorLast' /\ BootableFits' /\ flash' \in [Offsets -> Page]
  BY <1>4, SlotOKMeans
<1>6. TypeOK'
  BY <1>2, <1>5 DEF CheckInv, TypeOK, WriterTypeOK
<1>7. AskedFor' /\ NoneBootable' /\ Fresh' /\ Examined'
  BY <1>2, <1>4 DEF CheckInv, AskedFor, Asset, NoneBootable, Fresh, Receiving, Asking, Bootable, Examined
<1>8. \A o \in 0 .. Capacity - 1 : o \in Offsets
  BY SlotSize DEF Offsets
<1>9. ASSUME Receiving' PROVE Counted' /\ Placed'
  <2>1. Counted /\ Placed /\ (AllFlushed' <=> AllFlushed) /\ Flushed' = Flushed
    BY <1>2, <1>9 DEF CheckInv, Receiving, AllFlushed, Flushed
  <2>2. Counted'
    BY <1>2, <2>1 DEF Counted
  <2>3. \A o \in Pages .. Len(hash) - 1 : o \in Offsets
    <3>1. Len(hash) \in Nat /\ Len(hash) <= Size[want] /\ Size[want] \in 1 .. Capacity
          /\ Pages \in Nat /\ Capacity \in Nat
      BY <1>2, <2>1, SlotSize, LenProperties
      DEF Counted, CheckInv, AskedFor, Asset, TypeOK, WriterTypeOK
    <3> QED
      BY <3>1 DEF Offsets
  <2>4. \A o \in Pages .. Len(hash) - 1 : o < Flushed => flash'[o] \in {hash[o + 1], Garbage}
    BY <1>4, <2>1, <2>3 DEF Placed
  <2>5. Placed'
    BY <1>2, <2>1, <2>4 DEF Placed
  <2> QED
    BY <2>2, <2>5
<1> QED
  BY <1>4, <1>5, <1>6, <1>7, <1>8, <1>9 DEF CheckInv

(* What an erase or a program that breaks off leaves: what was there, or   *)
(* nothing that can be booted, or something where there was nothing.       *)
LEMMA LeftoverFacts ==
  ASSUME CheckInv, Writing, NEW f \in Leftovers
  PROVE  /\ SlotOK(f)
         /\ \/ f = flash
            \/ \A i \in Releases : f[0] # <<i, 1>>
            \/ \A i \in Releases : flash[0] # <<i, 1>>
<1>1. SlotOK(flash) /\ flash \in [Offsets -> Page]
  BY SlotOKMeans DEF CheckInv, TypeOK, WriterTypeOK
<1>2. CASE MustFlush
  <2>1. /\ pc \in {"stream", "finish"} /\ buf \in Seq(Page) /\ Len(buf) \in Nat /\ Len(buf) <= Pages
        /\ next_sector \in Nat \ {0} /\ next_sector < Sectors
    BY SMTT(30), <1>2, SectorFull DEF Writing, KeepInRam
  <2>2. \A i \in Releases : flash[0] # <<i, 1>>
    BY <2>1 DEF CheckInv, NoneBootable, Receiving, Bootable
  <2>3. Touched = next_sector /\ Data = buf /\ pc # "program"
    BY <1>2, <2>1 DEF Touched, Data
  <2>4. CASE f = flash
    BY <1>1, <2>4
  <2>5. CASE f = Scrambled(flash, next_sector)
    BY <1>1, <2>1, <2>2, <2>5, Spoiled
  <2>6. CASE \E n \in 0 .. Len(buf) :
               f = ProgramSector(EraseSector(flash, next_sector), next_sector, SubSeq(buf, 1, n))
    <3>1. PICK n \in 0 .. Len(buf) :
            f = ProgramSector(EraseSector(flash, next_sector), next_sector, SubSeq(buf, 1, n))
      BY <2>6
    <3>2. SubSeq(buf, 1, n) \in Seq(Page) /\ Len(SubSeq(buf, 1, n)) <= Pages
      <4>1. 1 \in Int /\ n \in Int /\ \A i \in 1 .. n : buf[i] \in Page
        BY <2>1, ElementOfSeq
      <4>2. SubSeq(buf, 1, n) \in Seq(Page) /\ Len(SubSeq(buf, 1, n)) = IF 1 <= n THEN n - 1 + 1 ELSE 0
        BY <4>1, SubSeqProperties
      <4> QED
        BY <2>1, <4>2, SlotSize
    <3> QED
      BY <1>1, <2>1, <2>2, <3>1, <3>2, LaterWritten
  <2> QED
    BY <2>3, <2>4, <2>5, <2>6 DEF Leftovers
<1>3. CASE ~MustFlush /\ pc = "program"
  <2>1. /\ first \in Seq(Page) /\ Len(first) \in Nat /\ Touched = 0 /\ Data = first
        /\ \A i \in Releases : flash[0] # <<i, 1>>
    BY <1>3, LenProperties
    DEF CheckInv, NoneBootable, Receiving, Bootable, TypeOK, WriterTypeOK, Touched, Data
  <2>2. CASE f = flash
    BY <1>1, <2>2
  <2>3. CASE f = Scrambled(flash, 0)
    BY <1>1, <2>1, <2>3, FirstSectorGone
  <2>4. CASE \E n \in 0 .. Len(first) : f = ProgramSector(flash, 0, SubSeq(first, 1, n))
    <3>1. PICK n \in 0 .. Len(first) : f = ProgramSector(flash, 0, SubSeq(first, 1, n))
      BY <2>4
    <3>2. /\ SubSeq(first, 1, n) \in Seq(Page) /\ Len(SubSeq(first, 1, n)) <= Len(first)
          /\ \A k \in 1 .. Len(SubSeq(first, 1, n)) : SubSeq(first, 1, n)[k] = first[k]
      BY <2>1, PrefixProperties
    <3> QED
      BY <1>3, <2>1, <3>1, <3>2, FirstWritten
  <2> QED
    BY <1>3, <2>1, <2>2, <2>3, <2>4 DEF Leftovers
<1>4. CASE ~MustFlush /\ pc # "program"
  <2>1. Touched = 0 /\ Data = <<>> /\ Len(<<>>) = 0
    BY <1>4, EmptySeq DEF Touched, Data
  <2>2. \A n \in 0 .. 0 : n = 0
    OBVIOUS
  <2>3. SubSeq(<<>>, 1, 0) = <<>>
    BY SubSeqEmpty
  <2>4. EraseSector(flash, 0) \in [Offsets -> Page]
    BY <1>1, Erasing
  <2>5. ProgramSector(EraseSector(flash, 0), 0, <<>>) = EraseSector(flash, 0)
    BY <2>4, ProgramNothing
  <2>6. f \in {flash, Scrambled(flash, 0), EraseSector(flash, 0)}
    BY <1>4, <2>1, <2>2, <2>3, <2>5 DEF Leftovers
  <2> QED
    BY <1>1, <2>6, FirstSectorGone
<1> QED
  BY <1>2, <1>3, <1>4

(* From then on nothing is received and nothing counts as examined.        *)
LEMMA BrokenOffKeeps ==
  ASSUME CheckInv, SlotOK(flash'), UNCHANGED <<stream, writer, what, redirects, answered>>,
         faults' \in 0 .. MaxFaults, sector' = <<>>,
         pc' = "idle" \/ (pc = "stream" /\ pc' = "invalidate"),
         \/ result' = "none" /\ parsed' = FALSE
         \/ result' \in {result, "Local"} /\ parsed' = parsed
  PROVE  CheckInv'
<1>1. NeighbourIntact' /\ FirstSectorLast' /\ BootableFits' /\ flash' \in [Offsets -> Page]
  BY SlotOKMeans
<1>2. UNCHANGED <<want, body, sent, chunk, buf, first, hash, next_sector>>
  BY DEF stream, writer
<1>3. result' \in Failures \cup Phases \cup {"none"} /\ parsed' \in BOOLEAN
  BY DEF CheckInv, TypeOK, Failures
<1>4. TypeOK'
  BY <1>1, <1>2, <1>3 DEF CheckInv, TypeOK, WriterTypeOK, PCs
<1>5. AskedFor'
  BY <1>2 DEF CheckInv, AskedFor, Asset
<1>6. NoneBootable' /\ Fresh' /\ Examined' /\ ~Receiving'
  BY DEF NoneBootable, Fresh, Receiving, Asking, Examined
<1> QED
  BY <1>1, <1>4, <1>5, <1>6 DEF CheckInv

LEMMA FlashErrorKeeps ==
  ASSUME CheckInv, FlashError, result' = IF pc = "invalidate" THEN result ELSE "Local",
         sector' = <<>>, UNCHANGED <<what, redirects, parsed, answered>>
  PROVE  CheckInv'
<1>1. /\ Writing /\ flash' \in Leftovers /\ faults' \in 0 .. MaxFaults /\ UNCHANGED <<stream, writer>>
      /\ pc' = "idle" \/ (pc = "stream" /\ pc' = "invalidate")
  BY SlotWriterAssumption DEF FlashError, Fault, GoTo, CheckInv, TypeOK, WriterTypeOK
<1>2. SlotOK(flash')
  BY <1>1, LeftoverFacts
<1> QED
  BY <1>1, <1>2, BrokenOffKeeps

LEMMA PowerCutKeeps ==
  ASSUME CheckInv, PowerCut, result' = "none", parsed' = FALSE, sector' = <<>>,
         UNCHANGED <<what, redirects, answered>>
  PROVE  CheckInv'
<1>1. /\ flash' = flash \/ (Writing /\ flash' \in Leftovers)
      /\ faults' \in 0 .. MaxFaults /\ UNCHANGED <<stream, writer>> /\ pc' = "idle"
  BY SlotWriterAssumption DEF PowerCut, Fault, GoTo, CheckInv, TypeOK, WriterTypeOK
<1>2. SlotOK(flash')
  BY <1>1, LeftoverFacts, SlotOKMeans DEF CheckInv
<1> QED
  BY <1>1, <1>2, BrokenOffKeeps

-----------------------------------------------------------------------------
(* The theorem.                                                            *)

LEMMA CheckInvInit == Init => CheckInv
<1> SUFFICES ASSUME Init PROVE CheckInv
  OBVIOUS
<1>1. /\ pc = "idle" /\ what = "manifest" /\ sector = <<>> /\ result = "none" /\ parsed = FALSE
      /\ flash = [o \in Offsets |-> IF o < Capacity THEN Erased ELSE Own]
      /\ want \in Releases /\ body = want /\ sent = 0 /\ chunk = <<>>
      /\ buf = <<>> /\ first = <<>> /\ hash = <<>> /\ next_sector = 0 /\ faults = 0
      /\ redirects = 0 /\ answered = FALSE
  BY DEF Init, WriterInit, CheckInit
<1>2. TypeOK
  <2>1. flash \in [Offsets -> Page]
    BY <1>1, PagesOfImages
  <2>2. <<>> \in Seq(Page) /\ 0 \in 0 .. Sectors /\ 0 \in 0 .. MaxFaults /\ 0 \in 0 .. MAX_REDIRECTS
    BY EmptySeq, SlotWriterAssumption, OtaCheckAssumption
  <2>3. sent \in 0 .. Size[body]
    BY <1>1, PagesOfImages
  <2> QED
    BY <1>1, <2>1, <2>2, <2>3 DEF TypeOK, WriterTypeOK, PCs
<1>3. SlotOK(flash)
  <2>1. 0 \in Offsets /\ \A o \in Offsets : o \in Nat
    BY SlotSize DEF Offsets
  <2>2. flash[0] \in {Erased, Own}
    BY <1>1, <2>1
  <2>3. \A i \in Releases : flash[0] # <<i, 1>>
    <3> SUFFICES ASSUME NEW i \in Releases PROVE <<i, 1>> \notin {Erased, Own}
      BY <2>2
    <3> QED
      BY DEF Erased, Own
  <2>4. \A o \in Offsets : o >= Capacity => flash[o] = Own
    BY <1>1, <2>1, SlotSize
  <2> QED
    BY <1>2, <2>3, <2>4 DEF SlotOK, TypeOK, WriterTypeOK
<1>4. NeighbourIntact /\ FirstSectorLast /\ BootableFits
  BY <1>3 DEF SlotOK, NeighbourIntact, FirstSectorLast, BootableFits, Bootable
<1>5. AskedFor /\ NoneBootable /\ Fresh /\ Examined /\ ~Receiving
  BY <1>1 DEF AskedFor, Asset, NoneBootable, Fresh, Receiving, Asking, Examined
<1> QED
  BY <1>2, <1>4, <1>5 DEF CheckInv

LEMMA CheckInvNext == CheckInv /\ [Next]_all => CheckInv'
<1> SUFFICES ASSUME CheckInv, [Next]_all PROVE CheckInv'
  OBVIOUS
<1>1. CASE \/ CheckBegins \/ AskFails \/ Redirected \/ ManifestFails \/ StreamFails
           \/ (\E status \in {404, 500} : Refused(status)) \/ Readback \/ RolledBack
  BY <1>1, RequestsKeep
<1>2. CASE \E i \in Releases : Accepted200(i) \/ Manifest(i)
  BY <1>2, AcceptedKeeps, ManifestKeeps
<1>3. CASE EndOfBody
  BY <1>3, EndOfBodyKeeps
<1>4. CASE Verify
  BY <1>4, VerifyKeeps
<1>5. CASE WriterSteps
  <2>1. CASE /\ Begin \/ Fill \/ FlushFirst \/ FlushSector \/ CommitProgram \/ Invalidate \/ BadPages
             /\ UNCHANGED check
    BY <2>1, BeginKeeps, FillKeeps, FlushFirstKeeps, FlushSectorKeeps, CommitProgramKeeps,
       InvalidateKeeps, BadPagesKeeps
  <2>2. CASE CommitErase /\ sector' = <<>> /\ UNCHANGED <<what, redirects, result, parsed, answered>>
    BY <2>2, CommitEraseKeeps
  <2>3. CASE /\ \E n \in 1 .. Capacity + Pages : Push(n)
             /\ result' = IF pc' = "invalidate" THEN "Local" ELSE result
             /\ UNCHANGED <<what, redirects, parsed, sector, answered>>
    BY <2>3, PushKeeps
  <2>4. CASE /\ FlashError
             /\ result' = IF pc = "invalidate" THEN result ELSE "Local"
             /\ sector' = <<>>
             /\ UNCHANGED <<what, redirects, parsed, answered>>
    BY <2>4, FlashErrorKeeps
  <2>5. CASE /\ PowerCut
             /\ result' = "none" /\ parsed' = FALSE /\ sector' = <<>>
             /\ UNCHANGED <<what, redirects, answered>>
    BY <2>5, PowerCutKeeps
  <2> QED
    BY <1>5, <2>1, <2>2, <2>3, <2>4, <2>5 DEF WriterSteps
<1>6. CASE UNCHANGED all
  <2>1. /\ UNCHANGED <<flash, pc, want, body, sent, chunk, buf, first, hash, next_sector, faults>>
        /\ UNCHANGED <<what, redirects, result, parsed, sector, answered>>
    BY <1>6 DEF all, vars, check
  <2>2. /\ TypeOK' /\ NeighbourIntact' /\ FirstSectorLast' /\ BootableFits' /\ AskedFor'
        /\ NoneBootable' /\ Fresh' /\ Examined'
    BY <2>1 DEF CheckInv, TypeOK, WriterTypeOK, NeighbourIntact, FirstSectorLast, BootableFits,
       AskedFor, Asset, NoneBootable, Fresh, Receiving, Asking, Bootable, Examined
  <2>3. Receiving' => Counted' /\ Placed'
    BY <2>1 DEF CheckInv, Receiving, Counted, Placed, AllFlushed, Flushed
  <2> QED
    BY <2>2, <2>3 DEF CheckInv
<1> QED
  BY <1>1, <1>2, <1>3, <1>4, <1>5, <1>6 DEF Next

(* The bookkeeping of a download, in RAM and on the flash, for every size  *)
(* of a sector, a slot and a release (slot.rs and run_ota_check).          *)
THEOREM CheckInvHolds == Spec => []CheckInv
<1>1. Init => CheckInv
  BY CheckInvInit
<1>2. CheckInv /\ [Next]_all => CheckInv'
  BY CheckInvNext
<1> QED
  BY <1>1, <1>2, PTL DEF Spec

(* A write keeps to its slot and makes it bootable last, only with what    *)
(* the boot ROM puts on trial; and a check that counts as a proof of the   *)
(* way to the server was answered (slot.rs, image.rs, boot_policy.rs).     *)
THEOREM CheckIsSoundHolds == Spec => []CheckIsSound
<1>1. ASSUME CheckInv PROVE CheckIsSound
  <2>1. OnlyOnTrial
    <3> SUFFICES ASSUME sector # <<>>
                 PROVE  RomMay(sector) = {<<"tbyb", Folded(Version[want])>>}
      BY DEF OnlyOnTrial
    <3>1. sector \in FirstSector[want] /\ want \in Releases /\ Checked(sector, Version[want])
      BY <1>1 DEF CheckInv, TypeOK, WriterTypeOK, Examined
    <3>2. IsSector(sector)
      BY <3>1, OtaCheckAssumption
    <3> QED
      BY <3>1, <3>2, RomReadsTheSame
  <2>2. ProvedByAnswer
    BY <1>1 DEF CheckInv, AskedFor, ProvedByAnswer, Proved, Failures
  <2> QED
    BY <1>1, <2>1, <2>2 DEF CheckInv, CheckIsSound, SlotIsSafe
<1> QED
  BY <1>1, CheckInvHolds, PTL

-----------------------------------------------------------------------------
(* The refinement.                                                         *)

WholeIn(f, i) == Size[i] \in 1 .. Capacity /\ hash_storage(f, Size[i]) = Image(i)
ImageIn(f) == IF \E i \in Releases : WholeIn(f, i)
                THEN CHOOSE i \in Releases : WholeIn(f, i) ELSE "none"

LEMMA SlotImageIs ==
  /\ SlotImage = ImageIn(flash) /\ SlotImage' = ImageIn(flash')
  /\ \A i \in Releases : Whole(i) <=> WholeIn(flash, i)
BY DEF SlotImage, ImageIn, Whole, WholeIn

(* There is one image at most, and its first sector is there.              *)
LEMMA ImageInFacts ==
  ASSUME NEW f
  PROVE  /\ \A i \in Releases : WholeIn(f, i) => f[0] = <<i, 1>> /\ ImageIn(f) = i
         /\ ImageIn(f) # "none" => ImageIn(f) \in Releases /\ WholeIn(f, ImageIn(f))
         /\ \A i \in Releases : WholeIn(f, i) => ImageIn(f) # "none"
         /\ (\A i \in Releases : f[0] # <<i, 1>>) => ImageIn(f) = "none"
         /\ SlotOK(f) => ImageIn(f) \in Sound \cup {"none"}
<1>1. ASSUME NEW i \in Releases, WholeIn(f, i) PROVE f[0] = <<i, 1>>
  <2>1. Size[i] \in 1 .. Capacity /\ hash_storage(f, Size[i]) = Image(i)
    BY <1>1 DEF WholeIn
  <2>2. 1 \in 1 .. Size[i]
    BY <2>1, SlotSize
  <2>3. Image(i)[1] = <<i, 1>>
    BY <2>2, PagesOfImages
  <2>4. hash_storage(f, Size[i])[1] = f[1 - 1]
    BY <2>2 DEF hash_storage
  <2> QED
    BY <2>1, <2>3, <2>4
<1>2. ASSUME NEW i \in Releases, WholeIn(f, i) PROVE ImageIn(f) = i
  <2>1. ImageIn(f) \in Releases /\ WholeIn(f, ImageIn(f))
    BY <1>2 DEF ImageIn
  <2>2. <<ImageIn(f), 1>> = <<i, 1>>
    BY <1>1, <1>2, <2>1
  <2> QED
    BY <2>2
<1>3. ASSUME ImageIn(f) # "none" PROVE ImageIn(f) \in Releases /\ WholeIn(f, ImageIn(f))
  BY <1>3 DEF ImageIn
<1>4. \A i \in Releases : i # "none"
  BY OtaCheckAssumption
<1>5. (\A i \in Releases : f[0] # <<i, 1>>) => ImageIn(f) = "none"
  BY <1>1, <1>3
<1>6. SlotOK(f) => ImageIn(f) \in Sound \cup {"none"}
  BY <1>1, <1>3 DEF SlotOK
<1> QED
  BY <1>1, <1>2, <1>3, <1>4, <1>5, <1>6

(* Bad pages make no image.                                                *)
LEMMA WorseImage ==
  ASSUME NEW f, NEW g, \A o \in 0 .. Capacity - 1 : g[o] \in {f[o], Garbage}
  PROVE  ImageIn(g) = "none" \/ ImageIn(g) = ImageIn(f)
<1> SUFFICES ASSUME NEW i \in Releases, WholeIn(g, i)
             PROVE  WholeIn(f, i)
  <2>1. ImageIn(g) # "none" => ImageIn(g) \in Releases /\ WholeIn(g, ImageIn(g))
    BY ImageInFacts
  <2>2. \A i \in Releases : WholeIn(f, i) => ImageIn(f) = i
    BY ImageInFacts
  <2> QED
    BY <2>1, <2>2
<1>1. Size[i] \in 1 .. Capacity /\ hash_storage(g, Size[i]) = Image(i) /\ Capacity \in Nat
  BY SlotSize DEF WholeIn
<1>2. ASSUME NEW p \in 1 .. Size[i] PROVE g[p - 1] = f[p - 1]
  <2>1. hash_storage(g, Size[i])[p] = g[p - 1] /\ Image(i)[p] = <<i, p>>
    BY <1>1 DEF hash_storage, Image
  <2>2. <<i, p>> # Garbage
    <3>1. p # 0
      BY <1>1
    <3> QED
      BY <3>1 DEF Garbage
  <2>3. p - 1 \in 0 .. Capacity - 1
    BY <1>1
  <2> QED
    BY <1>1, <2>1, <2>2, <2>3
<1>3. hash_storage(f, Size[i]) = hash_storage(g, Size[i])
  BY <1>2 DEF hash_storage
<1> QED
  BY <1>1, <1>3 DEF WholeIn

(* What a step may do to the flash, and when the board restarts into it.   *)
LEMMA StepOfSlot ==
  ASSUME CheckInv, [Next]_all
  PROVE  /\ \/ flash' = flash
            \/ /\ pc' # "reboot"
               /\ \/ \A i \in Releases : flash'[0] # <<i, 1>>
                  \/ \A i \in Releases : flash[0] # <<i, 1>>
                  \/ \A o \in 0 .. Capacity - 1 : flash'[o] \in {flash[o], Garbage}
         /\ pc' = "reboot" /\ pc # "reboot" => \E i \in Releases : WholeIn(flash, i)
<1>1. CASE \/ CheckBegins \/ AskFails \/ Redirected \/ ManifestFails \/ StreamFails
           \/ (\E status \in {404, 500} : Refused(status)) \/ RolledBack \/ EndOfBody \/ Verify
           \/ (\E i \in Releases : Accepted200(i))
  <2>1. flash' = flash
    BY <1>1 DEF CheckBegins, AskFails, Redirected, ManifestFails, StreamFails, Refused, RolledBack,
       EndOfBody, Verify, Accepted200
  <2>2. pc' # "reboot" \/ pc = "reboot"
    <3>1. CASE \E i \in Releases : Accepted200(i)
      BY <3>1 DEF Accepted200, GoTo
    <3>2. CASE CheckBegins \/ AskFails \/ Redirected \/ ManifestFails \/ StreamFails
      BY <3>2 DEF CheckBegins, AskFails, Redirected, ManifestFails, StreamFails, Fails, GoTo
    <3>3. CASE (\E status \in {404, 500} : Refused(status)) \/ RolledBack \/ EndOfBody \/ Verify
      BY <3>3 DEF Refused, RolledBack, EndOfBody, Verify, Ends, Fails, GoTo
    <3> QED
      BY <1>1, <3>1, <3>2, <3>3
  <2> QED
    BY <2>1, <2>2
<1>2. CASE \E i \in Releases : Manifest(i)
  <2>1. PICK i \in Releases : Manifest(i)
    BY <1>2
  <2>2. flash' = flash
    BY <2>1 DEF Manifest
  <2>3. ASSUME pc' = "reboot" PROVE WholeIn(flash, i)
    <3>1. Size[i] > 0 /\ Size[i] <= Capacity /\ hash_storage(flash, Size[i]) = Image(i)
      BY <2>1, <2>3 DEF Manifest, Ends, GoTo
    <3>2. Size[i] \in 1 .. Capacity
      BY <3>1, PagesOfImages, SlotSize
    <3> QED
      BY <3>1, <3>2 DEF WholeIn
  <2> QED
    BY <2>2, <2>3
<1>3. CASE Readback
  <2>1. flash' = flash
    BY <1>3 DEF Readback
  <2>2. ASSUME pc' = "reboot" PROVE want \in Releases /\ WholeIn(flash, want)
    BY <1>3, <2>2 DEF Readback, ReadsBack, Fails, GoTo, WholeIn, CheckInv, AskedFor, Asset,
       TypeOK, WriterTypeOK
  <2> QED
    BY <2>1, <2>2
<1>4. CASE Begin \/ CommitErase \/ Invalidate
  <2>1. pc' # "reboot" /\ flash' = EraseSector(flash, 0)
    BY <1>4 DEF Begin, CommitErase, Invalidate, GoTo
  <2>2. \A i \in Releases : flash'[0] # <<i, 1>>
    BY <2>1, SlotOKMeans, FirstSectorGone DEF CheckInv
  <2> QED
    BY <2>1, <2>2
<1>5. CASE \/ Fill \/ FlushFirst \/ (\E n \in 1 .. Capacity + Pages : Push(n))
           \/ FlushSector \/ CommitProgram
  <2>1. pc' # "reboot"
    BY <1>5 DEF Fill, FlushFirst, Push, FlushSector, CommitProgram, MustFlush, AtEnd, GoTo
  <2>2. flash' = flash \/ \A i \in Releases : flash[0] # <<i, 1>>
    BY <1>5 DEF Fill, FlushFirst, Push, FlushSector, CommitProgram, MustFlush, AtEnd,
       CheckInv, NoneBootable, Receiving, Bootable
  <2> QED
    BY <2>1, <2>2
<1>6. CASE BadPages /\ UNCHANGED check
  <2>1. pc' # "reboot"
    BY <1>6 DEF BadPages
  <2> QED
    BY <1>6, <2>1, BadPagesKeeps
<1>7. CASE FlashError \/ PowerCut
  <2>1. pc' # "reboot" /\ (flash' = flash \/ (Writing /\ flash' \in Leftovers))
    BY <1>7 DEF FlashError, PowerCut, GoTo
  <2> QED
    BY <2>1, LeftoverFacts
<1>8. CASE UNCHANGED all
  BY <1>8 DEF all, vars
<1> QED
  BY <1>1, <1>2, <1>3, <1>4, <1>5, <1>6, <1>7, <1>8 DEF Next, WriterSteps

(* To the boot ROM a download takes the old image away first and puts the  *)
(* new one there in one step, whatever breaks off; and the board restarts  *)
(* into the slot only while a whole image is there (slot.rs,               *)
(* run_ota_check).                                                         *)
THEOREM SlotWriteImplemented == Spec => ImplementsSlotWrite
<1>1. ASSUME Init PROVE Atomic!Init
  <2>1. CheckInv /\ pc = "idle"
    BY <1>1, CheckInvInit DEF Init, WriterInit
  <2>2. SlotImage \in Sound \cup {"none"}
    BY <2>1, SlotOKMeans, SlotImageIs, ImageInFacts DEF CheckInv
  <2> QED
    BY <2>1, <2>2 DEF Atomic!Init, Atomic!NoImage
<1>2. ASSUME CheckInv, [Next]_all PROVE [Atomic!Next]_(Atomic!vars)
  <2>1. /\ \/ flash' = flash
           \/ /\ pc' # "reboot"
              /\ \/ \A i \in Releases : flash'[0] # <<i, 1>>
                 \/ \A i \in Releases : flash[0] # <<i, 1>>
                 \/ \A o \in 0 .. Capacity - 1 : flash'[o] \in {flash[o], Garbage}
        /\ pc' = "reboot" /\ pc # "reboot" => \E i \in Releases : WholeIn(flash, i)
    BY <1>2, StepOfSlot
  <2>2. SlotImage = ImageIn(flash) /\ SlotImage' = ImageIn(flash')
    BY SlotImageIs
  <2>3. CASE flash' = flash /\ pc' # "reboot"
    <3>1. Atomic!Restart
      BY <2>2, <2>3 DEF Atomic!Restart
    <3> QED
      BY <3>1 DEF Atomic!Next
  <2>4. CASE flash' = flash /\ pc' = "reboot"
    <3>1. CASE pc = "reboot"
      BY <2>2, <2>4, <3>1 DEF Atomic!vars
    <3>2. CASE pc # "reboot"
      <4>1. ImageIn(flash) # "none"
        BY <2>1, <2>4, <3>2, ImageInFacts
      <4>2. Atomic!Reboot
        BY <2>2, <2>4, <4>1 DEF Atomic!Reboot, Atomic!NoImage
      <4> QED
        BY <4>2 DEF Atomic!Next
    <3> QED
      BY <3>1, <3>2
  <2>5. CASE flash' # flash
    <3>1. SlotOK(flash') /\ pc' # "reboot"
      <4>1. CheckInv'
        BY <1>2, CheckInvNext
      <4> QED
        BY <2>1, <2>5, <4>1 DEF SlotOK, CheckInv, NeighbourIntact, FirstSectorLast, BootableFits,
           Bootable, TypeOK, WriterTypeOK
    <3>2. \/ ImageIn(flash') = "none"
          \/ ImageIn(flash) = "none"
          \/ ImageIn(flash') = ImageIn(flash)
      <4>1. CASE \A i \in Releases : flash'[0] # <<i, 1>>
        BY <4>1, ImageInFacts
      <4>2. CASE \A i \in Releases : flash[0] # <<i, 1>>
        BY <4>2, ImageInFacts
      <4>3. CASE \A o \in 0 .. Capacity - 1 : flash'[o] \in {flash[o], Garbage}
        BY <4>3, WorseImage
      <4> QED
        BY <2>1, <2>5, <4>1, <4>2, <4>3
    <3>3. ImageIn(flash') \in Sound \cup {"none"}
      BY <3>1, ImageInFacts
    <3>4. CASE ImageIn(flash') = "none"
      <4>1. Atomic!Clear
        BY <2>2, <3>1, <3>4 DEF Atomic!Clear, Atomic!NoImage
      <4> QED
        BY <4>1 DEF Atomic!Next
    <3>5. CASE ImageIn(flash) = "none" /\ ImageIn(flash') \in Sound
      <4>1. Atomic!Fill(ImageIn(flash'))
        BY <2>2, <3>1, <3>5 DEF Atomic!Fill, Atomic!NoImage
      <4> QED
        BY <3>5, <4>1 DEF Atomic!Next
    <3>6. CASE ImageIn(flash') = ImageIn(flash)
      <4>1. Atomic!Restart
        BY <2>2, <3>1, <3>6 DEF Atomic!Restart
      <4> QED
        BY <4>1 DEF Atomic!Next
    <3> QED
      BY <3>2, <3>3, <3>4, <3>5, <3>6
  <2> QED
    BY <2>3, <2>4, <2>5
<1> QED
  BY <1>1, <1>2, CheckInvHolds, PTL DEF Spec, ImplementsSlotWrite, Atomic!Spec

-----------------------------------------------------------------------------
(***************************************************************************)
(* The trial.                                                              *)
(***************************************************************************)

-----------------------------------------------------------------------------
(* The inductive invariant, in parts.                                      *)

(* TrialTypes, the flags apart.                                            *)
FlagsOK ==
    /\ wrapped \in BOOLEAN /\ due \in BOOLEAN
    /\ CLEAR_ALLOWED \in BOOLEAN /\ STREAK_CLEARED \in BOOLEAN
    /\ OTA_PROVED \in BOOLEAN /\ round \in BOOLEAN

TimesOK ==
    /\ now \in 0..W-1 /\ wdt \in 1..WATCHDOG_TIMEOUT
    /\ LAST_BEAT \in [Who -> 0..W-1] /\ quiet \in [Who -> Nat \cup {Off}]
    /\ BUY_DEADLINE_MS \in {0, BUY_DEADLINE}
    /\ PROVED_AT_MS \in 0..W-1
    /\ proved_for \in 0..HEALTHY_CLEAR \cup {Off}
    /\ boot_at \in 0..W-1 /\ ready_since \in 0..W-1 \cup {Never}
    /\ ok_for \in 0..BUY_SETTLE \cup {Never}

NamesOK ==
    /\ PHASE \in {"init", "supervised"}
    /\ down \in {"no", "stalled", "watchdog"}
    /\ mode \in {"normal", "recovery"}
    /\ buy \in {"not tbyb", "pending", "timed out", "bought", "failed"}
    /\ main_pc \in {"init", "top", "joining"}
    /\ link \in Link /\ wifi \in {"down", "link", "ip"}

LEMMA TypeParts == TrialTypes <=> FlagsOK /\ TimesOK /\ NamesOK
  BY DEF TrialTypes, FlagsOK, TimesOK, NamesOK

(* Before the supervision starts nothing is recorded; after a reset, and   *)
(* until the next boot, everything is as in a boot.                        *)
NothingYet ==
    /\ PHASE = "init" =>
         /\ main_pc = "init" /\ \A who \in Who : quiet[who] = Off
         /\ BUY_DEADLINE_MS = 0 /\ PROVED_AT_MS = 0 /\ proved_for = Off
         /\ CLEAR_ALLOWED = FALSE /\ ready_since = Never
         /\ buy \in {"not tbyb", "pending"}
    /\ PHASE = "supervised" => main_pc # "init" /\ down = "no"
    /\ down # "no" => now = 0 /\ wdt = WATCHDOG_TIMEOUT /\ wrapped = FALSE
                      /\ boot_at = 0
    /\ mode = "recovery" => buy = "not tbyb"
    /\ main_pc = "joining" => link.kind = "disconnected"

(* The age of a beat is the silence of its task, or one more (a beat in    *)
(* the millisecond PARKED is stamped one earlier).                         *)
BeatIsTrue(who) ==
    IF LAST_BEAT[who] = PARKED THEN quiet[who] = Off
    ELSE quiet[who] >= 0 /\ Age(LAST_BEAT[who]) \in {quiet[who], quiet[who] + 1}

(* The watchdog was last fed when no task was silent beyond its limit.     *)
FedInTime(who) == quiet[who] <= Limit[who] + (WATCHDOG_TIMEOUT - wdt)

BeatsAreTrue ==
    PHASE = "supervised" => \A who \in Who : BeatIsTrue(who) /\ FedInTime(who)

(* The watchdog of a trial was last fed before the deadline.               *)
TrialIsFed ==
    buy \in {"pending", "timed out"} =>
        /\ wrapped = FALSE /\ now + wdt < BUY_DEADLINE + WATCHDOG_TIMEOUT
        /\ PHASE = "supervised" => BUY_DEADLINE_MS = BUY_DEADLINE

(* The age of the first proof is the true one, or, after a proof in the    *)
(* millisecond 0, one less.                                                *)
ProofIsTrue ==
    /\ (PROVED_AT_MS = 0) <=> (proved_for = Off)
    /\ proved_for \in 0..HEALTHY_CLEAR - 1 =>
         LET age == wrapping_sub(now, PROVED_AT_MS) IN
         \/ age = proved_for
         \/ PROVED_AT_MS = 1 /\ proved_for = 0 /\ now = 0
         \/ PROVED_AT_MS = 1 /\ proved_for >= 1 /\ age = proved_for - 1

ClearingIsAllowed ==
    CLEAR_ALLOWED # FALSE => mode = "normal" /\ buy \in {"not tbyb", "bought"}

(* The gate counts no longer than the truth.                               *)
GateIsTrue ==
    buy = "pending" =>
        /\ boot_at <= now
        /\ ready_since # Never =>
             /\ ready_since <= Elapsed /\ ok_for # Never
             /\ ok_for < BUY_SETTLE => ok_for >= Elapsed - ready_since

IInv ==
    /\ TrialTypes /\ NothingYet /\ BeatsAreTrue /\ TrialIsFed /\ ProofIsTrue
    /\ ClearingIsAllowed /\ GateIsTrue

-----------------------------------------------------------------------------
(* The clock.                                                              *)

(* A tick makes every age one greater, unless it was the greatest.         *)
LEMMA AgeGrows ==
    ASSUME NEW n \in 0..W-1, NEW l \in 0..W-1,
           wrapping_sub(n, l) + 1 < W
    PROVE  wrapping_sub(IF n + 1 = W THEN 0 ELSE n + 1, l)
             = wrapping_sub(n, l) + 1
  BY SupervisorAssumption DEF wrapping_sub

LEMMA AgeType ==
    ASSUME NEW n \in 0..W-1, NEW l \in 0..W-1
    PROVE  wrapping_sub(n, l) \in 0..W-1
  BY SupervisorAssumption DEF wrapping_sub

(* A beat: the stamp is never PARKED, and one old at most.                 *)
LEMMA StampIsTrue ==
    ASSUME NEW who \in Who, now \in 0..W-1
    PROVE  /\ StampOfBeat \in 0..W-1 /\ StampOfBeat # PARKED
           /\ wrapping_sub(now, StampOfBeat) \in {0, 1}
<1>1. Limit[who] \in Nat /\ 2 * (Limit[who] + WATCHDOG_TIMEOUT + 1) < W
      /\ WATCHDOG_TIMEOUT \in Nat \ {0} /\ W \in Nat
  BY SupervisorAssumption
<1>2. W > 2
  BY <1>1
<1> QED  BY <1>1, <1>2 DEF StampOfBeat, Least, PARKED, wrapping_sub

(* Half of the clock's range is longer than any silence the watchdog       *)
(* allows, so an age counted as zero is none of a supervised task.         *)
LEMMA NotStalledIsHeard ==
    ASSUME NEW who \in Who, NEW n \in 0..W-1, NEW l \in 0..W-1, l # PARKED,
           NEW q \in Nat, q < Limit[who] + WATCHDOG_TIMEOUT,
           wrapping_sub(n, l) \in {q, q + 1}, now = n
    PROVE  /\ stalled(who, l) => q >= Limit[who]
           /\ ~stalled(who, l) => q <= Limit[who]
<1>1. Limit[who] \in Nat /\ 2 * (Limit[who] + WATCHDOG_TIMEOUT + 1) < W
      /\ WATCHDOG_TIMEOUT \in Nat \ {0} /\ W \in Nat
  BY SupervisorAssumption
<1> DEFINE a == wrapping_sub(n, l)
<1>2. a \in Nat /\ a <= Limit[who] + WATCHDOG_TIMEOUT /\ a \in {q, q + 1}
  <2>1. a \in {q, q + 1}
    OBVIOUS
  <2> HIDE DEF a
  <2> QED  BY <1>1, <2>1
<1>3. Age(l) = a
  BY DEF Age
<1> HIDE DEF a
<1>4. ~(a > (W - 1) \div 2)
  BY <1>1, <1>2
<1>5. AgeOrZero(l) = a
  BY <1>3, <1>4 DEF AgeOrZero
<1> QED  BY <1>1, <1>2, <1>5 DEF stalled

-----------------------------------------------------------------------------
(* What the steps of main's loop have in common.                           *)

LEMMA EndOfStepParts ==
    ASSUME EndOfStep
    PROVE  /\ beat(Main) /\ buy_tick(NetworkUp) /\ main_pc' = "top"
           /\ now' = now /\ wrapped' = wrapped /\ due' = due /\ PHASE' = PHASE
           /\ PROVED_AT_MS' = PROVED_AT_MS /\ proved_for' = proved_for
           /\ STREAK_CLEARED' = STREAK_CLEARED /\ down' = down
           /\ mode' = mode /\ boot_at' = boot_at
           /\ OTA_PROVED' = OTA_PROVED /\ round' = round
           /\ Witnessed(NetworkUp)
  BY DEF EndOfStep, clock, proof, own

(* A buy finds every task alive, with the beat main has just given.        *)
LEMMA BuyParts ==
    ASSUME NEW up \in BOOLEAN, buy_tick(up)
    PROVE  \/ /\ UNCHANGED <<wdt, BUY_DEADLINE_MS, CLEAR_ALLOWED>>
              /\ buy' = buy \/ (buy = "pending" /\ buy' = "timed out")
           \/ /\ buy = "pending" /\ buy' \in {"bought", "failed"}
              /\ NothingMissing(up) /\ Settled /\ Elapsed < BUY_DEADLINE
              /\ BUY_DEADLINE_MS' = 0 /\ wdt' = WATCHDOG_TIMEOUT
              /\ CLEAR_ALLOWED' = (CLEAR_ALLOWED \/ buy' = "bought")
              /\ ready_since' = Since
  BY DEF buy_tick, GateWaits, GateTimesOut, Buys, rearm

LEMMA NetworkUpType == NetworkUp \in BOOLEAN
  BY DEF NetworkUp

-----------------------------------------------------------------------------
(* Types.                                                                  *)

LEMMA Bounds ==
    /\ W \in Nat /\ WATCHDOG_TIMEOUT \in Nat \ {0} /\ BUY_DEADLINE \in Nat \ {0}
    /\ HEALTHY_CLEAR \in Nat \ {0} /\ BUY_SETTLE \in Nat \ {0} /\ W > 2
    /\ BUY_DEADLINE + WATCHDOG_TIMEOUT < W /\ HEALTHY_CLEAR < W - 1
    /\ InitTime \in Nat /\ InitTime < BUY_DEADLINE
    /\ Main \in Who /\ Main \notin StartsParked /\ Limit \in [Who -> Nat]
  BY SupervisorAssumption, TrialAssumption

LEMMA Numbers ==
    /\ W \in Nat /\ WATCHDOG_TIMEOUT \in Nat /\ WATCHDOG_TIMEOUT >= 1
    /\ BUY_DEADLINE \in Nat /\ BUY_DEADLINE >= 1
    /\ BUY_DEADLINE + WATCHDOG_TIMEOUT < W
    /\ InitTime \in Nat /\ InitTime < BUY_DEADLINE
<1>1. /\ W \in Nat /\ WATCHDOG_TIMEOUT \in Nat \ {0} /\ BUY_DEADLINE \in Nat \ {0}
      /\ BUY_DEADLINE + WATCHDOG_TIMEOUT < W
      /\ InitTime \in Nat /\ InitTime < BUY_DEADLINE
  BY SupervisorAssumption, TrialAssumption
<1> QED  BY <1>1

LEMMA LinkType ==
    /\ Joined \in Link /\ ScanOnly \in Link
    /\ Disconnected(0, JOIN_RETRY_MIN) \in Link
    /\ Disconnected(DHCP_REJOIN_DELAY, JOIN_RETRY_MIN) \in Link
    /\ \A r \in JOIN_RETRY_MIN..JOIN_RETRY_MAX :
         Disconnected(r, NextRetry(r)) \in Link
<1>1. \A r \in JOIN_RETRY_MIN..JOIN_RETRY_MAX :
        /\ r \in 0..JOIN_RETRY_MAX + DHCP_REJOIN_DELAY
        /\ NextRetry(r) \in JOIN_RETRY_MIN..JOIN_RETRY_MAX
  BY TrialAssumption DEF NextRetry, Least
<1>2. /\ 0 \in 0..JOIN_RETRY_MAX + DHCP_REJOIN_DELAY
      /\ DHCP_REJOIN_DELAY \in 0..JOIN_RETRY_MAX + DHCP_REJOIN_DELAY
      /\ JOIN_RETRY_MIN \in JOIN_RETRY_MIN..JOIN_RETRY_MAX
  BY TrialAssumption
<1>3. Joined \in Link /\ ScanOnly \in Link
  BY DEF Link
<1>4. /\ Disconnected(0, JOIN_RETRY_MIN) \in Apart
      /\ Disconnected(DHCP_REJOIN_DELAY, JOIN_RETRY_MIN) \in Apart
  BY <1>2 DEF Apart, Disconnected
<1>5. \A r \in JOIN_RETRY_MIN..JOIN_RETRY_MAX :
         Disconnected(r, NextRetry(r)) \in Apart
  BY <1>1 DEF Apart, Disconnected
<1> QED  BY <1>3, <1>4, <1>5 DEF Link

LEMMA ApartType ==
    ASSUME NEW l \in Link, l.kind = "disconnected"
    PROVE  /\ l.retry \in JOIN_RETRY_MIN..JOIN_RETRY_MAX
           /\ [l EXCEPT !.next = OneLess(l.next)] \in Link
           /\ [l EXCEPT !.next = OneLess(l.next)].kind = "disconnected"
<1>0. Joined.kind = "joined" /\ ScanOnly.kind = "scan only"
  BY DEF Joined, ScanOnly
<1>1. l # Joined /\ l # ScanOnly
  BY <1>0
<1>2. l \in Apart
  BY <1>1 DEF Link
<1>3. l.next \in 0..JOIN_RETRY_MAX + DHCP_REJOIN_DELAY
  BY <1>2 DEF Apart
<1>4. OneLess(l.next) \in 0..JOIN_RETRY_MAX + DHCP_REJOIN_DELAY
  BY <1>3, TrialAssumption DEF OneLess
<1>5. [l EXCEPT !.next = OneLess(l.next)] \in Apart
  BY <1>2, <1>4 DEF Apart
<1>6. l.retry \in JOIN_RETRY_MIN..JOIN_RETRY_MAX
  BY <1>2 DEF Apart
<1>7. [l EXCEPT !.next = OneLess(l.next)].kind = "disconnected"
  BY <1>5 DEF Apart
<1> QED  BY <1>5, <1>6, <1>7 DEF Link

(* The gate's times.                                                       *)
LEMMA SinceType ==
    ASSUME TrialTypes, boot_at <= now
    PROVE  Elapsed \in 0..W-1 /\ Since \in 0..W-1
<1>1. /\ now \in 0..W-1 /\ boot_at \in 0..W-1
      /\ ready_since = Never \/ ready_since \in 0..W-1
  BY DEF TrialTypes
<1>2. Elapsed \in 0..W-1
  BY <1>1, Bounds DEF Elapsed
<1> QED  BY <1>1, <1>2 DEF Since

LEMMA BeatType ==
    ASSUME TrialTypes, NEW who \in Who, beat(who)
    PROVE  LAST_BEAT' \in [Who -> 0..W-1] /\ quiet' \in [Who -> Nat \cup {Off}]
<1>1. StampOfBeat \in 0..W-1
  BY StampIsTrue DEF TrialTypes
<1> QED  BY <1>1 DEF TrialTypes, beat, Stamped

LEMMA InitIInv == TrialInit => IInv
<1> SUFFICES ASSUME TrialInit PROVE IInv
  OBVIOUS
<1>0. /\ now = 0 /\ wdt = WATCHDOG_TIMEOUT /\ wrapped = FALSE /\ boot_at = 0
      /\ LAST_BEAT = [who \in Who |-> 0] /\ quiet = [who \in Who |-> Off]
      /\ BUY_DEADLINE_MS = 0 /\ PROVED_AT_MS = 0 /\ proved_for = Off
      /\ ready_since = Never /\ ok_for = Never /\ PHASE = "init"
  BY DEF TrialInit
<1>1. TimesOK
  BY <1>0, Bounds DEF TimesOK
<1>2. FlagsOK
  BY DEF TrialInit, FlagsOK
<1>3. NamesOK
  BY LinkType DEF TrialInit, NamesOK
<1>4. NothingYet
  BY DEF TrialInit, NothingYet
<1>5. BeatsAreTrue /\ ClearingIsAllowed
  BY DEF TrialInit, BeatsAreTrue, ClearingIsAllowed
<1>6. TrialIsFed
  <2>1. now + wdt < BUY_DEADLINE + WATCHDOG_TIMEOUT
    BY <1>0, Bounds
  <2> QED  BY <1>0, <2>1 DEF TrialIsFed
<1>7. GateIsTrue
  BY <1>0 DEF GateIsTrue
<1>8. ProofIsTrue
  <2>1. proved_for \notin 0..HEALTHY_CLEAR - 1
    BY <1>0, Bounds DEF Off
  <2> QED  BY <1>0, <2>1 DEF ProofIsTrue
<1> QED  BY <1>1, <1>2, <1>3, <1>4, <1>5, <1>6, <1>7, <1>8, TypeParts DEF IInv

(* The steps one by one, for the flags.                                    *)
LEMMA FlagsStep == FlagsOK /\ [TrialNext]_trialVars => FlagsOK'
<1> SUFFICES ASSUME FlagsOK, [TrialNext]_trialVars PROVE FlagsOK'
  OBVIOUS
<1> USE DEF FlagsOK
<1>1. CASE Boot
  BY <1>1 DEF Boot, clock, clearing
<1>2. CASE TimePasses
  <2>1. wrapped' \in BOOLEAN
    BY <1>2 DEF TimePasses, Tick
  <2>2. due' \in BOOLEAN
    BY <1>2 DEF TimePasses, Tick
  <2> QED  BY <1>2, <2>1, <2>2 DEF TimePasses, Tick, own
<1>3. ASSUME NEW cause, Reset(cause) PROVE FlagsOK'
  BY <1>3 DEF Reset
<1>4. CASE FeedInit
  BY <1>4 DEF FeedInit, clock, clearing, own
<1>5. CASE Collect
  BY <1>5 DEF Collect, sup
<1>6. CASE MainStarts
  <2>1. CLEAR_ALLOWED' \in BOOLEAN
    BY <1>6 DEF MainStarts
  <2> QED  BY <1>6, <2>1 DEF MainStarts, clock, own
<1>7. ASSUME EndOfStep PROVE FlagsOK'
  <2>1. CLEAR_ALLOWED' \in BOOLEAN
    <3>1. \/ CLEAR_ALLOWED' = CLEAR_ALLOWED
          \/ CLEAR_ALLOWED' = (CLEAR_ALLOWED \/ buy' = "bought")
      BY <1>7, EndOfStepParts, BuyParts, NetworkUpType
    <3> QED  BY <3>1
  <2> QED  BY <1>7, <2>1, EndOfStepParts
<1>8. CASE MainJoins
  BY <1>8 DEF MainJoins, clock, clearing, own
<1>9. CASE LinkStatus
  BY <1>9 DEF LinkStatus, clock, clearing, own
<1>10. ASSUME NEW who \in Who, Beats(who) PROVE FlagsOK'
  BY <1>10 DEF Beats, clock, clearing, own
<1>11. ASSUME NEW who \in Who, Parks(who) PROVE FlagsOK'
  BY <1>11 DEF Parks, clock, clearing, own
<1>12. CASE Proves
  BY <1>12 DEF Proves, clock, flags
<1>13. CASE RoundDone
  BY <1>13 DEF RoundDone, sup
<1>14. CASE WifiChanges
  BY <1>14 DEF WifiChanges, sup, own
<1>15. CASE FrameChecks
  <2>1. due' = FALSE /\ STREAK_CLEARED' \in BOOLEAN
    BY <1>15 DEF FrameChecks, on_frame
  <2> QED  BY <1>15, <2>1 DEF FrameChecks, on_frame, clearing, own
<1>16. CASE UNCHANGED trialVars
  BY <1>16 DEF trialVars, sup, own
<1> QED  BY <1>1, <1>2, <1>3, <1>4, <1>5, <1>6, <1>7, <1>8, <1>9, <1>10, <1>11,
            <1>12, <1>13, <1>14, <1>15, <1>16
         DEF TrialNext, FrameResets, WatchdogResets, MainTop, JoinFails, DhcpTimesOut,
             JoinSucceeds

LEMMA NamesStep == IInv /\ [TrialNext]_trialVars => NamesOK'
<1> SUFFICES ASSUME NamesOK, NothingYet, [TrialNext]_trialVars PROVE NamesOK'
  BY TypeParts DEF IInv
<1> USE DEF NamesOK
<1>1. CASE Boot
  BY <1>1, LinkType DEF Boot
<1>2. CASE TimePasses
  <2>1. link' \in Link
    <3>1. CASE link.kind = "disconnected"
      BY <3>1, <1>2, ApartType DEF TimePasses
    <3>2. CASE link.kind # "disconnected"
      BY <3>2, <1>2 DEF TimePasses
    <3> QED  BY <3>1, <3>2
  <2> QED  BY <1>2, <2>1 DEF TimePasses, Tick, own
<1>3. ASSUME NEW cause \in {"stalled", "watchdog"}, Reset(cause) PROVE NamesOK'
  BY <1>3, LinkType DEF Reset
<1>4. CASE FeedInit
  BY <1>4 DEF FeedInit, gate, own, net
<1>5. CASE Collect
  BY <1>5 DEF Collect, sup, gate, net
<1>6. CASE MainStarts
  BY <1>6 DEF MainStarts, start, gate, own, net
<1>7. ASSUME EndOfStep, link' \in Link, wifi' \in {"down", "link", "ip"}
      PROVE  NamesOK'
  <2>1. buy' \in {"not tbyb", "pending", "timed out", "bought", "failed"}
    BY <1>7, EndOfStepParts, BuyParts, NetworkUpType
  <2> QED  BY <1>7, <2>1, EndOfStepParts
<1>8. CASE MainTop
  <2>1. link' \in Link /\ wifi' = wifi /\ EndOfStep
    BY <1>8, LinkType DEF MainTop, LinkNow
  <2> QED  BY <2>1, <1>7
<1>9. CASE MainJoins
  <2>1. link' \in Link
    BY <1>9, LinkType DEF MainJoins, LinkNow
  <2> QED  BY <1>9, <2>1 DEF MainJoins, gate, own
<1>10. CASE LinkStatus
  BY <1>10 DEF LinkStatus, gate, own, net
<1>11. CASE JoinFails
  <2>1. link.retry \in JOIN_RETRY_MIN..JOIN_RETRY_MAX
    BY <1>11, ApartType DEF JoinFails, NothingYet
  <2>2. link' \in Link /\ wifi' = "down" /\ EndOfStep
    BY <1>11, <2>1, LinkType DEF JoinFails
  <2> QED  BY <2>2, <1>7
<1>12. CASE DhcpTimesOut
  BY <1>12, <1>7, LinkType DEF DhcpTimesOut
<1>13. CASE JoinSucceeds
  BY <1>13, <1>7, LinkType DEF JoinSucceeds
<1>14. ASSUME NEW who \in Who, Beats(who) PROVE NamesOK'
  BY <1>14 DEF Beats, gate, own, net
<1>15. ASSUME NEW who \in Who, Parks(who) PROVE NamesOK'
  BY <1>15 DEF Parks, gate, own, net
<1>16. CASE Proves
  BY <1>16 DEF Proves, gate, net, flags
<1>17. CASE RoundDone
  BY <1>17 DEF RoundDone, sup, gate, net
<1>18. CASE WifiChanges
  BY <1>18 DEF WifiChanges, sup, gate, own
<1>19. CASE FrameChecks
  BY <1>19 DEF FrameChecks, on_frame, gate, own, net
<1>20. CASE UNCHANGED trialVars
  BY <1>20 DEF trialVars, sup, gate, own, net
<1> QED  BY <1>1, <1>2, <1>3, <1>4, <1>5, <1>6, <1>8, <1>9, <1>10, <1>11, <1>12,
            <1>13, <1>14, <1>15, <1>16, <1>17, <1>18, <1>19, <1>20
         DEF TrialNext, FrameResets, WatchdogResets

LEMMA TimesStep == IInv /\ [TrialNext]_trialVars => TimesOK'
<1> SUFFICES ASSUME TrialTypes, TimesOK, GateIsTrue, [TrialNext]_trialVars PROVE TimesOK'
  BY TypeParts DEF IInv
<1> USE DEF TimesOK
<1>1. CASE Boot
  BY <1>1 DEF Boot, clock, beats, clearing
<1>2. CASE TimePasses
  <2>1. now' \in 0..W-1 /\ wdt' \in 1..WATCHDOG_TIMEOUT
    <3>1. now' = (IF now + 1 = W THEN 0 ELSE now + 1) /\ wdt > 1 /\ wdt' = wdt - 1
      BY <1>2 DEF TimePasses, Tick
    <3> QED  BY <3>1, Bounds
  <2>2. ok_for' \in 0..BUY_SETTLE \cup {Never}
    <3>1. ok_for' = IF ok_for = Never THEN Never ELSE Least(ok_for + 1, BUY_SETTLE)
      BY <1>2 DEF TimePasses
    <3>2. ok_for = Never \/ ok_for \in 0..BUY_SETTLE
      OBVIOUS
    <3> QED  BY <3>1, <3>2, Bounds DEF Least
  <2>3. proved_for' \in 0..HEALTHY_CLEAR \cup {Off}
    <3>1. proved_for' = IF proved_for = Off THEN Off
                        ELSE Least(proved_for + 1, HEALTHY_CLEAR)
      BY <1>2 DEF TimePasses, Tick
    <3>2. proved_for = Off \/ proved_for \in 0..HEALTHY_CLEAR
      OBVIOUS
    <3> QED  BY <3>1, <3>2, Bounds DEF Least
  <2>4. quiet' \in [Who -> Nat \cup {Off}]
    <3>1. ASSUME NEW who \in Who PROVE Silent(who) \in Nat \cup {Off}
      <4>1. quiet[who] = Off \/ quiet[who] \in Nat
        OBVIOUS
      <4>2. Limit[who] \in Nat
        BY Bounds
      <4> QED  BY <4>1, <4>2, Bounds DEF Silent, Least
    <3> QED  BY <3>1, <1>2 DEF TimePasses, Tick
  <2> QED  BY <1>2, <2>1, <2>2, <2>3, <2>4 DEF TimePasses, Tick, own
<1>3. ASSUME NEW cause, Reset(cause) PROVE TimesOK'
  <2>1. /\ now' = 0 /\ wdt' = WATCHDOG_TIMEOUT /\ boot_at' = 0
        /\ LAST_BEAT' = [who \in Who |-> 0] /\ quiet' = [who \in Who |-> Off]
        /\ BUY_DEADLINE_MS' = 0 /\ PROVED_AT_MS' = 0 /\ proved_for' = Off
        /\ ready_since' = Never /\ ok_for' = Never
    BY <1>3 DEF Reset
  <2> QED  BY <2>1, Bounds
<1>4. CASE FeedInit
  BY <1>4, Bounds DEF FeedInit, clock, beats, clearing, gate, own
<1>5. CASE Collect
  BY <1>5 DEF Collect, sup, gate
<1>6. CASE MainStarts
  <2>1. LAST_BEAT' \in [Who -> 0..W-1]
    <3>1. \A who \in Who : FirstBeat(who) \in 0..W-1
      BY Bounds DEF FirstBeat, PARKED
    <3> QED  BY <3>1, <1>6 DEF MainStarts, start
  <2>2. quiet' \in [Who -> Nat \cup {Off}]
    BY <1>6 DEF MainStarts, start
  <2>3. BUY_DEADLINE_MS' \in {0, BUY_DEADLINE} /\ wdt' = WATCHDOG_TIMEOUT
    BY <1>6 DEF MainStarts, start
  <2> QED  BY <1>6, <2>1, <2>2, <2>3, Bounds DEF MainStarts, clock, proof, gate, own
<1>7. ASSUME EndOfStep PROVE TimesOK'
  <2>1. LAST_BEAT' \in [Who -> 0..W-1] /\ quiet' \in [Who -> Nat \cup {Off}]
    BY <1>7, EndOfStepParts, BeatType, Bounds
  <2>2. ok_for' \in 0..BUY_SETTLE \cup {Never}
    <3>1. ok_for' \in {Most(ok_for, 0), Never}
      BY <1>7, EndOfStepParts DEF Witnessed
    <3>2. ok_for = Never \/ ok_for \in 0..BUY_SETTLE
      OBVIOUS
    <3> QED  BY <3>1, <3>2, Bounds DEF Most, Never
  <2>3. wdt' \in 1..WATCHDOG_TIMEOUT /\ BUY_DEADLINE_MS' \in {0, BUY_DEADLINE}
    <3>1. wdt' \in {wdt, WATCHDOG_TIMEOUT} /\ BUY_DEADLINE_MS' \in {BUY_DEADLINE_MS, 0}
      BY <1>7, EndOfStepParts, BuyParts, NetworkUpType
    <3> QED  BY <3>1, Bounds
  <2>4. ready_since' \in 0..W-1 \cup {Never}
    <3>1. CASE buy = "pending"
      <4>1. Since \in 0..W-1
        BY <3>1, SinceType DEF GateIsTrue
      <4>2. ready_since' \in {Since, Never, ready_since}
        BY <1>7, EndOfStepParts DEF buy_tick, GateWaits, GateTimesOut, Buys, NotReady
      <4> QED  BY <4>1, <4>2
    <3>2. CASE buy # "pending"
      BY <3>2, <1>7, EndOfStepParts DEF buy_tick
    <3> QED  BY <3>1, <3>2
  <2> QED  BY <1>7, <2>1, <2>2, <2>3, <2>4, EndOfStepParts
<1>8. CASE MainJoins
  <2>1. LAST_BEAT' \in [Who -> 0..W-1] /\ quiet' \in [Who -> Nat \cup {Off}]
    BY <1>8, BeatType, Bounds DEF MainJoins
  <2> QED  BY <1>8, <2>1 DEF MainJoins, clock, clearing, gate, own
<1>9. CASE LinkStatus
  <2>1. LAST_BEAT' \in [Who -> 0..W-1] /\ quiet' \in [Who -> Nat \cup {Off}]
    BY <1>9, BeatType, Bounds DEF LinkStatus
  <2> QED  BY <1>9, <2>1 DEF LinkStatus, clock, clearing, gate, own
<1>10. ASSUME NEW who \in Who, Beats(who) PROVE TimesOK'
  <2>1. LAST_BEAT' \in [Who -> 0..W-1] /\ quiet' \in [Who -> Nat \cup {Off}]
    BY <1>10, BeatType DEF Beats
  <2> QED  BY <1>10, <2>1 DEF Beats, clock, clearing, gate, own
<1>11. ASSUME NEW who \in Who, Parks(who) PROVE TimesOK'
  <2>1. LAST_BEAT' \in [Who -> 0..W-1] /\ quiet' \in [Who -> Nat \cup {Off}]
    BY <1>11, Bounds DEF Parks, park, PARKED
  <2> QED  BY <1>11, <2>1 DEF Parks, clock, clearing, gate, own
<1>12. CASE Proves
  <2>1. PROVED_AT_MS' \in 0..W-1 /\ proved_for' \in 0..HEALTHY_CLEAR \cup {Off}
    <3>1. \/ PROVED_AT_MS' = Most(now, 1) /\ proved_for' = 0
          \/ UNCHANGED <<PROVED_AT_MS, proved_for>>
      BY <1>12 DEF Proves, ota_proved
    <3> QED  BY <3>1, Bounds DEF Most
  <2> QED  BY <1>12, <2>1 DEF Proves, clock, beats, gate
<1>13. CASE RoundDone
  BY <1>13 DEF RoundDone, sup, gate
<1>14. CASE WifiChanges
  BY <1>14 DEF WifiChanges, sup, gate, own
<1>15. CASE FrameChecks
  <2>1. wdt' \in 1..WATCHDOG_TIMEOUT
    BY <1>15, Bounds DEF FrameChecks, on_frame
  <2> QED  BY <1>15, <2>1 DEF FrameChecks, on_frame, beats, clearing, gate, own
<1>16. CASE UNCHANGED trialVars
  BY <1>16 DEF trialVars, sup, gate, own
<1> QED  BY <1>1, <1>2, <1>3, <1>4, <1>5, <1>6, <1>7, <1>8, <1>9, <1>10, <1>11,
            <1>12, <1>13, <1>14, <1>15, <1>16
         DEF TrialNext, FrameResets, WatchdogResets, MainTop, JoinFails, DhcpTimesOut,
             JoinSucceeds

-----------------------------------------------------------------------------
LEMMA NothingYetStep == IInv /\ [TrialNext]_trialVars => NothingYet'
<1> SUFFICES ASSUME NamesOK, NothingYet, [TrialNext]_trialVars PROVE NothingYet'
  BY TypeParts DEF IInv
<1> USE DEF NothingYet
<1>1. CASE Boot
  <2>1. /\ PHASE' = PHASE /\ main_pc' = main_pc /\ quiet' = quiet /\ wdt' = wdt
        /\ BUY_DEADLINE_MS' = BUY_DEADLINE_MS /\ PROVED_AT_MS' = PROVED_AT_MS
        /\ proved_for' = proved_for /\ CLEAR_ALLOWED' = CLEAR_ALLOWED
        /\ ready_since' = ready_since /\ now' = now /\ wrapped' = wrapped
        /\ boot_at' = boot_at /\ down # "no" /\ down' = "no"
    BY <1>1 DEF Boot, clock, beats, clearing
  <2>2. buy' \in {"not tbyb", "pending"} /\ (mode' = "recovery" => buy' = "not tbyb")
    BY <1>1 DEF Boot
  <2>3. PHASE = "init"
    BY <2>1 DEF NamesOK
  <2> QED  BY <2>1, <2>2, <2>3
<1>2. CASE TimePasses
  <2>1. /\ down = "no" /\ down' = "no" /\ PHASE' = PHASE /\ main_pc' = main_pc
        /\ BUY_DEADLINE_MS' = BUY_DEADLINE_MS /\ PROVED_AT_MS' = PROVED_AT_MS
        /\ CLEAR_ALLOWED' = CLEAR_ALLOWED /\ ready_since' = ready_since
        /\ buy' = buy /\ mode' = mode
    BY <1>2 DEF TimePasses, Tick, own
  <2>2. proved_for = Off => proved_for' = Off
    BY <1>2 DEF TimePasses, Tick
  <2>3. ASSUME NEW who \in Who, quiet[who] = Off PROVE quiet'[who] = Off
    BY <1>2, <2>3 DEF TimePasses, Tick, Silent
  <2>4. link.kind = "disconnected" => link'.kind = "disconnected"
    BY <1>2, ApartType DEF TimePasses, NamesOK
  <2> QED  BY <2>1, <2>2, <2>3, <2>4
<1>3. ASSUME NEW cause, Reset(cause) PROVE NothingYet'
  BY <1>3 DEF Reset
<1>4. CASE FeedInit /\ down = "no"
  BY <1>4 DEF FeedInit, clock, beats, clearing, gate, own, net
<1>5. CASE Collect /\ down = "no"
  BY <1>5 DEF Collect, sup, gate, net
<1>6. CASE MainStarts /\ down = "no"
  BY <1>6 DEF MainStarts, start, gate, own, net
<1>7. ASSUME EndOfStep, main_pc # "init", down = "no" PROVE NothingYet'
  <2>1. PHASE = "supervised" /\ PHASE' = PHASE /\ down' = "no" /\ main_pc' = "top"
    BY <1>7, EndOfStepParts DEF NamesOK
  <2>2. mode' = mode /\ (buy = "not tbyb" => buy' = "not tbyb")
    BY <1>7, EndOfStepParts, BuyParts, NetworkUpType
  <2> QED  BY <2>1, <2>2
<1>8. CASE MainJoins /\ down = "no"
  BY <1>8 DEF MainJoins, NamesOK, gate, own
<1>9. CASE LinkStatus /\ down = "no"
  BY <1>9 DEF LinkStatus, NamesOK, gate, own, net
<1>10. ASSUME NEW who \in Who, Beats(who), down = "no" PROVE NothingYet'
  BY <1>10 DEF Beats, gate, own, net
<1>11. ASSUME NEW who \in Who, Parks(who), down = "no" PROVE NothingYet'
  BY <1>11 DEF Parks, gate, own, net
<1>12. CASE Proves /\ down = "no"
  BY <1>12 DEF Proves, gate, net, flags
<1>13. CASE RoundDone
  BY <1>13 DEF RoundDone, sup, gate, net
<1>14. CASE WifiChanges
  BY <1>14 DEF WifiChanges, sup, gate, own
<1>15. CASE FrameChecks
  BY <1>15 DEF FrameChecks, on_frame, gate, own, net
<1>16. CASE UNCHANGED trialVars
  BY <1>16 DEF trialVars, sup, gate, own, net
<1> QED  BY <1>1, <1>2, <1>3, <1>4, <1>5, <1>6, <1>7, <1>8, <1>9, <1>10, <1>11,
            <1>12, <1>13, <1>14, <1>15, <1>16
         DEF TrialNext, FrameResets, WatchdogResets, MainTop, JoinFails, DhcpTimesOut,
             JoinSucceeds

(* A beat is true when it is given, whoever gives it.                      *)
LEMMA BeatKeeps ==
    ASSUME TrialTypes, BeatsAreTrue, NEW who \in Who, beat(who),
           PHASE = "supervised", now' = now
    PROVE  \A w \in Who : BeatIsTrue(w)'
                           /\ (quiet[w] # quiet'[w] => quiet'[w] = 0)
<1> TAKE w \in Who
<1>1. CASE w = who
  <2>1. LAST_BEAT'[w] = StampOfBeat /\ quiet'[w] = 0
    BY <1>1 DEF beat, Stamped, TrialTypes
  <2>2. /\ StampOfBeat # PARKED /\ wrapping_sub(now, StampOfBeat) \in {0, 1}
    BY StampIsTrue DEF TrialTypes
  <2>3. BeatIsTrue(w)'
    BY <2>1, <2>2 DEF BeatIsTrue, Age
  <2> QED  BY <2>1, <2>3
<1>2. CASE w # who
  <2>1. LAST_BEAT'[w] = LAST_BEAT[w] /\ quiet'[w] = quiet[w]
    BY <1>2 DEF beat, Stamped, TrialTypes
  <2> QED  BY <2>1 DEF BeatsAreTrue, BeatIsTrue, Age
<1> QED  BY <1>1, <1>2

(* Nobody stalled: nobody is silent beyond its limit.                      *)
LEMMA HeardAll ==
    ASSUME TrialTypes, NEW last \in [Who -> 0..W-1], NEW q \in [Who -> Nat \cup {Off}],
           \A who \in Who :
               IF last[who] = PARKED THEN q[who] = Off
               ELSE q[who] >= 0 /\ wrapping_sub(now, last[who]) \in {q[who], q[who] + 1},
           \A who \in Who : q[who] < Limit[who] + WATCHDOG_TIMEOUT
    PROVE  /\ (\A who \in Who : ~stalled(who, last[who]))
                => \A who \in Who : q[who] <= Limit[who]
           /\ \A who \in Who : stalled(who, last[who]) => q[who] >= Limit[who]
<1> SUFFICES ASSUME NEW who \in Who
             PROVE  /\ ~stalled(who, last[who]) => q[who] <= Limit[who]
                    /\ stalled(who, last[who]) => q[who] >= Limit[who]
  OBVIOUS
<1>1. CASE last[who] = PARKED
  <2>1. ~stalled(who, last[who])
    BY <1>1 DEF stalled
  <2>2. q[who] = -1 /\ Limit[who] \in Nat
    BY <1>1, Bounds DEF Off
  <2> QED  BY <2>1, <2>2
<1>2. CASE last[who] # PARKED
  <2>1. q[who] \in Nat /\ wrapping_sub(now, last[who]) \in {q[who], q[who] + 1}
    BY <1>2 DEF Off
  <2>2. now \in 0..W-1 /\ last[who] \in 0..W-1
    BY DEF TrialTypes
  <2> QED  BY <1>2, <2>1, <2>2, NotStalledIsHeard
<1> QED  BY <1>1, <1>2

LEMMA SilenceBounded ==
    ASSUME TrialTypes, BeatsAreTrue, PHASE = "supervised", NEW who \in Who
    PROVE  quiet[who] < Limit[who] + WATCHDOG_TIMEOUT
<1>1. /\ quiet[who] \in Nat \/ quiet[who] = -1
      /\ wdt \in 1..WATCHDOG_TIMEOUT /\ Limit[who] \in Nat
      /\ quiet[who] <= Limit[who] + (WATCHDOG_TIMEOUT - wdt)
  BY Bounds DEF TrialTypes, BeatsAreTrue, FedInTime, Off
<1> QED  BY <1>1, Bounds

LEMMA FrameHears ==
    ASSUME TrialTypes, BeatsAreTrue, PHASE = "supervised"
    PROVE  /\ ~Resets => \A who \in Who : quiet[who] <= Limit[who]
           /\ Resets => \E who \in Who : quiet[who] >= Limit[who]
<1>1. LAST_BEAT \in [Who -> 0..W-1] /\ quiet \in [Who -> Nat \cup {Off}]
  BY DEF TrialTypes
<1>2. \A who \in Who :
         IF LAST_BEAT[who] = PARKED THEN quiet[who] = Off
         ELSE quiet[who] >= 0
              /\ wrapping_sub(now, LAST_BEAT[who]) \in {quiet[who], quiet[who] + 1}
  BY DEF BeatsAreTrue, BeatIsTrue, Age
<1> QED  BY <1>1, <1>2, SilenceBounded, HeardAll DEF Resets

(* What the gate and the properties call alive is the same: if the beats   *)
(* main looks at are all recent enough, no task is silent beyond its limit.*)
LEMMA AliveIsHeard ==
    ASSUME TrialTypes, NamesOK, NothingYet, BeatsAreTrue, EndOfStep, main_pc # "init",
           NothingMissing(NetworkUp)
    PROVE  AllSpeak
<1>1. /\ PHASE = "supervised" /\ beat(Main) /\ now' = now /\ Main \in Who
  BY EndOfStepParts, Bounds DEF NothingYet, NamesOK
<1>2. \A who \in Who : ~stalled(who, LAST_BEAT'[who])
  BY DEF NothingMissing, all_alive
<1>3. LAST_BEAT' \in [Who -> 0..W-1] /\ quiet' \in [Who -> Nat \cup {Off}]
  BY <1>1, BeatType
<1>4. \A who \in Who : BeatIsTrue(who)'
                        /\ (quiet[who] # quiet'[who] => quiet'[who] = 0)
  BY <1>1, BeatKeeps
<1>5. \A who \in Who :
         IF LAST_BEAT'[who] = PARKED THEN quiet'[who] = Off
         ELSE quiet'[who] >= 0
              /\ wrapping_sub(now, LAST_BEAT'[who])
                   \in {quiet'[who], quiet'[who] + 1}
  BY <1>4, <1>1 DEF BeatIsTrue, Age
<1>6. \A who \in Who : quiet'[who] < Limit[who] + WATCHDOG_TIMEOUT
  <2> TAKE who \in Who
  <2>1. quiet[who] < Limit[who] + WATCHDOG_TIMEOUT /\ Limit[who] \in Nat
    BY <1>1, SilenceBounded, Bounds
  <2> QED  BY <2>1, <1>4, Bounds
<1> QED  BY <1>2, <1>3, <1>5, <1>6, HeardAll DEF AllSpeak

(* The feed: the watchdog's timeout starts again with everybody heard.     *)
LEMMA BeatsStep == IInv /\ [TrialNext]_trialVars => BeatsAreTrue'
<1> SUFFICES ASSUME TrialTypes, NamesOK, NothingYet, BeatsAreTrue, [TrialNext]_trialVars,
                    PHASE' = "supervised", NEW w \in Who
             PROVE  BeatIsTrue(w)' /\ FedInTime(w)'
  BY TypeParts DEF IInv, BeatsAreTrue
<1>a. Limit[w] \in Nat /\ WATCHDOG_TIMEOUT \in Nat /\ wdt \in 1..WATCHDOG_TIMEOUT
      /\ (quiet[w] \in Nat \/ quiet[w] = -1)
  BY Bounds DEF TrialTypes, Off
<1>b. ASSUME PHASE = "supervised", quiet'[w] \in {quiet[w], 0}, wdt' = wdt
      PROVE  FedInTime(w)'
  BY <1>b, <1>a DEF BeatsAreTrue, FedInTime
<1>c. ASSUME PHASE = "supervised", NEW who \in Who, beat(who), now' = now, wdt' = wdt
      PROVE  BeatIsTrue(w)' /\ FedInTime(w)'
  <2>1. BeatIsTrue(w)' /\ (quiet[w] # quiet'[w] => quiet'[w] = 0)
    BY <1>c, BeatKeeps
  <2> QED  BY <2>1, <1>b, <1>c
<1>d. ASSUME UNCHANGED <<LAST_BEAT, quiet, now, wdt, PHASE>>
      PROVE  BeatIsTrue(w)' /\ FedInTime(w)'
  BY <1>d DEF BeatsAreTrue, BeatIsTrue, FedInTime, Age
<1>1. CASE Boot
  BY <1>1, <1>d DEF Boot, clock, beats
<1>2. CASE TimePasses
  <2>1. /\ PHASE = "supervised" /\ LAST_BEAT' = LAST_BEAT
        /\ now' = (IF now + 1 = W THEN 0 ELSE now + 1)
        /\ wdt > 1 /\ wdt' = wdt - 1 /\ quiet'[w] = Silent(w)
    BY <1>2 DEF TimePasses, Tick
  <2>2. BeatIsTrue(w) /\ FedInTime(w)
    BY <2>1 DEF BeatsAreTrue
  <2>3. CASE LAST_BEAT[w] = PARKED
    <3>1. quiet[w] = Off /\ quiet'[w] = Off
      BY <2>1, <2>2, <2>3 DEF BeatIsTrue, Silent
    <3>2. FedInTime(w)'
      BY <3>1, <2>1, <2>2, <1>a DEF FedInTime, Off
    <3> QED  BY <2>1, <2>3, <3>1, <3>2 DEF BeatIsTrue
  <2>4. CASE LAST_BEAT[w] # PARKED
    <3> DEFINE q == quiet[w]
               a == wrapping_sub(now, LAST_BEAT[w])
    <3>1. q \in Nat /\ a \in {q, q + 1} /\ q <= Limit[w] + (WATCHDOG_TIMEOUT - wdt)
      BY <2>2, <2>4, <1>a DEF BeatIsTrue, FedInTime, Age
    <3>2. quiet'[w] = q + 1
      BY <2>1, <3>1, <1>a DEF Silent, Least, Off
    <3>3. 2 * (Limit[w] + WATCHDOG_TIMEOUT + 1) < W
      BY SupervisorAssumption
    <3>4. now \in 0..W-1 /\ LAST_BEAT[w] \in 0..W-1 /\ W \in Nat
      BY Bounds DEF TrialTypes
    <3>5. a + 1 < W
      <4> HIDE DEF a, q
      <4> QED  BY <3>1, <3>3, <3>4, <2>1, <1>a
    <3>6. wrapping_sub(now', LAST_BEAT[w]) = a + 1
      BY <3>4, <3>5, <2>1, AgeGrows
    <3>7. BeatIsTrue(w)'
      <4>1. quiet'[w] >= 0 /\ wrapping_sub(now', LAST_BEAT[w]) \in {quiet'[w], quiet'[w] + 1}
        <5> HIDE DEF a, q
        <5> QED  BY <3>1, <3>2, <3>6, <3>5
      <4> QED  BY <4>1, <2>1, <2>4 DEF BeatIsTrue, Age
    <3>8. FedInTime(w)'
      <4> HIDE DEF a, q
      <4> QED  BY <3>1, <3>2, <2>1, <1>a DEF FedInTime
    <3> QED  BY <3>7, <3>8
  <2> QED  BY <2>3, <2>4
<1>3. ASSUME NEW cause, Reset(cause) PROVE FALSE
  BY <1>3 DEF Reset
<1>4. CASE FeedInit
  BY <1>4 DEF FeedInit
<1>5. CASE Collect
  BY <1>5, <1>d DEF Collect, sup
<1>6. CASE MainStarts
  <2>1. /\ LAST_BEAT'[w] = FirstBeat(w) /\ wdt' = WATCHDOG_TIMEOUT /\ now' = now
        /\ quiet'[w] = IF w \in StartsParked THEN Off ELSE 0
    BY <1>6 DEF MainStarts, start, clock
  <2>2. now <= InitTime
    BY <1>6 DEF MainStarts
  <2>3. FirstBeat(w) = IF w \in StartsParked THEN PARKED ELSE now
    BY DEF FirstBeat
  <2>4. now \in Nat /\ now < PARKED
    <3>1. now \in 0..W-1
      BY DEF TrialTypes
    <3> QED  BY <3>1, <2>2, Numbers DEF PARKED
  <2>5. BeatIsTrue(w)'
    <3>1. wrapping_sub(now, now) = 0
      BY <2>4 DEF wrapping_sub
    <3>2. CASE w \in StartsParked
      BY <3>2, <2>1, <2>3 DEF BeatIsTrue
    <3>3. CASE w \notin StartsParked
      <4>1. LAST_BEAT'[w] = now /\ quiet'[w] = 0 /\ now # PARKED /\ now' = now
        BY <3>3, <2>1, <2>3, <2>4, Bounds DEF PARKED
      <4>2. wrapping_sub(now', LAST_BEAT'[w]) \in {quiet'[w], quiet'[w] + 1}
        BY <4>1, <3>1
      <4> QED  BY <4>1, <4>2 DEF BeatIsTrue, Age
    <3> QED  BY <3>2, <3>3
  <2>6. FedInTime(w)'
    BY <2>1, <1>a DEF FedInTime, Off
  <2> QED  BY <2>5, <2>6
<1>7. ASSUME EndOfStep, main_pc # "init" PROVE BeatIsTrue(w)' /\ FedInTime(w)'
  <2>1. /\ PHASE = "supervised" /\ beat(Main) /\ now' = now /\ Main \in Who
    BY <1>7, EndOfStepParts, Bounds DEF NothingYet, NamesOK
  <2>2. CASE wdt' = wdt
    BY <2>1, <2>2, <1>c
  <2>3. CASE wdt' # wdt
    <3>1. NothingMissing(NetworkUp) /\ wdt' = WATCHDOG_TIMEOUT
      BY <1>7, <2>3, EndOfStepParts, BuyParts, NetworkUpType
    <3>2. \A who \in Who : BeatIsTrue(who)'
      BY <2>1, BeatKeeps
    <3>7. quiet'[w] <= Limit[w]
      BY <1>7, <3>1, AliveIsHeard DEF AllSpeak
    <3>8. FedInTime(w)'
      BY <3>1, <3>7, <1>a DEF FedInTime
    <3> QED  BY <3>2, <3>8
  <2> QED  BY <2>2, <2>3
<1>8. CASE MainJoins
  BY <1>8, <1>c, Bounds DEF MainJoins, clock
<1>9. CASE LinkStatus
  BY <1>9, <1>c, Bounds DEF LinkStatus, clock
<1>10. ASSUME NEW who \in Who, Beats(who) PROVE BeatIsTrue(w)' /\ FedInTime(w)'
  BY <1>10, <1>c DEF Beats, clock
<1>11. ASSUME NEW who \in Who, Parks(who) PROVE BeatIsTrue(w)' /\ FedInTime(w)'
  <2>1. /\ PHASE = "supervised" /\ now' = now /\ wdt' = wdt
        /\ IF w = who THEN LAST_BEAT'[w] = PARKED /\ quiet'[w] = Off
           ELSE LAST_BEAT'[w] = LAST_BEAT[w] /\ quiet'[w] = quiet[w]
    BY <1>11 DEF Parks, park, clock, TrialTypes
  <2>2. BeatIsTrue(w)'
    BY <2>1 DEF BeatIsTrue, Age, BeatsAreTrue
  <2>3. FedInTime(w)'
    BY <2>1, <1>a DEF FedInTime, BeatsAreTrue, Off
  <2> QED  BY <2>2, <2>3
<1>12. CASE Proves
  BY <1>12, <1>d DEF Proves, clock, beats
<1>13. CASE RoundDone
  BY <1>13, <1>d DEF RoundDone, sup
<1>14. CASE WifiChanges
  BY <1>14, <1>d DEF WifiChanges, sup
<1>15. CASE FrameChecks
  <2>1. /\ PHASE = "supervised" /\ ~Resets /\ UNCHANGED <<LAST_BEAT, quiet, now>>
        /\ wdt' \in {wdt, WATCHDOG_TIMEOUT}
    BY <1>15 DEF FrameChecks, on_frame, beats
  <2>2. quiet[w] <= Limit[w]
    BY <2>1, FrameHears
  <2>3. FedInTime(w)'
    BY <2>1, <2>2, <1>a DEF FedInTime
  <2>4. BeatIsTrue(w)'
    BY <2>1 DEF BeatsAreTrue, BeatIsTrue, Age
  <2> QED  BY <2>3, <2>4
<1>16. CASE UNCHANGED trialVars
  BY <1>16, <1>d DEF trialVars, sup
<1> QED  BY <1>1, <1>2, <1>3, <1>4, <1>5, <1>6, <1>7, <1>8, <1>9, <1>10, <1>11,
            <1>12, <1>13, <1>14, <1>15, <1>16
         DEF TrialNext, FrameResets, WatchdogResets, MainTop, JoinFails, DhcpTimesOut,
             JoinSucceeds

-----------------------------------------------------------------------------
OnTrial == buy \in {"pending", "timed out"}

LEMMA TrialStep == IInv /\ [TrialNext]_trialVars => TrialIsFed'
<1> SUFFICES ASSUME TimesOK, NamesOK, NothingYet, TrialIsFed, [TrialNext]_trialVars,
                    OnTrial'
             PROVE  /\ wrapped' = FALSE /\ now' + wdt' < BUY_DEADLINE + WATCHDOG_TIMEOUT
                    /\ PHASE' = "supervised" => BUY_DEADLINE_MS' = BUY_DEADLINE
  BY TypeParts DEF IInv, TrialIsFed, OnTrial
<1>a. now \in Nat /\ now < W /\ wdt \in Nat /\ wdt >= 1
  <2>1. now \in 0..W-1 /\ wdt \in 1..WATCHDOG_TIMEOUT
    BY DEF TimesOK
  <2> QED  BY <2>1, Numbers
<1>1. CASE Boot
  <2>1. /\ wrapped' = wrapped /\ now' = now /\ wdt' = wdt /\ PHASE' = PHASE
        /\ down # "no"
    BY <1>1 DEF Boot, clock
  <2>2. now = 0 /\ wdt = WATCHDOG_TIMEOUT /\ wrapped = FALSE /\ PHASE # "supervised"
    BY <2>1 DEF NothingYet
  <2>3. 0 + WATCHDOG_TIMEOUT < BUY_DEADLINE + WATCHDOG_TIMEOUT
    BY Numbers
  <2> QED  BY <2>1, <2>2, <2>3
<1>2. CASE TimePasses
  <2>1. /\ buy' = buy /\ PHASE' = PHASE /\ BUY_DEADLINE_MS' = BUY_DEADLINE_MS
        /\ now' = (IF now + 1 = W THEN 0 ELSE now + 1) /\ wdt > 1 /\ wdt' = wdt - 1
    BY <1>2 DEF TimePasses, Tick
  <2>2. wrapped = FALSE /\ now + wdt < BUY_DEADLINE + WATCHDOG_TIMEOUT
    BY <2>1 DEF TrialIsFed, OnTrial
  <2>3. now + 1 # W
    BY <2>1, <2>2, <1>a, Numbers
  <2>4. wrapped' = FALSE
    BY <1>2, <2>2, <2>3 DEF TimePasses, Tick
  <2>5. now' + wdt' < BUY_DEADLINE + WATCHDOG_TIMEOUT
    BY <2>1, <2>2, <2>3, <1>a, Numbers
  <2> QED  BY <2>1, <2>4, <2>5 DEF TrialIsFed, OnTrial
<1>3. ASSUME NEW cause, Reset(cause) PROVE FALSE
  BY <1>3 DEF Reset, OnTrial
<1>4. CASE FeedInit
  <2>1. /\ now < InitTime /\ now' = now /\ wdt' = WATCHDOG_TIMEOUT /\ buy' = buy
        /\ wrapped' = wrapped /\ PHASE = "init" /\ PHASE' = PHASE
    BY <1>4 DEF FeedInit, clock, gate
  <2>2. now' + wdt' < BUY_DEADLINE + WATCHDOG_TIMEOUT
    BY <2>1, <1>a, Numbers
  <2> QED  BY <2>1, <2>2 DEF TrialIsFed, OnTrial
<1>5. ASSUME UNCHANGED <<wrapped, now, wdt, buy, PHASE, BUY_DEADLINE_MS>>
      PROVE  /\ wrapped' = FALSE /\ now' + wdt' < BUY_DEADLINE + WATCHDOG_TIMEOUT
             /\ PHASE' = "supervised" => BUY_DEADLINE_MS' = BUY_DEADLINE
  BY <1>5 DEF TrialIsFed, OnTrial
<1>6. CASE Collect
  BY <1>6, <1>5 DEF Collect, sup, gate
<1>7. CASE MainStarts
  <2>1. /\ now <= InitTime /\ now' = now /\ wdt' = WATCHDOG_TIMEOUT /\ buy' = buy
        /\ wrapped' = wrapped /\ PHASE = "init"
        /\ BUY_DEADLINE_MS' = IF buy = "pending" THEN BUY_DEADLINE ELSE 0
    BY <1>7 DEF MainStarts, start, clock, gate
  <2>2. buy = "pending"
    BY <2>1 DEF NothingYet, OnTrial
  <2>3. now' + wdt' < BUY_DEADLINE + WATCHDOG_TIMEOUT
    BY <2>1, <1>a, Numbers
  <2>4. wrapped = FALSE
    BY <2>2 DEF TrialIsFed
  <2> QED  BY <2>1, <2>2, <2>3, <2>4
<1>8. ASSUME EndOfStep
      PROVE  /\ wrapped' = FALSE /\ now' + wdt' < BUY_DEADLINE + WATCHDOG_TIMEOUT
             /\ PHASE' = "supervised" => BUY_DEADLINE_MS' = BUY_DEADLINE
  <2>1. /\ UNCHANGED <<wdt, BUY_DEADLINE_MS>>
        /\ buy' = buy \/ (buy = "pending" /\ buy' = "timed out")
    BY <1>8, EndOfStepParts, BuyParts, NetworkUpType DEF OnTrial
  <2> QED  BY <1>8, <2>1, EndOfStepParts DEF TrialIsFed, OnTrial
<1>9. CASE MainJoins
  BY <1>9, <1>5 DEF MainJoins, clock, gate
<1>10. CASE LinkStatus
  BY <1>10, <1>5 DEF LinkStatus, clock, gate
<1>11. ASSUME NEW who \in Who, Beats(who) \/ Parks(who)
       PROVE  UNCHANGED <<wrapped, now, wdt, buy, PHASE, BUY_DEADLINE_MS>>
  BY <1>11 DEF Beats, Parks, clock, gate
<1>12. CASE Proves
  BY <1>12, <1>5 DEF Proves, clock, gate
<1>13. CASE RoundDone
  BY <1>13, <1>5 DEF RoundDone, sup, gate
<1>14. CASE WifiChanges
  BY <1>14, <1>5 DEF WifiChanges, sup, gate
<1>15. CASE FrameChecks
  <2>1. /\ PHASE = "supervised" /\ wdt' = IF Feeds THEN WATCHDOG_TIMEOUT ELSE wdt
        /\ UNCHANGED <<wrapped, now, buy, PHASE, BUY_DEADLINE_MS>>
    BY <1>15 DEF FrameChecks, on_frame, gate
  <2>2. /\ wrapped = FALSE /\ now + wdt < BUY_DEADLINE + WATCHDOG_TIMEOUT
        /\ BUY_DEADLINE_MS = BUY_DEADLINE
    BY <2>1 DEF TrialIsFed, OnTrial
  <2>3. Feeds => now < BUY_DEADLINE
    BY <2>2, <1>a, Numbers DEF Feeds, DeadlinePassed
  <2>4. now' + wdt' < BUY_DEADLINE + WATCHDOG_TIMEOUT
    BY <2>1, <2>2, <2>3, <1>a, Numbers
  <2> QED  BY <2>1, <2>2, <2>4
<1>16. CASE UNCHANGED trialVars
  BY <1>16, <1>5 DEF trialVars, sup, gate
<1> QED  BY <1>1, <1>2, <1>3, <1>4, <1>5, <1>6, <1>7, <1>8, <1>9, <1>10, <1>11,
            <1>12, <1>13, <1>14, <1>15, <1>16
         DEF TrialNext, FrameResets, WatchdogResets, MainTop, JoinFails, DhcpTimesOut,
             JoinSucceeds

LEMMA ClearingStep == IInv /\ [TrialNext]_trialVars => ClearingIsAllowed'
<1> SUFFICES ASSUME NamesOK, NothingYet, ClearingIsAllowed, [TrialNext]_trialVars
             PROVE  ClearingIsAllowed'
  BY TypeParts DEF IInv
<1> USE DEF ClearingIsAllowed
<1>1. CASE Boot
  <2>1. CLEAR_ALLOWED' = CLEAR_ALLOWED /\ down # "no"
    BY <1>1 DEF Boot, clearing
  <2>2. CLEAR_ALLOWED' # FALSE => /\ mode' = "normal"
                                  /\ buy' \in {"not tbyb", "bought"}
    <3>1. PHASE = "init"
      BY <2>1 DEF NothingYet, NamesOK
    <3> QED  BY <2>1, <3>1 DEF NothingYet
  <2> QED  BY <2>2
<1>2. ASSUME UNCHANGED <<CLEAR_ALLOWED, mode, buy>> PROVE ClearingIsAllowed'
  BY <1>2
<1>3. CASE TimePasses
  BY <1>3, <1>2 DEF TimePasses, Tick, own
<1>4. ASSUME NEW cause, Reset(cause) PROVE ClearingIsAllowed'
  BY <1>4 DEF Reset
<1>5. CASE FeedInit
  BY <1>5, <1>2 DEF FeedInit, clearing, gate, own
<1>6. CASE Collect
  BY <1>6, <1>2 DEF Collect, sup, gate
<1>7. CASE MainStarts
  <2>1. buy \in {"not tbyb", "pending"} /\ buy' = buy /\ mode' = mode
    BY <1>7 DEF MainStarts, start, gate, own, NothingYet
  <2>2. CLEAR_ALLOWED' = (mode = "normal" /\ buy # "pending")
    BY <1>7 DEF MainStarts
  <2> QED  BY <2>1, <2>2
<1>8. ASSUME EndOfStep PROVE ClearingIsAllowed'
  <2>1. mode' = mode
    BY <1>8, EndOfStepParts
  <2>2. CASE CLEAR_ALLOWED' = CLEAR_ALLOWED
             /\ (buy' = buy \/ (buy = "pending" /\ buy' = "timed out"))
    BY <2>1, <2>2
  <2>3. CASE /\ buy = "pending" /\ buy' \in {"bought", "failed"}
             /\ CLEAR_ALLOWED' = (CLEAR_ALLOWED \/ buy' = "bought")
    <3>1. CLEAR_ALLOWED = FALSE
      BY <2>3
    <3>2. mode = "normal"
      BY <2>3 DEF NothingYet, NamesOK
    <3>3. CLEAR_ALLOWED' # FALSE => buy' = "bought"
      BY <3>1, <2>3
    <3> QED  BY <2>1, <3>2, <3>3
  <2> QED  BY <1>8, <2>2, <2>3, EndOfStepParts, BuyParts, NetworkUpType
<1>9. CASE MainJoins
  BY <1>9, <1>2 DEF MainJoins, clearing, gate, own
<1>10. CASE LinkStatus
  BY <1>10, <1>2 DEF LinkStatus, clearing, gate, own
<1>11. ASSUME NEW who \in Who, Beats(who) \/ Parks(who) PROVE ClearingIsAllowed'
  BY <1>11, <1>2 DEF Beats, Parks, clearing, gate, own
<1>12. CASE Proves
  BY <1>12, <1>2 DEF Proves, flags, gate
<1>13. CASE RoundDone
  BY <1>13, <1>2 DEF RoundDone, sup, gate
<1>14. CASE WifiChanges
  BY <1>14, <1>2 DEF WifiChanges, sup, gate, own
<1>15. CASE FrameChecks
  BY <1>15, <1>2 DEF FrameChecks, on_frame, clearing, gate, own
<1>16. CASE UNCHANGED trialVars
  BY <1>16, <1>2 DEF trialVars, sup, gate, own
<1> QED  BY <1>1, <1>2, <1>3, <1>4, <1>5, <1>6, <1>7, <1>8, <1>9, <1>10, <1>11,
            <1>12, <1>13, <1>14, <1>15, <1>16
         DEF TrialNext, FrameResets, WatchdogResets, MainTop, JoinFails, DhcpTimesOut,
             JoinSucceeds

-----------------------------------------------------------------------------
LEMMA ProofStep == IInv /\ [TrialNext]_trialVars => ProofIsTrue'
<1> SUFFICES ASSUME TimesOK, ProofIsTrue, [TrialNext]_trialVars PROVE ProofIsTrue'
  BY TypeParts DEF IInv
<1>a. /\ now \in 0..W-1 /\ PROVED_AT_MS \in 0..W-1
      /\ proved_for \in 0..HEALTHY_CLEAR \cup {-1}
  BY DEF TimesOK, Off
<1>b. HEALTHY_CLEAR \in Nat /\ HEALTHY_CLEAR >= 1 /\ HEALTHY_CLEAR < W - 1
      /\ W \in Nat /\ W > 2
  BY Bounds
<1>1. ASSUME UNCHANGED <<now, PROVED_AT_MS, proved_for>> PROVE ProofIsTrue'
  BY <1>1 DEF ProofIsTrue
<1>2. CASE TimePasses
  <2>1. /\ now' = (IF now + 1 = W THEN 0 ELSE now + 1)
        /\ PROVED_AT_MS' = PROVED_AT_MS
        /\ proved_for' = IF proved_for = Off THEN Off
                         ELSE Least(proved_for + 1, HEALTHY_CLEAR)
    BY <1>2 DEF TimePasses, Tick
  <2>2. (PROVED_AT_MS' = 0) <=> (proved_for' = Off)
    BY <2>1, <1>a, <1>b DEF ProofIsTrue, Off, Least
  <2>3. ASSUME proved_for' \in 0..HEALTHY_CLEAR - 1
        PROVE  LET age == wrapping_sub(now', PROVED_AT_MS) IN
               \/ age = proved_for'
               \/ PROVED_AT_MS = 1 /\ proved_for' >= 1 /\ age = proved_for' - 1
    <3>1. /\ proved_for \in 0..HEALTHY_CLEAR - 1
          /\ proved_for' = proved_for + 1
      BY <2>1, <2>3, <1>a, <1>b DEF Off, Least
    <3> DEFINE a == wrapping_sub(now, PROVED_AT_MS)
    <3>2. \/ a = proved_for
          \/ PROVED_AT_MS = 1 /\ proved_for = 0 /\ now = 0
          \/ PROVED_AT_MS = 1 /\ proved_for >= 1 /\ a = proved_for - 1
      BY <3>1 DEF ProofIsTrue
    <3>3. CASE PROVED_AT_MS = 1 /\ proved_for = 0 /\ now = 0
      <4>1. wrapping_sub(now', PROVED_AT_MS) = 0
        BY <2>1, <3>3, <1>b DEF wrapping_sub
      <4> QED  BY <3>1, <3>3, <4>1
    <3>4. CASE a + 1 < W
      <4>1. wrapping_sub(now', PROVED_AT_MS) = a + 1
        BY <2>1, <3>4, <1>a, AgeGrows
      <4>2. a \in Nat
        BY <1>a, <1>b, AgeType
      <4> HIDE DEF a
      <4> QED  BY <3>1, <3>2, <3>3, <4>1, <4>2
    <3>5. a + 1 < W \/ (PROVED_AT_MS = 1 /\ proved_for = 0 /\ now = 0)
      <4> HIDE DEF a
      <4> QED  BY <3>1, <3>2, <1>b
    <3> QED  BY <3>3, <3>4, <3>5
  <2> QED  BY <2>1, <2>2, <2>3 DEF ProofIsTrue
<1>3. ASSUME NEW cause, Reset(cause) PROVE ProofIsTrue'
  <2>1. PROVED_AT_MS' = 0 /\ proved_for' = Off
    BY <1>3 DEF Reset
  <2>2. proved_for' \notin 0..HEALTHY_CLEAR - 1
    BY <2>1, <1>b DEF Off
  <2> QED  BY <2>1, <2>2 DEF ProofIsTrue
<1>4. CASE Proves
  <2>1. CASE PROVED_AT_MS # 0
    BY <2>1, <1>4, <1>1 DEF Proves, ota_proved, clock
  <2>2. CASE PROVED_AT_MS = 0
    <3>1. PROVED_AT_MS' = Most(now, 1) /\ proved_for' = 0 /\ now' = now
      BY <2>2, <1>4 DEF Proves, ota_proved, clock
    <3>2. PROVED_AT_MS' # 0 /\ proved_for' # Off
      BY <3>1, <1>a DEF Most, Off
    <3>3. CASE now = 0
      BY <3>1, <3>2, <3>3 DEF ProofIsTrue, Most
    <3>4. CASE now # 0
      <4>1. wrapping_sub(now', PROVED_AT_MS') = proved_for'
        BY <3>1, <3>4, <1>a DEF Most, wrapping_sub
      <4> QED  BY <3>2, <4>1 DEF ProofIsTrue
    <3> QED  BY <3>3, <3>4
  <2> QED  BY <2>1, <2>2
<1>5. CASE Boot
  BY <1>5, <1>1 DEF Boot, clock, clearing
<1>6. CASE FeedInit
  BY <1>6, <1>1 DEF FeedInit, clock, clearing
<1>7. CASE Collect
  BY <1>7, <1>1 DEF Collect, sup
<1>8. CASE MainStarts
  BY <1>8, <1>1 DEF MainStarts, clock, proof
<1>9. ASSUME EndOfStep PROVE ProofIsTrue'
  BY <1>9, <1>1, EndOfStepParts
<1>10. CASE MainJoins
  BY <1>10, <1>1 DEF MainJoins, clock, clearing
<1>11. CASE LinkStatus
  BY <1>11, <1>1 DEF LinkStatus, clock, clearing
<1>12. ASSUME NEW who \in Who, Beats(who) \/ Parks(who) PROVE ProofIsTrue'
  BY <1>12, <1>1 DEF Beats, Parks, clock, clearing
<1>13. CASE RoundDone
  BY <1>13, <1>1 DEF RoundDone, sup
<1>14. CASE WifiChanges
  BY <1>14, <1>1 DEF WifiChanges, sup
<1>15. CASE FrameChecks
  BY <1>15, <1>1 DEF FrameChecks, on_frame, clearing
<1>16. CASE UNCHANGED trialVars
  BY <1>16, <1>1 DEF trialVars, sup
<1> QED  BY <1>2, <1>3, <1>4, <1>5, <1>6, <1>7, <1>8, <1>9, <1>10, <1>11,
            <1>12, <1>13, <1>14, <1>15, <1>16
         DEF TrialNext, FrameResets, WatchdogResets, MainTop, JoinFails, DhcpTimesOut,
             JoinSucceeds

-----------------------------------------------------------------------------
(* GateIsTrue holds of what the gate reads and what the properties count.  *)
GateFits(n, b, r, k) ==
    /\ b <= n
    /\ r # Never => /\ r <= n - b /\ k # Never
                    /\ k < BUY_SETTLE => k >= (n - b) - r

LEMMA GateIsTrueFits ==
    GateIsTrue <=> (buy = "pending" => GateFits(now, boot_at, ready_since, ok_for))
  BY DEF GateIsTrue, GateFits, Elapsed

(* The arithmetic of the gate, apart from the names of the states.         *)
LEMMA GateKeeps ==
    ASSUME NEW n \in Nat, NEW b \in Nat, NEW r \in Nat \cup {-1},
           NEW k \in Nat \cup {-1}, GateFits(n, b, r, k)
    PROVE  /\ GateFits(n + 1, b, r, IF k = Never THEN Never ELSE Least(k + 1, BUY_SETTLE))
           /\ GateFits(n, b, IF r = Never THEN n - b ELSE r, Most(k, 0))
           /\ \A j : GateFits(n, b, Never, j)
           /\ (r # Never /\ (n - b) - r >= BUY_SETTLE) => k >= BUY_SETTLE
<1>1. BUY_SETTLE \in Nat
  BY Bounds
<1>2. \A j : GateFits(n, b, Never, j)
  BY DEF GateFits, Never
<1> QED  BY <1>1, <1>2 DEF GateFits, Least, Most, Never

LEMMA GateStep == IInv /\ [TrialNext]_trialVars => GateIsTrue'
<1> SUFFICES ASSUME TrialTypes, TimesOK, NamesOK, NothingYet, BeatsAreTrue, TrialIsFed,
                    GateIsTrue, [TrialNext]_trialVars, buy' = "pending"
             PROVE  GateFits(now, boot_at, ready_since, ok_for)'
  <2>1. (GateIsTrue <=> (buy = "pending" => GateFits(now, boot_at, ready_since, ok_for)))'
    BY GateIsTrueFits, PTL
  <2>2. GateFits(now, boot_at, ready_since, ok_for)'
          = GateFits(now', boot_at', ready_since', ok_for')
    BY DEF GateFits
  <2> QED  BY <2>1, <2>2, TypeParts DEF IInv
<1>a. now \in Nat /\ boot_at \in Nat /\ W \in Nat
  <2>1. now \in 0..W-1 /\ boot_at \in 0..W-1
    BY DEF TimesOK
  <2> QED  BY <2>1, Numbers
<1>b. ready_since \in Nat \cup {-1} /\ ok_for \in Nat \cup {-1}
  <2>1. ready_since \in 0..W-1 \cup {-1} /\ ok_for \in 0..BUY_SETTLE \cup {-1}
    BY DEF TimesOK, Never
  <2> QED  BY <2>1, Numbers, Bounds
<1>c. ASSUME buy = "pending" PROVE GateFits(now, boot_at, ready_since, ok_for)
  BY <1>c, GateIsTrueFits
<1>1. ASSUME UNCHANGED <<now, boot_at, ready_since, ok_for, buy>>
      PROVE  GateFits(now', boot_at', ready_since', ok_for')
  BY <1>1, <1>c
<1>2. CASE Boot
  <2>1. now' = now /\ boot_at' = boot_at /\ ready_since' = ready_since /\ down # "no"
    BY <1>2 DEF Boot, clock
  <2>2. now = 0 /\ boot_at = 0 /\ PHASE # "supervised"
    BY <2>1 DEF NothingYet
  <2>3. ready_since = Never
    BY <2>2 DEF NothingYet, NamesOK
  <2> QED  BY <2>1, <2>2, <2>3 DEF GateFits, Never
<1>3. CASE TimePasses
  <2>1. /\ buy' = buy /\ boot_at' = boot_at /\ ready_since' = ready_since
        /\ now' = (IF now + 1 = W THEN 0 ELSE now + 1)
        /\ ok_for' = IF ok_for = Never THEN Never ELSE Least(ok_for + 1, BUY_SETTLE)
        /\ wdt > 1
    BY <1>3 DEF TimePasses, Tick, own
  <2>2. now + wdt < BUY_DEADLINE + WATCHDOG_TIMEOUT
    BY <2>1 DEF TrialIsFed
  <2>3. wdt \in 1..WATCHDOG_TIMEOUT
    BY DEF TimesOK
  <2>4. now' = now + 1
    BY <2>1, <2>2, <2>3, <1>a, Numbers
  <2>5. GateFits(now, boot_at, ready_since, ok_for)
    BY <2>1, <1>c
  <2> QED  BY <2>1, <2>4, <2>5, <1>a, <1>b, GateKeeps
<1>4. ASSUME NEW cause, Reset(cause) PROVE FALSE
  BY <1>4 DEF Reset
<1>5. CASE FeedInit
  BY <1>5, <1>1 DEF FeedInit, clock, gate, own
<1>6. CASE Collect
  <2>1. boot_at' = now /\ now' = now /\ ready_since' = ready_since /\ PHASE = "init"
    BY <1>6 DEF Collect, sup, gate
  <2>2. ready_since = Never
    BY <2>1 DEF NothingYet
  <2> QED  BY <2>1, <2>2, <1>a DEF GateFits, Never
<1>7. CASE MainStarts
  BY <1>7, <1>1 DEF MainStarts, clock, gate, own
<1>8. ASSUME EndOfStep, main_pc # "init"
      PROVE  GateFits(now', boot_at', ready_since', ok_for')
  <2>1. now' = now /\ boot_at' = boot_at
    BY <1>8, EndOfStepParts
  <2>2. buy = "pending" /\ GateWaits(NetworkUp)
    BY <1>8, EndOfStepParts DEF buy_tick, GateTimesOut, Buys
  <2>3. GateFits(now, boot_at, ready_since, ok_for)
    BY <2>2, <1>c
  <2>4. CASE NothingMissing(NetworkUp)
    <3>1. ready_since' = IF ready_since = Never THEN now - boot_at ELSE ready_since
      BY <2>2, <2>4 DEF GateWaits, Since, Elapsed
    <3>2. AllSpeak
      BY <1>8, <2>4, AliveIsHeard
    <3>3. ok_for' = Most(ok_for, 0)
      BY <1>8, <2>2, <2>4, <3>2, EndOfStepParts DEF Witnessed, NothingMissing
    <3> QED  BY <2>1, <2>3, <3>1, <3>3, <1>a, <1>b, GateKeeps
  <2>5. CASE ~NothingMissing(NetworkUp)
    <3>1. ready_since' = Never
      BY <2>2, <2>5 DEF GateWaits, NotReady
    <3>2. GateFits(now, boot_at, Never, ok_for')
      BY <2>3, <1>a, <1>b, GateKeeps
    <3> QED  BY <2>1, <3>1, <3>2
  <2> QED  BY <2>4, <2>5
<1>9. CASE MainJoins
  BY <1>9, <1>1 DEF MainJoins, clock, gate, own
<1>10. CASE LinkStatus
  BY <1>10, <1>1 DEF LinkStatus, clock, gate, own
<1>11. ASSUME NEW who \in Who, Beats(who) \/ Parks(who)
       PROVE  GateFits(now', boot_at', ready_since', ok_for')
  BY <1>11, <1>1 DEF Beats, Parks, clock, gate, own
<1>12. CASE Proves
  BY <1>12, <1>1 DEF Proves, clock, gate
<1>13. CASE RoundDone
  BY <1>13, <1>1 DEF RoundDone, sup, gate
<1>14. CASE WifiChanges
  BY <1>14, <1>1 DEF WifiChanges, sup, gate, own
<1>15. CASE FrameChecks
  BY <1>15, <1>1 DEF FrameChecks, on_frame, gate, own
<1>16. CASE UNCHANGED trialVars
  BY <1>16, <1>1 DEF trialVars, sup, gate, own
<1>17. GateFits(now', boot_at', ready_since', ok_for')
  BY <1>2, <1>3, <1>4, <1>5, <1>6, <1>7, <1>8, <1>9, <1>10, <1>11,
     <1>12, <1>13, <1>14, <1>15, <1>16
  DEF TrialNext, FrameResets, WatchdogResets, MainTop, JoinFails, DhcpTimesOut,
      JoinSucceeds
<1> QED  BY <1>17 DEF GateFits

-----------------------------------------------------------------------------
(* The inductive invariant holds in every state of every boot.             *)
THEOREM Inductive == TrialSpec => []IInv
<1>1. IInv /\ [TrialNext]_trialVars => IInv'
  <2>1. IInv /\ [TrialNext]_trialVars => TrialTypes'
    <3>1. (TrialTypes <=> FlagsOK /\ TimesOK /\ NamesOK)'
      BY TypeParts, PTL
    <3> QED  BY <3>1, FlagsStep, TimesStep, NamesStep, TypeParts DEF IInv
  <2> QED  BY <2>1, NothingYetStep, BeatsStep, TrialStep, ProofStep,
              ClearingStep, GateStep DEF IInv
<1> QED  BY InitIInv, <1>1, PTL DEF TrialSpec

(* Every variable keeps its type: the stamps stay within the clock's range.*)
THEOREM TrialTypesHold == TrialSpec => []TrialTypes
<1>1. IInv => TrialTypes
  BY DEF IInv
<1> QED  BY Inductive, <1>1, PTL

(* A task that hangs, whichever it is, is answered by a reset before its   *)
(* limit and the watchdog's timeout have passed.                           *)
THEOREM StalledIsResetHolds == TrialSpec => []StalledIsReset
<1>1. IInv => StalledIsReset
  <2> SUFFICES ASSUME TrialTypes, NamesOK, NothingYet, BeatsAreTrue, NEW who \in Who
               PROVE  quiet[who] < Limit[who] + WATCHDOG_TIMEOUT
    BY TypeParts DEF IInv, StalledIsReset
  <2>1. CASE PHASE = "supervised"
    BY <2>1, SilenceBounded
  <2>2. CASE PHASE = "init"
    <3>1. quiet[who] = -1
      BY <2>2 DEF NothingYet, Off
    <3>2. Limit[who] \in Nat
      BY Bounds
    <3> QED  BY <3>1, <3>2, Numbers
  <2> QED  BY <2>1, <2>2 DEF NamesOK
<1> QED  BY Inductive, <1>1, PTL

LEMMA FedLeavesLess ==
    ASSUME NEW n \in 0..W-1, NEW d \in 1..WATCHDOG_TIMEOUT,
           n + d < BUY_DEADLINE + WATCHDOG_TIMEOUT
    PROVE  n < BUY_DEADLINE + WATCHDOG_TIMEOUT
  BY Numbers

(* A trial that does not buy itself is over WATCHDOG_TIMEOUT after the     *)
(* deadline, hung or alive: the bootloader then takes the other slot.      *)
THEOREM TrialEndsHolds == TrialSpec => []TrialEnds
<1>1. IInv => TrialEnds
  <2> SUFFICES ASSUME TimesOK, TrialIsFed, buy \in {"pending", "timed out"}
               PROVE  ~wrapped /\ now < BUY_DEADLINE + WATCHDOG_TIMEOUT
    BY TypeParts DEF IInv, TrialEnds
  <2>1. wrapped = FALSE /\ now + wdt < BUY_DEADLINE + WATCHDOG_TIMEOUT
    BY DEF TrialIsFed
  <2>2. now \in 0..W-1 /\ wdt \in 1..WATCHDOG_TIMEOUT
    BY DEF TimesOK
  <2> QED  BY <2>1, <2>2, FedLeavesLess
<1> QED  BY Inductive, <1>1, PTL

(* The frame interrupt resets only when some task really has been silent   *)
(* for its limit: never for a wrap of the clock or a late beat.            *)
THEOREM NoFalseResetHolds == TrialSpec => NoFalseReset
<1>1. IInv /\ [TrialNext]_trialVars =>
        [down = "no" /\ down' = "stalled"
           => \E who \in Who : quiet[who] >= Limit[who]]_trialVars
  <2> SUFFICES ASSUME TrialTypes, BeatsAreTrue, TrialNext, down = "no", down' = "stalled"
               PROVE  \E who \in Who : quiet[who] >= Limit[who]
    BY DEF IInv
  <2>1. FrameResets
    <3>1. ASSUME down' = down PROVE FALSE
      BY <3>1
    <3>2. ~Boot
      BY DEF Boot
    <3>3. ~TimePasses
      BY <3>1 DEF TimePasses, Tick
    <3>4. ~WatchdogResets
      BY DEF WatchdogResets, Reset
    <3>5. ~EndOfStep
      BY <3>1, EndOfStepParts
    <3>6. ~FeedInit /\ ~MainStarts
      BY <3>1 DEF FeedInit, MainStarts
    <3>7. ~Collect /\ ~RoundDone /\ ~WifiChanges
      BY <3>1 DEF Collect, RoundDone, WifiChanges, sup
    <3>8. ~MainJoins /\ ~LinkStatus
      BY <3>1 DEF MainJoins, LinkStatus
    <3>9. ~Proves /\ ~FrameChecks
      BY <3>1 DEF Proves, FrameChecks, on_frame, flags
    <3>10. \A who \in Who : ~Beats(who) /\ ~Parks(who)
      BY <3>1 DEF Beats, Parks
    <3> QED  BY <3>2, <3>3, <3>4, <3>5, <3>6, <3>7, <3>8, <3>9, <3>10
             DEF TrialNext, MainTop, JoinFails, DhcpTimesOut, JoinSucceeds
  <2> QED  BY <2>1, FrameHears DEF FrameResets
<1> QED  BY Inductive, <1>1, PTL DEF TrialSpec, NoFalseReset

(* The firmware marks itself good only after the whole settling time was   *)
(* seen healthy, and before the deadline.                                  *)
THEOREM BuyIsSettledHolds == TrialSpec => BuyIsSettled
<1>1. IInv /\ [TrialNext]_trialVars =>
        [buy = "pending" /\ buy' \in {"bought", "failed"}
           => ok_for = BUY_SETTLE /\ now - boot_at < BUY_DEADLINE]_trialVars
  <2> SUFFICES ASSUME TimesOK, GateIsTrue, TrialNext, buy = "pending",
                      buy' \in {"bought", "failed"}
               PROVE  ok_for = BUY_SETTLE /\ now - boot_at < BUY_DEADLINE
    BY TypeParts DEF IInv
  <2>1. EndOfStep
    <3>1. ASSUME buy' = buy PROVE FALSE
      BY <3>1
    <3>2. ~Boot
      BY DEF Boot
    <3>3. ~TimePasses
      BY <3>1 DEF TimePasses
    <3>4. \A cause : ~Reset(cause)
      BY DEF Reset
    <3>5. ~FeedInit /\ ~MainStarts /\ ~Collect
      BY <3>1 DEF FeedInit, MainStarts, Collect, gate
    <3>6. ~RoundDone /\ ~WifiChanges /\ ~Proves /\ ~FrameChecks
      BY <3>1 DEF RoundDone, WifiChanges, Proves, FrameChecks, gate
    <3>7. ~MainJoins /\ ~LinkStatus
      BY <3>1 DEF MainJoins, LinkStatus, gate
    <3>8. \A who \in Who : ~Beats(who) /\ ~Parks(who)
      BY <3>1 DEF Beats, Parks, gate
    <3> QED  BY <3>2, <3>3, <3>4, <3>5, <3>6, <3>7, <3>8
             DEF TrialNext, MainTop, JoinFails, DhcpTimesOut, JoinSucceeds,
                 WatchdogResets, FrameResets
  <2>2. Settled /\ Elapsed < BUY_DEADLINE
    BY <2>1, EndOfStepParts, BuyParts, NetworkUpType
  <2>3. GateFits(now, boot_at, ready_since, ok_for)
    BY GateIsTrueFits
  <2>4. now \in 0..W-1 /\ boot_at \in 0..W-1
        /\ ready_since \in 0..W-1 \cup {-1} /\ ok_for \in 0..BUY_SETTLE \cup {-1}
    BY DEF TimesOK, Never
  <2>5. /\ Elapsed - (IF ready_since = Never THEN Elapsed ELSE ready_since) >= BUY_SETTLE
        /\ Elapsed = now - boot_at
    BY <2>2 DEF Settled, Since, Elapsed
  <2>6. now - boot_at < BUY_DEADLINE
    BY <2>2, <2>5
  <2>7. ASSUME NEW n \in 0..W-1, NEW b \in 0..W-1, NEW r \in 0..W-1 \cup {-1},
               NEW k \in 0..BUY_SETTLE \cup {-1}, GateFits(n, b, r, k),
               (n - b) - (IF r = Never THEN n - b ELSE r) >= BUY_SETTLE
        PROVE  k = BUY_SETTLE
    <3>1. BUY_SETTLE \in Nat /\ BUY_SETTLE >= 1 /\ W \in Nat
      BY Bounds
    <3>2. r # Never
      BY <2>7, <3>1
    <3>3. k >= BUY_SETTLE
      BY <2>7, <3>1, <3>2, GateKeeps
    <3> QED  BY <3>1, <3>3, <2>7
  <2>8. ok_for = BUY_SETTLE
    BY <2>3, <2>4, <2>5, <2>7
  <2> QED  BY <2>6, <2>8
<1> QED  BY Inductive, <1>1, PTL DEF TrialSpec, BuyIsSettled

(* The streak of crashes is forgotten only by a normal boot, no trial any  *)
(* more, HEALTHY_CLEAR after its first check came through.                 *)
THEOREM ClearedWhenProvenHolds == TrialSpec => ClearedWhenProven
<1>1. IInv /\ [TrialNext]_trialVars =>
        [~STREAK_CLEARED /\ STREAK_CLEARED'
           => /\ mode = "normal" /\ buy \in {"not tbyb", "bought"}
              /\ \/ proved_for = HEALTHY_CLEAR
                 \/ now = 0 /\ PROVED_AT_MS = 1]_trialVars
  <2> SUFFICES ASSUME TimesOK, FlagsOK, ProofIsTrue, ClearingIsAllowed, TrialNext,
                      ~STREAK_CLEARED, STREAK_CLEARED'
               PROVE  /\ mode = "normal" /\ buy \in {"not tbyb", "bought"}
                      /\ \/ proved_for = HEALTHY_CLEAR
                         \/ now = 0 /\ PROVED_AT_MS = 1
    BY TypeParts DEF IInv
  <2>1. FrameChecks
    <3>1. ASSUME STREAK_CLEARED' = STREAK_CLEARED PROVE FALSE
      BY <3>1
    <3>2. ~Boot
      BY <3>1 DEF Boot
    <3>3. ~TimePasses
      BY <3>1 DEF TimePasses, Tick
    <3>4. \A cause : ~Reset(cause)
      BY DEF Reset
    <3>5. ~FeedInit /\ ~MainStarts
      BY <3>1 DEF FeedInit, MainStarts
    <3>6. ~RoundDone /\ ~WifiChanges /\ ~Collect
      BY <3>1 DEF RoundDone, WifiChanges, Collect, sup
    <3>7. ~MainJoins /\ ~LinkStatus
      BY <3>1 DEF MainJoins, LinkStatus
    <3>8. \A who \in Who : ~Beats(who) /\ ~Parks(who)
      BY <3>1 DEF Beats, Parks
    <3>9. ~Proves
      BY <3>1 DEF Proves, flags
    <3>10. ~EndOfStep
      BY <3>1, EndOfStepParts
    <3> QED  BY <3>2, <3>3, <3>4, <3>5, <3>6, <3>7, <3>8, <3>9, <3>10
             DEF TrialNext, MainTop, JoinFails, DhcpTimesOut, JoinSucceeds,
                 WatchdogResets, FrameResets
  <2>2. ClearsStreak
    BY <2>1 DEF FrameChecks, on_frame
  <2>3. mode = "normal" /\ buy \in {"not tbyb", "bought"}
    BY <2>2 DEF ClearsStreak, ClearingIsAllowed
  <2>4. PROVED_AT_MS # 0 /\ wrapping_sub(now, PROVED_AT_MS) >= HEALTHY_CLEAR
    BY <2>2 DEF ClearsStreak
  <2>5. proved_for \in 0..HEALTHY_CLEAR
    BY <2>4 DEF ProofIsTrue, TimesOK
  <2>6. CASE proved_for \in 0..HEALTHY_CLEAR - 1
    <3> DEFINE a == wrapping_sub(now, PROVED_AT_MS)
    <3>1. \/ a = proved_for
          \/ PROVED_AT_MS = 1 /\ now = 0
          \/ a = proved_for - 1
      BY <2>6 DEF ProofIsTrue
    <3>2. a >= HEALTHY_CLEAR
      BY <2>4
    <3> HIDE DEF a
    <3>3. a # proved_for /\ a # proved_for - 1
      <4>1. HEALTHY_CLEAR \in Nat
        BY Bounds
      <4>2. ASSUME NEW h \in Nat, NEW p \in 0..h - 1, NEW x, x >= h
            PROVE  x # p /\ x # p - 1
        BY <4>2
      <4> QED  BY <4>1, <4>2, <3>2, <2>6
    <3> QED  BY <2>3, <3>1, <3>3
  <2>7. CASE proved_for \notin 0..HEALTHY_CLEAR - 1
    <3>1. HEALTHY_CLEAR \in Nat
      BY Bounds
    <3>2. ASSUME NEW h \in Nat, NEW p \in 0..h, p \notin 0..h - 1
          PROVE  p = h
      BY <3>2
    <3> QED  BY <3>1, <3>2, <2>3, <2>5, <2>7
  <2> QED  BY <2>6, <2>7
<1> QED  BY Inductive, <1>1, PTL DEF TrialSpec, ClearedWhenProven

-----------------------------------------------------------------------------(***************************************************************************)
(* The record: what the page can hold while it is erased and written.      *)
(***************************************************************************)
PageLines == [text : Names \cup {"torn", "ff"}, len : Nat]
IsRecord(r) ==
    /\ r \in [ssid : Lines, password : Lines, blocked : Nat \ {255}]
    /\ r.ssid.len <= 32 /\ PasswordFits(r.password)

RecordPages == [magic : {"AKP1", "torn", "ff"}, ssid : PageLines, password : PageLines, blocked : Nat,
          crc : {<<>>} \cup (Lines \X Lines \X (Nat \ {255}))]
Damaged(p) ==
    \/ p.magic # "AKP1" \/ p.crc = <<>>
    \/ p.ssid.text = "torn" \/ p.password.text = "torn" \/ p.blocked = 255

RecordsAreSound ==
    /\ IsRecord(record) /\ IsRecord(meant) /\ \A r \in written : IsRecord(r) /\ written = {r}
    /\ card = NoFile \/ card \in Seq(Lines)
    /\ boot \in {"erase", "program"} => record = meant
PageIsTheLast ==
    /\ page \in RecordPages
    /\ Damaged(page) \/ \E r \in written : page = Encode(r)
    /\ Damaged(page) => written = {} \/ hurt \/ boot = "program"
RecordInv == RecordsAreSound /\ PageIsTheLast /\ RecordIsTheLast /\ ErasedForAReason

LEMMA MaxOf == ASSUME NEW a \in Nat, NEW b \in Nat PROVE Max({a, b}) \in {a, b}
BY DEF Max
LEMMA MinOf == ASSUME NEW a \in Nat, NEW b \in Nat PROVE Min({a, b}) = IF a <= b THEN a ELSE b
BY DEF Min
LEMMA TheIn == ASSUME NEW one, one # {} PROVE The(one) \in one
BY DEF The
LEMMA TheOnly == ASSUME NEW x PROVE The({x}) = x
BY DEF The

(* A record is read as it was written, a damaged page not at all; whatever *)
(* is lost of a page, it is damaged, and stays so.                         *)
LEMMA WrittenIsRead ==
  ASSUME NEW r, IsRecord(r) PROVE Decode(Encode(r)) = {r}
<1>1. r = [ssid |-> r.ssid, password |-> r.password, blocked |-> r.blocked]
  BY DEF IsRecord
<1>2. r.ssid.len <= 32 /\ r.password.len <= 64
  BY DEF IsRecord, PasswordFits
<1> DEFINE p == Encode(r)
<1>3. /\ p.magic = "AKP1" /\ p.ssid = r.ssid /\ p.password = r.password /\ p.blocked = r.blocked
      /\ p.crc = <<p.ssid, p.password, p.blocked>>
  BY DEF Encode, Crc
<1> HIDE DEF p
<1>4. Decode(p) = {r}
  BY <1>1, <1>2, <1>3 DEF Decode, Crc
<1> QED
  BY <1>4 DEF p

LEMMA DamagedIsNotRead ==
  ASSUME NEW p \in RecordPages, Damaged(p) PROVE Decode(p) = {}
<1>1. p.crc # <<>> => p.crc[1] \in Lines /\ p.crc[2] \in Lines /\ p.crc[3] \in Nat \ {255}
  BY DEF RecordPages
<1>2. ASSUME NEW l \in Lines PROVE l.text # "torn"
  BY PersistAssumption DEF Lines
<1>3. p.magic # "AKP1" \/ p.crc # <<p.ssid, p.password, p.blocked>>
  BY <1>1, <1>2 DEF Damaged
<1> QED
  BY <1>3 DEF Decode, Crc

LEMMA EncodedIsPage ==
  ASSUME NEW r, IsRecord(r) PROVE Encode(r) \in RecordPages /\ ~Damaged(Encode(r))
<1>1. Lines \subseteq PageLines
  BY DEF Lines, PageLines
<1>2. r.ssid \in Lines /\ r.password \in Lines /\ r.blocked \in Nat \ {255}
  BY DEF IsRecord
<1>3. Encode(r) \in RecordPages
  BY <1>1, <1>2 DEF Encode, Crc, RecordPages
<1> QED
  BY <1>3, WrittenIsRead, DamagedIsNotRead

LEMMA TornIsDamaged ==
  ASSUME NEW p \in RecordPages, NEW lost \in {{f} : f \in Fields} \cup {Fields}
  PROVE  Torn(p, lost) \in RecordPages /\ Damaged(Torn(p, lost))
<1> DEFINE t == Torn(p, lost)
<1>1. /\ t.magic = IF "magic" \in lost THEN "torn" ELSE p.magic
      /\ t.ssid = IF "ssid" \in lost THEN [p.ssid EXCEPT !.text = "torn"] ELSE p.ssid
      /\ t.password = IF "password" \in lost THEN [p.password EXCEPT !.text = "torn"] ELSE p.password
      /\ t.blocked = IF "blocked" \in lost THEN 255 ELSE p.blocked
      /\ t.crc = IF "crc" \in lost THEN <<>> ELSE p.crc
  BY DEF Torn
<1>2. /\ p.magic \in {"AKP1", "torn", "ff"} /\ p.ssid \in PageLines /\ p.password \in PageLines
      /\ p.blocked \in Nat /\ p.crc \in {<<>>} \cup (Lines \X Lines \X (Nat \ {255}))
  BY DEF RecordPages
<1>3. ASSUME NEW l \in PageLines
      PROVE  [l EXCEPT !.text = "torn"] \in PageLines /\ [l EXCEPT !.text = "torn"].text = "torn"
  BY DEF PageLines
<1>4. t \in RecordPages
  <2>1. /\ t.magic \in {"AKP1", "torn", "ff"} /\ t.ssid \in PageLines /\ t.password \in PageLines
        /\ t.blocked \in Nat /\ t.crc \in {<<>>} \cup (Lines \X Lines \X (Nat \ {255}))
    BY <1>1, <1>2, <1>3
  <2>2. t = [magic |-> t.magic, ssid |-> t.ssid, password |-> t.password, blocked |-> t.blocked,
             crc |-> t.crc]
    BY DEF Torn
  <2> HIDE DEF t
  <2> QED
    BY <2>1, <2>2 DEF RecordPages
<1>5. \/ "magic" \in lost \/ "ssid" \in lost \/ "password" \in lost \/ "blocked" \in lost
      \/ "crc" \in lost
  BY DEF Fields
<1> HIDE DEF t
<1>6. Damaged(t)
  BY <1>1, <1>2, <1>3, <1>5 DEF Damaged
<1> QED
  BY <1>4, <1>6 DEF t

(* What is taken from WIFI.TXT is of it.                                   *)
LEMMA CredentialsAre ==
  ASSUME NEW lines \in Seq(Lines), NEW c \in Credentials(lines)
  PROVE  /\ c.ssid \in Lines /\ c.ssid.len <= 32
         /\ c.password \in Lines /\ PasswordFits(c.password)
<1> DEFINE Second(line) == NextLine(lines, line)
           Password(line) == IF Second(line) = {} THEN NoText ELSE lines[The(Second(line))]
<1>1. ASSUME NEW n \in DOMAIN lines PROVE lines[n] \in Lines /\ lines[n].len \in Nat
  <2>1. lines[n] \in Lines
    BY LenProperties
  <2> QED
    BY <2>1 DEF Lines
<1>2. PICK line \in NextLine(lines, 0) :
          c \in IF lines[line].len > 32 \/ ~PasswordFits(Password(line)) THEN {}
                ELSE {[ssid |-> lines[line], password |-> Password(line)]}
  BY DEF Credentials
<1>3. line \in DOMAIN lines
  BY DEF NextLine
<1>4. lines[line].len <= 32 /\ PasswordFits(Password(line))
      /\ c.ssid = lines[line] /\ c.password = Password(line)
  BY <1>1, <1>2, <1>3
<1>5. Password(line) \in Lines
  <2>1. CASE Second(line) = {}
    BY <2>1, PersistAssumption DEF NoText, Text, Lines
  <2>2. CASE Second(line) # {}
    <3>1. The(Second(line)) \in DOMAIN lines
      BY <2>2, TheIn DEF NextLine
    <3> QED
      BY <1>1, <2>2, <3>1
  <2> QED
    BY <2>1, <2>2
<1> QED
  BY <1>1, <1>3, <1>4, <1>5

-----------------------------------------------------------------------------
(* The record as it is read and composed.                                  *)
LEMMA ReadIsLast ==
  ASSUME RecordInv
  PROVE  /\ Decode(page) # {} => Decode(page) = written /\ \E r \in written : IsRecord(r) /\ written = {r}
         /\ Decode(page) = {} => written = {} \/ hurt \/ boot = "program"
<1>1. \A r \in written : IsRecord(r) /\ written = {r}
  BY DEF RecordInv, RecordsAreSound
<1>2. page \in RecordPages
  BY DEF RecordInv, PageIsTheLast
<1>3. CASE Damaged(page)
  BY <1>2, <1>3, DamagedIsNotRead DEF RecordInv, PageIsTheLast
<1>4. ASSUME NEW r \in written, page = Encode(r)
      PROVE  Decode(page) = written /\ IsRecord(r) /\ written = {r}
  BY <1>1, <1>4, WrittenIsRead
<1>5. CASE ~Damaged(page)
  <2>1. PICK r \in written : page = Encode(r)
    BY <1>5 DEF RecordInv, PageIsTheLast
  <2> QED
    BY <1>4, <2>1
<1> QED
  BY <1>3, <1>5

LEMMA NoRecordIsOne == IsRecord(NoRecord)
<1>1. NoText \in Lines /\ NoText.len = 0
  BY PersistAssumption DEF NoText, Text, Lines
<1>2. PasswordFits(NoText) /\ 0 \in Nat \ {255}
  BY <1>1 DEF PasswordFits
<1> QED
  BY <1>1, <1>2 DEF IsRecord, NoRecord

LEMMA FallenAre == ASSUME NEW from \in Fallen \cup {0} PROVE from \in Nat \ {255}
<1>1. Fallen \subseteq Nat \ {0, 255}
  BY PersistAssumption
<1> QED
  BY <1>1

LEMMA RecordBegins == PersistInit => RecordInv
<1> SUFFICES ASSUME PersistInit PROVE RecordInv
  OBVIOUS
<1>1. page \in RecordPages /\ Damaged(page)
  <2>1. BlankPage \in RecordPages
    BY DEF BlankPage, RecordPages, PageLines, Text
  <2>2. Damaged(BlankPage)
    BY DEF BlankPage, Damaged
  <2> QED
    BY <2>1, <2>2 DEF PersistInit
<1>2. RecordsAreSound
  BY NoRecordIsOne DEF PersistInit, RecordsAreSound
<1>3. PageIsTheLast
  BY <1>1 DEF PersistInit, PageIsTheLast
<1>4. Decode(page) = {}
  BY <1>1, DamagedIsNotRead
<1>5. RecordIsTheLast /\ ErasedForAReason
  BY <1>4 DEF PersistInit, RecordIsTheLast, ErasedForAReason
<1> QED
  BY <1>2, <1>3, <1>5 DEF RecordInv

(* What a boot composes says what it is to say.                            *)
LEMMA SetUpKeeps == RecordInv /\ SetUp => RecordInv'
<1> SUFFICES ASSUME RecordInv, SetUp PROVE RecordInv'
  OBVIOUS
<1> DEFINE stored == Decode(page)
           old == IF stored = {} THEN NoRecord ELSE The(stored)
           said == IF stored = {} \/ written = {} THEN NoRecord ELSE The(written)
           Creds(readable) == IF card = NoFile \/ ~readable THEN {} ELSE Credentials(card)
           New(creds, from) == [(IF creds = {} THEN old ELSE WithCredentials(old, The(creds)))
                                  EXCEPT !.blocked = Max({old.blocked, from})]
           Now(creds) == IF creds = {} THEN said ELSE The(creds)
<1>1. PICK from \in Fallen \cup {0}, readable \in BOOLEAN :
        /\ boot \in {"setup", "normal"}
        /\ record' = New(Creds(readable), from)
        /\ meant' = [ssid |-> Now(Creds(readable)).ssid, password |-> Now(Creds(readable)).password,
                     blocked |-> Max({said.blocked, from})]
        /\ boot' = IF DataOffset # {} /\ MustWrite(stored, New(Creds(readable), from)) THEN "erase" ELSE "run"
        /\ UNCHANGED <<rom, base, card, page, joined, broken, written, hurt>>
  BY Zenon DEF SetUp
<1> DEFINE creds == Creds(readable)
           new == New(creds, from)
           says == Now(creds)
<1>2. old = said /\ IsRecord(old) /\ (stored # {} => stored = written /\ stored = {old})
  <2>1. CASE stored = {}
    BY <2>1, NoRecordIsOne
  <2>2. CASE stored # {}
    BY <2>2, ReadIsLast, TheOnly
  <2> QED
    BY <2>1, <2>2
<1> HIDE DEF old, said, stored
<1>3. Max({old.blocked, from}) \in Nat \ {255}
  <2>1. old.blocked \in Nat \ {255} /\ from \in Nat \ {255}
    BY <1>2, FallenAre DEF IsRecord
  <2> QED
    BY <2>1, MaxOf
<1>4. ASSUME creds # {}
      PROVE  /\ The(creds).ssid \in Lines /\ The(creds).ssid.len <= 32
             /\ The(creds).password \in Lines /\ PasswordFits(The(creds).password)
  <2>1. card \in Seq(Lines) /\ creds = Credentials(card)
    BY <1>4 DEF RecordInv, RecordsAreSound
  <2>2. The(creds) \in Credentials(card)
    BY <1>4, <2>1, TheIn
  <2> HIDE DEF creds
  <2> QED
    BY <2>1, <2>2, CredentialsAre
<1> HIDE DEF creds
<1>5. old \in [ssid : Lines, password : Lines, blocked : Nat \ {255}]
      /\ old.ssid.len <= 32 /\ PasswordFits(old.password)
  BY <1>2 DEF IsRecord
<1> DEFINE b == Max({old.blocked, from})
<1> HIDE DEF b
<1>6. /\ new \in [ssid : Lines, password : Lines, blocked : Nat \ {255}]
      /\ new.blocked = b /\ new.ssid = says.ssid /\ new.password = says.password
  <2>0. b \in Nat \ {255} /\ old.ssid \in Lines /\ old.password \in Lines
    BY <1>3, <1>5 DEF b
  <2>1. CASE creds = {}
    <3>1. new = [old EXCEPT !.blocked = b] /\ says = old
      BY <1>2, <2>1 DEF b
    <3> QED
      BY <1>5, <2>0, <3>1
  <2>2. CASE creds # {}
    <3> DEFINE with == WithCredentials(old, The(creds))
    <3>1. new = [with EXCEPT !.blocked = b] /\ says = The(creds)
      BY <2>2 DEF b
    <3>2. /\ with \in [ssid : Lines, password : Lines, blocked : Nat \ {255}]
          /\ with.ssid = The(creds).ssid /\ with.password = The(creds).password
      BY <1>4, <1>5, <2>2 DEF WithCredentials
    <3> HIDE DEF with, new
    <3> QED
      BY <2>0, <3>1, <3>2
  <2> QED
    BY <2>1, <2>2
<1>7. says.ssid.len <= 32 /\ PasswordFits(says.password)
  BY <1>2, <1>4, <1>5
<1>8. record' = new /\ meant' = new /\ IsRecord(new)
  <2>1. new = [ssid |-> new.ssid, password |-> new.password, blocked |-> new.blocked]
    BY <1>6
  <2>2. record' = new
    BY <1>1 DEF creds
  <2>3. meant' = [ssid |-> says.ssid, password |-> says.password, blocked |-> b]
    BY <1>1, <1>2 DEF creds, b
  <2>4. meant' = new
    BY <1>6, <2>1, <2>3
  <2>5. IsRecord(new)
    BY <1>6, <1>7 DEF IsRecord
  <2> QED
    BY <2>2, <2>4, <2>5
<1>9. boot' = "erase" => stored # {new}
  BY <1>1 DEF creds, MustWrite
<1> HIDE DEF new, says
<1>10. boot' \in {"erase", "run"}
  BY <1>1
<1>11. RecordsAreSound'
  BY <1>1, <1>8 DEF RecordInv, RecordsAreSound
<1>12. PageIsTheLast'
  BY <1>1, Zenon DEF RecordInv, PageIsTheLast
<1>13. RecordIsTheLast'
  BY <1>1, <1>10 DEF RecordInv, RecordIsTheLast, Partitions, DataOffset
<1>14. ErasedForAReason'
  <2> SUFFICES ASSUME boot' = "erase" PROVE written # {new} \/ hurt
    BY <1>1, <1>8 DEF ErasedForAReason
  <2>1. CASE stored # {}
    BY <1>2, <1>9, <2>1
  <2>2. CASE stored = {}
    <3>1. written = {} \/ hurt
      BY <1>1, <2>2, ReadIsLast DEF stored
    <3> QED
      BY <3>1
  <2> QED
    BY <2>1, <2>2
<1> QED
  BY <1>11, <1>12, <1>13, <1>14 DEF RecordInv

(* Of the other steps, most leave the page alone.                          *)
LEMMA PageStays ==
  ASSUME RecordInv, UNCHANGED <<page, written, record, meant>>, hurt => hurt',
         boot = "program" => hurt' \/ boot' = "program",
         boot' \notin {"joins", "erase", "program"},
         card' = NoFile \/ card' \in Seq(Lines)
  PROVE  RecordInv'
<1>1. RecordsAreSound'
  BY DEF RecordInv, RecordsAreSound
<1>2. PageIsTheLast'
  <2>1. page \in RecordPages /\ (Damaged(page) \/ \E r \in written : page = Encode(r))
        /\ (Damaged(page) => written = {} \/ hurt \/ boot = "program")
    BY DEF RecordInv, PageIsTheLast
  <2>2. page' = page /\ written' = written
    OBVIOUS
  <2>3. page' \in RecordPages /\ (Damaged(page') \/ \E r \in written' : page' = Encode(r))
    BY <2>1, <2>2
  <2>4. Damaged(page') => written' = {} \/ hurt' \/ boot' = "program"
    BY <2>1, <2>2
  <2> QED
    BY <2>3, <2>4 DEF PageIsTheLast
<1>3. Decode(page)' = Decode(page)
  BY DEF Decode, Crc
<1>4. RecordIsTheLast' /\ ErasedForAReason'
  BY <1>3 DEF RecordInv, RecordIsTheLast, ErasedForAReason
<1> QED
  BY <1>1, <1>2, <1>4 DEF RecordInv

LEMMA CardIsText == RecordInv => card = NoFile \/ card \in Seq(Lines)
BY DEF RecordInv, RecordsAreSound

LEMMA QuietSteps ==
  ASSUME RecordInv, Boots \/ Install \/ Installed \/ CardChanges PROVE RecordInv'
<1>0. \A c \in Cards \cup {Provisioned} : c = NoFile \/ c \in Seq(Lines)
  BY PersistAssumption
<1>1. <<>> \in Seq(Lines)
  BY EmptySeq
<1>2. CASE Boots
  BY <1>2, CardIsText, PageStays DEF Boots
<1>3. CASE Install
  BY <1>1, <1>3, PageStays DEF Install
<1>4. CASE Installed
  BY <1>0, <1>1, <1>4, PageStays DEF Installed
<1>5. CASE CardChanges
  BY <1>0, <1>5, PageStays DEF CardChanges
<1> QED
  BY <1>2, <1>3, <1>4, <1>5

LEMMA TurnsOffKeeps == RecordInv /\ TurnsOff => RecordInv'
<1> SUFFICES ASSUME RecordInv, TurnsOff PROVE RecordInv'
  OBVIOUS
<1>1. RecordsAreSound'
  BY NoRecordIsOne DEF TurnsOff, RecordInv, RecordsAreSound
<1>2. PageIsTheLast'
  <2>1. page \in RecordPages /\ (Damaged(page) \/ \E r \in written : page = Encode(r))
        /\ (Damaged(page) => written = {} \/ hurt \/ boot = "program")
    BY DEF RecordInv, PageIsTheLast
  <2>2. page' = page /\ written' = written /\ hurt' = (hurt \/ boot = "program")
    BY DEF TurnsOff
  <2>3. page' \in RecordPages /\ (Damaged(page') \/ \E r \in written' : page' = Encode(r))
    BY <2>1, <2>2
  <2>4. Damaged(page') => written' = {} \/ hurt'
    BY <2>1, <2>2
  <2> QED
    BY <2>3, <2>4 DEF PageIsTheLast
<1>3. Decode(page)' = Decode(page)
  BY DEF TurnsOff, Decode, Crc
<1>4. RecordIsTheLast' /\ ErasedForAReason'
  BY <1>3 DEF TurnsOff, RecordInv, RecordIsTheLast, ErasedForAReason
<1> QED
  BY <1>1, <1>2, <1>4 DEF RecordInv

LEMMA EraseRecordKeeps == RecordInv /\ EraseRecord => RecordInv'
<1> SUFFICES ASSUME RecordInv, EraseRecord PROVE RecordInv'
  OBVIOUS
<1>1. page' \in RecordPages /\ Damaged(page') /\ boot' = "program"
  <2>1. BlankPage \in RecordPages
    BY DEF BlankPage, RecordPages, PageLines, Text
  <2>2. Damaged(BlankPage)
    BY DEF BlankPage, Damaged
  <2> QED
    BY <2>1, <2>2 DEF EraseRecord
<1>2. RecordsAreSound'
  BY DEF EraseRecord, RecordInv, RecordsAreSound
<1>3. PageIsTheLast'
  BY <1>1 DEF PageIsTheLast
<1>4. Decode(page') = {}
  BY <1>1, DamagedIsNotRead
<1>5. RecordIsTheLast' /\ ErasedForAReason'
  BY <1>1, <1>4 DEF RecordIsTheLast, ErasedForAReason
<1> QED
  BY <1>2, <1>3, <1>5 DEF RecordInv

LEMMA ProgramPageKeeps == RecordInv /\ ProgramPage => RecordInv'
<1> SUFFICES ASSUME RecordInv, ProgramPage PROVE RecordInv'
  OBVIOUS
<1>1. /\ IsRecord(record) /\ meant = record /\ page' = Encode(record) /\ written' = {record}
      /\ boot' = "run" /\ record' = record /\ meant' = meant /\ card' = card
  BY DEF ProgramPage, RecordInv, RecordsAreSound
<1>2. RecordsAreSound'
  BY <1>1, CardIsText DEF RecordsAreSound
<1>3. PageIsTheLast'
  <2>1. page' \in RecordPages /\ ~Damaged(page')
    BY <1>1, EncodedIsPage
  <2> QED
    BY <1>1, <2>1 DEF PageIsTheLast
<1>4. Decode(page') = written'
  BY <1>1, WrittenIsRead
<1>5. RecordIsTheLast' /\ ErasedForAReason'
  BY <1>1, <1>4 DEF RecordIsTheLast, ErasedForAReason
<1> QED
  BY <1>2, <1>3, <1>5 DEF RecordInv

LEMMA BreaksKeeps == RecordInv /\ Breaks => RecordInv'
<1> SUFFICES ASSUME RecordInv, Breaks PROVE RecordInv'
  OBVIOUS
<1>1. PICK lost \in {{f} : f \in Fields} \cup {Fields} :
        page' = Torn(IF boot = "erase" THEN page ELSE Encode(record), lost)
  BY DEF Breaks
<1>2. page \in RecordPages /\ Encode(record) \in RecordPages
  BY EncodedIsPage DEF RecordInv, RecordsAreSound, PageIsTheLast
<1>3. page' \in RecordPages /\ Damaged(page')
  BY <1>1, <1>2, TornIsDamaged
<1>4. boot' = "run" /\ hurt' = TRUE /\ UNCHANGED <<card, record, meant, written>>
  BY DEF Breaks
<1>5. RecordsAreSound'
  BY <1>4 DEF RecordInv, RecordsAreSound
<1>6. PageIsTheLast'
  BY <1>3, <1>4 DEF PageIsTheLast
<1>7. Decode(page') = {}
  BY <1>3, DamagedIsNotRead
<1>8. RecordIsTheLast' /\ ErasedForAReason'
  BY <1>4, <1>7 DEF RecordIsTheLast, ErasedForAReason
<1> QED
  BY <1>5, <1>6, <1>8 DEF RecordInv

(* Recovery mode joins with what the record says.                          *)
LEMMA RecoveryReadsKeeps == RecordInv /\ RecoveryReads => RecordInv'
<1> SUFFICES ASSUME RecordInv, RecoveryReads PROVE RecordInv'
  OBVIOUS
<1>1. /\ boot = "recovery" /\ boot' = "joins"
      /\ UNCHANGED <<rom, card, page, record, meant, written, hurt>>
  BY DEF RecoveryReads
<1>2. RecordsAreSound'
  BY <1>1 DEF RecordInv, RecordsAreSound
<1>3. PageIsTheLast'
  <2>1. page \in RecordPages /\ (Damaged(page) \/ \E r \in written : page = Encode(r))
        /\ (Damaged(page) => written = {} \/ hurt)
    BY <1>1 DEF RecordInv, PageIsTheLast
  <2>2. page' = page /\ written' = written /\ hurt' = hurt
    BY <1>1
  <2> QED
    BY <2>1, <2>2 DEF PageIsTheLast
<1>4. Decode(page') # {} => Decode(page') = written'
  BY <1>1, ReadIsLast
<1>5. ASSUME DataOffset # {}, Decode(page) # {}, The(written).ssid.len > 0
      PROVE  joined' = {[ssid |-> The(written).ssid, password |-> The(written).password]}
  <2>1. PICK r \in written : IsRecord(r) /\ written = {r} /\ Decode(page) = {r}
    BY <1>5, ReadIsLast
  <2>2. The(written) = r /\ r.ssid.len > 0
    BY <1>5, <2>1, TheOnly
  <2> DEFINE copy == {x \in Decode(page) : x.ssid.len > 0}
  <2>3. copy = {r}
    BY <2>1, <2>2
  <2>4. joined' = FromCopy(The(copy))
    BY <1>5, <2>3 DEF RecoveryReads
  <2>5. joined' = FromCopy(r)
    BY <2>3, <2>4, TheOnly
  <2>6. r.ssid.len \in 1 .. 32 /\ PasswordFits(r.password)
    BY <2>1, <2>2 DEF IsRecord, Lines
  <2> QED
    BY <2>2, <2>5, <2>6 DEF FromCopy
<1>6. DataOffset' = DataOffset
  BY <1>1 DEF DataOffset, Partitions
<1>7. RecordIsTheLast'
  BY <1>1, <1>4, <1>5, <1>6 DEF RecordIsTheLast
<1>8. ErasedForAReason'
  BY <1>1 DEF ErasedForAReason
<1> QED
  BY <1>2, <1>3, <1>7, <1>8 DEF RecordInv

LEMMA RecordStutters == RecordInv /\ UNCHANGED persistVars => RecordInv'
<1> SUFFICES ASSUME RecordInv, UNCHANGED persistVars PROVE RecordInv'
  OBVIOUS
<1>1. UNCHANGED <<rom, boot, card, page, record, joined, meant, written, hurt>>
  BY DEF persistVars
<1>2. DataOffset' = DataOffset
  BY <1>1 DEF DataOffset, Partitions
<1>3. RecordsAreSound' /\ ErasedForAReason'
  BY <1>1 DEF RecordInv, RecordsAreSound, ErasedForAReason
<1>4. PageIsTheLast'
  <2>1. page \in RecordPages /\ (Damaged(page) \/ \E r \in written : page = Encode(r))
        /\ (Damaged(page) => written = {} \/ hurt \/ boot = "program")
    BY DEF RecordInv, PageIsTheLast
  <2> QED
    BY <1>1, <2>1 DEF PageIsTheLast
<1>5. RecordIsTheLast'
  BY <1>1, <1>2 DEF RecordInv, RecordIsTheLast
<1> QED
  BY <1>3, <1>4, <1>5 DEF RecordInv

THEOREM RecordInvHolds == PersistSpec => []RecordInv
<1>1. RecordInv /\ [PersistNext]_persistVars => RecordInv'
  BY SetUpKeeps, QuietSteps, TurnsOffKeeps, EraseRecordKeeps, ProgramPageKeeps, BreaksKeeps,
     RecoveryReadsKeeps, RecordStutters DEF PersistNext
<1> QED
  BY RecordBegins, <1>1, PTL DEF PersistSpec

-----------------------------------------------------------------------------
(***************************************************************************)
(* The table: what the words of a partition are, and where they are.       *)
(***************************************************************************)
TableWordSet == [first : Nat, last : Nat, link : Links, accepts : SUBSET {"arm-s", "data"},
                 named : BOOLEAN, bytes : Seq(Nat)]
NameSize(p) == IF p.name = <<>> THEN 0 ELSE (Len(p.name) + 4) \div 4

LEMMA QuarterOf ==
  ASSUME NEW n \in Nat
  PROVE  /\ n \div 4 \in Nat /\ n % 4 \in 0 .. 3 /\ n = 4 * (n \div 4) + (n % 4)
         /\ (n + 4) \div 4 = n \div 4 + 1 /\ (n + 4) \div 4 \in Nat /\ (n + 4) \div 4 >= 1
OBVIOUS
LEMMA QuarterGrows == ASSUME NEW n \in Nat, NEW m \in Nat, m <= n PROVE m \div 4 <= n \div 4
OBVIOUS

LEMMA NameWordsAre ==
  ASSUME NEW name \in Seq(Nat), NEW l \in Nat, l = Len(name)
  PROVE  /\ NameWords(name) \in Seq(TableWordSet) /\ Len(NameWords(name)) = (l + 4) \div 4
         /\ NameWords(name)[1].bytes[1] = l
         /\ \A i \in 1 .. l : NameWords(name)[1 + i \div 4].bytes[(i % 4) + 1] = name[i]
<1> DEFINE row == <<l>> \o name \o <<0, 0, 0>>
           k == (l + 4) \div 4
           Bytes(w) == SubSeq(row, 4 * w - 3, 4 * w)
           WordOf(w) == [TableWord EXCEPT !.bytes = Bytes(w)]
<1>1. row \in Seq(Nat) /\ Len(row) = l + 4 /\ row[1] = l /\ \A i \in 1 .. l : row[i + 1] = name[i]
  <2>1. <<l>> \in Seq(Nat) /\ Len(<<l>>) = 1 /\ <<l>>[1] = l
        /\ <<0, 0, 0>> \in Seq(Nat) /\ Len(<<0, 0, 0>>) = 3
    OBVIOUS
  <2> DEFINE one == <<l>>
             three == <<0, 0, 0>>
             front == one \o name
  <2> HIDE DEF one, three
  <2>2. /\ front \in Seq(Nat) /\ Len(front) = 1 + l
        /\ \A i \in 1 .. 1 + l : front[i] = IF i <= 1 THEN one[i] ELSE name[i - 1]
    BY <2>1, ConcatProperties DEF one
  <2> HIDE DEF front
  <2>3. /\ front \o three \in Seq(Nat) /\ Len(front \o three) = 1 + l + 3
        /\ \A i \in 1 .. 1 + l + 3 :
             (front \o three)[i] = IF i <= 1 + l THEN front[i] ELSE three[i - (1 + l)]
    BY <2>1, <2>2, ConcatProperties DEF three
  <2>4. (front \o three)[1] = l
    BY <2>1, <2>2, <2>3 DEF one
  <2>5. ASSUME NEW i \in 1 .. l PROVE (front \o three)[i + 1] = name[i]
    <3>1. i + 1 \in 1 .. 1 + l /\ i + 1 \in 1 .. 1 + l + 3 /\ (i + 1) - 1 = i /\ ~(i + 1 <= 1) /\ i + 1 <= 1 + l
      OBVIOUS
    <3> QED
      BY <2>2, <2>3, <3>1
  <2> QED
    BY <2>3, <2>4, <2>5 DEF one, three, front
<1> HIDE DEF row
<1>2. NameWords(name) = [w \in 1 .. k |-> WordOf(w)] /\ k \in Nat
  BY QuarterOf DEF NameWords, row
<1>3. ASSUME NEW w \in 1 .. k
      PROVE  Bytes(w) \in Seq(Nat) /\ \A b \in 1 .. 4 : Bytes(w)[b] = row[4 * w - 4 + b]
  <2>1. 4 * w - 3 \in Int /\ 4 * w \in Int /\ 4 * w - 3 >= 1 /\ 4 * w <= l + 4 /\ 4 * w - (4 * w - 3) + 1 = 4
    BY QuarterOf
  <2>2. \A i \in 4 * w - 3 .. 4 * w : row[i] \in Nat
    BY <1>1, <2>1, ElementOfSeq
  <2> DEFINE m == 4 * w - 3
             n == 4 * w
  <2>3. m \in Int /\ n \in Int /\ n - m + 1 = 4 /\ \A b \in 1 .. 4 : m + b - 1 = 4 * w - 4 + b
    BY <2>1
  <2>4. \A i \in m .. n : row[i] \in Nat
    BY <2>2
  <2>5. Bytes(w) = SubSeq(row, m, n)
    OBVIOUS
  <2> HIDE DEF m, n, Bytes
  <2>6. SubSeq(row, m, n) \in Seq(Nat) /\ \A i \in 1 .. n - m + 1 : SubSeq(row, m, n)[i] = row[m + i - 1]
    BY <2>3, <2>4, SubSeqProperties
  <2> QED
    BY <2>3, <2>5, <2>6
<1> HIDE DEF Bytes
<1>4. ASSUME NEW w \in 1 .. k PROVE WordOf(w) \in TableWordSet /\ WordOf(w).bytes = Bytes(w)
  <2>1. NoLink \in Links
    BY DEF NoLink, Links
  <2>2. TableWord \in [first : Nat, last : Nat, link : Links, accepts : SUBSET {"arm-s", "data"},
                       named : BOOLEAN, bytes : {<<0, 0, 0, 0>>}]
    BY <2>1 DEF TableWord
  <2> QED
    BY <1>3, <2>2 DEF TableWordSet
<1> HIDE DEF WordOf
<1>5. NameWords(name) \in Seq(TableWordSet) /\ Len(NameWords(name)) = k
  <2> HIDE DEF k
  <2>1. NameWords(name) \in [1 .. k -> TableWordSet]
    BY <1>2, <1>4
  <2>2. NameWords(name) \in Seq(TableWordSet)
    BY <1>2, <2>1, SeqDef
  <2> QED
    BY <1>2, <2>1, <2>2, LenProperties
<1>6. NameWords(name)[1].bytes[1] = l
  <2>1. 1 \in 1 .. k
    BY QuarterOf
  <2>2. NameWords(name)[1] = WordOf(1)
    BY <1>2, <2>1
  <2>3. WordOf(1).bytes = Bytes(1) /\ Bytes(1)[1] = row[4 * 1 - 4 + 1]
    BY <1>3, <1>4, <2>1
  <2> QED
    BY <1>1, <2>2, <2>3
<1>7. ASSUME NEW i \in 1 .. l PROVE NameWords(name)[1 + i \div 4].bytes[(i % 4) + 1] = name[i]
  <2> DEFINE w == 1 + i \div 4
             b == (i % 4) + 1
  <2>1. w \in 1 .. k /\ b \in 1 .. 4 /\ 4 * w - 4 + b = i + 1
    BY QuarterOf
  <2> HIDE DEF w, b
  <2>2. NameWords(name)[w] = WordOf(w)
    BY <1>2, <2>1
  <2>3. WordOf(w).bytes = Bytes(w) /\ Bytes(w)[b] = row[4 * w - 4 + b]
    BY Zenon, <1>3, <1>4, <2>1
  <2>4. NameWords(name)[w].bytes[b] = row[i + 1]
    BY Zenon, <2>1, <2>2, <2>3
  <2> QED
    BY <1>1, <2>4 DEF w, b
<1> QED
  BY <1>5, <1>6, <1>7

SizeOf(p) == 2 + NameSize(p)
LEMMA PartitionWordsAre ==
  ASSUME NEW p \in Entries, NEW l, l = Len(p.name)
  PROVE  /\ PartitionWords(p) \in Seq(TableWordSet) /\ Len(PartitionWords(p)) = SizeOf(p)
         /\ SizeOf(p) \in Nat /\ SizeOf(p) >= 2 /\ l \in Nat /\ (p.name = <<>> <=> l = 0)
         /\ PartitionWords(p)[1].first = p.first /\ PartitionWords(p)[1].last = p.last
         /\ PartitionWords(p)[2].link = p.link /\ PartitionWords(p)[2].accepts = p.accepts
         /\ PartitionWords(p)[2].named = (p.name # <<>>)
         /\ p.name # <<>> =>
              /\ SizeOf(p) = 2 + TotalWords(l) /\ SizeOf(p) >= 3
              /\ PartitionWords(p)[3].bytes[1] = l
              /\ \A i \in 1 .. l :
                   /\ 3 + i \div 4 \in 1 .. SizeOf(p)
                   /\ PartitionWords(p)[3 + i \div 4].bytes[(i % 4) + 1] = p.name[i]
<1> DEFINE one == [TableWord EXCEPT !.first = p.first, !.last = p.last]
           two == [TableWord EXCEPT !.link = p.link, !.accepts = p.accepts, !.named = p.name # <<>>]
           head == <<one, two>>
           tail == IF p.name = <<>> THEN <<>> ELSE NameWords(p.name)
<1>1. p.name \in Seq(Nat) /\ l \in Nat /\ (p.name = <<>> <=> l = 0)
  <2>1. p.name \in Seq(Nat)
    BY DEF Entries
  <2> QED
    BY <2>1, EmptySeq
<1>0. /\ l \in Nat /\ l \div 4 \in Nat /\ l % 4 \in 0 .. 3 /\ l = 4 * (l \div 4) + (l % 4)
      /\ (l + 4) \div 4 = l \div 4 + 1
  <2>1. l \in Nat
    BY <1>1
  <2> QED
    BY ONLY <2>1, QuarterOf
<1>2. /\ one \in TableWordSet /\ one.first = p.first /\ one.last = p.last
      /\ two \in TableWordSet /\ two.link = p.link /\ two.accepts = p.accepts
      /\ two.named = (p.name # <<>>)
  <2>1. TableWord \in TableWordSet
    <3>1. NoLink \in Links
      BY DEF NoLink, Links
    <3>2. <<0, 0, 0, 0>> \in Seq(Nat)
      OBVIOUS
    <3> QED
      BY <3>1, <3>2 DEF TableWord, TableWordSet
  <2>2. p.first \in Nat /\ p.last \in Nat /\ p.link \in Links /\ p.accepts \in SUBSET {"arm-s", "data"}
    BY DEF Entries
  <2>3. (p.name # <<>>) \in BOOLEAN
    OBVIOUS
  <2> QED
    BY <2>1, <2>2, <2>3 DEF TableWordSet
<1> HIDE DEF one, two
<1>3. head \in Seq(TableWordSet) /\ Len(head) = 2 /\ head[1] = one /\ head[2] = two
  BY <1>2
<1>4. /\ tail \in Seq(TableWordSet) /\ Len(tail) = NameSize(p) /\ NameSize(p) \in Nat
      /\ p.name # <<>> =>
           /\ NameSize(p) = TotalWords(l) /\ NameSize(p) >= 1
           /\ tail[1].bytes[1] = l
           /\ \A i \in 1 .. l : tail[1 + i \div 4].bytes[(i % 4) + 1] = p.name[i]
  <2>1. CASE p.name = <<>>
    BY <2>1, EmptySeq DEF NameSize
  <2>2. CASE p.name # <<>>
    <3>1. tail = NameWords(p.name) /\ NameSize(p) = (l + 4) \div 4
      BY <2>2 DEF NameSize
    <3>2. (l + 4) \div 4 = TotalWords(l) /\ (l + 4) \div 4 \in Nat /\ (l + 4) \div 4 >= 1
      <4>1. 1 + l + 3 = l + 4
        BY <1>0
      <4>2. TotalWords(l) = (1 + l + 3) \div 4
        BY DEF TotalWords
      <4>3. TotalWords(l) = (l + 4) \div 4
        BY Zenon, <4>1, <4>2
      <4>4. (l + 4) \div 4 \in Nat /\ (l + 4) \div 4 >= 1
        BY Zenon, <1>0, QuarterOf
      <4> QED
        BY Zenon, <4>3, <4>4
    <3> HIDE DEF tail
    <3> QED
      BY <1>1, <3>1, <3>2, NameWordsAre
  <2> QED
    BY <2>1, <2>2
<1> DEFINE words == PartitionWords(p)
<1>5. words = head \o tail
  BY DEF PartitionWords, one, two
<1> HIDE DEF head, tail, words
<1>6. /\ words \in Seq(TableWordSet) /\ Len(words) = 2 + NameSize(p)
      /\ \A i \in 1 .. 2 + NameSize(p) : words[i] = IF i <= 2 THEN head[i] ELSE tail[i - 2]
  <2>1. /\ head \o tail \in Seq(TableWordSet) /\ Len(head \o tail) = Len(head) + Len(tail)
        /\ \A i \in 1 .. Len(head) + Len(tail) :
             (head \o tail)[i] = IF i <= Len(head) THEN head[i] ELSE tail[i - Len(head)]
    <3>1. head \in Seq(TableWordSet) /\ tail \in Seq(TableWordSet)
      BY <1>3, <1>4
    <3> QED
      BY Zenon, <3>1, ConcatProperties
  <2> QED
    BY Zenon, <1>3, <1>4, <1>5, <2>1
<1>7. words[1] = one /\ words[2] = two
  <2>1. 1 \in 1 .. 2 + NameSize(p) /\ 2 \in 1 .. 2 + NameSize(p)
    BY <1>4
  <2> QED
    BY <1>3, <1>6, <2>1
<1>8. ASSUME p.name # <<>>
      PROVE  /\ SizeOf(p) = 2 + TotalWords(l) /\ SizeOf(p) >= 3
             /\ words[3].bytes[1] = l
             /\ \A i \in 1 .. l : /\ 3 + i \div 4 \in 1 .. SizeOf(p)
                                  /\ words[3 + i \div 4].bytes[(i % 4) + 1] = p.name[i]
  <2>1. SizeOf(p) = 2 + TotalWords(l) /\ SizeOf(p) >= 3 /\ 3 \in 1 .. 2 + NameSize(p)
    BY <1>4, <1>8 DEF SizeOf
  <2>2. words[3] = tail[1]
    BY <1>6, <2>1
  <2>3. ASSUME NEW i \in 1 .. l
        PROVE  /\ 3 + i \div 4 \in 1 .. SizeOf(p)
               /\ words[3 + i \div 4].bytes[(i % 4) + 1] = p.name[i]
    <3> DEFINE q == i \div 4
    <3>1. q \in Nat /\ NameSize(p) = l \div 4 + 1 /\ q <= l \div 4 /\ l \div 4 \in Nat
      <4>0. i \in Nat /\ i <= l
        BY <1>0
      <4>1. q \in Nat /\ i % 4 \in 0 .. 3 /\ i = 4 * q + (i % 4)
        BY Zenon, <4>0, QuarterOf
      <4>2. NameSize(p) = (l + 4) \div 4
        BY <1>8 DEF NameSize
      <4> DEFINE big == l \div 4
      <4>3. q <= big
        BY Zenon, <1>0, <4>0, QuarterGrows
      <4> QED
        BY Zenon, <1>0, <4>1, <4>2, <4>3
    <3>2. tail[1 + q].bytes[(i % 4) + 1] = p.name[i]
      BY <1>4, <1>8
    <3> HIDE DEF q
    <3>3. 3 + q \in 1 .. SizeOf(p) /\ 3 + q \in 1 .. 2 + NameSize(p) /\ (3 + q) - 2 = 1 + q /\ ~(3 + q <= 2)
      <4>1. SizeOf(p) = 2 + NameSize(p)
        BY DEF SizeOf
      <4>2. NameSize(p) \in Nat /\ q <= NameSize(p) - 1 /\ q \in Nat
        <5> DEFINE big == l \div 4
        <5>1. big \in Nat /\ q \in Nat /\ q <= big /\ NameSize(p) = big + 1
          BY Zenon, <3>1
        <5> HIDE DEF big
        <5> QED
          BY <5>1
      <4> QED
        BY <4>1, <4>2
    <3>4. words[3 + q] = tail[1 + q]
      BY <1>6, <3>3
    <3> QED
      BY <3>2, <3>3, <3>4 DEF q
  <2> QED
    BY <1>4, <1>8, <2>1, <2>2, <2>3
<1> QED
  BY <1>1, <1>2, <1>4, <1>6, <1>7, <1>8 DEF SizeOf, words

(* The words of a table, partition after partition.                        *)
WordsUpTo(f, table, m) ==
    f[0] = <<>> /\ \A n \in 1 .. m : f[n] = f[n - 1] \o PartitionWords(table[n])

LEMMA WordsExist ==
  ASSUME NEW table, NEW m \in Nat
  PROVE  \E f : DOMAIN f = 0 .. m /\ f = [n \in DOMAIN f |-> f[n]] /\ WordsUpTo(f, table, m)
<1> DEFINE T == {n \in Nat : \E f : /\ DOMAIN f = 0 .. n /\ f = [k \in DOMAIN f |-> f[k]]
                                    /\ WordsUpTo(f, table, n)}
<1>1. 0 \in T
  <2> DEFINE f == [n \in 0 .. 0 |-> <<>>]
  <2>1. DOMAIN f = 0 .. 0 /\ f = [k \in DOMAIN f |-> f[k]] /\ WordsUpTo(f, table, 0)
    BY DEF WordsUpTo
  <2> HIDE DEF f
  <2> QED
    BY <2>1
<1>2. ASSUME NEW n \in Nat, n \in T PROVE n + 1 \in T
  <2>1. PICK f : DOMAIN f = 0 .. n /\ f = [k \in DOMAIN f |-> f[k]] /\ WordsUpTo(f, table, n)
    BY <1>2
  <2> DEFINE g == [k \in 0 .. n + 1 |-> IF k <= n THEN f[k] ELSE f[n] \o PartitionWords(table[n + 1])]
  <2>2. DOMAIN g = 0 .. n + 1 /\ g = [k \in DOMAIN g |-> g[k]] /\ g[0] = <<>>
    BY <2>1 DEF WordsUpTo
  <2>3. ASSUME NEW k \in 1 .. n + 1 PROVE g[k] = g[k - 1] \o PartitionWords(table[k])
    <3>1. CASE k <= n
      <4>1. k \in 1 .. n /\ g[k] = f[k] /\ g[k - 1] = f[k - 1]
        BY <3>1
      <4>2. f[k] = f[k - 1] \o PartitionWords(table[k])
        BY <2>1, <4>1 DEF WordsUpTo
      <4> HIDE DEF g
      <4> QED
        BY Zenon, <4>1, <4>2
    <3>2. CASE k = n + 1
      <4>1. k - 1 = n /\ ~(k <= n) /\ n <= n /\ n \in 0 .. n + 1 /\ k \in 0 .. n + 1
        BY <3>2
      <4>2. g[k] = IF k <= n THEN f[k] ELSE f[n] \o PartitionWords(table[n + 1])
        BY <4>1
      <4>3. g[n] = IF n <= n THEN f[n] ELSE f[n] \o PartitionWords(table[n + 1])
        BY <4>1
      <4>4. PartitionWords(table[k]) = PartitionWords(table[n + 1])
        BY <3>2
      <4> HIDE DEF g
      <4>5. g[k] = f[n] \o PartitionWords(table[n + 1]) /\ g[k - 1] = f[n]
        BY Zenon, <4>1, <4>2, <4>3
      <4> QED
        BY Zenon, <4>4, <4>5
    <3>3. k <= n \/ k = n + 1
      OBVIOUS
    <3> HIDE DEF g
    <3> QED
      BY Zenon, <3>1, <3>2, <3>3
  <2>4. WordsUpTo(g, table, n + 1)
    BY <2>2, <2>3 DEF WordsUpTo
  <2> HIDE DEF g
  <2> QED
    BY <2>2, <2>4
<1> HIDE DEF T
<1>3. m \in T
  BY <1>1, <1>2, SetInduction
<1> QED
  BY <1>3 DEF T

LEMMA TableWordsAre ==
  ASSUME NEW table, Len(table) \in Nat
  PROVE  \E f : WordsUpTo(f, table, Len(table)) /\ TableWords(table) = f[Len(table)]
<1> DEFINE F(f) == [n \in 0 .. Len(table) |->
                      IF n = 0 THEN <<>> ELSE f[n - 1] \o PartitionWords(table[n])]
           words == CHOOSE f : f = F(f)
<1>1. TableWords(table) = words[Len(table)]
  BY DEF TableWords
<1>2. PICK f : DOMAIN f = 0 .. Len(table) /\ f = [n \in DOMAIN f |-> f[n]] /\ WordsUpTo(f, table, Len(table))
  BY WordsExist
<1>3. f = F(f)
  <2>1. ASSUME NEW n \in 0 .. Len(table) PROVE f[n] = F(f)[n]
    BY <1>2, n = 0 \/ n \in 1 .. Len(table) DEF WordsUpTo
  <2> QED
    BY <1>2, <2>1
<1>4. words = F(words)
  BY <1>3
<1> HIDE DEF words
<1>5. WordsUpTo(words, table, Len(table))
  <2>1. words[0] = <<>>
    BY <1>4
  <2>2. ASSUME NEW n \in 1 .. Len(table) PROVE words[n] = words[n - 1] \o PartitionWords(table[n])
    <3>1. words[n] = F(words)[n]
      BY <1>4
    <3> QED
      BY <3>1
  <2> QED
    BY <2>1, <2>2 DEF WordsUpTo
<1> QED
  BY <1>1, <1>5

LEMMA TableIs ==
  ASSUME NEW t, IsTable(t)
  PROVE  /\ Len(t) \in 0 .. 16 /\ DOMAIN t = 1 .. Len(t) /\ t \in Seq(Entries)
         /\ \A n \in 1 .. Len(t) : t[n] \in Entries
<1>1. t \in Seq(Entries) /\ Len(t) <= 16
  BY DEF IsTable
<1>2. Len(t) \in Nat /\ DOMAIN t = 1 .. Len(t)
  BY <1>1, LenProperties
<1>3. ASSUME NEW n \in 1 .. Len(t) PROVE t[n] \in Entries
  <2> HIDE DEF Entries
  <2> QED
    BY Zenon, <1>1, ElementOfSeq
<1>4. Len(t) \in 0 .. 16
  <2> DEFINE l == Len(t)
  <2>1. l \in Nat /\ l <= 16
    BY <1>1, <1>2
  <2> HIDE DEF l
  <2>2. l \in 0 .. 16
    BY <2>1
  <2> QED
    BY <2>2 DEF l
<1> QED
  BY Zenon, <1>1, <1>2, <1>3, <1>4

(* Each partition is in the words after those before it.                   *)
Grows(f, t, n) ==
    /\ Len(f[n]) = Len(f[n - 1]) + SizeOf(t[n])
    /\ \A i \in 1 .. Len(f[n - 1]) : f[n][i] = f[n - 1][i]
    /\ \A i \in 1 .. SizeOf(t[n]) : f[n][Len(f[n - 1]) + i] = PartitionWords(t[n])[i]
LEMMA WordsGrow ==
  ASSUME NEW t, IsTable(t), NEW f, WordsUpTo(f, t, Len(t))
  PROVE  /\ \A n \in 0 .. Len(t) : f[n] \in Seq(TableWordSet) /\ Len(f[n]) \in Nat
         /\ \A n \in 1 .. Len(t) : Grows(f, t, n)
<1> DEFINE m == Len(t)
           T == {n \in Nat : n <= m => f[n] \in Seq(TableWordSet)}
<1>0. m \in Nat /\ \A n \in 1 .. m : t[n] \in Entries
  BY TableIs
<1>1. 0 \in T
  <2>1. <<>> \in Seq(TableWordSet)
    BY EmptySeq
  <2> QED
    BY <2>1 DEF WordsUpTo
<1> DEFINE Q(n) == PartitionWords(t[n])
<1>2. ASSUME NEW n \in 1 .. m
      PROVE  /\ Q(n) \in Seq(TableWordSet) /\ Len(Q(n)) = SizeOf(t[n]) /\ SizeOf(t[n]) \in Nat
             /\ f[n] = f[n - 1] \o Q(n)
  <2>1. t[n] \in Entries
    BY <1>0
  <2>2. f[n] = f[n - 1] \o Q(n)
    BY DEF WordsUpTo
  <2> QED
    BY Zenon, <2>1, <2>2, PartitionWordsAre
<1> HIDE DEF Q
<1>3. ASSUME NEW n \in Nat, n \in T PROVE n + 1 \in T
  <2>1. SUFFICES ASSUME n + 1 <= m PROVE f[n + 1] \in Seq(TableWordSet)
    OBVIOUS
  <2>2. n + 1 \in 1 .. m /\ (n + 1) - 1 = n /\ n <= m
    BY <1>0, <2>1
  <2>3. f[n] \in Seq(TableWordSet)
    BY <1>3, <2>2
  <2>4. f[n + 1] = f[n] \o Q(n + 1) /\ Q(n + 1) \in Seq(TableWordSet)
    BY <1>2, <2>2
  <2> QED
    BY <2>3, <2>4, ConcatProperties
<1>4. ASSUME NEW n \in 0 .. m PROVE f[n] \in Seq(TableWordSet) /\ Len(f[n]) \in Nat
  <2> HIDE DEF T
  <2>1. n \in T
    BY <1>0, <1>1, <1>3, SetInduction
  <2>2. f[n] \in Seq(TableWordSet)
    BY <1>0, <2>1 DEF T
  <2> QED
    BY <2>2, LenProperties
<1>5. ASSUME NEW n \in 1 .. m PROVE Grows(f, t, n)
  <2> DEFINE a == f[n - 1]
             b == Q(n)
             la == Len(a)
             lb == SizeOf(t[n])
  <2>1. n - 1 \in 0 .. m
    BY <1>0
  <2>2. a \in Seq(TableWordSet) /\ la \in Nat /\ b \in Seq(TableWordSet) /\ Len(b) = lb /\ lb \in Nat
    BY Zenon, <1>2, <1>4, <2>1
  <2>3. f[n] = a \o b
    BY <1>2
  <2> HIDE DEF a, b, lb
  <2>4. /\ Len(a \o b) = la + lb
        /\ \A i \in 1 .. la + lb : (a \o b)[i] = IF i <= la THEN a[i] ELSE b[i - la]
    <3>1. /\ Len(a \o b) = Len(a) + Len(b)
          /\ \A i \in 1 .. Len(a) + Len(b) : (a \o b)[i] = IF i <= Len(a) THEN a[i] ELSE b[i - Len(a)]
      BY Zenon, <2>2, ConcatProperties
    <3> QED
      BY Zenon, <2>2, <3>1
  <2> HIDE DEF la
  <2>5. \A i \in 1 .. la : (a \o b)[i] = a[i]
    BY <2>2, <2>4
  <2>6. ASSUME NEW i \in 1 .. lb PROVE (a \o b)[la + i] = b[i]
    <3>1. la + i \in 1 .. la + lb /\ ~(la + i <= la) /\ (la + i) - la = i
      BY <2>2
    <3> QED
      BY <2>4, <3>1
  <2> QED
    BY Zenon, <2>3, <2>4, <2>5, <2>6 DEF a, b, la, lb, Q, Grows
<1> QED
  BY <1>4, <1>5

LEMMA WordsStay ==
  ASSUME NEW t, IsTable(t), NEW f, WordsUpTo(f, t, Len(t)), NEW n \in 0 .. Len(t)
  PROVE  /\ Len(f[n]) <= Len(f[Len(t)])
         /\ \A i \in 1 .. Len(f[n]) : f[Len(t)][i] = f[n][i]
<1> DEFINE m == Len(t)
           Stays(k) == /\ Len(f[n]) <= Len(f[k])
                       /\ \A i \in 1 .. Len(f[n]) : f[k][i] = f[n][i]
           T == {d \in Nat : n + d <= m => Stays(n + d)}
<1>0. m \in Nat /\ n \in Nat /\ n <= m /\ \A k \in 1 .. m : t[k] \in Entries
  BY TableIs
<1>1. \A k \in 0 .. m : Len(f[k]) \in Nat
  BY Zenon, WordsGrow
<1>2. 0 \in T
  <2>1. Stays(n)
    BY <1>1
  <2> HIDE DEF Stays
  <2> QED
    BY <1>0, <2>1
<1>3. ASSUME NEW d \in Nat, d \in T PROVE d + 1 \in T
  <2>1. SUFFICES ASSUME n + (d + 1) <= m PROVE Stays(n + (d + 1))
    OBVIOUS
  <2> DEFINE k == n + (d + 1)
  <2>2. k \in 1 .. m /\ k - 1 = n + d /\ n + d <= m /\ n + d \in 0 .. m /\ k \in 0 .. m
    BY <1>0, <2>1
  <2>3. Stays(k - 1)
    <3> HIDE DEF Stays
    <3> QED
      BY <1>3, <2>2
  <2> HIDE DEF k
  <2>4. /\ Len(f[k]) = Len(f[k - 1]) + SizeOf(t[k])
        /\ \A i \in 1 .. Len(f[k - 1]) : f[k][i] = f[k - 1][i]
    <3>1. \A j \in 1 .. m : Grows(f, t, j)
      BY Zenon, WordsGrow
    <3> QED
      BY Zenon, <2>2, <3>1 DEF Grows
  <2>5. SizeOf(t[k]) \in Nat
    BY Zenon, <1>0, <2>2, PartitionWordsAre
  <2>6. Len(f[n]) \in Nat /\ Len(f[k]) \in Nat /\ Len(f[k - 1]) \in Nat
    BY <1>1, <2>2
  <2>7. Stays(k)
    BY <2>3, <2>4, <2>5, <2>6
  <2> QED
    BY <2>7 DEF k
<1>4. m - n \in T
  <2> HIDE DEF T
  <2>1. m - n \in Nat
    BY <1>0
  <2>2. Nat \subseteq T
    BY <1>2, <1>3, SetInduction
  <2> QED
    BY <2>1, <2>2
<1> HIDE DEF Stays
<1>5. Stays(m)
  <2>1. n + (m - n) = m
    BY <1>0
  <2> QED
    BY <1>0, <1>4, <2>1
<1> QED
  BY <1>5 DEF Stays

LEMMA WordsAt ==
  ASSUME NEW t, IsTable(t), NEW f, WordsUpTo(f, t, Len(t)), NEW n \in 1 .. Len(t)
  PROVE  /\ Len(f[n - 1]) \in Nat /\ Len(f[n]) = Len(f[n - 1]) + SizeOf(t[n])
         /\ Len(f[n]) <= Len(f[Len(t)]) /\ Len(f[Len(t)]) \in Nat
         /\ \A i \in 1 .. SizeOf(t[n]) : f[Len(t)][Len(f[n - 1]) + i] = PartitionWords(t[n])[i]
<1>1. Len(t) \in Nat /\ n \in 0 .. Len(t) /\ n - 1 \in 0 .. Len(t) /\ Len(t) \in 0 .. Len(t)
  BY TableIs
<1>2. /\ Len(f[n - 1]) \in Nat /\ Len(f[n]) \in Nat /\ Len(f[Len(t)]) \in Nat
      /\ Len(f[n]) = Len(f[n - 1]) + SizeOf(t[n])
      /\ \A i \in 1 .. SizeOf(t[n]) : f[n][Len(f[n - 1]) + i] = PartitionWords(t[n])[i]
  <2>1. \A j \in 0 .. Len(t) : Len(f[j]) \in Nat
    BY Zenon, WordsGrow
  <2>2. Grows(f, t, n)
    BY Zenon, WordsGrow
  <2> QED
    BY Zenon, <1>1, <2>1, <2>2 DEF Grows
<1>3. /\ Len(f[n]) <= Len(f[Len(t)])
      /\ \A i \in 1 .. Len(f[n]) : f[Len(t)][i] = f[n][i]
  BY Zenon, <1>1, WordsStay
<1>4. SizeOf(t[n]) \in Nat
  <2>1. t[n] \in Entries
    BY Zenon, TableIs
  <2> QED
    BY Zenon, <2>1, PartitionWordsAre
<1>5. ASSUME NEW i \in 1 .. SizeOf(t[n]) PROVE f[Len(t)][Len(f[n - 1]) + i] = PartitionWords(t[n])[i]
  <2>1. Len(f[n - 1]) + i \in 1 .. Len(f[n])
    BY <1>2, <1>4
  <2> QED
    BY Zenon, <1>2, <1>3, <2>1
<1> QED
  BY Zenon, <1>2, <1>3, <1>5

(* What the table says of its n-th partition, and that it is what is read  *)
(* of the words.                                                           *)
Said(t, n) ==
    [index |-> n - 1, first |-> t[n].first, last |-> t[n].last, link |-> t[n].link,
     accepts |-> t[n].accepts, name |-> SubSeq(t[n].name, 1, Min({Len(t[n].name), NAME_MAX}))]

LEMMA NameIsRead ==
  ASSUME NEW words, NEW pos \in Nat, NEW name \in Seq(Nat), Len(words) \in Nat,
         words[pos].bytes[1] = Len(name),
         \A i \in 1 .. Len(name) : /\ pos + i \div 4 <= Len(words)
                                   /\ words[pos + i \div 4].bytes[(i % 4) + 1] = name[i]
  PROVE  NameAt(words, pos) = SubSeq(name, 1, Min({Len(name), NAME_MAX}))
<1> DEFINE l == Len(name)
           k == Min({l, NAME_MAX})
           Byte(i) == IF pos + i \div 4 > Len(words) THEN 0 ELSE words[pos + i \div 4].bytes[(i % 4) + 1]
           kept == [i \in 1 .. k |-> Byte(i)]
           said == SubSeq(name, 1, k)
<1>1. NameAt(words, pos) = kept
  BY DEF NameAt
<1>2. l \in Nat /\ k \in Nat /\ k <= l /\ \A i \in 1 .. k : i \in 1 .. l
  <2>1. l \in Nat /\ NAME_MAX \in Nat
    BY PersistAssumption, LenProperties
  <2>2. k = IF l <= NAME_MAX THEN l ELSE NAME_MAX
    <3> HIDE DEF l
    <3> QED
      BY <2>1, MinOf
  <2> HIDE DEF k, l
  <2> QED
    BY <2>1, <2>2
<1> HIDE DEF k
<1>3. ASSUME NEW i \in 1 .. k PROVE Byte(i) = name[i] /\ name[i] \in Nat
  <2>1. i \in 1 .. l
    BY <1>2
  <2>2. pos + i \div 4 <= Len(words) /\ words[pos + i \div 4].bytes[(i % 4) + 1] = name[i]
    BY <2>1
  <2>3. i \div 4 \in Nat
    BY <2>1, <1>2, QuarterOf
  <2> DEFINE at == pos + i \div 4
  <2>4. at \in Nat /\ at <= Len(words)
    BY <2>2, <2>3
  <2> HIDE DEF at
  <2>5. ~(at > Len(words))
    BY <2>4
  <2>6. Byte(i) = name[i]
    BY Zenon, <2>2, <2>5 DEF at
  <2>7. name[i] \in Nat
    BY Zenon, <2>1, ElementOfSeq
  <2> QED
    BY <2>6, <2>7
<1> HIDE DEF Byte
<1>4. /\ said \in Seq(Nat) /\ Len(said) = k /\ \A i \in 1 .. k : said[i] = name[i]
  <2>1. \A i \in 1 .. k : name[i] \in Nat
    BY <1>3
  <2>2. 1 \in Int /\ k \in Int
    BY <1>2
  <2>3. /\ said \in Seq(Nat) /\ Len(said) = (IF 1 <= k THEN k - 1 + 1 ELSE 0)
        /\ \A i \in 1 .. k - 1 + 1 : said[i] = name[1 + i - 1]
    BY <2>1, <2>2, SubSeqProperties
  <2> HIDE DEF said
  <2>4. Len(said) = k
    BY <1>2, <2>3
  <2>5. \A i \in 1 .. k : i \in 1 .. k - 1 + 1 /\ 1 + i - 1 = i
    BY <1>2
  <2> QED
    BY <2>3, <2>4, <2>5
<1> HIDE DEF said
<1>5. said \in [1 .. k -> Nat]
  BY <1>4, LenProperties
<1>6. kept = said
  <2>1. \A i \in 1 .. k : Byte(i) = said[i]
    BY <1>3, <1>4
  <2> QED
    BY <1>5, <2>1
<1> QED
  BY <1>1, <1>6 DEF said, k

IsRead(words, t, n, pos, next) ==
    /\ ~(pos + 1 > Len(words)) /\ (words[pos + 1].named => ~(pos + 2 > Len(words)))
    /\ PartitionAt(words, pos, n - 1) = Said(t, n)
    /\ next = pos + 2 + (IF words[pos + 1].named THEN TotalWords(words[pos + 2].bytes[1]) ELSE 0)
LEMMA PartitionIsRead ==
  ASSUME NEW t, IsTable(t), NEW f, WordsUpTo(f, t, Len(t)), NEW n \in 1 .. Len(t)
  PROVE  IsRead(f[Len(t)], t, n, Len(f[n - 1]) + 1, Len(f[n]) + 1)
<1> DEFINE words == f[Len(t)]
           pos == Len(f[n - 1]) + 1
<1>0. words = f[Len(t)] /\ pos = Len(f[n - 1]) + 1
  OBVIOUS
<1> HIDE DEF words, pos
<1> DEFINE p == t[n]
           w == PartitionWords(p)
           s == SizeOf(p)
           at == Len(f[n - 1])
           size == Len(words)
           l == Len(p.name)
<1>1. p \in Entries
  BY Zenon, TableIs
<1>2. /\ s \in Nat /\ s >= 2 /\ (p.name = <<>> => s = 2) /\ l \in Nat
      /\ w[1].first = p.first /\ w[1].last = p.last
      /\ w[2].link = p.link /\ w[2].accepts = p.accepts /\ w[2].named = (p.name # <<>>)
  <2>1. p.name = <<>> => s = 2
    BY DEF SizeOf, NameSize
  <2> QED
    BY Zenon, <1>1, <2>1, PartitionWordsAre
<1>3. p.name # <<>> =>
        /\ s = 2 + TotalWords(l) /\ s >= 3 /\ w[3].bytes[1] = l
        /\ \A i \in 1 .. l : 3 + i \div 4 \in 1 .. s /\ w[3 + i \div 4].bytes[(i % 4) + 1] = p.name[i]
  BY ZenonT(40), <1>1, PartitionWordsAre
<1>4. at \in Nat /\ Len(f[n]) = at + s /\ Len(f[n]) <= size /\ size \in Nat
  BY Zenon, <1>0, WordsAt
<1>5. \A i \in 1 .. s : words[at + i] = w[i]
  BY ZenonT(40), <1>0, WordsAt
<1> HIDE DEF w, s, at, size, l, p
<1>6. pos = at + 1 /\ pos \in Nat /\ pos + s <= size + 1 /\ Len(f[n]) + 1 = pos + s
  <2>1. pos = at + 1 /\ at + s <= size
    BY Zenon, <1>0, <1>4 DEF at
  <2> QED
    BY <1>2, <1>4, <2>1
<1>7. words[pos] = w[1] /\ words[pos + 1] = w[2]
  <2>1. 1 \in 1 .. s /\ 2 \in 1 .. s /\ pos + 1 = at + 2
    BY <1>2, <1>4, <1>6
  <2> QED
    BY Zenon, <1>5, <1>6, <2>1
<1>8. ~(pos + 1 > size)
  BY <1>2, <1>4, <1>6
<1>9. words[pos + 1].named = (p.name # <<>>)
  BY Zenon, <1>2, <1>7
<1>10. ASSUME p.name = <<>> PROVE IsRead(words, t, n, pos, Len(f[n]) + 1)
  <2>1. PartitionAt(words, pos, n - 1) =
          [index |-> n - 1, first |-> p.first, last |-> p.last, link |-> p.link, accepts |-> p.accepts,
           name |-> <<>>]
    BY <1>2, <1>7, <1>10 DEF PartitionAt
  <2>2. SubSeq(p.name, 1, Min({Len(p.name), NAME_MAX})) = <<>>
    <3>1. Len(p.name) = 0 /\ NAME_MAX \in Nat
      BY <1>10, EmptySeq, PersistAssumption
    <3>2. Min({Len(p.name), NAME_MAX}) = 0
      BY <3>1, MinOf
    <3>3. SubSeq(p.name, 1, 0) = <<>>
      BY SubSeqEmpty
    <3> QED
      BY Zenon, <3>2, <3>3
  <2>3. PartitionAt(words, pos, n - 1) = Said(t, n)
    BY Zenon, <2>1, <2>2 DEF Said, p
  <2>4. Len(f[n]) + 1 = pos + 2 + 0
    BY <1>2, <1>4, <1>6, <1>10
  <2> QED
    BY Zenon, <1>6, <1>8, <1>9, <1>10, <2>3, <2>4 DEF size, IsRead
<1>11. ASSUME p.name # <<>> PROVE IsRead(words, t, n, pos, Len(f[n]) + 1)
  <2>1. s = 2 + TotalWords(l) /\ s >= 3 /\ w[3].bytes[1] = l
    BY Zenon, <1>3, <1>11
  <2>2. \A i \in 1 .. l : 3 + i \div 4 \in 1 .. s /\ w[3 + i \div 4].bytes[(i % 4) + 1] = p.name[i]
    BY Zenon, <1>3, <1>11
  <2>3. ~(pos + 2 > size) /\ pos + 2 <= size /\ 3 \in 1 .. s /\ pos + 2 = at + 3 /\ pos + 2 \in Nat
    <3>1. s >= 3 /\ at \in Nat /\ s \in Nat /\ size \in Nat /\ pos = at + 1 /\ pos + s <= size + 1
      BY Zenon, <1>2, <1>4, <1>6, <2>1 DEF at
    <3> QED
      BY ONLY <3>1
  <2>4. words[pos + 2] = w[3]
    BY Zenon, <1>5, <2>3
  <2>5. words[pos + 2].bytes[1] = l
    BY Zenon, <2>1, <2>4
  <2>6. ASSUME NEW i \in 1 .. l
        PROVE  pos + 2 + i \div 4 <= size /\ words[pos + 2 + i \div 4].bytes[(i % 4) + 1] = p.name[i]
    <3> DEFINE q == i \div 4
    <3>1. q \in Nat
      BY <1>2, QuarterOf
    <3>2. 3 + q \in 1 .. s /\ w[3 + q].bytes[(i % 4) + 1] = p.name[i]
      BY <2>2
    <3> HIDE DEF q
    <3>3. pos + 2 + q = at + (3 + q) /\ pos + 2 + q <= size
      <4>1. 3 + q <= s /\ at \in Nat /\ s \in Nat /\ size \in Nat /\ pos = at + 1 /\ pos + s <= size + 1
        BY <1>2, <1>4, <1>6, <3>2
      <4> QED
        BY ONLY <3>1, <4>1
    <3>4. words[at + (3 + q)] = w[3 + q]
      BY <1>5, <3>2
    <3>5. words[pos + 2 + q].bytes[(i % 4) + 1] = p.name[i]
      BY Zenon, <3>2, <3>3, <3>4
    <3> QED
      BY Zenon, <3>3, <3>5 DEF q
  <2>7. p.name \in Seq(Nat)
    BY <1>1 DEF Entries
  <2>8. NameAt(words, pos + 2) = SubSeq(p.name, 1, Min({Len(p.name), NAME_MAX}))
    <3> DEFINE name == p.name
               from == pos + 2
    <3>1. /\ from \in Nat /\ name \in Seq(Nat) /\ Len(words) \in Nat
          /\ words[from].bytes[1] = Len(name)
          /\ \A i \in 1 .. Len(name) : /\ from + i \div 4 <= Len(words)
                                      /\ words[from + i \div 4].bytes[(i % 4) + 1] = name[i]
      BY Zenon, <1>4, <2>3, <2>5, <2>6, <2>7 DEF size, l
    <3> HIDE DEF name, from
    <3>2. NameAt(words, from) = SubSeq(name, 1, Min({Len(name), NAME_MAX}))
      BY Zenon, <3>1, NameIsRead
    <3> QED
      BY <3>2 DEF name, from
  <2>9. PartitionAt(words, pos, n - 1) =
          [index |-> n - 1, first |-> p.first, last |-> p.last, link |-> p.link, accepts |-> p.accepts,
           name |-> NameAt(words, pos + 2)]
    <3>1. words[pos + 1].named /\ pos + 2 <= Len(words)
      BY Zenon, <1>9, <1>11, <2>3 DEF size
    <3> QED
      BY <1>2, <1>7, <3>1 DEF PartitionAt
  <2>10. PartitionAt(words, pos, n - 1) = Said(t, n)
    BY Zenon, <2>8, <2>9 DEF Said, p
  <2>11. Len(f[n]) + 1 = pos + 2 + TotalWords(l)
    <3> DEFINE tw == TotalWords(l)
    <3>1. tw \in Int
      BY <1>2, QuarterOf DEF TotalWords
    <3>2. s = 2 + tw /\ pos \in Nat
      BY Zenon, <1>6, <2>1
    <3> HIDE DEF tw
    <3>3. pos + s = pos + 2 + tw
      BY ONLY <3>1, <3>2
    <3> QED
      BY Zenon, <1>6, <3>3 DEF tw
  <2> QED
    BY Zenon, <1>6, <1>8, <1>9, <1>11, <2>3, <2>5, <2>10, <2>11 DEF size, IsRead
<1>12. IsRead(words, t, n, pos, Len(f[n]) + 1)
  BY Zenon, <1>10, <1>11
<1> QED
  BY Zenon, <1>0, <1>12

(* One round of the loop of read, and what is read after n of them.        *)
ReadStep(words, r, n) ==
    LET named == words[r.pos + 1].named
    IN  IF r.pos + 1 > Len(words) \/ (named /\ r.pos + 2 > Len(words)) THEN r
        ELSE [found |-> r.found \cup {PartitionAt(words, r.pos, n - 1)},
              pos |-> r.pos + 2 + (IF named THEN TotalWords(words[r.pos + 2].bytes[1]) ELSE 0)]
ReadAfter(t, f, n) == [pos |-> Len(f[n]) + 1, found |-> {Said(t, i) : i \in 1 .. n}]

LEMMA StepIsRead ==
  ASSUME NEW t, IsTable(t), NEW f, WordsUpTo(f, t, Len(t)), NEW n \in 1 .. Len(t)
  PROVE  ReadStep(f[Len(t)], ReadAfter(t, f, n - 1), n) = ReadAfter(t, f, n)
<1> DEFINE words == f[Len(t)]
           r == ReadAfter(t, f, n - 1)
           pos == Len(f[n - 1]) + 1
<1>1. r.pos = pos /\ r.found = {Said(t, i) : i \in 1 .. n - 1}
  BY DEF ReadAfter
<1>2. /\ ~(pos + 1 > Len(words)) /\ (words[pos + 1].named => ~(pos + 2 > Len(words)))
      /\ PartitionAt(words, pos, n - 1) = Said(t, n)
      /\ Len(f[n]) + 1 = pos + 2 + (IF words[pos + 1].named THEN TotalWords(words[pos + 2].bytes[1]) ELSE 0)
  <2>1. words = f[Len(t)] /\ pos = Len(f[n - 1]) + 1
    OBVIOUS
  <2> HIDE DEF words, pos
  <2>2. IsRead(words, t, n, pos, Len(f[n]) + 1)
    BY Zenon, <2>1, PartitionIsRead
  <2> QED
    BY Zenon, <2>2 DEF IsRead
<1> HIDE DEF words, r, pos
<1>3. ReadStep(words, r, n) =
        [found |-> r.found \cup {PartitionAt(words, pos, n - 1)},
         pos |-> pos + 2 + (IF words[pos + 1].named THEN TotalWords(words[pos + 2].bytes[1]) ELSE 0)]
  BY Zenon, <1>1, <1>2 DEF ReadStep
<1>4. ReadStep(words, r, n) = [found |-> r.found \cup {Said(t, n)}, pos |-> Len(f[n]) + 1]
  BY Zenon, <1>2, <1>3
<1>5. r.found \cup {Said(t, n)} = {Said(t, i) : i \in 1 .. n}
  <2>1. \A i : i \in 1 .. n <=> i \in 1 .. n - 1 \/ i = n
    BY TableIs
  <2> QED
    BY Zenon, <1>1, <2>1
<1>6. ReadStep(words, r, n) = [found |-> {Said(t, i) : i \in 1 .. n}, pos |-> Len(f[n]) + 1]
  BY Zenon, <1>4, <1>5
<1>7. ReadStep(words, r, n) = ReadAfter(t, f, n)
  BY <1>6 DEF ReadAfter
<1> QED
  BY <1>7 DEF words, r

LEMMA PartitionsAre ==
  ASSUME IsTable(rom.table), rom.rc = 0
  PROVE  Partitions = {Said(rom.table, n) : n \in 1 .. Len(rom.table)}
<1> DEFINE t == rom.table
           m == Len(t)
<1>1. PICK f : WordsUpTo(f, t, m) /\ TableWords(t) = f[m]
  BY TableIs, TableWordsAre
<1>2. m \in Nat /\ Min({m, 16}) = m
  <2>1. m \in 0 .. 16
    BY TableIs
  <2> HIDE DEF m
  <2> QED
    BY <2>1, MinOf
<1> DEFINE words == f[m]
           F(g) == [n \in 0 .. m |-> IF n = 0 THEN [pos |-> 1, found |-> {}] ELSE ReadStep(words, g[n - 1], n)]
           read == CHOOSE g : g = F(g)
           G == [n \in 0 .. m |-> ReadAfter(t, f, n)]
<1>3. Partitions = read[m].found
  <2>1. Partitions =
          LET read0[n \in 0 .. Min({m, 16})] ==
                IF n = 0 THEN [pos |-> 1, found |-> {}] ELSE ReadStep(TableWords(t), read0[n - 1], n)
          IN  IF rom.rc < 0 THEN {} ELSE read0[Min({m, 16})].found
    BY DEF Partitions, ReadStep
  <2>2. ~(rom.rc < 0)
    OBVIOUS
  <2> HIDE DEF m, t
  <2> QED
    BY ZenonT(40), <1>1, <1>2, <2>1, <2>2
<1> HIDE DEF m, t
<1>4. IsTable(t) /\ m = Len(t)
  BY DEF t, m
<1>5. ReadAfter(t, f, 0) = [pos |-> 1, found |-> {}]
  <2>1. f[0] = <<>> /\ Len(f[0]) = 0
    BY <1>1, EmptySeq DEF WordsUpTo
  <2>2. {Said(t, i) : i \in 1 .. 0} = {} /\ Len(f[0]) + 1 = 1
    <3>1. 1 .. 0 = {} /\ 0 + 1 = 1
      OBVIOUS
    <3> QED
      BY Zenon, <2>1, <3>1
  <2> QED
    BY Zenon, <2>2 DEF ReadAfter
<1>6. ASSUME NEW n \in 1 .. m PROVE ReadStep(words, ReadAfter(t, f, n - 1), n) = ReadAfter(t, f, n)
  BY Zenon, <1>1, <1>4, StepIsRead
<1>7. G = F(G)
  <2>1. ASSUME NEW n \in 0 .. m PROVE G[n] = F(G)[n]
    <3>1. CASE n = 0
      BY <1>5, <3>1
    <3>2. CASE n # 0
      <4>1. n \in 1 .. m /\ n - 1 \in 0 .. m
        BY <1>2, <3>2
      <4>2. F(G)[n] = ReadStep(words, G[n - 1], n) /\ G[n - 1] = ReadAfter(t, f, n - 1)
            /\ G[n] = ReadAfter(t, f, n)
        BY <3>2, <4>1
      <4> HIDE DEF G, F
      <4> QED
        BY Zenon, <1>6, <4>1, <4>2
    <3> QED
      BY <3>1, <3>2
  <2> QED
    BY <2>1
<1>8. read = F(read)
  BY <1>7
<1> HIDE DEF read
<1> DEFINE T == {n \in Nat : n <= m => read[n] = ReadAfter(t, f, n)}
<1>9. 0 \in T
  <2>1. read[0] = F(read)[0] /\ 0 \in 0 .. m
    BY <1>2, <1>8
  <2> QED
    BY <1>5, <2>1
<1>10. ASSUME NEW n \in Nat, n \in T PROVE n + 1 \in T
  <2>1. SUFFICES ASSUME n + 1 <= m PROVE read[n + 1] = ReadAfter(t, f, n + 1)
    OBVIOUS
  <2>2. n + 1 \in 0 .. m /\ n + 1 \in 1 .. m /\ (n + 1) - 1 = n /\ n + 1 # 0 /\ n <= m
    BY <1>2, <2>1
  <2>3. read[n + 1] = F(read)[n + 1]
    BY Zenon, <1>8
  <2>4. F(read)[n + 1] = ReadStep(words, read[n], n + 1)
    BY <2>2
  <2>5. read[n] = ReadAfter(t, f, n)
    BY <1>10, <2>2
  <2>6. ReadStep(words, ReadAfter(t, f, n), n + 1) = ReadAfter(t, f, n + 1)
    BY Zenon, <1>6, <2>2
  <2> HIDE DEF F
  <2> QED
    BY Zenon, <2>3, <2>4, <2>5, <2>6
<1>11. m \in T
  <2> HIDE DEF T
  <2>1. Nat \subseteq T
    BY <1>9, <1>10, SetInduction
  <2> QED
    BY <1>2, <2>1
<1>12. read[m].found = {Said(t, n) : n \in 1 .. m}
  BY <1>2, <1>11 DEF ReadAfter
<1> QED
  BY <1>3, <1>12 DEF t, m

-----------------------------------------------------------------------------
(***************************************************************************)
(* The slots: which partition an address is in, and which one is linked.   *)
(***************************************************************************)
RomInv ==
    /\ \/ rom.rc = 0 /\ IsTable(rom.table)
       \/ rom.rc = -14 /\ rom.table = <<>>
    /\ base \in Bases

LEMMA NoneIsRead == ASSUME rom.rc = -14 PROVE Partitions = {}
BY DEF Partitions

LEMMA TableIsReadHere == ASSUME RomInv PROVE TableIsRead
<1>1. CASE rom.rc = 0 /\ IsTable(rom.table)
  <2>1. DOMAIN rom.table = 1 .. Len(rom.table)
    BY Zenon, <1>1, TableIs
  <2>2. Partitions = {Said(rom.table, n) : n \in DOMAIN rom.table}
    BY Zenon, <1>1, <2>1, PartitionsAre
  <2> QED
    BY Zenon, <2>2 DEF TableIsRead, Said
<1>2. CASE rom.rc = -14 /\ rom.table = <<>>
  <2>1. Partitions = {} /\ DOMAIN rom.table = {}
    BY <1>2, NoneIsRead
  <2> QED
    BY Zenon, <2>1 DEF TableIsRead
<1> QED
  BY <1>1, <1>2 DEF RomInv

LEMMA SaidIs ==
  ASSUME NEW t, NEW n
  PROVE  /\ Said(t, n).index = n - 1 /\ Said(t, n).first = t[n].first /\ Said(t, n).last = t[n].last
         /\ Said(t, n).link = t[n].link /\ Said(t, n).accepts = t[n].accepts
         /\ Said(t, n).name = SubSeq(t[n].name, 1, Min({Len(t[n].name), NAME_MAX}))
BY DEF Said

LEMMA OffsetIs ==
  ASSUME NEW at \in Nat, at < XIP_BASE
  PROVE  StorageOffset(at) = at /\ StorageOffset(XIP_BASE + at) = at
<1>1. XIP_BASE \in Nat \ {0}
  BY PersistAssumption
<1>2. ASSUME NEW x \in Nat \ {0}, NEW a \in Nat, a < x PROVE (a - x) % x = a /\ a % x = a /\ (x + a) - x = a
  BY <1>2
<1> QED
  BY Zenon, <1>1, <1>2 DEF StorageOffset

LEMMA FirstOfOne == ASSUME NEW p, p.index \in Int PROVE First({p}) = {p}
BY DEF First

(* The entries of a table: numbers, one address in one of them.            *)
LEMMA EntryIs ==
  ASSUME NEW t, IsTable(t), NEW n \in 1 .. Len(t)
  PROVE  /\ n \in Nat /\ n >= 1 /\ t[n].first \in Nat /\ t[n].last \in Nat /\ t[n].link \in Links
         /\ t[n].first <= t[n].last /\ t[n].last < XIP_BASE
         /\ t[n].name \in Seq(Nat)
         /\ \A k \in 1 .. Len(t) : k # n => t[k].last < t[n].first \/ t[n].last < t[k].first
<1>1. DOMAIN t = 1 .. Len(t) /\ t[n] \in Entries /\ Len(t) \in 0 .. 16
  BY Zenon, TableIs
<1>2. t[n].first \in Nat /\ t[n].last \in Nat /\ t[n].link \in Links /\ t[n].name \in Seq(Nat)
  BY <1>1 DEF Entries
<1>3. /\ t[n].first <= t[n].last /\ t[n].last < XIP_BASE
      /\ \A k \in 1 .. Len(t) : k # n => t[k].last < t[n].first \/ t[n].last < t[k].first
  BY Zenon, <1>1 DEF IsTable
<1>4. n \in Nat /\ n >= 1
  BY <1>1
<1> QED
  BY Zenon, <1>2, <1>3, <1>4

LEMMA OneAddress ==
  ASSUME NEW t, IsTable(t), NEW n \in 1 .. Len(t), NEW k \in 1 .. Len(t), NEW at \in Nat,
         t[n].first <= at, at <= t[n].last, t[k].first <= at, at <= t[k].last
  PROVE  k = n
<1>1. /\ t[n].first \in Nat /\ t[n].last \in Nat /\ t[k].first \in Nat /\ t[k].last \in Nat
      /\ k # n => t[k].last < t[n].first \/ t[n].last < t[k].first
  BY Zenon, EntryIs
<1> QED
  BY <1>1

LEMMA OwnPartIs ==
  ASSUME NEW t, IsTable(t), Partitions = {Said(t, k) : k \in 1 .. Len(t)}, NEW n \in 1 .. Len(t),
         NEW at \in Nat, t[n].first <= at, at <= t[n].last, NEW address \in {at, XIP_BASE + at}
  PROVE  OwnPart(address) = {Said(t, n)}
<1>1. at < XIP_BASE
  <2>1. t[n].last \in Nat /\ t[n].last < XIP_BASE /\ XIP_BASE \in Nat
    BY EntryIs, PersistAssumption
  <2> QED
    BY <2>1
<1>2. StorageOffset(address) = at
  BY <1>1, OffsetIs
<1>3. \A k \in 1 .. Len(t) : Contains(Said(t, k), at) <=> k = n
  <2>1. \A k \in 1 .. Len(t) : Contains(Said(t, k), at) <=> t[k].first <= at /\ at <= t[k].last
    BY ZenonT(40), SaidIs DEF Contains
  <2> QED
    BY Zenon, <2>1, OneAddress
<1>4. {p \in Partitions : Contains(p, at)} = {Said(t, n)}
  BY Zenon, <1>3
<1>5. First({Said(t, n)}) = {Said(t, n)}
  <2>1. Said(t, n).index \in Int
    <3>1. n - 1 \in Int
      OBVIOUS
    <3> QED
      BY Zenon, <3>1, SaidIs
  <2> QED
    BY Zenon, <2>1, FirstOfOne
<1> QED
  BY Zenon, <1>2, <1>4, <1>5 DEF OwnPart

(* The other slot: a B is of one A, and an A has at most one B.            *)
LEMMA BIsOf ==
  ASSUME NEW t, IsTable(t), NEW n \in 1 .. Len(t), t[n].link.type = "b"
  PROVE  \E a \in 1 .. Len(t) :
           /\ t[n].link = [type |-> "b", of |-> a - 1] /\ a # n /\ t[a].link.type # "b"
           /\ ~IsData(t[n]) /\ ~IsData(t[a])
           /\ \A k \in 1 .. Len(t) : t[k].link = t[n].link => k = n
<1>1. DOMAIN t = 1 .. Len(t)
  BY Zenon, TableIs
<1>2. /\ \A j \in DOMAIN t : j # n => t[j].link # t[n].link
      /\ \E j \in DOMAIN t : j = t[n].link.of + 1 /\ t[j].link.type # "b" /\ ~IsData(t[j])
      /\ ~IsData(t[n])
  BY Zenon, <1>1 DEF IsTable
<1>3. PICK a \in 1 .. Len(t) : a = t[n].link.of + 1 /\ t[a].link.type # "b" /\ ~IsData(t[a])
  BY Zenon, <1>1, <1>2
<1>4. t[n].link = [type |-> "b", of |-> a - 1]
  <2>1. t[n].link \in Links
    BY Zenon, EntryIs
  <2>2. t[n].link.of = a - 1
    BY <1>3, <2>1 DEF Links
  <2>3. t[n].link = [type |-> t[n].link.type, of |-> t[n].link.of]
    BY <2>1 DEF Links
  <2> QED
    BY Zenon, <2>2, <2>3
<1> QED
  BY Zenon, <1>1, <1>2, <1>3, <1>4

LEMMA LinkedIs ==
  ASSUME NEW t, IsTable(t), Partitions = {Said(t, k) : k \in 1 .. Len(t)}, NEW n \in 1 .. Len(t)
  PROVE  /\ \A a \in 1 .. Len(t) : t[n].link = [type |-> "b", of |-> a - 1] => Linked(Said(t, n)) = {Said(t, a)}
         /\ t[n].link.type # "b" =>
              /\ \A b \in 1 .. Len(t) :
                   t[b].link = [type |-> "b", of |-> n - 1] => Linked(Said(t, n)) = {Said(t, b)}
              /\ \A q \in Linked(Said(t, n)) :
                   \E b \in 1 .. Len(t) : q = Said(t, b) /\ t[b].link = [type |-> "b", of |-> n - 1]
<1> DEFINE m == Len(t)
           s == Said(t, n)
<1>0. m \in Nat
  BY TableIs
<1>1. \A k \in 1 .. m : Said(t, k).index = k - 1 /\ Said(t, k).link = t[k].link /\ k - 1 \in Int
  <2>1. \A k \in 1 .. m : k - 1 \in Int
    BY <1>0
  <2> QED
    BY Zenon, <2>1, SaidIs
<1>2. \A k, j \in 1 .. m : k - 1 = j - 1 => k = j
  BY <1>0
<1> HIDE DEF m
<1>3. ASSUME NEW a \in 1 .. m, t[n].link = [type |-> "b", of |-> a - 1]
      PROVE  Linked(s) = {Said(t, a)}
  <2>1. s.link.type = "b" /\ s.link.of = a - 1
    BY <1>1, <1>3 DEF m
  <2>2. Linked(s) = {q \in Partitions : q.index = a - 1}
    BY Zenon, <2>1 DEF Linked
  <2>3. \A k \in 1 .. m : Said(t, k).index = a - 1 <=> k = a
    BY Zenon, <1>1, <1>2
  <2> QED
    BY Zenon, <2>2, <2>3 DEF m
<1>4. ASSUME t[n].link.type # "b"
      PROVE  Linked(s) = First({q \in Partitions : q.link = [type |-> "b", of |-> n - 1]})
  <2>1. s.link.type # "b" /\ s.index = n - 1
    BY Zenon, <1>1, <1>4 DEF m
  <2> QED
    BY Zenon, <2>1 DEF Linked, IsBOf
<1>5. ASSUME t[n].link.type # "b", NEW b \in 1 .. m, t[b].link = [type |-> "b", of |-> n - 1]
      PROVE  Linked(s) = {Said(t, b)}
  <2>1. t[b].link.type = "b"
    BY <1>5
  <2>2. \A k \in 1 .. m : t[k].link = t[b].link => k = b
    BY Zenon, <2>1, BIsOf DEF m
  <2>3. \A k \in 1 .. m : Said(t, k).link = [type |-> "b", of |-> n - 1] <=> k = b
    BY Zenon, <1>1, <1>5, <2>2
  <2>4. {q \in Partitions : q.link = [type |-> "b", of |-> n - 1]} = {Said(t, b)}
    BY Zenon, <2>3 DEF m
  <2>5. First({Said(t, b)}) = {Said(t, b)}
    BY Zenon, <1>1, FirstOfOne
  <2> QED
    BY Zenon, <1>4, <1>5, <2>4, <2>5
<1>6. ASSUME t[n].link.type # "b", NEW q \in Linked(s)
      PROVE  \E b \in 1 .. m : q = Said(t, b) /\ t[b].link = [type |-> "b", of |-> n - 1]
  <2>1. q \in Partitions /\ q.link = [type |-> "b", of |-> n - 1]
    BY Zenon, <1>4, <1>6 DEF First
  <2> QED
    BY Zenon, <1>1, <2>1 DEF m
<1> QED
  BY Zenon, <1>3, <1>5, <1>6 DEF m

(* One is the B of the other: what find_slots can return.                  *)
Pair(t, a, b) ==
    /\ a \in 1 .. Len(t) /\ b \in 1 .. Len(t) /\ a # b
    /\ t[b].link = [type |-> "b", of |-> a - 1] /\ t[a].link.type # "b"
    /\ ~IsData(t[a]) /\ ~IsData(t[b])
SlotsOf(t, n, address) ==
    /\ \A s \in FindSlots(address) :
          \E k \in 1 .. Len(t) : /\ s = [own |-> Said(t, n), target |-> Said(t, k)]
                                 /\ Pair(t, n, k) \/ Pair(t, k, n)
    /\ \A k \in 1 .. Len(t) :
          (Pair(t, n, k) \/ Pair(t, k, n)) /\ "arm-s" \in t[k].accepts =>
            FindSlots(address) = {[own |-> Said(t, n), target |-> Said(t, k)]}

LEMMA SlotsArePair ==
  ASSUME NEW t, IsTable(t), Partitions = {Said(t, k) : k \in 1 .. Len(t)},
         NEW n \in 1 .. Len(t), NEW at \in Nat, t[n].first <= at, at <= t[n].last,
         NEW address \in {at, XIP_BASE + at}
  PROVE  SlotsOf(t, n, address)
<1> DEFINE p == Said(t, n)
           Targets == {x \in Linked(p) : x.index # p.index /\ "arm-s" \in x.accepts}
<1>1. OwnPart(address) = {p}
  BY Zenon, OwnPartIs
<1>2. FindSlots(address) = {[own |-> p, target |-> q] : q \in Targets}
  <2> DEFINE From(x) == {[own |-> x, target |-> q] :
                           q \in {y \in Linked(x) : y.index # x.index /\ "arm-s" \in y.accepts}}
  <2>1. FindSlots(address) = UNION {From(x) : x \in OwnPart(address)}
    BY DEF FindSlots
  <2>2. From(p) = {[own |-> p, target |-> q] : q \in Targets}
    OBVIOUS
  <2> HIDE DEF From
  <2>3. UNION {From(x) : x \in {p}} = From(p)
    BY Zenon
  <2> QED
    BY Zenon, <1>1, <2>1, <2>2, <2>3
<1>3. ASSUME NEW k \in 1 .. Len(t), Pair(t, n, k) \/ Pair(t, k, n)
      PROVE  Linked(p) = {Said(t, k)}
  <2>1. CASE Pair(t, n, k)
    BY Zenon, <2>1, LinkedIs DEF Pair
  <2>2. CASE Pair(t, k, n)
    <3>1. t[n].link = [type |-> "b", of |-> k - 1] /\ k \in 1 .. Len(t)
      BY <2>2 DEF Pair
    <3>2. \A a \in 1 .. Len(t) : t[n].link = [type |-> "b", of |-> a - 1] => Linked(Said(t, n)) = {Said(t, a)}
      BY Zenon, LinkedIs
    <3> QED
      BY Zenon, <3>1, <3>2
  <2> QED
    BY Zenon, <1>3, <2>1, <2>2
<1>4. ASSUME NEW q \in Linked(p)
      PROVE  \E k \in 1 .. Len(t) : q = Said(t, k) /\ (Pair(t, n, k) \/ Pair(t, k, n))
  <2>1. CASE t[n].link.type = "b"
    <3>1. PICK a \in 1 .. Len(t) : /\ t[n].link = [type |-> "b", of |-> a - 1] /\ a # n /\ t[a].link.type # "b"
                                   /\ ~IsData(t[n]) /\ ~IsData(t[a])
      BY Zenon, <2>1, BIsOf
    <3>2. Pair(t, a, n)
      BY Zenon, <3>1 DEF Pair
    <3>3. q = Said(t, a)
      BY Zenon, <1>3, <1>4, <3>2
    <3> QED
      BY Zenon, <3>2, <3>3
  <2>2. CASE t[n].link.type # "b"
    <3>1. PICK b \in 1 .. Len(t) : q = Said(t, b) /\ t[b].link = [type |-> "b", of |-> n - 1]
      BY Zenon, <1>4, <2>2, LinkedIs
    <3>2. t[b].link.type = "b"
      BY <3>1
    <3>3. PICK a \in 1 .. Len(t) : /\ t[b].link = [type |-> "b", of |-> a - 1] /\ a # b /\ t[a].link.type # "b"
                                   /\ ~IsData(t[b]) /\ ~IsData(t[a])
      BY Zenon, <3>2, BIsOf
    <3>4. a = n
      <4>1. a - 1 = n - 1 /\ a \in Nat /\ n \in Nat
        BY <3>1, <3>3
      <4> QED
        BY ONLY <4>1
    <3>5. Pair(t, n, b)
      BY Zenon, <3>3, <3>4, <2>2 DEF Pair
    <3> QED
      BY Zenon, <3>1, <3>5
  <2> QED
    BY Zenon, <2>1, <2>2
<1>5. ASSUME NEW s \in FindSlots(address)
      PROVE  \E k \in 1 .. Len(t) : /\ s = [own |-> Said(t, n), target |-> Said(t, k)]
                                    /\ Pair(t, n, k) \/ Pair(t, k, n)
  BY Zenon, <1>2, <1>4
<1>6. ASSUME NEW k \in 1 .. Len(t), Pair(t, n, k) \/ Pair(t, k, n), "arm-s" \in t[k].accepts
      PROVE  FindSlots(address) = {[own |-> Said(t, n), target |-> Said(t, k)]}
  <2>1. Linked(p) = {Said(t, k)}
    BY Zenon, <1>3, <1>6
  <2>2. Said(t, k).index # p.index /\ "arm-s" \in Said(t, k).accepts
    <3>1. k # n /\ k \in Nat /\ n \in Nat
      BY <1>6 DEF Pair
    <3>2. k - 1 # n - 1
      BY ONLY <3>1
    <3> QED
      BY Zenon, <1>6, <3>2, SaidIs
  <2>3. Targets = {Said(t, k)}
    BY Zenon, <2>1, <2>2
  <2> HIDE DEF Targets
  <2> QED
    BY Zenon, <1>2, <2>3
<1> QED
  BY Zenon, <1>5, <1>6 DEF SlotsOf

(* The data partition is neither of them, though its name may be cut.      *)
LEMMA DataIs ==
  ASSUME NEW t, IsTable(t), Partitions = {Said(t, k) : k \in 1 .. Len(t)}, NEW d \in DataOffset
  PROVE  \E k \in 1 .. Len(t) : d = t[k].first /\ IsData(t[k])
<1>1. PICK p \in Partitions : d = p.first /\ (p.name = DATA \/ "data" \in p.accepts)
  BY Zenon DEF DataOffset, First
<1>2. PICK k \in 1 .. Len(t) : p = Said(t, k)
  BY Zenon
<1>3. d = t[k].first
  BY Zenon, <1>1, <1>2, SaidIs
<1>4. CASE "data" \in p.accepts
  BY Zenon, <1>2, <1>3, <1>4, SaidIs DEF IsData
<1>5. CASE p.name = DATA
  <2> DEFINE name == t[k].name
             l == Len(name)
             kept == SubSeq(name, 1, Min({l, NAME_MAX}))
  <2>1. kept = DATA
    BY Zenon, <1>2, <1>5, SaidIs
  <2>2. name \in Seq(Nat) /\ l \in Nat /\ NAME_MAX \in Nat /\ Len(DATA) < NAME_MAX /\ Len(DATA) \in Nat
    BY EntryIs, LenProperties, PersistAssumption
  <2>3. ASSUME l > NAME_MAX \/ l = NAME_MAX PROVE FALSE
    <3>1. Min({l, NAME_MAX}) = NAME_MAX
      <4> HIDE DEF l
      <4> QED
        BY <2>2, <2>3, MinOf
    <3>2. \A i \in 1 .. NAME_MAX : name[i] \in Nat
      <4>1. \A i \in 1 .. NAME_MAX : i \in 1 .. l
        BY <2>2, <2>3
      <4> QED
        BY Zenon, <2>2, <4>1, ElementOfSeq
    <3>3. Len(SubSeq(name, 1, NAME_MAX)) = IF 1 <= NAME_MAX THEN NAME_MAX - 1 + 1 ELSE 0
      BY <2>2, <3>2, SubSeqProperties
    <3>4. Len(DATA) = IF 1 <= NAME_MAX THEN NAME_MAX - 1 + 1 ELSE 0
      BY Zenon, <2>1, <3>1, <3>3
    <3> QED
      BY <2>2, <3>4
  <2>4. Min({l, NAME_MAX}) = l
    <3> HIDE DEF l
    <3> QED
      BY <2>2, <2>3, MinOf
  <2>5. kept = name
    <3>1. \A i \in 1 .. l : name[i] \in Nat
      BY Zenon, <2>2, ElementOfSeq
    <3>2. /\ SubSeq(name, 1, l) \in Seq(Nat) /\ Len(SubSeq(name, 1, l)) = (IF 1 <= l THEN l - 1 + 1 ELSE 0)
          /\ \A i \in 1 .. l - 1 + 1 : SubSeq(name, 1, l)[i] = name[1 + i - 1]
      BY <2>2, <3>1, SubSeqProperties
    <3> DEFINE sub == SubSeq(name, 1, l)
    <3> HIDE DEF sub
    <3>3. sub \in Seq(Nat) /\ Len(sub) = l /\ \A i \in 1 .. l : sub[i] = name[i]
      <4>1. \A i \in 1 .. l : i \in 1 .. l - 1 + 1 /\ 1 + i - 1 = i
        BY <2>2
      <4>2. (IF 1 <= l THEN l - 1 + 1 ELSE 0) = l
        BY <2>2
      <4>3. sub \in Seq(Nat) /\ Len(sub) = l
        <5> DEFINE size == IF 1 <= l THEN l - 1 + 1 ELSE 0
        <5>1. Len(sub) = size /\ sub \in Seq(Nat) /\ size = l
          BY <3>2, <4>2 DEF sub
        <5> HIDE DEF size
        <5> QED
          BY Zenon, <5>1
      <4>4. ASSUME NEW i \in 1 .. l PROVE sub[i] = name[i]
        <5>1. i \in 1 .. l - 1 + 1 /\ 1 + i - 1 = i
          BY Zenon, <4>1
        <5>2. sub[i] = name[1 + i - 1]
          BY Zenon, <3>2, <5>1 DEF sub
        <5> QED
          BY Zenon, <5>1, <5>2
      <4> QED
        BY Zenon, <4>3, <4>4
    <3>4. sub = name
      BY Zenon, <2>2, <3>3, SeqEqual
    <3> QED
      BY Zenon, <2>4, <3>4 DEF sub
  <2> QED
    BY Zenon, <1>3, <2>1, <2>5 DEF IsData
<1> QED
  BY Zenon, <1>1, <1>4, <1>5

LEMMA PairsAreApart ==
  ASSUME NEW t, IsTable(t), NEW n \in 1 .. Len(t), NEW k \in 1 .. Len(t), n # k
  PROVE  ~Contains(Said(t, n), t[k].first)
<1>1. /\ t[n].first \in Nat /\ t[n].last \in Nat /\ t[k].first \in Nat /\ t[k].last \in Nat
      /\ t[k].first <= t[k].last /\ t[n].first <= t[n].last
      /\ t[k].last < t[n].first \/ t[n].last < t[k].first
  BY Zenon, EntryIs
<1>2. ~(t[n].first <= t[k].first /\ t[k].first <= t[n].last)
  BY <1>1
<1> QED
  BY Zenon, <1>2, SaidIs DEF Contains

LEMMA SlotsAre == ASSUME RomInv PROVE SlotsAreEachOthers
<1> SUFFICES ASSUME NEW s \in FindSlots(base)
             PROVE  /\ ~Contains(s.own, s.target.first) /\ ~Contains(s.target, s.own.first)
                    /\ "arm-s" \in s.own.accepts =>
                          FindSlots(XIP_BASE + s.target.first) = {[own |-> s.target, target |-> s.own]}
                    /\ \A d \in DataOffset : ~Contains(s.own, d) /\ ~Contains(s.target, d)
  BY DEF SlotsAreEachOthers
<1> DEFINE t == rom.table
<1>1. rom.rc = 0 /\ IsTable(t)
  <2>1. ASSUME rom.rc = -14 PROVE FALSE
    <3>1. OwnPart(base) = {}
      BY <2>1, NoneIsRead DEF OwnPart, First
    <3>2. FindSlots(base) = {}
      BY <3>1 DEF FindSlots
    <3> QED
      BY <3>2
  <2> QED
    BY <2>1 DEF RomInv
<1>2. Partitions = {Said(t, k) : k \in 1 .. Len(t)}
  BY Zenon, <1>1, PartitionsAre
<1>3. base \in Nat /\ base < XIP_BASE
  <2>1. base = 0 \/ \E i \in DOMAIN t : base = t[i].first
    <3> DEFINE Parts == {t[i] : i \in DOMAIN t}
    <3>1. base \in {p.first : p \in Parts} \cup {0}
      BY DEF RomInv, Bases
    <3>2. ASSUME base # 0 PROVE \E i \in DOMAIN t : base = t[i].first
      <4>1. PICK p \in Parts : base = p.first
        <5> HIDE DEF Parts
        <5> QED
          BY <3>1, <3>2
      <4>2. PICK i \in DOMAIN t : p = t[i]
        BY Zenon
      <4> QED
        BY Zenon, <4>1, <4>2
    <3> QED
      BY Zenon, <3>2
  <2>2. CASE base = 0
    <3>1. XIP_BASE \in Nat \ {0}
      BY PersistAssumption
    <3> QED
      BY <2>2, <3>1
  <2>3. CASE \E i \in DOMAIN t : base = t[i].first
    <3>1. PICK i \in DOMAIN t : base = t[i].first
      BY <2>3
    <3>2. i \in 1 .. Len(t)
      BY Zenon, <1>1, TableIs
    <3>3. t[i].first \in Nat /\ t[i].last \in Nat /\ t[i].first <= t[i].last /\ t[i].last < XIP_BASE
      BY Zenon, <1>1, <3>2, EntryIs
    <3>4. XIP_BASE \in Nat
      BY PersistAssumption
    <3> HIDE DEF t
    <3> QED
      BY <3>1, <3>3, <3>4
  <2> QED
    BY <2>1, <2>2, <2>3
<1> HIDE DEF t
<1>4. PICK n \in 1 .. Len(t) : t[n].first <= base /\ base <= t[n].last
  <2>1. PICK p \in Partitions : Contains(p, StorageOffset(base))
    <3>1. OwnPart(base) # {}
      BY Zenon DEF FindSlots
    <3> QED
      BY Zenon, <3>1 DEF OwnPart, First
  <2>2. StorageOffset(base) = base
    BY Zenon, <1>3, OffsetIs
  <2>3. PICK n \in 1 .. Len(t) : p = Said(t, n)
    BY Zenon, <1>2
  <2> QED
    BY Zenon, <2>1, <2>2, <2>3, SaidIs DEF Contains
<1>5. PICK k \in 1 .. Len(t) : /\ s = [own |-> Said(t, n), target |-> Said(t, k)]
                               /\ Pair(t, n, k) \/ Pair(t, k, n)
  <2>1. base \in {base, XIP_BASE + base}
    OBVIOUS
  <2>2. SlotsOf(t, n, base)
    BY Zenon, <1>1, <1>2, <1>3, <1>4, <2>1, SlotsArePair
  <2> QED
    BY Zenon, <2>2 DEF SlotsOf
<1>6. n # k /\ ~IsData(t[n]) /\ ~IsData(t[k])
  BY <1>5 DEF Pair
<1>7. s.own = Said(t, n) /\ s.target = Said(t, k)
  BY <1>5
<1>8. /\ s.own.first = t[n].first /\ s.target.first = t[k].first /\ s.own.accepts = t[n].accepts
  <2>1. /\ s.own.first = Said(t, n).first /\ s.target.first = Said(t, k).first
        /\ s.own.accepts = Said(t, n).accepts
    BY <1>7
  <2>2. \A j : Said(t, j).first = t[j].first /\ Said(t, j).accepts = t[j].accepts
    BY Zenon, SaidIs
  <2> QED
    BY Zenon, <2>1, <2>2
<1>9. ~Contains(s.own, s.target.first) /\ ~Contains(s.target, s.own.first)
  BY Zenon, <1>1, <1>6, <1>7, <1>8, PairsAreApart
<1>10. ASSUME "arm-s" \in s.own.accepts
       PROVE  FindSlots(XIP_BASE + s.target.first) = {[own |-> s.target, target |-> s.own]}
  <2> DEFINE at == t[k].first
             address == XIP_BASE + at
  <2>1. at \in Nat /\ t[k].first <= at /\ at <= t[k].last
    <3>1. t[k].first \in Nat /\ t[k].first <= t[k].last
      BY Zenon, <1>1, EntryIs
    <3> QED
      BY <3>1
  <2>2. address \in {at, XIP_BASE + at}
    OBVIOUS
  <2>3. "arm-s" \in t[n].accepts
    BY Zenon, <1>8, <1>10
  <2> HIDE DEF at
  <2>4. SlotsOf(t, k, address)
    <3> HIDE DEF address
    <3> QED
      BY Zenon, <1>1, <1>2, <2>1, <2>2, SlotsArePair
  <2>5. FindSlots(address) = {[own |-> Said(t, k), target |-> Said(t, n)]}
    BY Zenon, <1>5, <2>3, <2>4 DEF SlotsOf
  <2> QED
    BY Zenon, <1>7, <1>8, <2>5 DEF at
<1>11. ASSUME NEW d \in DataOffset PROVE ~Contains(s.own, d) /\ ~Contains(s.target, d)
  <2>1. PICK j \in 1 .. Len(t) : d = t[j].first /\ IsData(t[j])
    BY Zenon, <1>1, <1>2, DataIs
  <2>2. j # n /\ j # k
    BY Zenon, <1>6, <2>1
  <2> QED
    BY Zenon, <1>1, <1>7, <2>1, <2>2, PairsAreApart
<1> QED
  BY Zenon, <1>9, <1>10, <1>11

(* The table and the address of the image stay as they are found.          *)
LEMMA RomInvHolds == PersistSpec => []RomInv
<1>1. PersistInit => RomInv
  <2> SUFFICES ASSUME PersistInit PROVE RomInv
    OBVIOUS
  <2>1. base \in Bases
    BY DEF PersistInit, Bases
  <2>2. \A t \in Tables : IsTable(t)
    BY PersistAssumption
  <2> HIDE DEF IsTable
  <2> QED
    BY <2>1, <2>2 DEF PersistInit, RomInv
<1>2. RomInv /\ [PersistNext]_persistVars => RomInv'
  <2> SUFFICES ASSUME RomInv, [PersistNext]_persistVars PROVE RomInv'
    OBVIOUS
  <2>1. rom' = rom
    BY DEF PersistNext, Boots, Install, Installed, SetUp, EraseRecord, ProgramPage, Breaks,
           RecoveryReads, TurnsOff, CardChanges, persistVars
  <2>2. base' \in Bases
    <3>1. base' = base \/ base' \in Bases \/ base' = 0
      BY DEF PersistNext, Boots, Install, Installed, SetUp, EraseRecord, ProgramPage, Breaks,
             RecoveryReads, TurnsOff, CardChanges, persistVars
    <3>2. 0 \in Bases /\ base \in Bases
      BY DEF RomInv, Bases
    <3> QED
      BY <3>1, <3>2
  <2>3. Bases' = Bases
    BY <2>1 DEF Bases
  <2> QED
    BY <2>1, <2>2, <2>3 DEF RomInv
<1> QED
  BY <1>1, <1>2, PTL DEF PersistSpec

THEOREM CopyIsSoundHolds == PersistSpec => []CopyIsSound
<1>1. RomInv /\ RecordInv => CopyIsSound
  BY TableIsReadHere, SlotsAre DEF RecordInv, CopyIsSound
<1> QED
  BY <1>1, RomInvHolds, RecordInvHolds, PTL

-----------------------------------------------------------------------------
(* A check and what it takes for granted: that only a whole image is       *)
(* tried, in the slot that is not running, that the table is read as it    *)
(* is written, that the two slots and the record are three places, and     *)
(* that the record is the last one written whole, whatever broke since     *)
(* (app.rs, slot.rs, ab_boot.rs, persist.rs).                              *)
THEOREM UpdateIsSafeHolds == UpdateSpec => []UpdateIsSafe
<1>1. UpdateInit => Init /\ PersistInit
  BY DEF UpdateInit
<1>2. [UpdateNext]_<<subject, all, persistVars>> => [Next]_all /\ [PersistNext]_persistVars
  BY Zenon DEF UpdateNext
<1>3. CheckIsSound /\ CopyIsSound => UpdateIsSafe
  BY DEF UpdateIsSafe
<1> QED
  BY <1>1, <1>2, <1>3, CheckIsSoundHolds, CopyIsSoundHolds, PTL DEF UpdateSpec, Spec, PersistSpec
=============================================================================
