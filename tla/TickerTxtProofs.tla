--------------------------- MODULE TickerTxtProofs ---------------------------
(***************************************************************************)
(* Proofs about the settings file: what rewriting a text does to what it   *)
(* says, for every text and every request, and that whatever fails while   *)
(* the page saves, the files are as TextsAreSafe and SavedIsLoaded say.    *)
(*                                                                         *)
(* First the lists (Keep, by an induction over sequences), then Rewrite,   *)
(* then the invariant TextInv and what follows from it.                    *)
(***************************************************************************)
EXTENDS TickerTxt, TLAPS, SequenceTheorems, WellFoundedInduction

(* An induction over the natural numbers, on the set of those that have a  *)
(* property.                                                               *)
LEMMA SetInduction ==
  ASSUME NEW T, 0 \in T, \A n \in Nat : n \in T => n + 1 \in T
  PROVE  Nat \subseteq T
<1> DEFINE Out == Nat \ T
           Less == {mn \in Nat \X Nat : mn[1] < mn[2]}
<1>1. IsWellFoundedOn(Less, Nat)
  <2>1. Less = OpToRel(<, Nat)
    BY Zenon DEF OpToRel
  <2> QED
    BY Zenon, <2>1, NatLessThanWellFounded
<1>2. SUFFICES ASSUME Out # {} PROVE FALSE
  OBVIOUS
<1>3. PICK n \in Out : \A m \in Out : ~ (<<m, n>> \in Less)
  BY <1>1, <1>2, WFMin
<1>4. n # 0 /\ n \in Nat /\ n - 1 \in Nat
  OBVIOUS
<1>5. n - 1 \in T
  <2>1. <<n - 1, n>> \in Less
    BY <1>4
  <2> QED
    BY <1>3, <1>4, <2>1
<1> QED
  BY <1>4, <1>5

-----------------------------------------------------------------------------
(* Lists.                                                                  *)

(* An induction over sequences, on the set of those that have a property.  *)
LEMMA SeqInduction ==
  ASSUME NEW S, NEW P, <<>> \in P,
         \A s \in Seq(S), x \in S : s \in P => Append(s, x) \in P
  PROVE  Seq(S) \subseteq P
<1> DEFINE T == {n \in Nat : \A s \in Seq(S) : Len(s) = n => s \in P}
<1>1. 0 \in T
  BY EmptySeq
<1>2. ASSUME NEW n \in Nat, n \in T PROVE n + 1 \in T
  <2> SUFFICES ASSUME NEW s \in Seq(S), Len(s) = n + 1 PROVE s \in P
    OBVIOUS
  <2>1. PICK f \in Seq(S), x \in S : s = Append(f, x)
    BY SequenceEmptyOrAppend, EmptySeq
  <2>2. Len(f) = n
    BY <2>1, AppendProperties, LenProperties
  <2> QED
    BY <1>2, <2>1, <2>2
<1> HIDE DEF T
<1>3. Nat \subseteq T
  BY <1>1, <1>2, SetInduction
<1> QED
  BY <1>3, LenProperties DEF T

-----------------------------------------------------------------------------
(***************************************************************************)
(* What Keep returns, element by element, and of sequences made of two.    *)
(***************************************************************************)
KeptUpTo(f, s, set, m) ==
    /\ f[0] = <<>>
    /\ \A n \in 1 .. m : f[n] = IF s[n] \in set THEN Append(f[n - 1], s[n]) ELSE f[n - 1]

LEMMA KeptExists ==
  ASSUME NEW s, NEW set, NEW m \in Nat
  PROVE  \E f : DOMAIN f = 0 .. m /\ f = [n \in DOMAIN f |-> f[n]] /\ KeptUpTo(f, s, set, m)
<1> DEFINE T == {n \in Nat : \E f : /\ DOMAIN f = 0 .. n /\ f = [k \in DOMAIN f |-> f[k]]
                                    /\ KeptUpTo(f, s, set, n)}
<1>1. 0 \in T
  <2> DEFINE f == [n \in 0 .. 0 |-> <<>>]
  <2>1. DOMAIN f = 0 .. 0 /\ f = [k \in DOMAIN f |-> f[k]] /\ KeptUpTo(f, s, set, 0)
    BY DEF KeptUpTo
  <2> HIDE DEF f
  <2> QED
    BY <2>1
<1>2. ASSUME NEW n \in Nat, n \in T PROVE n + 1 \in T
  <2>1. PICK f : DOMAIN f = 0 .. n /\ f = [k \in DOMAIN f |-> f[k]] /\ KeptUpTo(f, s, set, n)
    BY <1>2
  <2> DEFINE g == [k \in 0 .. n + 1 |->
                     IF k <= n THEN f[k]
                     ELSE IF s[n + 1] \in set THEN Append(f[n], s[n + 1]) ELSE f[n]]
  <2>2. DOMAIN g = 0 .. n + 1 /\ g = [k \in DOMAIN g |-> g[k]] /\ g[0] = <<>>
    BY <2>1 DEF KeptUpTo
  <2>3. ASSUME NEW k \in 1 .. n + 1
        PROVE  g[k] = IF s[k] \in set THEN Append(g[k - 1], s[k]) ELSE g[k - 1]
    <3>1. CASE k <= n
      <4>1. k \in 1 .. n /\ g[k] = f[k] /\ g[k - 1] = f[k - 1]
        BY <3>1
      <4> QED
        BY <2>1, <4>1 DEF KeptUpTo
    <3>2. CASE k = n + 1
      BY <3>2
    <3> QED
      BY <3>1, <3>2
  <2>4. KeptUpTo(g, s, set, n + 1)
    BY <2>2, <2>3 DEF KeptUpTo
  <2> HIDE DEF g
  <2> QED
    BY <2>2, <2>4
<1> HIDE DEF T
<1>3. m \in T
  BY <1>1, <1>2, SetInduction
<1> QED
  BY <1>3 DEF T

LEMMA KeepIs ==
  ASSUME NEW s, NEW set, Len(s) \in Nat
  PROVE  \E f : KeptUpTo(f, s, set, Len(s)) /\ Keep(s, set) = f[Len(s)]
<1> DEFINE F(f) == [n \in 0 .. Len(s) |->
                      IF n = 0 THEN <<>>
                      ELSE IF s[n] \in set THEN Append(f[n - 1], s[n]) ELSE f[n - 1]]
           kept == CHOOSE f : f = F(f)
<1>1. Keep(s, set) = kept[Len(s)]
  BY DEF Keep
<1>2. PICK f : DOMAIN f = 0 .. Len(s) /\ f = [n \in DOMAIN f |-> f[n]] /\ KeptUpTo(f, s, set, Len(s))
  BY KeptExists
<1>3. f = F(f)
  <2>1. ASSUME NEW n \in 0 .. Len(s) PROVE f[n] = F(f)[n]
    BY <1>2, n = 0 \/ n \in 1 .. Len(s) DEF KeptUpTo
  <2> QED
    BY <1>2, <2>1
<1>4. kept = F(kept)
  BY <1>3
<1> HIDE DEF kept
<1>5. KeptUpTo(kept, s, set, Len(s))
  <2>1. kept[0] = <<>>
    BY <1>4
  <2>2. ASSUME NEW n \in 1 .. Len(s)
        PROVE  kept[n] = IF s[n] \in set THEN Append(kept[n - 1], s[n]) ELSE kept[n - 1]
    <3>1. kept[n] = F(kept)[n]
      BY <1>4
    <3> QED
      BY <3>1
  <2> QED
    BY <2>1, <2>2 DEF KeptUpTo
<1> QED
  BY <1>1, <1>5

LEMMA KeepNone == ASSUME NEW set PROVE Keep(<<>>, set) = <<>>
  BY KeepIs DEF KeptUpTo

LEMMA KeepOneMore ==
  ASSUME NEW S, NEW s \in Seq(S), NEW x \in S, NEW set
  PROVE  Keep(Append(s, x), set) = IF x \in set THEN Append(Keep(s, set), x) ELSE Keep(s, set)
<1> DEFINE t == Append(s, x)
<1>1. Len(s) \in Nat /\ Len(t) = Len(s) + 1 /\ t[Len(s) + 1] = x /\ \A i \in 1 .. Len(s) : t[i] = s[i]
  BY AppendProperties, LenProperties
<1> HIDE DEF t
<1>2. PICK f : KeptUpTo(f, s, set, Len(s)) /\ Keep(s, set) = f[Len(s)]
  BY <1>1, KeepIs
<1>3. PICK g : KeptUpTo(g, t, set, Len(t)) /\ Keep(t, set) = g[Len(t)]
  BY <1>1, KeepIs
<1> DEFINE T == {n \in Nat : n <= Len(s) => g[n] = f[n]}
<1>4. 0 \in T
  BY <1>2, <1>3 DEF KeptUpTo
<1>5. ASSUME NEW n \in Nat, n \in T PROVE n + 1 \in T
  <2> SUFFICES ASSUME n + 1 <= Len(s) PROVE g[n + 1] = f[n + 1]
    OBVIOUS
  <2>1. n + 1 \in 1 .. Len(s) /\ n + 1 \in 1 .. Len(t) /\ (n + 1) - 1 = n /\ g[n] = f[n] /\ t[n + 1] = s[n + 1]
    BY <1>1, <1>5
  <2> QED
    BY <1>2, <1>3, <2>1 DEF KeptUpTo
<1>6. g[Len(s)] = f[Len(s)]
  <2> HIDE DEF T
  <2>1. Len(s) \in T
    BY <1>1, <1>4, <1>5, SetInduction
  <2> QED
    BY <1>1, <2>1 DEF T
<1>7. g[Len(t)] = IF t[Len(t)] \in set THEN Append(g[Len(s)], t[Len(t)]) ELSE g[Len(s)]
  <2>1. Len(t) \in 1 .. Len(t) /\ Len(t) - 1 = Len(s)
    BY <1>1
  <2> QED
    BY <1>3, <2>1 DEF KeptUpTo
<1> QED
  BY <1>1, <1>2, <1>3, <1>6, <1>7 DEF t

LEMMA KeepTyped ==
  ASSUME NEW S, NEW set, NEW s \in Seq(S)
  PROVE  Keep(s, set) \in Seq(S \cap set) /\ Keep(s, set) \in Seq(S)
<1> DEFINE P == {r \in Seq(S) : Keep(r, set) \in Seq(S \cap set) /\ Keep(r, set) \in Seq(S)}
<1>1. <<>> \in P
  BY KeepNone, EmptySeq
<1>2. ASSUME NEW r \in Seq(S), NEW x \in S, r \in P PROVE Append(r, x) \in P
  <2>1. Append(r, x) \in Seq(S)
    BY AppendProperties
  <2>2. CASE x \in set
    <3>1. Keep(Append(r, x), set) = Append(Keep(r, set), x) /\ x \in S \cap set
      BY <2>2, KeepOneMore
    <3>2. Keep(r, set) \in Seq(S \cap set) /\ Keep(r, set) \in Seq(S)
      BY <1>2
    <3>3. Append(Keep(r, set), x) \in Seq(S \cap set)
      BY <3>1, <3>2, AppendProperties
    <3>4. Append(Keep(r, set), x) \in Seq(S)
      BY <3>2, AppendProperties
    <3> QED
      BY <2>1, <3>1, <3>3, <3>4, Zenon
  <2>3. CASE x \notin set
    <3>1. Keep(Append(r, x), set) = Keep(r, set)
      BY <2>3, KeepOneMore
    <3> QED
      BY <1>2, <2>1, <3>1
  <2> QED
    BY <2>2, <2>3
<1> HIDE DEF P
<1>3. Seq(S) \subseteq P
  BY <1>1, <1>2, SeqInduction
<1> QED
  BY <1>3 DEF P

(* Two sequences in which the kept elements are the same.                  *)
LEMMA KeepSame ==
  ASSUME NEW S, NEW set, NEW T, NEW s \in Seq(S), NEW t \in Seq(S), Len(s) = Len(t),
         \A i \in 1 .. Len(s) : (s[i] \in set <=> t[i] \in T) /\ (s[i] \in set => s[i] = t[i])
  PROVE  Keep(s, set) = Keep(t, T)
<1>1. Len(s) \in Nat
  BY LenProperties
<1>2. PICK f : KeptUpTo(f, s, set, Len(s)) /\ Keep(s, set) = f[Len(s)]
  BY <1>1, KeepIs
<1>3. PICK g : KeptUpTo(g, t, T, Len(t)) /\ Keep(t, T) = g[Len(t)]
  BY <1>1, KeepIs
<1> DEFINE U == {n \in Nat : n <= Len(s) => g[n] = f[n]}
<1>4. 0 \in U
  BY <1>2, <1>3 DEF KeptUpTo
<1>5. ASSUME NEW n \in Nat, n \in U PROVE n + 1 \in U
  <2> SUFFICES ASSUME n + 1 <= Len(s) PROVE g[n + 1] = f[n + 1]
    OBVIOUS
  <2>1. n + 1 \in 1 .. Len(s) /\ n + 1 \in 1 .. Len(t) /\ (n + 1) - 1 = n /\ g[n] = f[n]
    BY <1>1, <1>5
  <2>2. /\ f[n + 1] = IF s[n + 1] \in set THEN Append(f[n], s[n + 1]) ELSE f[n]
        /\ g[n + 1] = IF t[n + 1] \in T THEN Append(g[n], t[n + 1]) ELSE g[n]
    BY <1>2, <1>3, <2>1 DEF KeptUpTo
  <2> QED
    BY <2>1, <2>2
<1> HIDE DEF U
<1>6. Len(s) \in U
  BY <1>1, <1>4, <1>5, SetInduction
<1> QED
  BY <1>1, <1>2, <1>3, <1>6 DEF U

LEMMA KeepNothing ==
  ASSUME NEW S, NEW set, NEW s \in Seq(S), \A i \in 1 .. Len(s) : s[i] \notin set
  PROVE  Keep(s, set) = <<>>
<1> DEFINE P == {r \in Seq(S) : (\A i \in 1 .. Len(r) : r[i] \notin set) => Keep(r, set) = <<>>}
<1>1. <<>> \in P
  BY KeepNone, EmptySeq
<1>2. ASSUME NEW r \in Seq(S), NEW x \in S, r \in P PROVE Append(r, x) \in P
  <2>1. /\ Append(r, x) \in Seq(S) /\ Len(Append(r, x)) = Len(r) + 1 /\ Append(r, x)[Len(r) + 1] = x
        /\ \A i \in 1 .. Len(r) : Append(r, x)[i] = r[i]
    BY AppendProperties
  <2> SUFFICES ASSUME \A i \in 1 .. Len(Append(r, x)) : Append(r, x)[i] \notin set
               PROVE  Keep(Append(r, x), set) = <<>>
    BY <2>1
  <2>2. x \notin set /\ \A i \in 1 .. Len(r) : r[i] \notin set
    BY <2>1, LenProperties
  <2> QED
    BY <1>2, <2>2, KeepOneMore
<1> HIDE DEF P
<1>3. Seq(S) \subseteq P
  BY <1>1, <1>2, SeqInduction
<1> QED
  BY <1>3 DEF P

LEMMA KeepConcat ==
  ASSUME NEW S, NEW set, NEW s \in Seq(S), NEW t \in Seq(S)
  PROVE  Keep(s \o t, set) = Keep(s, set) \o Keep(t, set)
<1> DEFINE P == {r \in Seq(S) : Keep(s \o r, set) = Keep(s, set) \o Keep(r, set)}
<1>1. Keep(s, set) \in Seq(S)
  BY KeepTyped
<1>2. <<>> \in P
  BY <1>1, KeepNone, ConcatEmptySeq, EmptySeq
<1>3. ASSUME NEW r \in Seq(S), NEW x \in S, r \in P PROVE Append(r, x) \in P
  <2>1. Append(r, x) \in Seq(S) /\ s \o r \in Seq(S) /\ Keep(r, set) \in Seq(S)
    BY AppendProperties, ConcatProperties, KeepTyped
  <2>2. s \o Append(r, x) = Append(s \o r, x)
    BY <2>1
  <2>3. Keep(s, set) \o Append(Keep(r, set), x) = Append(Keep(s, set) \o Keep(r, set), x)
    BY <1>1, <2>1
  <2>4. Keep(Append(s \o r, x), set) = IF x \in set THEN Append(Keep(s \o r, set), x) ELSE Keep(s \o r, set)
    BY <2>1, KeepOneMore
  <2>5. Keep(Append(r, x), set) = IF x \in set THEN Append(Keep(r, set), x) ELSE Keep(r, set)
    BY KeepOneMore
  <2> QED
    BY <1>3, <2>1, <2>2, <2>3, <2>4, <2>5, Zenon
<1> HIDE DEF P
<1>4. Seq(S) \subseteq P
  BY <1>2, <1>3, SeqInduction
<1> QED
  BY <1>4 DEF P

LEMMA KeepKeep ==
  ASSUME NEW S, NEW set, NEW more, NEW s \in Seq(S)
  PROVE  Keep(Keep(s, set), more) = Keep(s, set \cap more)
<1> DEFINE P == {r \in Seq(S) : Keep(Keep(r, set), more) = Keep(r, set \cap more)}
<1>1. <<>> \in P
  BY KeepNone, EmptySeq
<1>2. ASSUME NEW r \in Seq(S), NEW x \in S, r \in P PROVE Append(r, x) \in P
  <2>1. Append(r, x) \in Seq(S) /\ Keep(r, set) \in Seq(S)
    BY AppendProperties, KeepTyped
  <2>2. Keep(Append(r, x), set) = IF x \in set THEN Append(Keep(r, set), x) ELSE Keep(r, set)
    BY KeepOneMore
  <2>3. Keep(Append(Keep(r, set), x), more) =
          IF x \in more THEN Append(Keep(Keep(r, set), more), x) ELSE Keep(Keep(r, set), more)
    BY <2>1, KeepOneMore
  <2>4. Keep(Append(r, x), set \cap more) =
          IF x \in set \cap more THEN Append(Keep(r, set \cap more), x) ELSE Keep(r, set \cap more)
    BY KeepOneMore
  <2>5. Keep(Keep(r, set), more) = Keep(r, set \cap more)
    BY <1>2
  <2>6. Keep(Keep(Append(r, x), set), more) = Keep(Append(r, x), set \cap more)
    <3>1. CASE x \in set /\ x \in more
      BY <2>2, <2>3, <2>4, <2>5, <3>1
    <3>2. CASE x \in set /\ x \notin more
      BY <2>2, <2>3, <2>4, <2>5, <3>2
    <3>3. CASE x \notin set
      BY <2>2, <2>4, <2>5, <3>3
    <3> QED
      BY <3>1, <3>2, <3>3
  <2> QED
    BY <2>1, <2>6
<1> HIDE DEF P
<1>3. Seq(S) \subseteq P
  BY <1>1, <1>2, SeqInduction
<1> QED
  BY <1>3 DEF P

Elements(s) == {s[i] : i \in 1 .. Len(s)}

(* The elements that Keep leaves are those of the sequence that are in set.*)
LEMMA KeepElements ==
  ASSUME NEW S, NEW set, NEW s \in Seq(S)
  PROVE  Elements(Keep(s, set)) = Elements(s) \cap set
<1> DEFINE R(r) == {r[i] : i \in 1 .. Len(r)}
           P == {r \in Seq(S) : R(Keep(r, set)) = R(r) \cap set}
<1>1. <<>> \in P
  BY KeepNone, EmptySeq
<1>2. ASSUME NEW r \in Seq(S), NEW x \in S PROVE R(Append(r, x)) = R(r) \cup {x}
  <2>1. /\ Len(Append(r, x)) = Len(r) + 1 /\ Append(r, x)[Len(r) + 1] = x /\ Len(r) \in Nat
        /\ \A i \in 1 .. Len(r) : Append(r, x)[i] = r[i]
    BY AppendProperties, LenProperties
  <2> DEFINE t == Append(r, x)
  <2> HIDE DEF t
  <2>2. /\ Len(t) = Len(r) + 1 /\ t[Len(r) + 1] = x /\ Len(r) \in Nat
        /\ \A i \in 1 .. Len(r) : t[i] = r[i]
    BY <2>1 DEF t
  <2>3. 1 .. Len(t) = (1 .. Len(r)) \cup {Len(r) + 1}
    BY <2>2
  <2>4. R(t) = R(r) \cup {x}
    BY <2>2, <2>3
  <2> QED
    BY <2>4 DEF t
<1>3. ASSUME NEW r \in Seq(S), NEW x \in S, r \in P PROVE Append(r, x) \in P
  <2>1. Append(r, x) \in Seq(S) /\ Keep(r, set) \in Seq(S)
    BY AppendProperties, KeepTyped
  <2>2. Keep(Append(r, x), set) = IF x \in set THEN Append(Keep(r, set), x) ELSE Keep(r, set)
    BY KeepOneMore
  <2>3. R(Append(r, x)) = R(r) \cup {x} /\ R(Append(Keep(r, set), x)) = R(Keep(r, set)) \cup {x}
    BY <1>2, <2>1
  <2>4. R(Keep(r, set)) = R(r) \cap set
    BY <1>3
  <2> HIDE DEF R
  <2>5. R(Keep(Append(r, x), set)) = R(Append(r, x)) \cap set
    <3>1. CASE x \in set
      BY <2>2, <2>3, <2>4, <3>1
    <3>2. CASE x \notin set
      BY <2>2, <2>3, <2>4, <3>2
    <3> QED
      BY <3>1, <3>2
  <2> QED
    BY <2>1, <2>5
<1> HIDE DEF P
<1>4. Seq(S) \subseteq P
  BY <1>1, <1>3, SeqInduction
<1> QED
  BY <1>4 DEF P, Elements

LEMMA MaxIs ==
  ASSUME NEW S, S \subseteq Nat, NEW m \in S, \A y \in S : y <= m
  PROVE  Max(S) = m
<1>1. \E x \in S : \A y \in S : x >= y
  OBVIOUS
<1>2. Max(S) \in S /\ \A y \in S : Max(S) >= y
  BY <1>1, Zenon DEF Max
<1>3. Max(S) <= m /\ Max(S) >= m /\ Max(S) \in Nat /\ m \in Nat
  BY <1>2
<1> HIDE DEF Max
<1> QED
  BY <1>3

(* The last element that Keep leaves is the last that is in set.           *)
Places(s, set) == {i \in DOMAIN s : s[i] \in set}
LEMMA KeepLast ==
  ASSUME NEW S, NEW set, NEW s \in Seq(S)
  PROVE  /\ Keep(s, set) = <<>> <=> Places(s, set) = {}
         /\ Places(s, set) # {} =>
              /\ Max(Places(s, set)) \in Places(s, set)
              /\ Keep(s, set)[Len(Keep(s, set))] = s[Max(Places(s, set))]
<1> DEFINE Q(r) == /\ Keep(r, set) = <<>> <=> Places(r, set) = {}
                   /\ Places(r, set) # {} =>
                        /\ Max(Places(r, set)) \in Places(r, set)
                        /\ Keep(r, set)[Len(Keep(r, set))] = r[Max(Places(r, set))]
           P == {r \in Seq(S) : Q(r)}
<1>1. <<>> \in P
  <2>1. Places(<<>>, set) = {}
    BY DEF Places
  <2> QED
    BY <2>1, KeepNone, EmptySeq
<1>2. ASSUME NEW r \in Seq(S), NEW x \in S, r \in P PROVE Append(r, x) \in P
  <2> DEFINE t == Append(r, x)
  <2>1. /\ t \in Seq(S) /\ Len(t) = Len(r) + 1 /\ t[Len(r) + 1] = x /\ Len(r) \in Nat
        /\ DOMAIN t = 1 .. Len(r) + 1 /\ DOMAIN r = 1 .. Len(r)
        /\ \A i \in 1 .. Len(r) : t[i] = r[i]
    BY AppendProperties, LenProperties
  <2>2. Keep(t, set) = IF x \in set THEN Append(Keep(r, set), x) ELSE Keep(r, set)
    BY KeepOneMore
  <2>3. Keep(r, set) \in Seq(S)
    BY KeepTyped
  <2> HIDE DEF t
  <2>4. ASSUME x \in set PROVE t \in P
    <3>1. Len(t) \in Places(t, set) /\ Places(t, set) \subseteq Nat /\ \A i \in Places(t, set) : i <= Len(t)
      BY <2>1, <2>4 DEF Places
    <3>2. Max(Places(t, set)) = Len(t)
      BY <3>1, MaxIs
    <3>3. Keep(t, set) # <<>> /\ Keep(t, set)[Len(Keep(t, set))] = x
      BY <2>2, <2>3, <2>4, AppendProperties
    <3>4. Q(t)
      BY <2>1, <3>1, <3>2, <3>3
    <3> QED
      BY <2>1, <3>4
  <2>5. ASSUME x \notin set PROVE t \in P
    <3>1. Places(t, set) = Places(r, set)
      BY <2>1, <2>5 DEF Places
    <3>2. Q(r) /\ Keep(t, set) = Keep(r, set)
      BY <1>2, <2>2, <2>5
    <3>3. Places(r, set) # {} => t[Max(Places(r, set))] = r[Max(Places(r, set))]
      BY <2>1, <3>2 DEF Places
    <3>4. Q(t)
      BY <2>1, <3>1, <3>2, <3>3
    <3> QED
      BY <2>1, <3>4
  <2> QED
    BY <2>4, <2>5 DEF t
<1> HIDE DEF P
<1>3. Seq(S) \subseteq P
  BY <1>1, <1>2, SeqInduction
<1> QED
  BY <1>3 DEF P

-----------------------------------------------------------------------------
(***************************************************************************)
(* What a changed text says.                                               *)
(***************************************************************************)
Counting(key) == {line \in Lines : line.key = key /\ (key = "message" \/ Accepted(line))}
Said(kept) ==
    IF kept # <<>> /\ Accepted(kept[Len(kept)]) THEN kept[Len(kept)].value ELSE Default

(* What is read of a key is what the last of its lines that count says.    *)
LEMMA ParsedIs ==
  ASSUME NEW text \in Seq(Lines), NEW key \in KnownKeys
  PROVE  Parsed(text)[key] = Said(Keep(text, Counting(key)))
<1> DEFINE C == Places(text, Counting(key))
           counts == IF key = "message" THEN At(text, key) ELSE {i \in At(text, key) : Accepted(text[i])}
<1>1. \A i \in DOMAIN text : text[i] \in Lines
  BY LenProperties
<1>2. counts = C
  <2>1. CASE key = "message"
    BY <1>1, <2>1 DEF At, Places, Counting
  <2>2. CASE key # "message"
    BY <1>1, <2>2 DEF At, Places, Counting
  <2> QED
    BY <2>1, <2>2
<1>3. Parsed(text)[key] = IF counts # {} /\ Accepted(text[Max(counts)]) THEN text[Max(counts)].value ELSE Default
  BY DEF Parsed
<1> HIDE DEF counts, C
<1>4. /\ Keep(text, Counting(key)) = <<>> <=> C = {}
      /\ C # {} => Keep(text, Counting(key))[Len(Keep(text, Counting(key)))] = text[Max(C)]
  BY KeepLast DEF C
<1> QED
  BY <1>2, <1>3, <1>4 DEF Said

LEMMA ParsedTyped == ASSUME NEW text PROVE Parsed(text) \in [KnownKeys -> Values \cup {Default}]
<1>1. ASSUME NEW line, Accepted(line) PROVE line.value \in Values
  BY <1>1, TickerConfigAssumption DEF Accepted
<1> QED
  BY <1>1 DEF Parsed

AnyLines == [key : KnownKeys \cup {Comment}, value : Values \cup {Missing}, note : Notes]
OtherLines(u) == {line \in Lines : line.key \notin DOMAIN u}

LEMMA UpdateTyped ==
  ASSUME NEW u \in Updates
  PROVE  DOMAIN u \subseteq KnownKeys /\ \A key \in DOMAIN u : u[key] \in Values \cup {Missing}
<1>1. PICK ks \in SUBSET PageKeys : u \in [ks -> Values \cup {Missing}]
  BY DEF Updates
<1>2. DOMAIN u = ks
  BY <1>1
<1> QED
  BY <1>1, <1>2, TickerConfigAssumption

LEMMA SeqOfFunction ==
  ASSUME NEW S, NEW n \in Nat, NEW f \in [1 .. n -> S]
  PROVE  f \in Seq(S) /\ Len(f) = n
OBVIOUS

LEMMA AddedIs ==
  ASSUME NEW text \in Seq(Lines), NEW u \in Updates
  PROVE  /\ Added(text, u) \in Seq(AnyLines)
         /\ \A i \in 1 .. Len(Added(text, u)) :
               /\ Added(text, u)[i].key \in DOMAIN u
               /\ Added(text, u)[i].value = u[Added(text, u)[i].key]
         /\ \A key \in DOMAIN u :
               At(text, key) = {} => \E i \in 1 .. Len(Added(text, u)) : Added(text, u)[i].key = key
<1> DEFINE absent == {key \in DOMAIN u : At(text, key) = {}}
           keys == Keep(Keys, absent)
           add == Added(text, u)
<1>1. Keys \in Seq(KnownKeys) /\ "" \in Notes
  BY TickerConfigAssumption
<1>2. keys \in Seq(KnownKeys \cap absent)
  BY <1>1, KeepTyped
<1>3. Elements(keys) = Elements(Keys) \cap absent
  BY <1>1, KeepElements
<1>4. KnownKeys = Elements(Keys)
  BY <1>1, LenProperties DEF KnownKeys, Elements
<1>5. add = [i \in DOMAIN keys |-> [key |-> keys[i], value |-> u[keys[i]], note |-> ""]]
  BY DEF Added
<1> HIDE DEF keys
<1>6. DOMAIN keys = 1 .. Len(keys) /\ Len(keys) \in Nat /\ \A i \in 1 .. Len(keys) : keys[i] \in KnownKeys \cap absent
  BY <1>2, LenProperties
<1> HIDE DEF add
<1>7. add \in [1 .. Len(keys) -> AnyLines]
  <2>1. ASSUME NEW i \in 1 .. Len(keys)
        PROVE  [key |-> keys[i], value |-> u[keys[i]], note |-> ""] \in AnyLines
    BY <1>1, <1>6, UpdateTyped DEF AnyLines
  <2> QED
    BY <1>5, <1>6, <2>1
<1>8. add \in Seq(AnyLines) /\ Len(add) = Len(keys)
  BY <1>6, <1>7, SeqOfFunction
<1>9. \A i \in 1 .. Len(add) : add[i].key = keys[i] /\ add[i].value = u[keys[i]]
  BY <1>5, <1>6, <1>8
<1>10. \A i \in 1 .. Len(add) : add[i].key \in DOMAIN u
  BY <1>6, <1>8, <1>9
<1>11. ASSUME NEW key \in DOMAIN u, At(text, key) = {}
       PROVE  \E i \in 1 .. Len(add) : add[i].key = key
  <2>1. key \in Elements(keys)
    BY <1>3, <1>4, <1>11, UpdateTyped
  <2> QED
    BY <1>8, <1>9, <2>1 DEF Elements
<1> QED
  BY <1>8, <1>9, <1>10, <1>11 DEF add

Changed(text, u) ==
    [i \in DOMAIN text |->
       IF i \in Hits(text, u) THEN [text[i] EXCEPT !.value = u[text[i].key]] ELSE text[i]]

LEMMA ChangedIs ==
  ASSUME NEW text \in Seq(Lines), NEW u \in Updates
  PROVE  /\ Changed(text, u) \in Seq(AnyLines) /\ Len(Changed(text, u)) = Len(text)
         /\ \A i \in 1 .. Len(text) :
               IF text[i].key \in DOMAIN u
               THEN /\ Changed(text, u)[i].key = text[i].key
                    /\ Changed(text, u)[i].value = u[text[i].key]
               ELSE Changed(text, u)[i] = text[i]
<1> DEFINE c == Changed(text, u)
<1>1. DOMAIN text = 1 .. Len(text) /\ Len(text) \in Nat /\ \A i \in 1 .. Len(text) : text[i] \in Lines
  BY LenProperties
<1>2. DOMAIN c = 1 .. Len(text) /\ c = [i \in 1 .. Len(text) |-> c[i]]
  BY <1>1 DEF Changed
<1>3. ASSUME NEW i \in 1 .. Len(text)
      PROVE  c[i] = IF text[i].key \in DOMAIN u THEN [text[i] EXCEPT !.value = u[text[i].key]] ELSE text[i]
  BY <1>1 DEF Changed, Hits
<1> HIDE DEF c
<1>4. ASSUME NEW i \in 1 .. Len(text)
      PROVE  /\ c[i] \in AnyLines
             /\ IF text[i].key \in DOMAIN u
                THEN c[i].key = text[i].key /\ c[i].value = u[text[i].key]
                ELSE c[i] = text[i]
  <2>1. CASE text[i].key \in DOMAIN u
    <3>1. u[text[i].key] \in Values \cup {Missing}
      BY <2>1, UpdateTyped
    <3>2. text[i] \in Lines /\ c[i] = [text[i] EXCEPT !.value = u[text[i].key]]
      BY <1>1, <1>3, <2>1
    <3> QED
      BY <2>1, <3>1, <3>2 DEF Lines, AnyLines
  <2>2. CASE text[i].key \notin DOMAIN u
    BY <1>1, <1>3, <2>2 DEF Lines, AnyLines
  <2> QED
    BY <2>1, <2>2
<1>5. c \in [1 .. Len(text) -> AnyLines]
  BY <1>2, <1>4
<1>6. c \in Seq(AnyLines) /\ Len(c) = Len(text)
  BY <1>1, <1>5, SeqOfFunction
<1> QED
  BY <1>4, <1>6 DEF c

(* A changed text is a text; its lines of other keys are those of before,  *)
(* in their order; and of the keys that were to change it says what was    *)
(* asked, whatever their lines were and however many.                      *)
THEOREM RewriteSaysWhatWasAsked ==
  ASSUME NEW text \in Seq(Lines), NEW u \in Updates, ValidUpdate(u)
  PROVE  /\ Rewrite(text, u) \in Seq(Lines)
         /\ Keep(Rewrite(text, u), OtherLines(u)) = Keep(text, OtherLines(u))
         /\ \A key \in DOMAIN u :
               Parsed(Rewrite(text, u))[key] = IF u[key] = Missing THEN Default ELSE u[key]
         /\ \A key \in KnownKeys \ DOMAIN u : Parsed(Rewrite(text, u))[key] = Parsed(text)[key]
<1> DEFINE c == Changed(text, u)
           add == Added(text, u)
           all == c \o add
           result == Rewrite(text, u)
           O == OtherLines(u)
<1>1. result = Keep(all, Lines)
  BY DEF Rewrite, Changed
<1>2. c \in Seq(AnyLines) /\ add \in Seq(AnyLines)
  BY ChangedIs, AddedIs
<1>3. all \in Seq(AnyLines)
  BY <1>2, ConcatProperties
<1>4. result \in Seq(Lines)
  <2>1. result \in Seq(AnyLines \cap Lines)
    BY <1>1, <1>3, KeepTyped
  <2> QED
    BY <2>1, SeqMonotonic
<1>5. Keep(result, O) = Keep(text, O)
  <2>1. Keep(result, O) = Keep(all, Lines \cap O)
    <3> HIDE DEF result, all, O
    <3> QED
      BY <1>1, <1>3, KeepKeep
  <2>2. Lines \cap O = O
    BY DEF OtherLines
  <2>3. Keep(all, O) = Keep(c, O) \o Keep(add, O)
    BY <1>2, KeepConcat
  <2>4. Keep(add, O) = <<>>
    <3>1. \A i \in 1 .. Len(add) : add[i] \notin O
      BY AddedIs DEF OtherLines
    <3> QED
      BY <1>2, <3>1, KeepNothing
  <2>5. Keep(c, O) = Keep(text, O)
    <3>1. Len(c) = Len(text) /\ text \in Seq(AnyLines)
      <4>1. Lines \subseteq AnyLines
        BY DEF Lines, AnyLines
      <4> QED
        BY <4>1, ChangedIs, SeqMonotonic
    <3>2. ASSUME NEW i \in 1 .. Len(c)
          PROVE  (c[i] \in O <=> text[i] \in O) /\ (c[i] \in O => c[i] = text[i])
      <4>1. CASE text[i].key \in DOMAIN u
        <5>1. c[i].key \in DOMAIN u
          BY <3>1, <4>1, ChangedIs
        <5> QED
          BY <4>1, <5>1 DEF OtherLines
      <4>2. CASE text[i].key \notin DOMAIN u
        BY <3>1, <4>2, ChangedIs
      <4> QED
        BY <4>1, <4>2
    <3> QED
      BY <1>2, <3>1, <3>2, KeepSame
  <2>6. Keep(c, O) \in Seq(AnyLines)
    BY <1>2, KeepTyped
  <2> HIDE DEF result, all, c, add, O
  <2> QED
    BY <2>1, <2>2, <2>3, <2>4, <2>5, <2>6, ConcatEmptySeq
<1> HIDE DEF result, O
<1>6. ASSUME NEW key \in KnownKeys \ DOMAIN u PROVE Parsed(result)[key] = Parsed(text)[key]
  <2>1. O \cap Counting(key) = Counting(key)
    BY DEF O, OtherLines, Counting
  <2>2. Keep(result, Counting(key)) = Keep(Keep(result, O), Counting(key))
    BY <1>4, <2>1, KeepKeep
  <2>3. Keep(text, Counting(key)) = Keep(Keep(text, O), Counting(key))
    BY <2>1, KeepKeep
  <2> QED
    BY <1>4, <1>5, <2>2, <2>3, ParsedIs
<1>7. Elements(result) = Elements(all) \cap Lines
  <2> HIDE DEF all
  <2> QED
    BY <1>1, <1>3, KeepElements
<1>8. ASSUME NEW l \in Elements(all), l.key \in DOMAIN u PROVE l.value = u[l.key]
  <2>1. PICK i \in 1 .. Len(all) : l = all[i]
    BY <1>8 DEF Elements
  <2>2. Len(all) = Len(c) + Len(add) /\ Len(c) \in Nat /\ Len(add) \in Nat /\ Len(c) = Len(text)
        /\ all[i] = IF i <= Len(c) THEN c[i] ELSE add[i - Len(c)]
    BY <1>2, <2>1, ConcatProperties, LenProperties, ChangedIs
  <2> HIDE DEF all, c, add
  <2>3. CASE i <= Len(c)
    <3>1. i \in 1 .. Len(text) /\ l = c[i]
      BY <2>1, <2>2, <2>3
    <3> QED
      BY <1>8, <3>1, ChangedIs DEF c
  <2>4. CASE i > Len(c)
    <3>1. i - Len(c) \in 1 .. Len(add) /\ l = add[i - Len(c)]
      BY <2>1, <2>2, <2>4
    <3> QED
      BY <3>1, AddedIs DEF add
  <2> QED
    BY <2>2, <2>3, <2>4
<1>9. ASSUME NEW key \in DOMAIN u PROVE \E l \in Elements(all) : l.key = key /\ l \in AnyLines
  <2>1. /\ Len(all) = Len(c) + Len(add) /\ Len(c) \in Nat /\ Len(add) \in Nat /\ Len(c) = Len(text)
        /\ \A i \in 1 .. Len(c) + Len(add) : all[i] = IF i <= Len(c) THEN c[i] ELSE add[i - Len(c)]
        /\ DOMAIN text = 1 .. Len(text)
    BY <1>2, ConcatProperties, LenProperties, ChangedIs
  <2>2. \A i \in 1 .. Len(all) : all[i] \in AnyLines
    BY <1>3, LenProperties
  <2> HIDE DEF all, c, add
  <2>3. CASE At(text, key) # {}
    <3>1. PICK i \in 1 .. Len(text) : text[i].key = key
      BY <2>1, <2>3 DEF At
    <3>2. c[i].key = key
      BY <1>9, <3>1, ChangedIs DEF c
    <3>3. all[i] = c[i] /\ i \in 1 .. Len(all)
      BY <2>1
    <3> QED
      BY <2>2, <3>2, <3>3 DEF Elements
  <2>4. CASE At(text, key) = {}
    <3>1. PICK i \in 1 .. Len(add) : add[i].key = key
      BY <1>9, <2>4, AddedIs DEF add
    <3>2. all[Len(c) + i] = add[i] /\ Len(c) + i \in 1 .. Len(all)
      BY <2>1
    <3> QED
      BY <2>2, <3>1, <3>2 DEF Elements
  <2> QED
    BY <2>3, <2>4
<1> HIDE DEF all
<1>10. ASSUME NEW key \in DOMAIN u
       PROVE  Parsed(result)[key] = IF u[key] = Missing THEN Default ELSE u[key]
  <2> DEFINE k == Keep(result, Counting(key))
             K == Elements(k)
  <2>1. key \in KnownKeys /\ u[key] \in Values \cup {Missing} /\ Missing \notin Values
    BY UpdateTyped, TickerConfigAssumption
  <2>2. K = Elements(result) \cap Counting(key)
    BY <1>4, KeepElements
  <2>3. Parsed(result)[key] = Said(k)
    BY <1>4, <2>1, ParsedIs
  <2>4. k \in Seq(Lines) /\ Len(k) \in Nat
    BY <1>4, KeepTyped, LenProperties
  <2> HIDE DEF k
  <2>5. ASSUME NEW l \in K PROVE l.key = key /\ l.value = u[key] /\ l.value \in Values
    BY <1>7, <1>8, <2>2 DEF Counting, Lines
  <2>6. CASE u[key] = Missing
    <3>1. K = {}
      BY <2>1, <2>5, <2>6
    <3>2. k = <<>>
      BY <2>4, <3>1, EmptySeq DEF Elements
    <3> QED
      BY <2>3, <2>6, <3>2 DEF Said
  <2>7. CASE u[key] # Missing
    <3>1. <<key, u[key]>> \in Valid
      BY <2>7 DEF ValidUpdate
    <3>2. PICK l \in Elements(all) : l.key = key /\ l \in AnyLines
      BY <1>9
    <3>3. l.value = u[key] /\ l \in Lines
      BY <1>8, <2>1, <2>7, <3>2 DEF AnyLines, Lines
    <3>4. l \in K
      BY <1>7, <2>2, <3>1, <3>2, <3>3 DEF Counting, Accepted
    <3>5. Len(k) \in 1 .. Len(k) /\ k # <<>>
      BY <2>4, <3>4 DEF Elements
    <3>6. k[Len(k)].key = key /\ k[Len(k)].value = u[key]
      BY <2>5, <3>5 DEF Elements
    <3> QED
      BY <2>3, <2>7, <3>1, <3>5, <3>6 DEF Said, Accepted
  <2> QED
    BY <2>6, <2>7
<1> QED
  BY <1>4, <1>5, <1>6, <1>10 DEF result, O

-----------------------------------------------------------------------------
(***************************************************************************)
(* The invariant: what each step of save_ticker_txt can rely on.           *)
(***************************************************************************)
Start == IF old = Missing THEN Header ELSE old
Asked == update \in Updates /\ ValidUpdate(update)
Made == Asked /\ new = Rewrite(Start, update)

Writing == {"write NEW", "check NEW", "write BAK", "check BAK", "write TXT", "check TXT", "delete"}
Resting == {"idle", "off"}

Working ==
    /\ pc \in Writing => Made /\ Units(new) <= CONFIG_MAX /\ answer = "none"
    /\ pc = "read" => Asked /\ answer = "none"

(* Which file holds a whole text while another one is written.             *)
InOrder ==
    /\ pc \in {"write NEW", "check NEW"} => file["TXT"] = before
    /\ pc \in {"write BAK", "check BAK"} =>
          old # Missing /\ file["TXT"] = before /\ file["NEW"] = new
    /\ pc \in {"write TXT", "check TXT"} => file["NEW"] = new
    /\ pc = "delete" => file["TXT"] = new

Told ==
    /\ answer = "left in NEW" => pc \in Resting /\ file["NEW"] = new
    /\ answer = "ok" => pc \in Resting /\ Made /\ config = Parsed(new)

KeptPromise == ~Blank(promised) => file["TXT"] = promised /\ Units(promised) <= CONFIG_MAX

TextInv == TypeOK /\ Working /\ InOrder /\ Told /\ OneComplete /\ KeptPromise

-----------------------------------------------------------------------------
(* The facts the steps below share.                                        *)

LEMMA NamesOfSteps ==
  /\ WritePc("NEW") = "write NEW" /\ WritePc("BAK") = "write BAK" /\ WritePc("TXT") = "write TXT"
  /\ ReadbackPc("NEW") = "check NEW" /\ ReadbackPc("BAK") = "check BAK" /\ ReadbackPc("TXT") = "check TXT"
<1>1. WritePc("NEW") = "write NEW"
  BY Zenon DEF WritePc
<1>2. WritePc("BAK") = "write BAK"
  BY Zenon DEF WritePc
<1>3. WritePc("TXT") = "write TXT"
  BY Zenon DEF WritePc
<1>4. ReadbackPc("NEW") = "check NEW"
  BY Zenon DEF ReadbackPc
<1>5. ReadbackPc("BAK") = "check BAK"
  BY Zenon DEF ReadbackPc
<1>6. ReadbackPc("TXT") = "check TXT"
  BY Zenon DEF ReadbackPc
<1> QED
  BY <1>1, <1>2, <1>3, <1>4, <1>5, <1>6

LEMMA NextSteps ==
  /\ AfterFile("NEW") = IF old = Missing THEN "write TXT" ELSE "write BAK"
  /\ AfterFile("BAK") = "write TXT" /\ AfterFile("TXT") = "delete"
<1>1. AfterFile("NEW") = IF old = Missing THEN "write TXT" ELSE "write BAK"
  BY Zenon DEF AfterFile
<1>2. AfterFile("BAK") = "write TXT"
  BY Zenon DEF AfterFile
<1>3. AfterFile("TXT") = "delete"
  BY Zenon DEF AfterFile
<1> QED
  BY <1>1, <1>2, <1>3

LEMMA AllSteps == PCs = {"off", "idle", "read"} \cup Writing
<1>1. \A f : f \in Files <=> f = "TXT" \/ f = "NEW" \/ f = "BAK"
  BY DEF Files
<1> QED
  BY <1>1, NamesOfSteps DEF PCs, Writing

LEMMA HeaderIsText == IsText(Header)
<1>1. HeaderValue \in Values
  BY TickerConfigAssumption, Zenon DEF HeaderValue
<1>2. [key |-> Comment, value |-> HeaderValue, note |-> ""] \in Lines
  BY <1>1, TickerConfigAssumption DEF Lines
<1>3. \A line \in Lines : <<line>> \in Seq(Lines)
  OBVIOUS
<1> QED
  BY <1>2, <1>3 DEF Header, IsText

LEMMA BeginIsText ==
  ASSUME NEW c, IsText(c)
  PROVE  \A b \in Begins(c) : IsText(b)
<1> SUFFICES ASSUME NEW n \in 0 .. Len(c) PROVE Begin(c, n) \in Seq(Lines)
  BY DEF Begins, IsText
<1>1. Len(c) \in Nat /\ c \in Seq(Lines)
  BY LenProperties DEF IsText
<1> QED
  BY <1>1 DEF Begin

(* What was said of rewrite, of the text the page starts from.             *)
LEMMA RewriteOf ==
  ASSUME NEW c, NEW u \in Updates, MaybeText(c), ValidUpdate(u)
  PROVE  LET start == IF c = Missing THEN Header ELSE c
         IN  IsText(start) /\ IsText(Rewrite(start, u))
<1> DEFINE start == IF c = Missing THEN Header ELSE c
<1>1. IsText(start)
  BY HeaderIsText DEF MaybeText
<1> HIDE DEF start
<1>2. IsText(Rewrite(start, u))
  BY <1>1, RewriteSaysWhatWasAsked DEF IsText
<1> QED
  BY <1>1, <1>2 DEF start

LEMMA MadeStays ==
  ASSUME UNCHANGED <<update, old, new>>
  PROVE  Made' = Made /\ Asked' = Asked /\ Parsed(new)' = Parsed(new)
<1>1. update' = update /\ old' = old /\ new' = new
  OBVIOUS
<1>2. Header' = Header
  BY DEF Header, HeaderValue
<1>3. Start' = Start
  BY <1>1, <1>2 DEF Start
<1>4. Asked' = Asked
  BY <1>1 DEF Asked
<1> QED
  BY <1>1, <1>3, <1>4 DEF Made

LEMMA FaultsStay ==
  ASSUME TextInv, faults' = faults \/ (\E k \in {"open", "read", "write", "bad", "cut"} : Fault(k))
  PROVE  faults' \in 0 .. MaxFaults
<1>1. faults' = faults \/ (faults < MaxFaults /\ faults' = faults + 1)
  BY DEF Fault
<1>2. faults \in 0 .. MaxFaults
  BY DEF TextInv, TypeOK
<1>3. MaxFaults \in Nat
  BY TickerTxtAssumption
<1> QED
  BY <1>1, <1>2, <1>3

LEMMA LoadedTyped == ASSUME NEW c PROVE Loaded(c) \in [KnownKeys -> Values \cup {Default}]
  BY ParsedTyped, Zenon DEF Loaded

LEMMA DataIsText == ASSUME TextInv, NEW f \in Files, pc = WritePc(f) PROVE IsText(Data(f))
<1>1. CASE f = "BAK"
  BY <1>1, NamesOfSteps DEF TextInv, TypeOK, InOrder, MaybeText, Data
<1>2. CASE f # "BAK"
  BY <1>2 DEF TextInv, TypeOK, Data
<1> QED
  BY <1>1, <1>2

-----------------------------------------------------------------------------
(* Each step keeps it.                                                     *)

LEMMA TextInit == Init => TextInv
<1> SUFFICES ASSUME Init PROVE TextInv
  OBVIOUS
<1>1. TypeOK
  <2>1. DOMAIN file = Files /\ \A f \in Files : MaybeText(file[f])
    BY TickerTxtAssumption DEF Init, MaybeText
  <2>2. IsText(<<>>)
    BY DEF IsText
  <2>3. config \in [KnownKeys -> Values \cup {Default}]
    BY ParsedTyped DEF Init
  <2> QED
    BY <2>1, <2>2, <2>3, AllSteps, TickerTxtAssumption DEF Init, TypeOK, MaybeText
<1>2. Working /\ InOrder /\ Told /\ OneComplete /\ KeptPromise
  BY DEF Init, Working, InOrder, Told, OneComplete, KeptPromise, Writing, Blank
<1> QED
  BY <1>1, <1>2 DEF TextInv

LEMMA BootKeeps == ASSUME TextInv, Boot PROVE TextInv'
<1>1. /\ pc = "off" /\ pc' = "idle" /\ answer' = "none"
      /\ UNCHANGED <<file, update, old, new, before, promised>>
  BY DEF Boot, buffers, history
<1>2. config' \in [KnownKeys -> Values \cup {Default}]
  BY LoadedTyped, ParsedTyped DEF Boot
<1>3. faults' \in 0 .. MaxFaults
  BY FaultsStay DEF Boot
<1>4. TypeOK'
  BY <1>1, <1>2, <1>3, AllSteps DEF TextInv, TypeOK, MaybeText, IsText
<1>5. (Working /\ InOrder /\ Told /\ OneComplete /\ KeptPromise)'
  BY <1>1 DEF TextInv, Working, InOrder, Told, OneComplete, KeptPromise, Writing
<1> QED
  BY <1>4, <1>5 DEF TextInv

LEMMA RequestKeeps == ASSUME TextInv, NEW u \in Updates, Request(u) PROVE TextInv'
<1>1. pc = "idle" /\ UNCHANGED <<file, old, new, config, faults, before, promised>>
  BY DEF Request, history
<1>2. \/ ValidUpdate(u) /\ pc' = "read" /\ answer' = "none" /\ update' = u
      \/ pc' = "idle" /\ answer' = "error" /\ update' = update
  BY DEF Request, Answer
<1>3. TypeOK'
  BY <1>1, <1>2, AllSteps DEF TextInv, TypeOK, MaybeText, IsText
<1>4. Working'
  BY <1>1, <1>2 DEF Working, Writing, Asked
<1>5. (InOrder /\ Told /\ OneComplete /\ KeptPromise)'
  BY <1>1, <1>2 DEF TextInv, InOrder, Told, OneComplete, KeptPromise
<1> QED
  BY <1>3, <1>4, <1>5 DEF TextInv

LEMMA ReadKeeps == ASSUME TextInv, ReadOld PROVE TextInv'
<1>1. /\ pc = "read" /\ Asked /\ answer = "none"
      /\ before' = file["TXT"] /\ UNCHANGED <<file, update, config, promised>>
  BY DEF ReadOld, TextInv, Working
<1>2. MaybeText(old') /\ MaybeText(file["TXT"]) /\ "TXT" \in Files
  BY DEF ReadOld, TextInv, TypeOK, Files, MaybeText
<1>3. faults' \in 0 .. MaxFaults
  BY FaultsStay DEF ReadOld
<1>4. \/ pc' = "idle" /\ answer' = "error" /\ new' = new
      \/ /\ pc' = "write NEW" /\ answer' = "none"
         /\ new' = Rewrite(Start', update) /\ Units(new') <= CONFIG_MAX
  <2>1. CASE Fault("read") /\ Answer("error") /\ UNCHANGED <<old, new>>
    BY <2>1 DEF Answer
  <2>2. CASE LET text == Rewrite(IF old' = Missing THEN Header ELSE old', update)
             IN  IF ~TooLong(old') /\ Units(text) <= CONFIG_MAX
                 THEN new' = text /\ pc' = "write NEW" /\ UNCHANGED answer
                 ELSE Answer("error") /\ UNCHANGED new
    <3> DEFINE text == Rewrite(Start', update)
    <3>1. IF ~TooLong(old') /\ Units(text) <= CONFIG_MAX
          THEN new' = text /\ pc' = "write NEW" /\ UNCHANGED answer
          ELSE Answer("error") /\ UNCHANGED new
      BY <2>2, Zenon DEF Start, Header, HeaderValue
    <3> HIDE DEF text
    <3>2. CASE ~TooLong(old') /\ Units(text) <= CONFIG_MAX
      <4>1. new' = text /\ pc' = "write NEW" /\ answer' = "none"
        BY <1>1, <3>1, <3>2
      <4> QED
        BY <3>2, <4>1 DEF text
    <3>3. CASE ~(~TooLong(old') /\ Units(text) <= CONFIG_MAX)
      BY <3>1, <3>3 DEF Answer
    <3> QED
      BY <3>2, <3>3
  <2> QED
    BY <2>1, <2>2, Zenon DEF ReadOld
<1>5. IsText(new')
  <2>1. update \in Updates /\ ValidUpdate(update)
    BY <1>1 DEF Asked
  <2>2. Start' = IF old' = Missing THEN Header ELSE old'
    BY DEF Start, Header, HeaderValue
  <2>3. IsText(Rewrite(Start', update))
    BY <1>2, <2>1, <2>2, RewriteOf
  <2>4. IsText(new)
    BY DEF TextInv, TypeOK
  <2> QED
    BY <1>4, <2>3, <2>4 DEF IsText
<1>6. TypeOK'
  BY <1>1, <1>2, <1>3, <1>4, <1>5, AllSteps DEF TextInv, TypeOK, MaybeText, IsText, Writing
<1>7. Working'
  BY <1>1, <1>4 DEF Working, Writing, Made, Asked, ValidUpdate
<1>8. (InOrder /\ Told /\ OneComplete /\ KeptPromise)'
  BY <1>1, <1>2, <1>4 DEF TextInv, InOrder, Told, OneComplete, KeptPromise
<1> QED
  BY <1>6, <1>7, <1>8 DEF TextInv

(* A write that ends, well or badly, and one that fails on the way.        *)
LEMMA WriteKeeps == ASSUME TextInv, NEW f \in Files, Write(f) PROVE TextInv'
<1>1. PICK c \in {file[f], Data(f)} \cup Begins(Data(f)) :
         /\ file' = [file EXCEPT ![f] = c]
         /\ \/ pc' = ReadbackPc(f) /\ answer' = answer
            \/ pc' = "idle" /\ answer' = (IF f = "TXT" THEN "left in NEW" ELSE "error")
  BY DEF Write, Fails, Answer
<1>2. /\ pc = WritePc(f) /\ promised' = (IF f = "TXT" THEN Missing ELSE promised)
      /\ UNCHANGED <<update, old, new, config, before>>
  BY DEF Write, GivenUp, buffers
<1>3. MaybeText(c) /\ DOMAIN file = Files
  BY <1>2, DataIsText, BeginIsText DEF TextInv, TypeOK, MaybeText
<1>4. DOMAIN file' = Files /\ \A g \in Files : file'[g] = IF g = f THEN c ELSE file[g]
  BY <1>1, <1>3
<1>5. faults' \in 0 .. MaxFaults
  BY FaultsStay DEF Write
<1>6. f = "TXT" \/ f = "NEW" \/ f = "BAK"
  BY DEF Files
<1>7. pc \in Writing /\ answer = "none" /\ Made /\ Units(new) <= CONFIG_MAX
  BY <1>2, <1>6, NamesOfSteps DEF TextInv, Working, Writing
<1>8. TypeOK'
  <2>1. pc' \in PCs
    BY <1>1, <1>6, AllSteps, NamesOfSteps DEF Writing
  <2>2. \A g \in Files : MaybeText(file'[g])
    BY <1>3, <1>4 DEF TextInv, TypeOK
  <2>3. MaybeText(promised')
    BY <1>2 DEF TextInv, TypeOK, MaybeText
  <2> QED
    BY <1>1, <1>2, <1>4, <1>5, <1>7, <2>1, <2>2, <2>3 DEF TextInv, TypeOK, MaybeText, IsText
<1>9. Working'
  BY <1>1, <1>2, <1>6, <1>7, MadeStays, NamesOfSteps DEF Working, Writing
<1>10. (InOrder /\ Told /\ OneComplete /\ KeptPromise)'
  <2>1. CASE f = "TXT"
    <3>1. pc = "write TXT" /\ file["NEW"] = new /\ file'["NEW"] = new /\ "NEW" \in Files
      BY <1>2, <1>4, <2>1, NamesOfSteps DEF TextInv, InOrder, Files
    <3>2. \/ pc' = "check TXT" /\ answer' = "none"
          \/ pc' = "idle" /\ answer' = "left in NEW"
      BY <1>1, <1>7, <2>1, NamesOfSteps
    <3> QED
      BY <1>2, <2>1, <3>1, <3>2 DEF InOrder, Told, OneComplete, KeptPromise, Blank, Resting
  <2>2. CASE f = "NEW"
    <3>1. pc = "write NEW" /\ file["TXT"] = before /\ file'["TXT"] = file["TXT"] /\ "TXT" \in Files
      BY <1>2, <1>4, <2>2, NamesOfSteps DEF TextInv, InOrder, Files
    <3>2. \/ pc' = "check NEW" /\ answer' = "none"
          \/ pc' = "idle" /\ answer' = "error"
      BY <1>1, <1>7, <2>2, NamesOfSteps
    <3> QED
      BY <1>2, <2>2, <3>1, <3>2 DEF TextInv, InOrder, Told, OneComplete, KeptPromise, Blank
  <2>3. CASE f = "BAK"
    <3>1. /\ pc = "write BAK" /\ old # Missing /\ file["TXT"] = before /\ file["NEW"] = new
          /\ file'["TXT"] = file["TXT"] /\ file'["NEW"] = file["NEW"] /\ "TXT" \in Files
      BY <1>2, <1>4, <2>3, NamesOfSteps DEF TextInv, InOrder, Files
    <3>2. \/ pc' = "check BAK" /\ answer' = "none"
          \/ pc' = "idle" /\ answer' = "error"
      BY <1>1, <1>7, <2>3, NamesOfSteps
    <3> QED
      BY <1>2, <2>3, <3>1, <3>2 DEF TextInv, InOrder, Told, OneComplete, KeptPromise, Blank
  <2> QED
    BY <1>6, <2>1, <2>2, <2>3
<1> QED
  BY <1>8, <1>9, <1>10 DEF TextInv

LEMMA ReadbackKeeps == ASSUME TextInv, NEW f \in Files, Readback(f) PROVE TextInv'
<1>1. /\ pc = ReadbackPc(f)
      /\ UNCHANGED <<file, update, old, new, config, before, promised>>
      /\ \/ file[f] = Data(f) /\ pc' = AfterFile(f) /\ answer' = answer
         \/ pc' = "idle" /\ answer' = (IF f = "TXT" THEN "left in NEW" ELSE "error")
  BY DEF Readback, Fails, Answer, Written, buffers, history
<1>2. faults' \in 0 .. MaxFaults
  BY FaultsStay DEF Readback
<1>3. f = "TXT" \/ f = "NEW" \/ f = "BAK"
  BY DEF Files
<1>4. pc \in Writing /\ answer = "none" /\ Made /\ Units(new) <= CONFIG_MAX
  BY <1>1, <1>3, NamesOfSteps DEF TextInv, Working, Writing
<1>5. TypeOK'
  <2>1. pc' \in PCs
    BY <1>1, <1>3, AllSteps, NextSteps DEF Writing
  <2> QED
    BY <1>1, <1>2, <1>4, <2>1 DEF TextInv, TypeOK, MaybeText, IsText
<1>6. Working'
  BY <1>1, <1>3, <1>4, MadeStays, NextSteps DEF Working, Writing
<1>7. (InOrder /\ Told)'
  <2>1. CASE f = "TXT"
    BY <1>1, <1>4, <2>1, NamesOfSteps, NextSteps DEF TextInv, InOrder, Told, Data, Resting
  <2>2. CASE f = "NEW"
    BY <1>1, <1>4, <2>2, NamesOfSteps, NextSteps DEF TextInv, InOrder, Told, Data
  <2>3. CASE f = "BAK"
    BY <1>1, <1>4, <2>3, NamesOfSteps, NextSteps DEF TextInv, InOrder, Told, Data
  <2> QED
    BY <1>3, <2>1, <2>2, <2>3
<1>8. (OneComplete /\ KeptPromise)'
  BY <1>1 DEF TextInv, OneComplete, KeptPromise
<1> QED
  BY <1>5, <1>6, <1>7, <1>8 DEF TextInv

LEMMA DeleteKeeps == ASSUME TextInv, DeleteAndApply PROVE TextInv'
<1>1. /\ pc = "delete" /\ pc' = "idle" /\ answer' = "ok" /\ config' = Parsed(new) /\ promised' = new
      /\ UNCHANGED <<update, old, new, before>>
      /\ file' = [file EXCEPT !["NEW"] = Missing] \/ file' = file
  BY DEF DeleteAndApply, Answer, buffers
<1>2. Made /\ Units(new) <= CONFIG_MAX /\ file["TXT"] = new /\ IsText(new)
  BY <1>1 DEF TextInv, TypeOK, Working, InOrder, Writing
<1>3. DOMAIN file' = Files /\ file'["TXT"] = new /\ "TXT" \in Files /\ \A g \in Files : MaybeText(file'[g])
  BY <1>1, <1>2 DEF TextInv, TypeOK, Files, MaybeText
<1>4. faults' \in 0 .. MaxFaults
  BY FaultsStay DEF DeleteAndApply
<1>5. config' \in [KnownKeys -> Values \cup {Default}]
  BY <1>1, ParsedTyped
<1>6. TypeOK'
  BY <1>1, <1>2, <1>3, <1>4, <1>5, AllSteps DEF TextInv, TypeOK, MaybeText, IsText
<1>7. Made' /\ Parsed(new') = Parsed(new)
  BY <1>1, <1>2, MadeStays
<1>8. (Working /\ InOrder /\ Told /\ OneComplete /\ KeptPromise)'
  BY <1>1, <1>2, <1>3, <1>7 DEF Working, InOrder, Told, OneComplete, KeptPromise, Writing, Resting
<1> QED
  BY <1>6, <1>8 DEF TextInv

LEMMA CutKeeps == ASSUME TextInv, PowerCut PROVE TextInv'
<1>1. /\ pc' = "off" /\ promised' = (IF pc = "write TXT" THEN Missing ELSE promised)
      /\ UNCHANGED <<update, old, new, config, answer, before>>
  BY DEF PowerCut, buffers
<1>2. \/ file' = file
      \/ \E f \in Files : \E c \in {<<>>, Data(f)} : pc = WritePc(f) /\ file' = [file EXCEPT ![f] = c]
  BY Zenon DEF PowerCut, CutLeaves
<1>3. faults' \in 0 .. MaxFaults
  BY FaultsStay DEF PowerCut
<1>4. pc' \in PCs /\ MaybeText(promised')
  BY <1>1, AllSteps DEF TextInv, TypeOK, MaybeText
<1>5. Working' /\ InOrder' /\ DOMAIN file = Files
  BY <1>1 DEF TextInv, TypeOK, Working, InOrder, Writing
<1>6. CASE file' = file
  <2>1. TypeOK'
    BY <1>1, <1>3, <1>4, <1>6 DEF TextInv, TypeOK, MaybeText, IsText
  <2>2. Told'
    BY <1>1, <1>6, MadeStays DEF TextInv, Told, Resting
  <2>3. (OneComplete /\ KeptPromise)'
    BY <1>1, <1>6 DEF TextInv, OneComplete, KeptPromise, Blank
  <2> QED
    BY <1>5, <2>1, <2>2, <2>3 DEF TextInv
<1>7. ASSUME NEW f \in Files, NEW c \in {<<>>, Data(f)}, pc = WritePc(f), file' = [file EXCEPT ![f] = c]
      PROVE  TextInv'
  <2>1. MaybeText(c)
    <3>1. IsText(Data(f)) /\ IsText(<<>>)
      BY <1>7, DataIsText DEF IsText
    <3> QED
      BY <1>7, <3>1 DEF MaybeText
  <2>2. DOMAIN file' = Files /\ \A g \in Files : file'[g] = IF g = f THEN c ELSE file[g]
    BY <1>5, <1>7
  <2>3. TypeOK'
    <3>1. \A g \in Files : MaybeText(file'[g])
      BY <2>1, <2>2 DEF TextInv, TypeOK
    <3> QED
      BY <1>1, <1>3, <1>4, <2>2, <3>1 DEF TextInv, TypeOK, MaybeText, IsText
  <2>4. f = "TXT" \/ f = "NEW" \/ f = "BAK"
    BY DEF Files
  <2>5. Told'
    <3>1. answer = "none"
      BY <1>7, <2>4, NamesOfSteps DEF TextInv, Working, Writing
    <3> QED
      BY <1>1, <3>1 DEF Told
  <2>6. (OneComplete /\ KeptPromise)'
    <3>1. CASE f = "TXT"
      <4>1. pc = "write TXT" /\ file'["NEW"] = new /\ "NEW" \in Files
        BY <1>7, <2>2, <3>1, NamesOfSteps DEF TextInv, InOrder, Files
      <4> QED
        BY <1>1, <4>1 DEF OneComplete, KeptPromise, Blank
    <3>2. CASE f # "TXT"
      <4>1. file["TXT"] = before /\ file'["TXT"] = file["TXT"] /\ "TXT" \in Files /\ pc # "write TXT"
        BY <1>7, <2>2, <2>4, <3>2, NamesOfSteps DEF TextInv, InOrder, Files
      <4> QED
        BY <1>1, <4>1 DEF TextInv, OneComplete, KeptPromise, Blank
    <3> QED
      BY <3>1, <3>2
  <2> QED
    BY <1>5, <2>3, <2>5, <2>6 DEF TextInv
<1> QED
  BY <1>2, <1>6, <1>7

LEMMA StutterKeeps == ASSUME TextInv, UNCHANGED vars PROVE TextInv'
<1>1. UNCHANGED <<file, pc, update, old, new, config, answer, faults, before, promised>>
  BY DEF vars
<1>2. TypeOK'
  BY <1>1, AllSteps DEF TextInv, TypeOK, MaybeText, IsText
<1>3. Working' /\ Told'
  BY <1>1, MadeStays DEF TextInv, Working, Told
<1>4. (InOrder /\ OneComplete /\ KeptPromise)'
  BY <1>1 DEF TextInv, InOrder, OneComplete, KeptPromise
<1> QED
  BY <1>2, <1>3, <1>4 DEF TextInv

THEOREM TextInvHolds == Spec => []TextInv
<1>1. ASSUME TextInv, [Next]_vars PROVE TextInv'
  <2>1. CASE Boot
    BY <1>1, <2>1, BootKeeps
  <2>2. ASSUME NEW u \in Updates, Request(u) PROVE TextInv'
    BY <1>1, <2>2, RequestKeeps
  <2>3. CASE ReadOld
    BY <1>1, <2>3, ReadKeeps
  <2>4. ASSUME NEW f \in Files, Write(f) PROVE TextInv'
    BY <1>1, <2>4, WriteKeeps
  <2>5. ASSUME NEW f \in Files, Readback(f) PROVE TextInv'
    BY <1>1, <2>5, ReadbackKeeps
  <2>6. CASE DeleteAndApply
    BY <1>1, <2>6, DeleteKeeps
  <2>7. CASE PowerCut
    BY <1>1, <2>7, CutKeeps
  <2>8. CASE UNCHANGED vars
    BY <1>1, <2>8, StutterKeeps
  <2> QED
    BY <1>1, <2>1, <2>2, <2>3, <2>4, <2>5, <2>6, <2>7, <2>8 DEF Next
<1> QED
  BY <1>1, TextInit, PTL DEF Spec

-----------------------------------------------------------------------------
(***************************************************************************)
(* The two properties.                                                     *)
(***************************************************************************)
LEMMA AnswerIsTrue == ASSUME TextInv PROVE AsAsked
<1> SUFFICES ASSUME answer = "ok" PROVE AsAsked
  BY DEF AsAsked
<1>1. Made /\ config = Parsed(new) /\ MaybeText(old)
  BY DEF TextInv, TypeOK, Told
<1>2. /\ Start \in Seq(Lines) /\ update \in Updates /\ ValidUpdate(update)
      /\ new = Rewrite(Start, update)
  BY <1>1, RewriteOf DEF Made, Asked, Start, IsText
<1>3. \A key \in DOMAIN update :
         config[key] = IF update[key] = Missing THEN Default ELSE update[key]
  BY <1>1, <1>2, RewriteSaysWhatWasAsked
<1>4. ASSUME old # Missing
      PROVE  /\ \A key \in KnownKeys \ DOMAIN update : config[key] = Parsed(old)[key]
             /\ Others(new) = Others(old)
  <2>1. Start = old
    BY <1>4 DEF Start
  <2> QED
    BY <1>1, <1>2, <2>1, RewriteSaysWhatWasAsked DEF Others, OtherLines
<1> QED
  BY <1>3, <1>4 DEF AsAsked

(* Whatever fails and wherever the power goes, the old or the new text is  *)
(* on the card, the new one is where the page says it is, and an answer of *)
(* ok means that what was asked, and nothing else, is in force.            *)
THEOREM TextsAreSafeHolds == Spec => []TextsAreSafe
<1>1. TextInv => TextsAreSafe
  BY AnswerIsTrue DEF TextInv, TextsAreSafe, LeftInNew, Told
<1> QED
  BY <1>1, TextInvHolds, PTL

LEMMA WholeIsRead ==
  ASSUME NEW c \in Seq(Lines), Units(c) <= CONFIG_MAX
  PROVE  Read(c) = c
<1>1. Len(c) \in Nat
  BY LenProperties
<1>2. Begin(c, Len(c)) = c
  BY SubSeqFull DEF Begin
<1> DEFINE fit == {n \in 0 .. Len(c) : Units(Begin(c, n)) <= CONFIG_MAX}
<1>3. Len(c) \in fit /\ fit \subseteq Nat /\ \A n \in fit : n <= Len(c)
  BY <1>1, <1>2
<1>4. Max(fit) = Len(c)
  <2> HIDE DEF fit
  <2> QED
    BY <1>3, MaxIs
<1> QED
  BY <1>2, <1>4 DEF Read

(* What the page was told is saved is what a boot that can read the card   *)
(* loads, until a later save comes to rewrite TICKER.TXT.                  *)
THEOREM SavedIsLoadedHolds == Spec => SavedIsLoaded
<1> DEFINE Good == pc = "off" /\ pc' = "idle" /\ faults' = faults /\ ~Blank(promised)
                     => config' = Parsed(promised)
<1>1. ASSUME TextInv, [Next]_vars PROVE Good \/ UNCHANGED vars
  <2> SUFFICES ASSUME pc = "off", pc' = "idle", faults' = faults, ~Blank(promised)
               PROVE  config' = Parsed(promised)
    OBVIOUS
  <2>1. file["TXT"] = promised /\ Units(promised) <= CONFIG_MAX /\ promised \in Seq(Lines)
    BY <1>1 DEF TextInv, TypeOK, KeptPromise, MaybeText, IsText, Blank
  <2>2. Boot
    <3>1. \A f \in Files : WritePc(f) # "off" /\ ReadbackPc(f) # "off"
      BY NamesOfSteps DEF Files
    <3> QED
      BY <1>1, <3>1 DEF Next, vars, Request, ReadOld, Write, Readback, DeleteAndApply, PowerCut
  <2>3. config' = Loaded(promised)
    <3>1. ~Fault("open") /\ ~Fault("read")
      <4>1. faults \in 0 .. MaxFaults /\ MaxFaults \in Nat
        BY <1>1, TickerTxtAssumption DEF TextInv, TypeOK
      <4>2. faults' # faults + 1
        BY <4>1
      <4> QED
        BY <4>2 DEF Fault
    <3>2. config' = Loaded(file["TXT"])
      BY <2>2, <3>1, Zenon DEF Boot
    <3> QED
      BY <2>1, <3>2, Zenon
  <2>4. Loaded(promised) = Parsed(Read(promised))
    BY DEF Loaded, UseNew, Blank
  <2> QED
    BY <2>1, <2>3, <2>4, WholeIsRead
<1>2. TextInv /\ [Next]_vars => [Good]_vars
  BY <1>1
<1> QED
  BY <1>2, TextInvHolds, PTL DEF Spec, SavedIsLoaded
=============================================================================
