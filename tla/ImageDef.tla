------------------------------ MODULE ImageDef ------------------------------
(***************************************************************************)
(* src/src/ota/image.rs: what the program reads in the first sector of a   *)
(* release before it makes the slot bootable, and what the boot ROM may    *)
(* read there.                                                             *)
(*                                                                         *)
(* A sector is a sequence of words.  A word has the kind that its low byte *)
(* gives it when it is read as the head of an item, the size it then       *)
(* claims, and a value: the type of the image, a version, a link.          *)
(***************************************************************************)
EXTENDS Naturals, Sequences, FiniteSetsExt

Huge == 1000                    \* more words than a sector has
Word(kind, size, val) == [kind |-> kind, size |-> size, val |-> val]
Start == Word("start", Huge, "none")
End == Word("end", Huge, "none")
Value(val) == Word("data", 0, val)
TypeItem(type) == Word("type", 1, type)
VersionItem == Word("version", 2, "none")
Last(total) == Word("last", total, "none")

(* What any bytes of a sector are: words, each of some size.              *)
IsSector(s) ==
    /\ Len(s) \in Nat /\ DOMAIN s = 1 .. Len(s)
    /\ \A q \in DOMAIN s : s[q].size \in Nat

(* is_rp2350_arm_exe and is_tbyb.                                          *)
IsExe(type) == type \in {"tbyb", "plain"}
IsTbyb(type) == type = "tbyb"

(* expected_version: minor and patch in one number, if they fit.           *)
U16 == 65536
Folded(v) == <<v[1], v[2] * 100 + v[3]>>
HasFolded(v) == v[3] < 100 /\ v[2] * 100 + v[3] < U16

-----------------------------------------------------------------------------
(* parse_block_at.  Chain is the positions of the items from p on, up to   *)
(* the one that says it is the last; it is empty where an item does not    *)
(* fit into the sector.                                                    *)
Chain(s, p) ==
    LET chain[q \in 1 .. Len(s) + 1] ==
          IF q > Len(s) THEN <<>>
          ELSE IF s[q].kind = "last" THEN <<q>>
          ELSE IF s[q].size = 0 \/ q + s[q].size - 1 > Len(s) THEN <<>>
          ELSE LET rest == chain[q + s[q].size]
               IN  IF rest = <<>> THEN <<>> ELSE <<q>> \o rest
    IN  chain[p]

(* A block from a start marker at p: its items, the length they say they   *)
(* have, the link and the end marker.                                      *)
IsBlock(s, p) ==
    /\ s[p] = Start
    /\ LET chain == Chain(s, p + 1)
           l == chain[Len(chain)]
       IN  /\ chain # <<>>
           /\ s[l].size = l - p - 1
           /\ l + 2 <= Len(s) /\ s[l + 2] = End

(* A version takes two words at least; a shorter item is none.             *)
IsItem(word, kind) == word.kind = kind /\ (kind = "version" => word.size >= 2)
ItemsOf(s, p, kind) ==
    LET chain == Chain(s, p + 1)
    IN  {i \in {chain[k] : k \in DOMAIN chain} : IsItem(s[i], kind)}
LinkOf(s, p) ==
    LET chain == Chain(s, p + 1) IN s[chain[Len(chain)] + 1].val

(* The first item is the type and there is no other, there is at most one  *)
(* version, and the block links to itself.                                 *)
AnyBlock(s, p) == ItemsOf(s, p, "type") # {}                       \* mutant
IsAcceptable(s, p) ==
    /\ ItemsOf(s, p, "type") = {p + 1}
    /\ \A i, j \in ItemsOf(s, p, "version") : i = j
    /\ LinkOf(s, p) = "0"

(* parse: the first block counts, acceptable or not; check.                *)
Blocks(s) == {p \in DOMAIN s : IsBlock(s, p)}
Checked(s, version) ==
    /\ Blocks(s) # {}
    /\ LET p == Min(Blocks(s))
       IN  /\ IsAcceptable(s, p)
           /\ IsExe(s[p + 1].val) /\ IsTbyb(s[p + 1].val)
           /\ \E i \in ItemsOf(s, p, "version") :
                HasFolded(version) /\ s[i + 1].val = Folded(version)

-----------------------------------------------------------------------------
(* The boot ROM.  It takes the first block too; where that names two types *)
(* or versions it may go by either, and by any other block of a loop.      *)
Items(s, p) ==
    {I \in SUBSET (p + 1 .. Len(s)) :
        /\ p + 1 \in I
        /\ \A i \in I :
             IF s[i].kind = "last" THEN i = Max(I)
             ELSE /\ s[i].size > 0 /\ i + s[i].size \in I
                  /\ \A j \in I : j <= i \/ j >= i + s[i].size}
RomItems(s, p) ==
    {I \in Items(s, p) : LET l == Max(I)
                        IN  /\ l + 2 <= Len(s) /\ s[l + 2] = End
                            /\ s[l].size = l - p - 1}
RomBlocks(s) == {p \in DOMAIN s : s[p] = Start /\ RomItems(s, p) # {}}

(* What it may take the image for: its types and versions.                 *)
RomMay(s) ==
    IF RomBlocks(s) = {} THEN {}
    ELSE LET p == Min(RomBlocks(s))
             I == UNION RomItems(s, p)
             types == {s[i].val : i \in {j \in I : IsItem(s[j], "type")}}
             versions == {s[i + 1].val : i \in {j \in I : IsItem(s[j], "version")}}
         IN  IF s[Max(I) + 1].val # "0" THEN {"tbyb", "plain", "other"} \X {"any"}
             ELSE types \X versions
=============================================================================
