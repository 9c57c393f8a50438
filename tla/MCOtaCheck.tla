----------------------------- MODULE MCOtaCheck -----------------------------
(***************************************************************************)
(* One update check, and what it takes for granted: that the slot it       *)
(* writes is the other one, and that the data partition keeps what the     *)
(* next boot must know.  A behaviour is one of the check (OtaCheck) or of  *)
(* the partition table and the record (Persist).                           *)
(*                                                                         *)
(* OtaCheck: two pages a sector, two sectors a slot.  Release a ends       *)
(* inside a sector, b fills the slot, c fits but nothing its first sector  *)
(* may hold is accepted, and d is larger than the slot.  The first sector  *)
(* of a is any of the following: up to three items in every order, two     *)
(* types, two versions, a version too short to be one, a wrong length,     *)
(* link or end, with a start marker before it or a whole block before or   *)
(* behind it.                                                              *)
(*                                                                         *)
(* Persist: the table of partition/pico2w-ab.json; one in another order,   *)
(* with a long name; and, without a data partition, one with short names,  *)
(* one whose second slot does not take the family, one with partitions of  *)
(* other links between.  Five WIFI.TXT, of which two are refused, and the  *)
(* one of a private build; two versions to fall back from.                 *)
(***************************************************************************)
EXTENDS OtaCheck, Persist, TLC

Four == {"a", "b", "c", "d"}
Lengths == "a" :> 3 @@ "b" :> 4 @@ "c" :> 2 @@ "d" :> 5
Versions == "a" :> <<1, 0, 5>> @@ "b" :> <<1, 2, 0>> @@ "c" :> <<1, 0, 105>> @@ "d" :> <<2, 0, 0>>

Item == {<<TypeItem("tbyb")>>, <<TypeItem("plain")>>,
         <<VersionItem, Value(<<1, 5>>)>>, <<VersionItem, Value(<<1, 105>>)>>,
         <<Word("data", 1, "none")>>}
ItemLists == {<<>>} \cup Item \cup {x \o y : x, y \in Item}
             \cup {x \o y \o z : x \in Item, y \in Item, z \in Item}
Blk(items, wrong, link, end) ==
    <<Start>> \o items \o <<Last(Len(items) + wrong), Value(link), end>>
Good == Blk(<<TypeItem("tbyb"), VersionItem, Value(<<1, 5>>)>>, 0, "0", End)
Plain == Blk(<<TypeItem("plain"), VersionItem, Value(<<1, 5>>)>>, 0, "0", End)

Wholes == {Blk(items, 0, "0", End) : items \in ItemLists}
Broken == {Blk(items, 1, "0", End) : items \in Item} \cup
          {Blk(items, 0, "0", Start) : items \in Item} \cup
          {Blk(<<TypeItem("tbyb"), VersionItem, Value(<<1, 5>>)>>, 0, "next", End)}
Short == Word("version", 1, "none")
SectorsOfA ==
    {Blk(<<TypeItem("tbyb"), Short, VersionItem, Value(<<1, 5>>)>>, 0, "0", End),
     Blk(<<TypeItem("tbyb"), Short>>, 0, "0", End)} \cup
    Wholes \cup Broken \cup {<<Start>> \o Good, <<Start>> \o Plain, Good \o Plain, Plain \o Good}
    \cup {b \o Good : b \in Broken} \cup {b \o Plain : b \in Broken}

OneBlock(type, version) == {Blk(<<TypeItem(type), VersionItem, Value(version)>>, 0, "0", End)}
FirstSectors ==
    "a" :> SectorsOfA @@ "b" :> OneBlock("tbyb", <<1, 200>>) @@
    "c" :> (OneBlock("plain", <<1, 105>>) \cup OneBlock("tbyb", <<1, 105>>)) @@
    "d" :> OneBlock("tbyb", <<2, 0>>)

TheData == <<4, 1, 20, 1>>
Part(from, to, link, accepts, name) ==
    [first |-> from, last |-> to, link |-> link, accepts |-> accepts, name |-> name]
Named(n) == <<1, 16, 16, 27, n>>
Alone == [type |-> "none", of |-> 0]
BOf(n) == [type |-> "b", of |-> n]
SlotA == Part(2, 481, Alone, {"arm-s"}, Named(1))
SlotB == Part(482, 961, BOf(0), {"arm-s"}, Named(2))
DataPart == Part(962, 1020, Alone, {"data"}, TheData)
SomeTables ==
    {<<SlotA, SlotB, DataPart>>,
     <<[DataPart EXCEPT !.name = <<4, 1, 20>>], SlotA,
       [SlotB EXCEPT !.link = BOf(1), !.name = Named(2) \o Named(2)]>>,
     <<[SlotA EXCEPT !.name = <<>>], [SlotB EXCEPT !.name = <<1>>]>>,
     <<SlotA, [SlotB EXCEPT !.accepts = {}]>>,
     <<SlotA, Part(1020, 1021, BOf(3), {"arm-s"}, <<>>), SlotB,
       Part(962, 963, [type |-> "owner", of |-> 0], {"arm-s"}, <<1, 2>>)>>}
Line(text, len) == [text |-> text, len |-> len]
Home == Line("home", 4)
Key == Line("key", 8)
SomeNames == {"", "home", "key", "long", "pass", "longer", "short", "built"}
FiveCards ==
    {<<Home, Key>>, <<Line("", 0), Home>>, <<Line("long", 32), Line("", 0), Line("pass", 63)>>,
     <<Line("longer", 33), Key>>, <<Home, Line("short", 7)>>}
SomeVersions == {1, 2}
PrivateBuild == <<Home, Line("built", 20)>>

VARIABLE subject

UpdateInit ==
    /\ subject \in {"check", "record"} /\ Init /\ PersistInit
    /\ subject = "check" => rom.rc < 0
    /\ subject = "record" => want = "a"
UpdateNext ==
    \/ subject = "check" /\ Next /\ UNCHANGED <<subject, persistVars>>
    \/ subject = "record" /\ PersistNext /\ UNCHANGED <<subject, all>>
UpdateSpec == UpdateInit /\ [][UpdateNext]_<<subject, all, persistVars>>

(* Nothing but a whole image is tried, in the slot that is not running;    *)
(* and the record is the last one written whole, whatever broke since.     *)
UpdateIsSafe ==
    IF subject = "check" THEN CheckIsSound ELSE CopyIsSound
=============================================================================
