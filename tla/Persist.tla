------------------------------- MODULE Persist -------------------------------
(***************************************************************************)
(* Where the firmware is in the flash, and what it keeps in the data       *)
(* partition.  The partition table comes from the boot ROM as words        *)
(* (src/src/ab_boot.rs); from it follow the slot of the running image and  *)
(* the one it may write (find_slots, ota/slot.rs) and the sector of the    *)
(* record (persist.rs): a copy of the Wi-Fi credentials for recovery mode, *)
(* and the version that must not be installed again.  Normal mode reads    *)
(* WIFI.TXT, which a private build installs itself when there is none, and *)
(* writes the record when it changes: one erase and one page, with a check *)
(* sum, because the power may go at any moment.                            *)
(*                                                                         *)
(* Addresses and lengths are in sectors.  A word of the table holds either *)
(* bit fields or four bytes of a name.  A text is its name and its length. *)
(* The check sum of a record is taken to tell any two records apart.       *)
(***************************************************************************)
EXTENDS Integers, Sequences, FiniteSetsExt

CONSTANTS
    Tables,       \* partition tables; a table is a sequence of partitions
    DATA,         \* the bytes of "data"
    NAME_MAX,     \* bytes kept of a name
    XIP_BASE,     \* where the running image is mapped, in sectors
    Names,        \* what a line may say
    Cards,        \* contents of WIFI.TXT: sequences of lines
    Provisioned,  \* the WIFI.TXT of a private build, or NoFile
    NoFile,
    Fallen,       \* versions a board may have fallen back from
    MaxBroken     \* bound: power cuts and pages that read back wrong

(* A table as picotool writes it: the partitions do not overlap, there is  *)
(* one B of a partition, which is not a B itself, and none of the data     *)
(* partition.                                                              *)
Lines == [text : Names, len : Nat]
IsData(p) == p.name = DATA \/ "data" \in p.accepts
Links == [type : {"none", "b", "owner"}, of : Nat]
Entries == [first : Nat, last : Nat, link : Links, accepts : SUBSET {"arm-s", "data"}, name : Seq(Nat)]
IsTable(t) ==
    /\ t \in Seq(Entries) /\ Len(t) <= 16
    /\ \A i \in DOMAIN t : t[i].first <= t[i].last /\ t[i].last < XIP_BASE
    /\ \A i, j \in DOMAIN t : i # j => t[i].last < t[j].first \/ t[j].last < t[i].first
    /\ \A i \in DOMAIN t : t[i].link.type = "b" =>
          /\ \A j \in DOMAIN t : j # i => t[j].link # t[i].link
          /\ \E j \in DOMAIN t : j = t[i].link.of + 1 /\ t[j].link.type # "b" /\ ~IsData(t[j])
          /\ ~IsData(t[i])

ASSUME PersistAssumption ==
    /\ {"torn", "ff"} \cap Names = {} /\ "" \in Names
    /\ \A c \in Cards \cup {Provisioned} : c = NoFile \/ c \in Seq(Lines)
    /\ \A t \in Tables : IsTable(t)
    /\ DATA \in Seq(Nat) /\ NAME_MAX \in Nat /\ Len(DATA) < NAME_MAX
    /\ XIP_BASE \in Nat \ {0}
    /\ Fallen \subseteq Nat \ {0, 255} /\ MaxBroken \in Nat

VARIABLES
    rom,       \* what the ROM knows: [rc, table]
    base,      \* sector at which the running image begins
    boot,      \* "off", "normal", "install", "setup", "erase", "program", "run", "recovery", "joins"
    card,      \* WIFI.TXT
    page,      \* the page of the record in the data partition
    record,    \* the record normal mode has composed
    joined,    \* credentials recovery mode joins with: none or one
    broken,    \* faults so far
    meant,     \* history: what the record of this boot is to say
    written,   \* history: what the last one written whole was to say: none or one
    hurt       \* history: a fault since then

persistVars == <<rom, base, boot, card, page, record, joined, broken, meant, written, hurt>>

-----------------------------------------------------------------------------
(***************************************************************************)
(* The table in words (external), and PartitionTable::read.                *)
(***************************************************************************)
NoLink == [type |-> "none", of |-> 0]
TableWord == [first |-> 0, last |-> 0, link |-> NoLink, accepts |-> {}, named |-> FALSE,
              bytes |-> <<0, 0, 0, 0>>]
NameWords(name) ==
    LET all == <<Len(name)>> \o name \o <<0, 0, 0>>
    IN  [w \in 1 .. (Len(name) + 4) \div 4 |-> [TableWord EXCEPT !.bytes = SubSeq(all, 4 * w - 3, 4 * w)]]
PartitionWords(p) ==
    <<[TableWord EXCEPT !.first = p.first, !.last = p.last],
      [TableWord EXCEPT !.link = p.link, !.accepts = p.accepts, !.named = p.name # <<>>]>>
    \o (IF p.name = <<>> THEN <<>> ELSE NameWords(p.name))
TableWords(table) ==
    LET words[n \in 0 .. Len(table)] ==
          IF n = 0 THEN <<>> ELSE words[n - 1] \o PartitionWords(table[n])
    IN  words[Len(table)]

RoundedDown(len) == (1 + len) \div 4                                 \* mutant
TotalWords(len) == (1 + len + 3) \div 4
NameAt(words, pos) ==
    [i \in 1 .. Min({words[pos].bytes[1], NAME_MAX}) |->
        IF pos + i \div 4 > Len(words) THEN 0 ELSE words[pos + i \div 4].bytes[(i % 4) + 1]]

PartitionAt(words, pos, index) ==
    [index |-> index, first |-> words[pos].first, last |-> words[pos].last,
     link |-> words[pos + 1].link, accepts |-> words[pos + 1].accepts,
     name |-> IF words[pos + 1].named /\ pos + 2 <= Len(words) THEN NameAt(words, pos + 2) ELSE <<>>]
(* The set of partitions; none when the ROM gives an error or no table.    *)
Partitions ==
    LET words == TableWords(rom.table)
        read[n \in 0 .. Min({Len(rom.table), 16})] ==
          IF n = 0 THEN [pos |-> 1, found |-> {}]
          ELSE LET r == read[n - 1]
                   named == words[r.pos + 1].named
               IN  IF r.pos + 1 > Len(words) \/ (named /\ r.pos + 2 > Len(words)) THEN r
                   ELSE [found |-> r.found \cup {PartitionAt(words, r.pos, n - 1)},
                         pos |-> r.pos + 2 + (IF named THEN TotalWords(words[r.pos + 2].bytes[1]) ELSE 0)]
    IN  IF rom.rc < 0 THEN {} ELSE read[Min({Len(rom.table), 16})].found

First(parts) == {p \in parts : \A q \in parts : p.index <= q.index}
Contains(p, at) == p.first <= at /\ at <= p.last
The(one) == CHOOSE x \in one : TRUE

-----------------------------------------------------------------------------
(***************************************************************************)
(* find_slots and data_offset: none or one.                                *)
(***************************************************************************)
(* The ROM may or may not leave XIP_BASE in the address.                   *)
StorageOffset(address) == (address - XIP_BASE) % XIP_BASE
OwnPart(address) == First({p \in Partitions : Contains(p, StorageOffset(address))})
AnyB(q, a) == q.link.type = "b"                                      \* mutant
IsBOf(q, a) == q.link = [type |-> "b", of |-> a.index]
Linked(p) ==
    IF p.link.type = "b" THEN {q \in Partitions : q.index = p.link.of}
    ELSE First({q \in Partitions : IsBOf(q, p)})
FindSlots(address) ==
    UNION {{[own |-> p, target |-> q] : q \in {x \in Linked(p) : x.index # p.index /\ "arm-s" \in x.accepts}} :
             p \in OwnPart(address)}
DataOffset == {p.first : p \in First({q \in Partitions : q.name = DATA \/ "data" \in q.accepts})}

-----------------------------------------------------------------------------
(***************************************************************************)
(* WIFI.TXT, and the record as its page holds it.                          *)
(***************************************************************************)
Text(text, len) == [text |-> text, len |-> len]
NoText == Text("", 0)
PasswordFits(t) == t.len = 0 \/ t.len \in 8 .. 63

(* parse_credentials: none or one; the next line that is not empty, none   *)
(* or one.                                                                 *)
NextLine(lines, after) ==
    {n \in DOMAIN lines : n > after /\ lines[n].len > 0
                          /\ \A between \in after + 1 .. n - 1 : lines[between].len = 0}
Credentials(lines) ==
    UNION {LET second == NextLine(lines, first)
               password == IF second = {} THEN NoText ELSE lines[The(second)]
           IN  IF lines[first].len > 32 \/ ~PasswordFits(password) THEN {}
               ELSE {[ssid |-> lines[first], password |-> password]} : first \in NextLine(lines, 0)}
(* credentials_from_bytes, from the copy.                                  *)
FromCopy(r) ==
    IF r.ssid.len \in 1 .. 32 /\ PasswordFits(r.password)
    THEN {[ssid |-> r.ssid, password |-> r.password]} ELSE {}

NoRecord == [ssid |-> NoText, password |-> NoText, blocked |-> 0]
KeepsPassword(r, c) ==                                               \* mutant
    [r EXCEPT !.ssid = c.ssid, !.password = IF c.password.len = 0 THEN @ ELSE c.password]
WithCredentials(r, c) == [r EXCEPT !.ssid = c.ssid, !.password = c.password]

Crc(r) == <<r.ssid, r.password, r.blocked>>
Encode(r) == [magic |-> "AKP1", ssid |-> r.ssid, password |-> r.password, blocked |-> r.blocked,
              crc |-> Crc(r)]
NoCrc(p) ==                                                          \* mutant
    IF p.magic = "AKP1" /\ p.ssid.len <= 32 /\ p.password.len <= 64
    THEN {[ssid |-> p.ssid, password |-> p.password, blocked |-> p.blocked]} ELSE {}
Decode(p) ==
    IF p.magic = "AKP1" /\ p.crc = Crc(p) /\ p.ssid.len <= 32 /\ p.password.len <= 64
    THEN {[ssid |-> p.ssid, password |-> p.password, blocked |-> p.blocked]} ELSE {}

(* An erased page, and one whose bytes were not all written or erased.     *)
BlankPage == [magic |-> "ff", ssid |-> Text("ff", 255), password |-> Text("ff", 255), blocked |-> 255,
              crc |-> <<>>]
Torn(p, lost) ==
    [magic |-> IF "magic" \in lost THEN "torn" ELSE p.magic,
     ssid |-> IF "ssid" \in lost THEN [p.ssid EXCEPT !.text = "torn"] ELSE p.ssid,
     password |-> IF "password" \in lost THEN [p.password EXCEPT !.text = "torn"] ELSE p.password,
     blocked |-> IF "blocked" \in lost THEN 255 ELSE p.blocked,
     crc |-> IF "crc" \in lost THEN <<>> ELSE p.crc]
Fields == {"magic", "ssid", "password", "blocked", "crc"}

-----------------------------------------------------------------------------
(***************************************************************************)
(* A board, its boots, its card, and its power.                            *)
(***************************************************************************)
Bases == {p.first : p \in {rom.table[i] : i \in DOMAIN rom.table}} \cup {0}

PersistInit ==
    /\ rom \in [rc : {0}, table : Tables] \cup [rc : {-14}, table : {<<>>}]
    /\ base = 0 /\ boot = "off" /\ card = NoFile /\ page = BlankPage
    /\ record = NoRecord /\ joined = {} /\ broken = 0
    /\ meant = NoRecord /\ written = {} /\ hurt = FALSE

Boots ==
    /\ boot = "off"
    /\ base' \in Bases /\ boot' \in {"normal", "recovery"} /\ joined' = {}
    /\ UNCHANGED <<rom, card, page, record, broken, meant, written, hurt>>

(* install_missing: the file is made, then filled, unless that fails.      *)
Install ==
    /\ boot = "normal" /\ card = NoFile /\ Provisioned # NoFile
    /\ boot' = "install" /\ card' = <<>>
    /\ UNCHANGED <<rom, base, page, record, joined, broken, meant, written, hurt>>
Installed ==
    /\ boot = "install"
    /\ boot' = "setup" /\ card' \in {<<>>, Provisioned}
    /\ UNCHANGED <<rom, base, page, record, joined, broken, meant, written, hurt>>

(* The record of this boot.  The card may be unreadable; from is the       *)
(* version this board has just fallen back from, or 0.                     *)
EveryBoot(stored, new) == new # NoRecord                             \* mutant
MustWrite(stored, new) == stored # {new} /\ (new.ssid.len > 0 \/ new.blocked # 0)
SetUp ==
    \E from \in Fallen \cup {0}, readable \in BOOLEAN :
      LET creds == IF card = NoFile \/ ~readable THEN {} ELSE Credentials(card)
          stored == Decode(page)
          old == IF stored = {} THEN NoRecord ELSE The(stored)
          said == IF stored = {} \/ written = {} THEN NoRecord ELSE The(written)
          new == [(IF creds = {} THEN old ELSE WithCredentials(old, The(creds)))
                    EXCEPT !.blocked = Max({old.blocked, from})]
          now == IF creds = {} THEN said ELSE The(creds)
      IN  /\ \/ boot = "setup"
             \/ boot = "normal" /\ (card # NoFile \/ Provisioned = NoFile \/ ~readable)
          /\ record' = new
          /\ meant' = [ssid |-> now.ssid, password |-> now.password, blocked |-> Max({said.blocked, from})]
          /\ boot' = IF DataOffset # {} /\ MustWrite(stored, new) THEN "erase" ELSE "run"
          /\ UNCHANGED <<rom, base, card, page, joined, broken, written, hurt>>

(* write_if_changed.                                                       *)
EraseRecord ==
    /\ boot = "erase"
    /\ boot' = "program" /\ page' = BlankPage
    /\ UNCHANGED <<rom, base, card, record, joined, broken, meant, written, hurt>>
ProgramPage ==
    /\ boot = "program"
    /\ boot' = "run" /\ page' = Encode(record) /\ written' = {meant} /\ hurt' = FALSE
    /\ UNCHANGED <<rom, base, card, record, joined, broken, meant>>
(* The page reads back wrong, or the power goes in the middle of it, which  *)
(* TurnsOff completes.                                                     *)
Breaks ==
    /\ boot \in {"erase", "program"} /\ broken < MaxBroken
    /\ \E lost \in {{f} : f \in Fields} \cup {Fields} :
          page' = Torn(IF boot = "erase" THEN page ELSE Encode(record), lost)
    /\ boot' = "run" /\ broken' = broken + 1 /\ hurt' = TRUE
    /\ UNCHANGED <<rom, base, card, record, joined, meant, written>>

(* Recovery mode: the copy, or else WIFI.TXT.                              *)
RecoveryReads ==
    /\ boot = "recovery"
    /\ boot' = "joins"
    /\ \E readable \in BOOLEAN :
          LET copy == IF DataOffset = {} THEN {} ELSE {r \in Decode(page) : r.ssid.len > 0}
          IN  joined' = IF copy # {} THEN FromCopy(The(copy))
                        ELSE IF card = NoFile \/ ~readable THEN {} ELSE Credentials(card)
    /\ UNCHANGED <<rom, base, card, page, record, broken, meant, written, hurt>>

TurnsOff ==
    /\ boot # "off"
    /\ boot' = "off" /\ base' = 0 /\ record' = NoRecord /\ joined' = {} /\ meant' = NoRecord
    /\ hurt' = (hurt \/ boot = "program")
    /\ UNCHANGED <<rom, card, page, broken, written>>
CardChanges ==
    /\ boot = "off"
    /\ card' \in Cards \cup {NoFile}
    /\ UNCHANGED <<rom, base, boot, page, record, joined, broken, meant, written, hurt>>

PersistNext ==
    \/ Boots \/ Install \/ Installed \/ SetUp \/ EraseRecord \/ ProgramPage \/ Breaks
    \/ RecoveryReads \/ TurnsOff \/ CardChanges

PersistSpec == PersistInit /\ [][PersistNext]_persistVars

-----------------------------------------------------------------------------
(* The words of the ROM give the table back, names of any length included. *)
TableIsRead ==
    Partitions = {[index |-> i - 1, first |-> rom.table[i].first, last |-> rom.table[i].last,
                   link |-> rom.table[i].link, accepts |-> rom.table[i].accepts,
                   name |-> SubSeq(rom.table[i].name, 1, Min({Len(rom.table[i].name), NAME_MAX}))] :
                      i \in DOMAIN rom.table}

(* From either of two slots the other one is found, they do not overlap,   *)
(* and the record is in neither.                                           *)
SlotsAreEachOthers ==
    \A s \in FindSlots(base) :
      /\ ~Contains(s.own, s.target.first) /\ ~Contains(s.target, s.own.first)
      /\ "arm-s" \in s.own.accepts =>
            FindSlots(XIP_BASE + s.target.first) = {[own |-> s.target, target |-> s.own]}
      /\ \A d \in DataOffset : ~Contains(s.own, d) /\ ~Contains(s.target, d)

(* Whatever breaks when: a record that is read is the last one written     *)
(* whole, with the credentials of its WIFI.TXT and the highest version     *)
(* fallen back from, and recovery mode joins with them.                    *)
RecordIsTheLast ==
    /\ Decode(page) # {} => Decode(page) = written
    /\ (boot = "joins" /\ DataOffset # {} /\ Decode(page) # {} /\ The(written).ssid.len > 0) =>
          joined = {[ssid |-> The(written).ssid, password |-> The(written).password]}

(* The sector wears: it is erased only to say what the last whole record   *)
(* does not, or after a fault.                                             *)
ErasedForAReason == boot = "erase" => written # {meant} \/ hurt

CopyIsSound == TableIsRead /\ SlotsAreEachOthers /\ RecordIsTheLast /\ ErasedForAReason
=============================================================================
