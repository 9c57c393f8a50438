----------------------------- MODULE SlotWriter -----------------------------
(***************************************************************************)
(* src/src/ota/slot.rs: a release is streamed into the slot that is not    *)
(* running.  Sector 0, which makes a slot bootable, is erased first, kept  *)
(* in RAM while the others are written, and written last, once the digest  *)
(* is right.  The check of an update that drives it is OtaCheck.           *)
(*                                                                         *)
(* The unit is a flash page (256 bytes); a sector is Pages of them.  A     *)
(* page of image i is the pair <<i, its position>>.  The digest of a       *)
(* sequence of pages is the sequence.                                      *)
(***************************************************************************)
EXTENDS Naturals, Sequences

CONSTANTS
    Pages,        \* pages in a sector
    Sectors,      \* sectors in the slot
    Releases,     \* the images that may be published
    Size,         \* Size[i]: the length of release i, in pages
    MaxFaults     \* bound on flash errors, lost connections and power cuts

Capacity == Pages * Sectors

ASSUME SlotWriterAssumption ==
    /\ Pages \in Nat \ {0} /\ Sectors \in Nat \ {0}
    /\ Size \in [Releases -> Nat]
    /\ MaxFaults \in Nat

VARIABLES
    flash,        \* the slot's pages, and the first sector of the running image
    pc,
    want,         \* the release the manifest describes
    body,         \* the release the server is sending
    sent,         \* pages of it already read from the connection
    chunk,        \* pages read and not yet copied to buf
    buf, first,   \* SectorBuffers
    hash,         \* the hasher: every page received
    next_sector,
    faults

vars == <<flash, pc, want, body, sent, chunk, buf, first, hash, next_sector, faults>>
writer == <<buf, first, hash, next_sector>>
stream == <<want, body, sent, chunk>>

Erased == <<"ff", 0>>
Own == <<"own", 0>>
Garbage == <<"garbage", 0>>

Image(i) == [p \in 1 .. Size[i] |-> <<i, p>>]
Page == {Erased, Own, Garbage} \cup
        UNION {{<<i, p>> : p \in 1 .. Size[i]} : i \in Releases}
Offsets == 0 .. Capacity + Pages - 1
SectorOf(s) == s * Pages .. (s + 1) * Pages - 1

hash_storage(f, n) == [p \in 1 .. n |-> f[p - 1]]

EraseSector(f, s) == [o \in DOMAIN f |-> IF o \in SectorOf(s) THEN Erased ELSE f[o]]
ProgramSector(f, s, data) ==
    [o \in DOMAIN f |->
        IF o - s * Pages \in 0 .. Len(data) - 1 THEN data[o - s * Pages + 1] ELSE f[o]]

WriterInit ==
    /\ flash = [o \in Offsets |-> IF o < Capacity THEN Erased ELSE Own]
    /\ pc = "idle"
    /\ want \in Releases /\ body = want
    /\ sent = 0 /\ chunk = <<>>
    /\ buf = <<>> /\ first = <<>> /\ hash = <<>> /\ next_sector = 0
    /\ faults = 0

-----------------------------------------------------------------------------
(* SlotWriter.                                                             *)

GoTo(l) == pc' = l

(* SlotWriter::new and begin.                                              *)
Begin ==
    /\ pc = "begin"
    /\ flash' = EraseSector(flash, 0)
    /\ buf' = <<>> /\ first' = <<>> /\ hash' = <<>> /\ next_sector' = 0
    /\ GoTo("ask")
    /\ UNCHANGED <<stream, faults>>

TooLong(n) == Len(hash) + n > Size[want]

(* SlotWriter::push of the next n pages.                                   *)
Push(n) ==
    /\ pc = "stream" /\ chunk = <<>> /\ Len(buf) < Pages
    /\ n \in 1 .. Size[body] - sent
    /\ sent' = sent + n
    /\ IF TooLong(n)
         THEN GoTo("invalidate") /\ UNCHANGED <<chunk, hash>>
         ELSE /\ chunk' = SubSeq(Image(body), sent + 1, sent + n)
              /\ hash' = hash \o chunk'
              /\ UNCHANGED pc
    /\ UNCHANGED <<flash, want, body, buf, first, next_sector, faults>>

(* The loop of push: fill buf, and write it out whenever it is full.       *)
Fill ==
    /\ pc = "stream" /\ chunk # <<>> /\ Len(buf) < Pages
    /\ LET room == Pages - Len(buf)
           n == IF room < Len(chunk) THEN room ELSE Len(chunk)
       IN /\ buf' = buf \o SubSeq(chunk, 1, n)
          /\ chunk' = SubSeq(chunk, n + 1, Len(chunk))
    /\ UNCHANGED <<flash, pc, want, body, sent, first, hash, next_sector, faults>>

AtEnd == pc = "finish" /\ buf # <<>>
MustFlush == (pc = "stream" /\ Len(buf) = Pages) \/ AtEnd

NeverKeepInRam == FALSE                                  \* mutant
KeepInRam == next_sector = 0

(* flush_sector: sector 0 stays in RAM, the others go to the flash.        *)
FlushFirst ==
    /\ MustFlush /\ KeepInRam
    /\ first' = buf /\ buf' = <<>>
    /\ next_sector' = next_sector + 1
    /\ UNCHANGED <<flash, pc, stream, hash, faults>>

FlushSector ==
    /\ MustFlush /\ ~KeepInRam
    /\ flash' = ProgramSector(EraseSector(flash, next_sector), next_sector, buf)
    /\ buf' = <<>>
    /\ next_sector' = next_sector + 1
    /\ UNCHANGED <<pc, stream, first, hash, faults>>

CommitErase ==
    /\ pc = "commit" /\ first # <<>>
    /\ flash' = EraseSector(flash, 0)
    /\ GoTo("program")
    /\ UNCHANGED <<stream, writer, faults>>

CommitProgram ==
    /\ pc = "program"
    /\ flash' = ProgramSector(flash, 0, first)
    /\ GoTo("readback")
    /\ UNCHANGED <<stream, writer, faults>>

Invalidate ==
    /\ pc = "invalidate"
    /\ flash' = EraseSector(flash, 0)
    /\ GoTo("idle")
    /\ UNCHANGED <<stream, writer, faults>>

-----------------------------------------------------------------------------
(* What may go wrong.                                                      *)

Fault == faults < MaxFaults /\ faults' = faults + 1

(* The sector being written, and what an erase or a program that does not  *)
(* come to its end may leave of it: the old pages, pages nobody can        *)
(* predict, or a prefix of the new ones.                                   *)
Writing == (MustFlush /\ ~KeepInRam) \/ pc \in {"begin", "commit", "program", "invalidate"}
Touched == IF MustFlush THEN next_sector ELSE 0
Data == IF MustFlush THEN buf ELSE IF pc = "program" THEN first ELSE <<>>
Scrambled(f, s) == [o \in DOMAIN f |-> IF o \in SectorOf(s) THEN Garbage ELSE f[o]]
Leftovers ==
    {flash, Scrambled(flash, Touched)} \cup
    {ProgramSector(IF pc = "program" THEN flash ELSE EraseSector(flash, Touched),
                   Touched, SubSeq(Data, 1, n)) : n \in 0 .. Len(Data)}

(* An error of the flash driver: inside push it invalidates the slot, in   *)
(* begin, finish, commit_first_sector and invalidate it returns at once.   *)
FlashError ==
    /\ Fault /\ Writing
    /\ flash' \in Leftovers
    /\ GoTo(IF pc = "stream" THEN "invalidate" ELSE "idle")
    /\ UNCHANGED <<stream, writer>>

(* Pages that went bad without an error: only reading back finds them.     *)
BadPages ==
    /\ Fault
    /\ pc \in {"finish", "program", "readback"}
    /\ \E s \in 0 .. Sectors - 1 : flash' = Scrambled(flash, s)
    /\ UNCHANGED <<pc, stream, writer>>

PowerCut ==
    /\ Fault
    /\ flash' \in IF Writing THEN Leftovers ELSE {flash}
    /\ GoTo("idle")
    /\ UNCHANGED <<stream, writer>>

WriterNext ==
    \/ Begin
    \/ \E n \in 1 .. Capacity + Pages : Push(n)
    \/ Fill \/ FlushFirst \/ FlushSector
    \/ CommitErase \/ CommitProgram \/ Invalidate
    \/ FlashError \/ BadPages \/ PowerCut

-----------------------------------------------------------------------------
PCs == {"idle", "ask", "manifest", "begin", "stream", "finish", "commit", "program",
        "readback", "invalidate", "reboot"}

WriterTypeOK ==
    /\ flash \in [Offsets -> Page]
    /\ pc \in PCs
    /\ want \in Releases /\ body \in Releases
    /\ sent \in 0 .. Size[body]
    /\ chunk \in Seq(Page) /\ buf \in Seq(Page) /\ first \in Seq(Page)
    /\ hash \in Seq(Page)
    /\ next_sector \in 0 .. Sectors
    /\ faults \in 0 .. MaxFaults
=============================================================================
