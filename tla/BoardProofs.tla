---------------------------- MODULE BoardProofs ----------------------------
(***************************************************************************)
(* A board from one reset to the next, for every set of versions, however  *)
(* each of them may crash, and for every number of power cuts: what the    *)
(* decisions of BootPolicy return; what holds of the board; and what the   *)
(* screen says of the last reset.                                          *)
(***************************************************************************)
EXTENDS Board, BootTrace, TLAPS

-----------------------------------------------------------------------------
(***************************************************************************)
(* What the decisions of BootPolicy return, for every scratch word and     *)
(* every version number.                                                   *)
(***************************************************************************)

(* Bytes and flags of a word, as plain arithmetic.                         *)
LEMMA ByteFacts ==
    ASSUME NEW n \in Nat
    PROVE  /\ n % 256 \in Byte
           /\ (n \div 256) % 256 \in Byte
           /\ n % HALFWORD \in Nat
BY SMT DEF HALFWORD, Byte

LEMMA FieldFacts ==
    ASSUME NEW a \in Byte, NEW b \in Byte, NEW c \in 0 .. 1, NEW d \in 0 .. 1,
           NEW n, n = a + 256 * b + FLAG_IN_RECOVERY * c + FLAG_FELL_BACK * d
    PROVE  /\ n \in LowBits
           /\ n % 256 = a /\ (n \div 256) % 256 = b
           /\ (n \div FLAG_IN_RECOVERY) % 2 = c
           /\ (n \div FLAG_FELL_BACK) % 2 = d
<1>1. n \in LowBits /\ n % 256 = a
  BY SMT DEF Byte, LowBits, HALFWORD, FLAG_IN_RECOVERY, FLAG_FELL_BACK
<1>2. n \div 256 = b + 256 * (c + 2 * d)
  BY SMT DEF Byte, FLAG_IN_RECOVERY, FLAG_FELL_BACK
<1>3. (n \div 256) % 256 = b
  BY <1>2, SMT DEF Byte
<1>4. n \div FLAG_IN_RECOVERY = c + 2 * d /\ n \div FLAG_FELL_BACK = d
  BY SMT DEF Byte, FLAG_IN_RECOVERY, FLAG_FELL_BACK
<1>5. (c + 2 * d) % 2 = c /\ d % 2 = d
  BY SMT
<1> QED
  BY <1>1, <1>3, <1>4, <1>5

LEMMA DefaultType == DefaultState \in BootState
<1> 0 \in Byte
  BY DEF Byte
<1> QED
  BY DEF DefaultState, BootState

(* Whatever the scratch word holds, even noise, it decodes to a BootState. *)
LEMMA DecodeType ==
    ASSUME NEW w \in Word
    PROVE  DecodeState(w) \in BootState
<1>0. w.low \in LowBits
  BY DEF Word
<1>1. w.low \in Nat
  BY <1>0, SMT DEF LowBits, HALFWORD
<1>2. DefaultState \in BootState
  BY DefaultType
<1>3. LegacyCount(w) \in Byte
  <2> DEFINE n == w.low % HALFWORD
  <2>1. n \in Nat
    BY <1>1, ByteFacts
  <2> HIDE DEF n
  <2>2. (IF n < 255 THEN n ELSE 255) \in Byte
    BY <2>1 DEF Byte
  <2> QED
    BY <2>2 DEF LegacyCount, n
<1>4. [crash |-> LegacyCount(w), rec |-> 0, in_recovery |-> FALSE, fell_back |-> FALSE]
        \in BootState
  <2> 0 \in Byte
    BY DEF Byte
  <2> QED
    BY <1>3 DEF BootState
<1>5. /\ w.low % 256 \in Byte
      /\ (w.low \div 256) % 256 \in Byte
  BY <1>1, ByteFacts
<1>6. [crash |-> w.low % 256, rec |-> (w.low \div 256) % 256,
       in_recovery |-> (w.low \div FLAG_IN_RECOVERY) % 2 = 1,
       fell_back |-> (w.low \div FLAG_FELL_BACK) % 2 = 1] \in BootState
  BY <1>5, Zenon DEF BootState
<1> QED
  BY <1>2, <1>4, <1>6, Zenon DEF DecodeState

(* A BootState always fits the scratch word, and its counts and flags come *)
(* back as they were written: the four fields do not overlap               *)
(* (boot_policy.rs BootState::encode, decode).                             *)
THEOREM StateRoundTrip ==
    ASSUME NEW s \in BootState
    PROVE  /\ EncodeState(s) \in Word
           /\ DecodeState(EncodeState(s)) = s
<1> DEFINE c == IF s.in_recovery THEN 1 ELSE 0
           d == IF s.fell_back THEN 1 ELSE 0
           n == EncodeState(s).low
<1>1. /\ s.crash \in Byte /\ s.rec \in Byte
      /\ s.in_recovery \in BOOLEAN /\ s.fell_back \in BOOLEAN
      /\ s = [crash |-> s.crash, rec |-> s.rec,
              in_recovery |-> s.in_recovery, fell_back |-> s.fell_back]
  BY DEF BootState
<1>2. c \in 0 .. 1 /\ d \in 0 .. 1 /\ (c = 1 <=> s.in_recovery) /\ (d = 1 <=> s.fell_back)
  OBVIOUS
<1>3. /\ Bit(s.in_recovery, FLAG_IN_RECOVERY) = FLAG_IN_RECOVERY * c
      /\ Bit(s.fell_back, FLAG_FELL_BACK) = FLAG_FELL_BACK * d
  BY SMT DEF Bit, FLAG_IN_RECOVERY, FLAG_FELL_BACK
<1> HIDE DEF c, d
<1>4. n = s.crash + 256 * s.rec + FLAG_IN_RECOVERY * c + FLAG_FELL_BACK * d
  BY <1>3 DEF EncodeState
<1> HIDE DEF n
<1>5. /\ n \in LowBits
      /\ n % 256 = s.crash /\ (n \div 256) % 256 = s.rec
      /\ (n \div FLAG_IN_RECOVERY) % 2 = c /\ (n \div FLAG_FELL_BACK) % 2 = d
  BY <1>1, <1>2, <1>4, FieldFacts
<1>6. EncodeState(s) = [top |-> STATE_MAGIC, low |-> n]
  BY DEF EncodeState, n
<1>7. EncodeState(s) \in Word
  <2> STATE_MAGIC \in Byte
    BY DEF STATE_MAGIC, Byte
  <2> QED
    BY <1>5, <1>6 DEF Word
<1>8. DecodeState(EncodeState(s))
        = [crash |-> s.crash, rec |-> s.rec,
           in_recovery |-> c = 1, fell_back |-> d = 1]
  BY <1>5, <1>6 DEF DecodeState
<1>9. (c = 1) = s.in_recovery /\ (d = 1) = s.fell_back
  BY <1>1, <1>2, Zenon
<1> QED
  BY <1>1, <1>7, <1>8, <1>9, Zenon

(* The mark of a version with a major below 16 fits the word, is           *)
(* recognised as a mark and gives the version back (boot_policy.rs         *)
(* fallback_marker, decode_fallback_marker).                               *)
THEOREM MarkerRoundTrip ==
    ASSUME NEW v \in Nat, v < 16 * HALFWORD
    PROVE  /\ FallbackMarker(v) \in Word
           /\ IsMarker(FallbackMarker(v))
           /\ MarkerVersion(FallbackMarker(v)) = v
<1> DEFINE major == v \div HALFWORD
           minor == v % HALFWORD
<1>1. /\ major \in Nat /\ major < 16 /\ minor \in Nat /\ minor < HALFWORD
      /\ v = major * HALFWORD + minor
      /\ major % 16 = major
  BY SMT DEF HALFWORD
<1>2. FallbackMarker(v) = [top |-> MARKER_MAGIC, low |-> major * MARKER_MAJOR + minor]
  BY <1>1 DEF FallbackMarker
<1> HIDE DEF major, minor
<1>3. /\ (major * MARKER_MAJOR + minor) \div MARKER_MAJOR = major
      /\ ((major * MARKER_MAJOR + minor) \div HALFWORD) % 16 = 0
      /\ (major * MARKER_MAJOR + minor) % HALFWORD = minor
      /\ major * MARKER_MAJOR + minor \in LowBits
  BY <1>1, SMT DEF HALFWORD, MARKER_MAJOR, LowBits
<1>4. MARKER_MAGIC \in Byte
  BY DEF MARKER_MAGIC, Byte
<1> QED
  BY <1>1, <1>2, <1>3, <1>4 DEF IsMarker, MarkerVersion, Word

LEMMA MarkerType ==
    ASSUME NEW v \in Nat
    PROVE  FallbackMarker(v) \in Word
<1>1. ((v \div HALFWORD) % 16) * MARKER_MAJOR + (v % HALFWORD) \in LowBits
  BY SMT DEF HALFWORD, MARKER_MAJOR, LowBits
<1>2. MARKER_MAGIC \in Byte
  BY DEF MARKER_MAGIC, Byte
<1> QED
  BY <1>1, <1>2 DEF FallbackMarker, Word

LEMMA RetryType ==
    ASSUME NEW s \in BootState
    PROVE  ForNormalRetry(s) \in BootState
<1>1. 0 \in Byte /\ RECOVERY_AFTER - 1 \in Byte
  BY DEF Byte, RECOVERY_AFTER
<1> QED
  BY <1>1 DEF ForNormalRetry, BootState

LEMMA MarkerVersionType ==
    ASSUME NEW w \in Word
    PROVE  MarkerVersion(w) \in Nat
<1> DEFINE n == w.low
<1>1. n \in Nat
  <2> w.low \in LowBits
    BY DEF Word
  <2> QED
    BY SMT DEF LowBits, HALFWORD
<1> HIDE DEF n
<1>2. (n \div MARKER_MAJOR) * HALFWORD + (n % HALFWORD) \in Nat
  BY <1>1, SMT DEF MARKER_MAJOR, HALFWORD
<1> QED
  BY <1>2 DEF MarkerVersion, n

LEMMA TraceVersionType ==
    ASSUME NEW v \in Nat
    PROVE  TraceVersion(v) \in Nat
BY SMT DEF TraceVersion, HALFWORD

LEMMA InheritedType ==
    ASSUME NEW inp \in Inputs
    PROVE  Inherited(inp) \in BootState
<1>1. DefaultState \in BootState
  BY DefaultType
<1>2. DecodeState(inp.state) \in BootState
  BY DecodeType DEF Inputs
<1>3. AtLeast(DecodeState(inp.state).crash, RECOVERY_AFTER) \in Byte
  <2> DecodeState(inp.state).crash \in Byte
    BY <1>2 DEF BootState
  <2> QED
    BY DEF AtLeast, RECOVERY_AFTER, Byte
<1>4. [DecodeState(inp.state) EXCEPT !.fell_back = TRUE, !.rec = 0,
         !.crash = AtLeast(DecodeState(inp.state).crash, RECOVERY_AFTER)] \in BootState
  <2> 0 \in Byte
    BY DEF Byte
  <2> QED
    BY <1>2, <1>3 DEF BootState
<1> QED
  BY <1>1, <1>2, <1>4, Zenon DEF Inherited

LEMMA CountedType ==
    ASSUME NEW inp \in Inputs
    PROVE  Counted(inp) \in BootState
<1>1. Inherited(inp) \in BootState
  BY InheritedType
<1>2. /\ SatInc(Inherited(inp).rec) \in Byte
      /\ SatInc(Inherited(inp).crash) \in Byte
  <2> Inherited(inp).rec \in Byte /\ Inherited(inp).crash \in Byte
    BY <1>1 DEF BootState
  <2> QED
    BY StreakMaxAssumption DEF SatInc, Byte, FALLBACK_AFTER
<1> QED
  BY <1>1, <1>2 DEF Counted, BootState

(* The plan of any boot: it is a plan; a boot that is still to be bought   *)
(* writes nothing and runs in normal mode; a bought boot is in recovery    *)
(* mode or past it exactly when the state it writes says so; and it gives  *)
(* itself up at most once per state and only with another slot to go to    *)
(* (boot_policy.rs decide).                                                *)
THEOREM DecideFacts ==
    ASSUME NEW inp \in Inputs
    PROVE  LET p == Decide(inp)
           IN /\ p \in Plans
              /\ inp.pending => p.mode = "normal" /\ ~p.write
              /\ ~inp.pending => p.write /\ (p.state.in_recovery <=> p.mode # "normal")
              /\ p.mode = "fallback" =>
                   /\ inp.other_known
                   /\ ~Counted(inp).fell_back
                   /\ p.state.fell_back
<1>1. DefaultState \in BootState
  BY DefaultType
<1>2. Counted(inp) \in BootState
  BY CountedType
<1>3. FellBackFrom(inp) \in Nat
  BY MarkerVersionType DEF FellBackFrom, Inputs
<1>4. CASE inp.pending
  BY <1>1, <1>4 DEF Decide, Plans
<1>5. CASE ~inp.pending
  <2> DEFINE s == Counted(inp)
             m == ModeOf(s, inp.other_known)
             st == [crash |-> s.crash, rec |-> IF m = "fallback" THEN 0 ELSE s.rec,
                    in_recovery |-> m # "normal",
                    fell_back |-> s.fell_back \/ m = "fallback"]
  <2>1. /\ m \in {"normal", "recovery", "fallback"}
        /\ m = "fallback" => inp.other_known /\ ~s.fell_back
    BY DEF ModeOf
  <2>2. st \in BootState
    <3> 0 \in Byte
      BY DEF Byte
    <3> QED
      BY <1>2 DEF BootState
  <2>3. Decide(inp) = [mode |-> m, state |-> st, write |-> TRUE,
                       fell_back_from |-> FellBackFrom(inp)]
    BY <1>5 DEF Decide
  <2>4. Decide(inp) \in Plans
    BY <1>3, <2>1, <2>2, <2>3 DEF Plans
  <2>5. /\ Decide(inp).mode = m /\ Decide(inp).write = TRUE
        /\ Decide(inp).state.in_recovery = (m # "normal")
        /\ Decide(inp).state.fell_back = (s.fell_back \/ m = "fallback")
    BY <2>3
  <2> HIDE DEF m, s, st
  <2> QED
    BY <1>5, <2>1, <2>4, <2>5 DEF s
<1> QED
  BY <1>4, <1>5

-----------------------------------------------------------------------------
(***************************************************************************)
(* The board: the types; the way back: an ordinary boot always finds a     *)
(* bought image, because an image that has not been bought always lies     *)
(* beside an older one that has; the update that AbUpdate promises, in     *)
(* which a trial leaves the counts of the version it may roll back to      *)
(* alone; and that nobody is put into recovery mode or given up for what   *)
(* another version did.                                                    *)
(***************************************************************************)

LEMMA Basics ==
    /\ ZeroWord \in Word
    /\ NoTrace \in Traces
    /\ FreshRun \in Runs
    /\ NoPlan \in Plans
    /\ DefaultState \in BootState
    /\ EncodeState(DefaultState) \in Word
    /\ NoImage \in Image \cup {NoImage}
    /\ MaxEnds = 5
<1>1. ZeroWord \in Word
  BY DEF ZeroWord, Word, Byte, LowBits, HALFWORD
<1>2. NoTrace \in Traces
  BY DEF NoTrace, Traces
<1>3. FreshRun \in Runs
  BY DEF FreshRun, Runs
<1>4. DefaultState \in BootState
  BY DefaultType
<1>5. NoPlan \in Plans
  BY <1>4 DEF NoPlan, Plans
<1>6. EncodeState(DefaultState) \in Word
  BY <1>4, StateRoundTrip
<1>7. MaxEnds = 5
  BY DEF MaxEnds, RECOVERY_AFTER, FALLBACK_AFTER
<1> QED
  BY <1>1, <1>2, <1>3, <1>4, <1>5, <1>6, <1>7

LEMMA SlotFacts ==
    /\ \A s \in Slots : Other(s) \in Slots /\ Other(s) # s /\ Other(Other(s)) = s
    /\ \A s, t \in Slots : t = s \/ t = Other(s)
BY DEF Slots, Other

LEMMA InputsType ==
    ASSUME TypeOK
    PROVE  BootInputs \in Inputs
<1>1. boot.ver \in Nat /\ boot.update \in BOOLEAN /\ boot.pending \in BOOLEAN
  BY VersionAssumption DEF TypeOK, Boots
<1>2. trace \in Traces /\ scratch0 \in Word /\ scratch1 \in Word
  BY DEF TypeOK
<1> QED
  BY <1>1, <1>2 DEF BootInputs, Inputs

LEMMA TypeInit == Init => TypeOK
<1> SUFFICES ASSUME Init PROVE TypeOK
  OBVIOUS
<1>1. Initial \in Version /\ MaxCuts \in Nat
  BY BoardAssumption
<1>2. flash \in Flash
  BY <1>1 DEF Init, Flash, Image
<1>3. boot \in Boots
  BY <1>1 DEF Init, Boots, Slots
<1>4. reset \in Resets
  BY DEF Init, Resets, Slots
<1> QED
  BY <1>1, <1>2, <1>3, <1>4, Basics DEF Init, TypeOK, PCs

LEMMA ResetType ==
    ASSUME NEW kind \in {"hw", "timer", "force", "update"}, NEW s \in Slots, Reset(kind, s)
    PROVE  reset' \in Resets /\ pc' \in PCs
BY DEF Reset, Resets, PCs

LEMMA RunType ==
    ASSUME NEW r \in Runs, NEW b \in BOOLEAN, NEW v \in Version \cup {0}, NEW n \in Nat,
           NEW st \in {"idle", "writing", "rebooting", "rejected"}
    PROVE  /\ [r EXCEPT !.blocked = n, !.possible = b] \in Runs
           /\ [r EXCEPT !.blocked = n, !.possible = b, !.retryArmed = ~b] \in Runs
           /\ [r EXCEPT !.proved = b, !.ota = st] \in Runs
           /\ [r EXCEPT !.proved = b, !.ota = st, !.want = v] \in Runs
           /\ [r EXCEPT !.ota = st, !.want = v] \in Runs
           /\ [r EXCEPT !.buyFailed = b] \in Runs
           /\ [r EXCEPT !.proved = TRUE, !.ota = st, !.retryArmed = b] \in Runs
BY DEF Runs

LEMMA FlashType ==
    ASSUME NEW f \in Flash, NEW s \in Slots, NEW v \in Version, NEW b \in BOOLEAN
    PROVE  /\ [f EXCEPT ![s] = NoImage] \in Flash
           /\ [f EXCEPT ![s] = [ver |-> v, tbyb |-> b]] \in Flash
           /\ BuyDoneFlash(f, s, v, b) \in Flash
           /\ AfterUpdateBoot(f, s) \in Flash
           /\ Valid(f, s) => f[s].ver \in Version /\ f[s].tbyb \in BOOLEAN
<1>1. [ver |-> v, tbyb |-> b] \in Image /\ [ver |-> v, tbyb |-> FALSE] \in Image
  BY DEF Image
<1>2. /\ [f EXCEPT ![s] = NoImage] \in Flash
      /\ [f EXCEPT ![s] = [ver |-> v, tbyb |-> b]] \in Flash
  BY <1>1 DEF Flash
<1>3. BuyDoneFlash(f, s, v, b) \in Flash
  <2> \A t \in Slots : f[t] \in Image \cup {NoImage}
    BY DEF Flash
  <2> QED
    BY <1>1 DEF Flash, BuyDoneFlash
<1>4. AfterUpdateBoot(f, s) \in Flash
  BY SlotFacts DEF AfterUpdateBoot, Flash
<1>5. Valid(f, s) => f[s].ver \in Version /\ f[s].tbyb \in BOOLEAN
  <2> SUFFICES ASSUME Valid(f, s) PROVE f[s].ver \in Version /\ f[s].tbyb \in BOOLEAN
    OBVIOUS
  <2>1. f[s] \in Image
    BY DEF Flash, Valid, NoImage
  <2> QED
    BY <2>1 DEF Image
<1> QED
  BY <1>2, <1>3, <1>4, <1>5

LEMMA TypeStep == TypeOK /\ [Next]_vars => TypeOK'
<1> SUFFICES ASSUME TypeOK, [Next]_vars PROVE TypeOK'
  OBVIOUS
<1> USE DEF TypeOK
<1>0. /\ boot.slot \in Slots /\ Target \in Slots
      /\ boot.ver \in Version /\ boot.ver \in Nat
      /\ boot.pending \in BOOLEAN /\ boot.eraseOther \in BOOLEAN
  BY VersionAssumption, SlotFacts DEF Boots, Target
<1>1. ASSUME NEW s \in Slots, RomUpdateBoot(s) PROVE TypeOK'
  <2>1. flash' \in Flash
    BY <1>1, <1>0, FlashType DEF RomUpdateBoot
  <2>2. boot' \in Boots
    BY <1>1, FlashType DEF RomUpdateBoot, UpdateTo, EraseAtBuy, OtherNewer, Boots
  <2> QED
    BY <1>1, <2>1, <2>2, Basics DEF RomUpdateBoot, world, PCs
<1>2. ASSUME NEW s \in Slots, RomNormalBoot(s) PROVE TypeOK'
  <2>1. boot' \in Boots
    BY <1>2, FlashType DEF RomNormalBoot, NormalPick, Bought, Boots
  <2> QED
    BY <1>2, <2>1, Basics DEF RomNormalBoot, world, PCs
<1>3. CASE Start
  <2>1. /\ plan' \in Plans
        /\ EncodeState(plan'.state) \in Word
    BY <1>3, InputsType, DecideFacts, StateRoundTrip DEF Start, Plans
  <2>2. trace' \in Traces
    BY <1>3, <1>0, TraceVersionType DEF Start, Traces
  <2>3. ends' \in 0 .. MaxEnds
    BY <1>3, Basics DEF Start
  <2> QED
    BY <1>3, <2>1, <2>2, <2>3, Basics DEF Start, world, PCs
<1>4. CASE FallbackMark
  BY <1>4, <1>0, MarkerType DEF FallbackMark, world, PCs
<1>5. CASE FallbackReboot
  BY <1>5, <1>0, ResetType DEF FallbackReboot, scratch, world
<1>6. CASE Setup \/ PersistProgram
  <2>1. NewBlocked \in Nat /\ run.blocked \in Nat
    BY DEF NewBlocked, AtLeast, Plans, Runs
  <2>2. \A p \in Possible : p \in BOOLEAN
    BY BoardAssumption
  <2>3. \A p \in Possible :
          /\ [run EXCEPT !.blocked = NewBlocked, !.possible = p] \in Runs
          /\ [run EXCEPT !.blocked = record, !.possible = p, !.retryArmed = ~p] \in Runs
    BY <2>1, <2>2 DEF Runs
  <2>4. run' \in Runs
    BY <1>6, <2>3 DEF Setup, SetupKeepsRecord, SetupErasesRecord,
       PersistFails, PersistProgram, RecoverySetup
  <2>5. record' \in Nat
    <3>1. CASE SetupKeepsRecord
      BY <3>1 DEF SetupKeepsRecord
    <3>2. CASE SetupErasesRecord
      BY <3>2 DEF SetupErasesRecord
    <3>3. CASE PersistFails
      BY <3>3 DEF PersistFails
    <3>4. CASE RecoverySetup
      BY <3>4 DEF RecoverySetup
    <3>5. CASE PersistProgram
      BY <2>1, <3>5 DEF PersistProgram
    <3> QED
      BY <1>6, <3>1, <3>2, <3>3, <3>4, <3>5 DEF Setup
  <2>6. pc' \in PCs
    BY <1>6 DEF Setup, SetupKeepsRecord, SetupErasesRecord, PersistFails,
       PersistProgram, RecoverySetup, PCs
  <2>7. UNCHANGED <<flash, scratch0, scratch1, trace, reset, boot, plan, published, cuts,
                    proven, ends>>
    BY <1>6 DEF Setup, SetupKeepsRecord, SetupErasesRecord, PersistFails,
       PersistProgram, RecoverySetup, scratch, world
  <2> QED
    BY <2>4, <2>5, <2>6, <2>7
<1>7. CASE Check
  <2>1. run' \in Runs
    <3>1. run \in Runs /\ published \in Version \cup {0}
      OBVIOUS
    <3>2. CASE CheckNothing
      <4> DEFINE armed == run.retryArmed \/ pc = "recovery"
      <4>1. armed \in BOOLEAN
        OBVIOUS
      <4>2. run' = [run EXCEPT !.proved = TRUE, !.ota = "idle", !.retryArmed = armed]
        BY <3>2 DEF CheckNothing
      <4> HIDE DEF armed
      <4> QED
        BY <3>1, <4>1, <4>2 DEF Runs
    <3>3. CASE CheckOnly
      BY <3>1, <3>3 DEF CheckOnly, Runs
    <3>4. CASE CheckRejected
      BY <3>1, <3>4 DEF CheckRejected, Runs
    <3>5. CASE CheckDownload
      BY <3>1, <3>5 DEF CheckDownload, Runs
    <3> QED
      BY <1>7, <3>2, <3>3, <3>4, <3>5 DEF Check
  <2>2. flash' \in Flash
    BY <1>0, <1>7, FlashType DEF Check, CheckNothing, CheckOnly, CheckRejected, CheckDownload
  <2> QED
    BY <1>7, <2>1, <2>2 DEF Check, CheckNothing, CheckOnly, CheckRejected, CheckDownload,
       scratch, world
<1>8. ASSUME NEW a \in BOOLEAN, CheckFails(a) PROVE TypeOK'
  <2>1. run' \in Runs
    <3> (run.proved \/ a) \in BOOLEAN
      OBVIOUS
    <3> QED
      BY <1>8, RunType DEF CheckFails
  <2> QED
    BY <1>8, <2>1 DEF CheckFails, scratch, world
<1>9. CASE DownloadDone \/ DownloadFails
  <2>1. run' \in Runs
    BY <1>9 DEF DownloadDone, DownloadFails, Runs
  <2>2. flash' \in Flash
    <3>1. CASE DownloadDone
      <4>1. run.want \in Version
        BY <3>1 DEF DownloadDone
      <4>2. [flash EXCEPT ![Target] = Accepted(run.want)] \in Flash
        BY <1>0, <4>1, FlashType DEF Accepted
      <4> QED
        BY <3>1, <4>2 DEF DownloadDone
    <3>2. CASE DownloadFails
      BY <3>2 DEF DownloadFails
    <3> QED
      BY <1>9, <3>1, <3>2
  <2> QED
    BY <1>9, <2>1, <2>2 DEF DownloadDone, DownloadFails, scratch, world
<1>10. CASE RebootDue \/ RebootIntoSlot
  <2>1. reset' \in Resets /\ pc' \in PCs
    BY <1>0, <1>10, ResetType DEF RebootDue, RebootIntoSlot, PCs
  <2> QED
    BY <1>10, <2>1, Basics DEF RebootDue, RebootIntoSlot, scratch, world
<1>11. CASE BuyBegin \/ BuyDone
  <2>1. flash' \in Flash
    <3>1. [flash EXCEPT ![boot.slot] = NoImage] \in Flash
      BY <1>0, FlashType
    <3>2. BuyDoneFlash(flash, boot.slot, boot.ver, boot.eraseOther) \in Flash
      BY <1>0, FlashType
    <3> QED
      BY <1>11, <3>1, <3>2 DEF BuyBegin, BuyDone, BuyErased
  <2>2. boot' \in Boots
    BY <1>11 DEF BuyBegin, BuyDone, Boots
  <2>3. ends' \in 0 .. MaxEnds /\ proven' \in SUBSET Version
    BY <1>0, <1>11, Basics DEF BuyBegin, BuyDone
  <2> QED
    BY <1>11, <2>1, <2>2, <2>3, Basics DEF BuyBegin, BuyDone, scratch, world, PCs
<1>12. CASE BuyError \/ BuyTimeout
  <2>1. run' \in Runs
    BY <1>12, RunType DEF BuyError, BuyTimeout
  <2>2. reset' \in Resets /\ pc' \in PCs
    BY <1>0, <1>12, ResetType DEF BuyError, BuyTimeout
  <2> QED
    BY <1>12, <2>1, <2>2 DEF BuyError, BuyTimeout, scratch, world
<1>13. CASE HealthClear \/ NormalRetry
  <2>1. EncodeState(ForNormalRetry(plan.state)) \in Word
    BY RetryType, StateRoundTrip DEF Plans
  <2>2. ends' \in 0 .. MaxEnds
    BY <1>13, Basics DEF HealthClear, NormalRetry
  <2> QED
    BY <1>13, <2>1, <2>2, Basics DEF HealthClear, NormalRetry, world, PCs
<1>14. CASE RetryReset \/ WebReboot
  <2>1. reset' \in Resets /\ pc' \in PCs
    BY <1>0, <1>14, ResetType DEF RetryReset, WebReboot
  <2> QED
    BY <1>14, <2>1, Basics DEF RetryReset, WebReboot, world
<1>15. CASE Crash
  <2>1. reset' \in Resets /\ pc' \in PCs
    BY <1>0, <1>15, ResetType DEF Crash, CrashRecorded, CrashSilent
  <2>2. ends' \in 0 .. MaxEnds
    BY <1>15, Basics DEF Crash, CrashRecorded, CrashSilent, Ended
  <2>3. trace' \in Traces
    BY <1>15 DEF Crash, CrashRecorded, CrashSilent, Traces, scratch
  <2> QED
    BY <1>15, <2>1, <2>2, <2>3 DEF Crash, CrashRecorded, CrashSilent, scratch, world
<1>16. CASE PowerCut
  <2>1. reset' \in Resets /\ pc' \in PCs
    BY <1>0, <1>16, ResetType DEF PowerCut
  <2>2. ends' \in 0 .. MaxEnds /\ cuts' \in 0 .. MaxCuts
    BY <1>16, Basics, BoardAssumption DEF PowerCut
  <2> QED
    BY <1>16, <2>1, <2>2, Basics DEF PowerCut
<1>17. CASE Publish
  BY <1>17 DEF Publish, scratch
<1>18. CASE UNCHANGED vars
  BY <1>18 DEF vars
<1> QED
  BY <1>1, <1>2, <1>3, <1>4, <1>5, <1>6, <1>7, <1>8, <1>9, <1>10, <1>11, <1>12,
     <1>13, <1>14, <1>15, <1>16, <1>17, <1>18
  DEF Next, RomBoot, Firmware

(* Every variable keeps its type.                                          *)
THEOREM TypeCorrect == Spec => []TypeOK
<1>1. Init => TypeOK
  BY TypeInit
<1>2. TypeOK /\ [Next]_vars => TypeOK'
  BY TypeStep
<1> QED
  BY <1>1, <1>2, PTL DEF Spec

-----------------------------------------------------------------------------
(* The way back.                                                           *)

(* The two slots of a running board, named by the role they have in it.    *)
LEMMA Roles ==
    ASSUME TypeOK
    PROVE  /\ boot.slot \in Slots /\ Target \in Slots /\ Target # boot.slot
           /\ Other(boot.slot) = Target /\ Other(Target) = boot.slot
           /\ \A s \in Slots : s = boot.slot \/ s = Target
           /\ boot.ver \in Version /\ boot.ver \in Nat /\ boot.ver # 0
           /\ boot.pending \in BOOLEAN
BY SlotFacts, VersionAssumption DEF TypeOK, Boots, Target

LEMMA FlashVersions ==
    ASSUME TypeOK, NEW s \in Slots
    PROVE  /\ flash[s].ver \in Nat /\ flash[s].tbyb \in BOOLEAN
           /\ flash[s] = [ver |-> flash[s].ver, tbyb |-> flash[s].tbyb]
           /\ Bought(flash, s) => flash[s].ver \in Version
<1>1. flash[s] \in Image \cup {NoImage}
  BY DEF TypeOK, Flash
<1>2. CASE flash[s] = NoImage
  BY <1>2 DEF NoImage, Bought, Valid
<1>3. CASE flash[s] \in Image
  <2>1. flash[s].ver \in Version /\ flash[s].tbyb \in BOOLEAN
    BY <1>3 DEF Image
  <2>2. flash[s] = [ver |-> flash[s].ver, tbyb |-> flash[s].tbyb]
    BY <1>3 DEF Image
  <2> QED
    BY <2>1, <2>2, VersionAssumption
<1> QED
  BY <1>1, <1>2, <1>3

(* With two slots the newest bought image exists as soon as one is bought. *)
LEMMA PickExists ==
    ASSUME TypeOK, \E s \in Slots : Bought(flash, s)
    PROVE  NormalPick(flash) # {}
<1>1. PICK s \in Slots : Bought(flash, s)
  OBVIOUS
<1>2. Other(s) \in Slots /\ \A t \in Slots : t = s \/ t = Other(s)
  BY SlotFacts
<1>3. flash[s].ver \in Nat /\ flash[Other(s)].ver \in Nat
  BY <1>2, FlashVersions
<1>4. CASE Bought(flash, Other(s)) /\ flash[s].ver < flash[Other(s)].ver
  <2> Other(s) \in NormalPick(flash)
    BY <1>2, <1>3, <1>4 DEF NormalPick
  <2> QED
    OBVIOUS
<1>5. CASE ~(Bought(flash, Other(s)) /\ flash[s].ver < flash[Other(s)].ver)
  <2> s \in NormalPick(flash)
    BY <1>1, <1>2, <1>3, <1>5 DEF NormalPick
  <2> QED
    OBVIOUS
<1> QED
  BY <1>4, <1>5

LEMMA WayBackInit == Init => WayBack
<1> SUFFICES ASSUME Init PROVE WayBack
  OBVIOUS
<1>1. flash["A"] = [ver |-> Initial, tbyb |-> FALSE] /\ flash["B"] = NoImage
  BY DEF Init, Slots
<1>2. Initial \in proven /\ Initial # 0
  BY BoardAssumption, VersionAssumption DEF Init
<1>3. FlashSafe
  BY <1>1, <1>2 DEF FlashSafe, Bought, Valid, NoImage, Slots, Other
<1> QED
  BY <1>3 DEF Init, WayBack, RunSafe, WriteSafe, Running, FreshRun

(* A step that writes no flash and only leaves the run.                    *)
LEMMA WayBackQuiet ==
    ASSUME WayBack, UNCHANGED <<flash, proven>>,
           \/ pc' = "reset"
           \/ /\ Running /\ pc # "buying" /\ Running' /\ pc' # "buying"
              /\ boot' = boot,
           run'.ota = "writing" =>
             run'.ota = run.ota /\ run'.want = run.want /\ boot' = boot
    PROVE  WayBack'
<1>1. FlashSafe'
  BY DEF WayBack, FlashSafe, Bought, Valid
<1>2. WriteSafe'
  BY DEF WayBack, WriteSafe
<1>3. RunSafe'
  BY DEF WayBack, RunSafe, Running, Target, Bought, Valid
<1> QED
  BY <1>1, <1>2, <1>3 DEF WayBack

(* The steps that write a slot, from an ordinary boot to explicit_buy.     *)
LEMMA WayBackUpdateBoot ==
    ASSUME TypeOK, WayBack, NEW s \in Slots, RomUpdateBoot(s)
    PROVE  WayBack'
<1> DEFINE o == Other(s)
<1>1. /\ o \in Slots /\ o # s /\ Other(o) = s
      /\ \A t \in Slots : t = s \/ t = o
  BY SlotFacts
<1>2. /\ flash[s].ver \in Nat /\ flash[o].ver \in Nat /\ flash[s].ver # 0
      /\ flash[s].tbyb \in BOOLEAN
      /\ flash[s] = [ver |-> flash[s].ver, tbyb |-> flash[s].tbyb]
  BY <1>1, FlashVersions DEF RomUpdateBoot, UpdateTo, Valid
<1>3. /\ pc' = "main" /\ run' = FreshRun /\ proven' = proven
      /\ boot'.slot = s /\ boot'.ver = flash[s].ver /\ boot'.pending = flash[s].tbyb
      /\ boot'.eraseOther = EraseAtBuy(flash, s)
      /\ flash'[s] = flash[s]
      /\ flash'[o] = IF FlashUpdateErases(flash, s) THEN NoImage ELSE flash[o]
  BY <1>1 DEF RomUpdateBoot, AfterUpdateBoot, TypeOK, Flash
<1>4. FlashSafe
  BY DEF WayBack
<1>5. EraseAtBuy(flash, s) = FALSE
  BY <1>1, <1>2, <1>4 DEF FlashSafe, EraseAtBuy, OtherNewer, Valid
<1>6. FlashSafe'
  <2>1. CASE FlashUpdateErases(flash, s)
    <3>1. flash'[o] = NoImage /\ flash[s].tbyb = FALSE
      BY <1>2, <1>3, <2>1 DEF FlashUpdateErases
    <3> QED
      BY <1>1, <1>2, <1>3, <1>4, <3>1 DEF FlashSafe, Bought, Valid, NoImage
  <2>2. CASE ~FlashUpdateErases(flash, s)
    BY <1>1, <1>2, <1>3, <1>4, <2>2 DEF FlashSafe, Bought, Valid
  <2> QED
    BY <2>1, <2>2
<1>7. Bought(flash', o) => flash'[o].ver < flash[s].ver
  <2>1. CASE FlashUpdateErases(flash, s)
    BY <1>3, <2>1 DEF Bought, Valid, NoImage
  <2>2. CASE ~FlashUpdateErases(flash, s) /\ flash[s].tbyb = FALSE
    BY <1>1, <1>2, <1>3, <1>4, <2>2
    DEF FlashUpdateErases, OtherNewer, FlashSafe, Bought, Valid
  <2>3. CASE flash[s].tbyb
    BY <1>1, <1>2, <1>3, <1>4, <2>3 DEF FlashUpdateErases, FlashSafe, Bought, Valid
  <2> QED
    BY <1>2, <2>1, <2>2, <2>3
<1>8. RunSafe'
  BY <1>1, <1>2, <1>3, <1>5, <1>7 DEF RunSafe, Target
<1> QED
  BY <1>3, <1>6, <1>8 DEF WayBack, WriteSafe, FreshRun

LEMMA WayBackNormalBoot ==
    ASSUME TypeOK, WayBack, NEW s \in Slots, RomNormalBoot(s)
    PROVE  WayBack'
<1> DEFINE o == Other(s)
<1>1. o \in Slots /\ o # s /\ Other(o) = s
  BY SlotFacts
<1>2. /\ flash[s].ver \in Nat /\ flash[o].ver \in Nat
      /\ flash[s] = [ver |-> flash[s].ver, tbyb |-> flash[s].tbyb]
      /\ flash[s].tbyb \in BOOLEAN
  BY <1>1, FlashVersions
<1>3. Bought(flash, s) /\ (Bought(flash, o) => flash[o].ver <= flash[s].ver)
  BY <1>1 DEF RomNormalBoot, NormalPick
<1>4. /\ pc' = "main" /\ run' = FreshRun /\ proven' = proven /\ flash' = flash
      /\ boot'.slot = s /\ boot'.ver = flash[s].ver /\ boot'.pending = FALSE
      /\ boot'.eraseOther = FALSE
  BY DEF RomNormalBoot
<1>5. FlashSafe /\ FlashSafe'
  BY <1>4 DEF WayBack, FlashSafe, Bought, Valid
<1>6. Bought(flash, o) => flash[o].ver < flash[s].ver
  BY <1>1, <1>2, <1>3, <1>5 DEF FlashSafe
<1>7. RunSafe'
  BY <1>2, <1>3, <1>4, <1>6 DEF RunSafe, Target, Bought, Valid
<1> QED
  BY <1>4, <1>5, <1>7 DEF WayBack, WriteSafe, FreshRun

(* A download writes the other slot, and only beside a bought one.         *)
LEMMA WayBackWrite ==
    ASSUME TypeOK, WayBack, Running, pc # "buying", ~boot.pending,
           NEW x \in Image \cup {NoImage},
           x # NoImage => x.tbyb /\ x.ver > boot.ver,
           flash' = [flash EXCEPT ![Target] = x],
           UNCHANGED <<pc, boot, proven>>,
           run'.ota = "writing" => run'.want > boot.ver
    PROVE  WayBack'
<1>1. /\ boot.slot \in Slots /\ Target \in Slots /\ Target # boot.slot
      /\ Other(boot.slot) = Target /\ Other(Target) = boot.slot
      /\ \A s \in Slots : s = boot.slot \/ s = Target
      /\ boot.ver \in Nat /\ boot.ver # 0 /\ boot.pending = FALSE
  BY Roles
<1>2. flash'[boot.slot] = flash[boot.slot] /\ flash'[Target] = x
  BY <1>1 DEF TypeOK, Flash
<1>3. flash[boot.slot] = [ver |-> boot.ver, tbyb |-> FALSE]
  BY <1>1 DEF WayBack, RunSafe
<1>4. boot.ver \in proven
  BY <1>1, <1>3 DEF WayBack, FlashSafe, Bought, Valid
<1>5. ~(x.ver # 0 /\ ~x.tbyb)
  BY DEF NoImage
<1>6. x.ver # 0 => x.tbyb /\ x.ver > boot.ver
  BY DEF NoImage
<1>7. FlashSafe'
  BY <1>1, <1>2, <1>3, <1>4, <1>5, <1>6 DEF FlashSafe, Bought, Valid
<1>8. RunSafe'
  BY <1>1, <1>2, <1>3, <1>5 DEF WayBack, RunSafe, Target, Bought, Valid
<1> QED
  BY <1>1, <1>7, <1>8 DEF WayBack, WriteSafe, Running

LEMMA WayBackBuy ==
    ASSUME TypeOK, WayBack, BuyBegin \/ BuyDone
    PROVE  WayBack'
<1>1. /\ boot.slot \in Slots /\ Target \in Slots /\ Target # boot.slot
      /\ Other(boot.slot) = Target /\ Other(Target) = boot.slot
      /\ \A s \in Slots : s = boot.slot \/ s = Target
      /\ boot.ver \in Nat /\ boot.ver # 0
  BY Roles
<1>2. FlashSafe /\ RunSafe /\ WriteSafe
  BY DEF WayBack
<1>3. CASE BuyBegin
  <2>1. /\ pc = "normal" /\ pc' = "buying" /\ boot.pending = TRUE
        /\ boot' = boot /\ run' = run /\ proven' = proven
        /\ flash'[boot.slot] = NoImage /\ flash'[Target] = flash[Target]
    BY <1>1, <1>3 DEF BuyBegin, MayBuy, BuyErased, TypeOK, Flash, Boots
  <2>2. flash[boot.slot] = [ver |-> boot.ver, tbyb |-> TRUE]
    BY <1>2, <2>1 DEF RunSafe, Running
  <2>3. Bought(flash, Target) /\ flash[Target].ver < boot.ver /\ flash[Target].ver \in proven
    BY <1>1, <1>2, <2>2 DEF FlashSafe, Valid
  <2>4. FlashSafe'
    BY <1>1, <2>1, <2>3 DEF FlashSafe, Bought, Valid, NoImage
  <2>5. RunSafe'
    BY <1>1, <1>2, <2>1, <2>3 DEF RunSafe, Running, Target, Bought, Valid
  <2> QED
    BY <1>2, <2>1, <2>4, <2>5 DEF WayBack, WriteSafe
<1>4. CASE BuyDone
  <2>1. ~boot.eraseOther /\ boot.pending /\ flash[boot.slot] = NoImage
    BY <1>2, <1>4 DEF BuyDone, RunSafe, Running
  <2>2. /\ pc = "buying" /\ pc' = "normal" /\ run' = run
        /\ proven' = proven \cup {boot.ver}
        /\ flash'[boot.slot] = [ver |-> boot.ver, tbyb |-> FALSE]
        /\ flash'[Target] = flash[Target]
    BY <1>1, <1>4, <2>1 DEF BuyDone, BuyDoneFlash
  <2>3. /\ boot'.slot = boot.slot /\ boot'.ver = boot.ver /\ boot'.pending = FALSE
        /\ boot'.eraseOther = boot.eraseOther
    BY <1>4 DEF BuyDone, TypeOK, Boots
  <2>4. \E s \in Slots : Bought(flash, s)
    BY <1>2 DEF FlashSafe
  <2>5. Bought(flash, Target)
    BY <1>1, <2>1, <2>4 DEF Bought, Valid, NoImage
  <2>6. flash[Target].ver < boot.ver /\ flash[Target].ver \in proven
    BY <1>1, <1>2, <2>2, <2>5 DEF RunSafe, Running, FlashSafe
  <2>7. flash[Target].ver \in Nat
    BY <1>1, FlashVersions
  <2>8. FlashSafe'
    BY <1>1, <2>2, <2>5, <2>6, <2>7 DEF FlashSafe, Bought, Valid
  <2>9. RunSafe'
    BY <1>1, <2>1, <2>2, <2>3, <2>6 DEF RunSafe, Target
  <2>10. WriteSafe'
    BY <1>2, <2>1, <2>2 DEF WriteSafe
  <2> QED
    BY <2>2, <2>8, <2>9, <2>10 DEF WayBack
<1> QED
  BY <1>3, <1>4

LEMMA WayBackStep == TypeOK /\ WayBack /\ [Next]_vars => WayBack'
<1> SUFFICES ASSUME TypeOK, WayBack, [Next]_vars PROVE WayBack'
  OBVIOUS
<1>1. ASSUME NEW s \in Slots, RomUpdateBoot(s) PROVE WayBack'
  BY <1>1, WayBackUpdateBoot
<1>2. ASSUME NEW s \in Slots, RomNormalBoot(s) PROVE WayBack'
  BY <1>2, WayBackNormalBoot
<1>3. CASE Start \/ FallbackMark \/ FallbackReboot \/ RebootDue \/ RebootIntoSlot
  BY <1>3, WayBackQuiet
  DEF Start, FallbackMark, FallbackReboot, RebootDue, RebootIntoSlot, Reset, Running, world,
      scratch
<1>4. CASE Setup \/ PersistProgram
  <2>1. UNCHANGED <<flash, proven, boot>> /\ Running /\ pc # "buying"
        /\ Running' /\ pc' # "buying"
    BY <1>4 DEF Setup, SetupKeepsRecord, SetupErasesRecord, PersistFails, RecoverySetup,
       PersistProgram, Running
  <2>2. run'.ota = run.ota /\ run'.want = run.want
    BY <1>4 DEF Setup, SetupKeepsRecord, SetupErasesRecord, PersistFails, RecoverySetup,
       PersistProgram, TypeOK, Runs
  <2> QED
    BY <2>1, <2>2, WayBackQuiet
<1>5. CASE CheckNothing \/ CheckOnly \/ CheckRejected
  <2>1. run'.ota # "writing"
    BY <1>5 DEF CheckNothing, CheckOnly, CheckRejected, TypeOK, Runs
  <2> QED
    BY <1>5, <2>1, WayBackQuiet
    DEF CheckNothing, CheckOnly, CheckRejected, CheckWorks, MayCheck, Running
<1>6. CASE CheckDownload
  <2>1. /\ Running /\ pc # "buying" /\ ~boot.pending /\ UNCHANGED <<pc, boot, proven>>
        /\ flash' = [flash EXCEPT ![Target] = NoImage]
        /\ run'.want > boot.ver
    BY <1>6 DEF CheckDownload, CheckWorks, MayCheck, ToInstall, Newer, DownloadOk, Running,
       TypeOK, Runs
  <2> QED
    BY <2>1, WayBackWrite
<1>7. ASSUME NEW a \in BOOLEAN, CheckFails(a) PROVE WayBack'
  <2>1. run'.ota # "writing"
    BY <1>7 DEF CheckFails, TypeOK, Runs
  <2> QED
    BY <1>7, <2>1, WayBackQuiet DEF CheckFails, MayCheck, Running
<1>8. CASE DownloadDone
  <2> DEFINE x == Accepted(run.want)
  <2>1. run.want > boot.ver /\ ~boot.pending
    BY <1>8 DEF DownloadDone, WayBack, WriteSafe
  <2>2. run.want \in Version
    BY <1>8 DEF DownloadDone, TypeOK
  <2>3. x \in Image /\ x.tbyb /\ x.ver > boot.ver
    BY <2>1, <2>2 DEF Image, Accepted
  <2>4. run'.ota # "writing"
    BY <1>8 DEF DownloadDone, TypeOK, Runs
  <2>5. /\ Running /\ pc # "buying" /\ UNCHANGED <<pc, boot, proven>>
        /\ flash' = [flash EXCEPT ![Target] = x]
    BY <1>8 DEF DownloadDone, Running
  <2> HIDE DEF x
  <2> QED
    BY <2>1, <2>3, <2>4, <2>5, WayBackWrite
<1>9. CASE DownloadFails
  <2>1. run'.ota # "writing"
    BY <1>9 DEF DownloadFails, TypeOK, Runs
  <2> QED
    BY <1>9, <2>1, WayBackQuiet DEF DownloadFails, Running
<1>10. CASE BuyBegin \/ BuyDone
  BY <1>10, WayBackBuy
<1>11. CASE BuyError
  <2>1. run'.ota = run.ota /\ run'.want = run.want
    BY <1>11 DEF BuyError, TypeOK, Runs
  <2> QED
    BY <1>11, <2>1, WayBackQuiet DEF BuyError, MayBuy, Running
<1>12. CASE HealthClear \/ NormalRetry
  BY <1>12, WayBackQuiet DEF HealthClear, NormalRetry, Running
<1>13. CASE BuyTimeout \/ RetryReset \/ WebReboot \/ Crash \/ PowerCut
  BY <1>13, WayBackQuiet DEF BuyTimeout, RetryReset, WebReboot, Crash, CrashRecorded,
     CrashSilent, PowerCut, Reset
<1>14. CASE Publish \/ UNCHANGED vars
  BY <1>14 DEF Publish, vars, WayBack, FlashSafe, RunSafe, WriteSafe, Running, Target,
     Bought, Valid
<1> QED
  BY <1>1, <1>2, <1>3, <1>4, <1>5, <1>6, <1>7, <1>8, <1>9, <1>10, <1>11, <1>12,
     <1>13, <1>14
  DEF Next, RomBoot, Firmware, Check

(* The layout of the slots that makes every failure recoverable.           *)
THEOREM WayBackHolds == Spec => []WayBack
<1>1. Init => WayBack
  BY WayBackInit
<1>2. TypeOK /\ WayBack /\ [Next]_vars => WayBack'
  BY WayBackStep
<1> QED
  BY <1>1, <1>2, TypeCorrect, PTL DEF Spec

(* No sequence of crashes, hangs and power cuts leaves a board that an     *)
(* ordinary boot cannot start.                                             *)
THEOREM NeverBricked == Spec => []AlwaysBootable
<1>1. TypeOK /\ WayBack => AlwaysBootable
  BY PickExists DEF WayBack, FlashSafe, AlwaysBootable
<1> QED
  BY <1>1, TypeCorrect, WayBackHolds, PTL

-----------------------------------------------------------------------------
(* The counts.                                                             *)

(* A trial runs in normal mode: it is neither in recovery mode nor giving  *)
(* itself up.                                                              *)
TrialMode ==
    Running /\ pc # "main" /\ boot.pending =>
        /\ plan.mode = "normal"
        /\ pc \notin {"recovery", "fallback", "fallback_reboot", "retry"}

LEMMA TrialPlan ==
    ASSUME TypeOK, Start, boot.pending
    PROVE  plan'.mode = "normal" /\ plan'.write = FALSE
BY DEF Start, Decide, BootInputs

LEMMA TrialModeStep == TypeOK /\ TrialMode /\ [Next]_vars => TrialMode'
<1> SUFFICES ASSUME TypeOK, TrialMode, [Next]_vars PROVE TrialMode'
  OBVIOUS
<1>1. CASE RomBoot
  BY <1>1 DEF RomBoot, RomUpdateBoot, RomNormalBoot, TrialMode, Running
<1>2. CASE Start
  BY <1>2, TrialPlan DEF Start, TrialMode, Running
<1>3. CASE FallbackMark \/ FallbackReboot \/ RebootDue \/ RebootIntoSlot
  BY <1>3 DEF FallbackMark, FallbackReboot, RebootDue, RebootIntoSlot, Reset, TrialMode,
     Running
<1>4. CASE Setup \/ PersistProgram
  BY <1>4 DEF Setup, SetupKeepsRecord, SetupErasesRecord, PersistFails, RecoverySetup,
     PersistProgram, TrialMode, Running
<1>5. CASE Check
  BY <1>5 DEF Check, CheckNothing, CheckOnly, CheckRejected, CheckDownload, TrialMode,
     Running
<1>6. ASSUME NEW a \in BOOLEAN, CheckFails(a) PROVE TrialMode'
  BY <1>6 DEF CheckFails, TrialMode, Running
<1>7. CASE DownloadDone \/ DownloadFails
  BY <1>7 DEF DownloadDone, DownloadFails, TrialMode, Running
<1>8. CASE BuyBegin
  BY <1>8 DEF BuyBegin, MayBuy, TrialMode, Running
<1>9. CASE BuyDone
  BY <1>9 DEF BuyDone, TrialMode, Running, TypeOK, Boots
<1>10. CASE BuyError \/ BuyTimeout
  BY <1>10 DEF BuyError, BuyTimeout, MayBuy, Reset, TrialMode, Running
<1>11. CASE HealthClear \/ NormalRetry
  BY <1>11 DEF HealthClear, NormalRetry, TrialMode, Running
<1>12. CASE RetryReset \/ WebReboot \/ Crash \/ PowerCut
  BY <1>12 DEF RetryReset, WebReboot, Crash, CrashRecorded, CrashSilent, PowerCut, Reset,
     TrialMode, Running
<1>13. CASE Publish \/ UNCHANGED vars
  BY <1>13 DEF Publish, vars, TrialMode, Running
<1> QED
  BY <1>1, <1>2, <1>3, <1>4, <1>5, <1>6, <1>7, <1>8, <1>9, <1>10, <1>11, <1>12, <1>13
  DEF Next, Firmware

LEMMA TrialModeHolds == Spec => []TrialMode
<1>1. Init => TrialMode
  BY DEF Init, TrialMode, Running
<1>2. TypeOK /\ TrialMode /\ [Next]_vars => TrialMode'
  BY TrialModeStep
<1> QED
  BY <1>1, <1>2, TypeCorrect, PTL DEF Spec

KeepsCounts ==
    boot.pending /\ pc # "reset" /\ cuts' = cuts /\ scratch1' # scratch1
      => Bought(flash', boot.slot) /\ flash'[boot.slot].ver = boot.ver

LEMMA KeepsCountsStep ==
    ASSUME TypeOK, TrialMode, Next
    PROVE  KeepsCounts
<1> SUFFICES ASSUME boot.pending, pc # "reset", cuts' = cuts, scratch1' # scratch1
             PROVE  Bought(flash', boot.slot) /\ flash'[boot.slot].ver = boot.ver
  BY DEF KeepsCounts
<1>1. CASE BuyDone
  <2>1. flash'[boot.slot] = [ver |-> boot.ver, tbyb |-> FALSE]
    BY <1>1, Roles DEF BuyDone, BuyDoneFlash
  <2> QED
    BY <2>1, Roles DEF Bought, Valid
<1>2. ~RomBoot
  BY DEF RomBoot, RomUpdateBoot, RomNormalBoot
<1>3. ~Start
  BY TrialPlan DEF Start
<1>4. ~(FallbackMark \/ FallbackReboot \/ RebootDue \/ RebootIntoSlot)
  BY DEF FallbackMark, FallbackReboot, RebootDue, RebootIntoSlot, scratch
<1>5. ~(Setup \/ PersistProgram)
  BY DEF Setup, SetupKeepsRecord, SetupErasesRecord, PersistFails, RecoverySetup,
     PersistProgram, scratch
<1>6. ~Check /\ ~(\E a \in BOOLEAN : CheckFails(a)) /\ ~DownloadDone /\ ~DownloadFails
  BY DEF Check, CheckNothing, CheckOnly, CheckRejected, CheckDownload, CheckFails,
     DownloadDone, DownloadFails, scratch
<1>7. ~(BuyBegin \/ BuyError \/ BuyTimeout)
  BY DEF BuyBegin, BuyError, BuyTimeout, scratch
<1>8. ~(HealthClear \/ NormalRetry)
  BY DEF HealthClear, NormalRetry, TrialMode, Running
<1>9. ~(RetryReset \/ WebReboot \/ Crash \/ Publish)
  BY DEF RetryReset, WebReboot, Crash, CrashRecorded, CrashSilent, Publish, scratch
<1>10. ~PowerCut
  BY DEF PowerCut, TypeOK
<1> QED
  BY <1>1, <1>2, <1>3, <1>4, <1>5, <1>6, <1>7, <1>8, <1>9, <1>10 DEF Next, Firmware

(* Whatever a version does before it is bought, the counts in SCRATCH1     *)
(* stay those of the version it may roll back to.                          *)
THEOREM TrialKeepsCountsHolds == Spec => TrialKeepsCounts
<1>1. TypeOK /\ TrialMode /\ [Next]_vars => [KeepsCounts]_vars
  BY KeepsCountsStep
<1>2. [][KeepsCounts]_vars => TrialKeepsCounts
  BY DEF KeepsCounts, TrialKeepsCounts
<1> QED
  BY <1>1, <1>2, TypeCorrect, TrialModeHolds, PTL DEF Spec

-----------------------------------------------------------------------------
(* The refinement.                                                         *)

LEMMA PickIs ==
    ASSUME NEW f, NEW s \in Slots, Bought(f, s), f[s].ver \in Nat,
           Bought(f, Other(s)) => f[Other(s)].ver < f[s].ver /\ f[Other(s)].ver \in Nat
    PROVE  (CHOOSE t \in NormalPick(f) : TRUE) = s
<1>1. Other(s) \in Slots /\ Other(s) # s /\ \A t \in Slots : t = s \/ t = Other(s)
  BY SlotFacts
<1>2. NormalPick(f) = {s}
  BY <1>1 DEF NormalPick
<1> QED
  BY <1>2

(* While a bought version runs it is the confirmed one; during a trial the *)
(* confirmed one is in the other slot.                                     *)
LEMMA ConfirmedRunning ==
    TypeOK /\ WayBack /\ Running /\ ~boot.pending => ConfirmedVersion = boot.ver
<1> SUFFICES ASSUME TypeOK, WayBack, Running, ~boot.pending
             PROVE  ConfirmedVersion = boot.ver
  OBVIOUS
<1>1. /\ boot.slot \in Slots /\ Target \in Slots /\ Other(boot.slot) = Target
      /\ boot.ver \in Nat /\ boot.ver # 0 /\ boot.pending = FALSE
  BY Roles
<1>2. flash[boot.slot] = [ver |-> boot.ver, tbyb |-> FALSE]
  BY <1>1 DEF WayBack, RunSafe
<1>3. Bought(flash, boot.slot) /\ flash[boot.slot].ver = boot.ver
  BY <1>1, <1>2 DEF Bought, Valid
<1>4. Bought(flash, Target) => flash[Target].ver < boot.ver /\ flash[Target].ver \in Nat
  BY <1>1, FlashVersions DEF WayBack, RunSafe
<1>5. (CHOOSE t \in NormalPick(flash) : TRUE) = boot.slot
  BY <1>1, <1>3, <1>4, PickIs
<1> QED
  BY <1>3, <1>5 DEF ConfirmedVersion

LEMMA ConfirmedRunningNext ==
    TypeOK' /\ WayBack' /\ Running' /\ ~boot'.pending => ConfirmedVersion' = boot'.ver
<1>1. (TypeOK /\ WayBack /\ Running /\ ~boot.pending => ConfirmedVersion = boot.ver)'
  BY ConfirmedRunning, PTL
<1> QED
  BY <1>1

LEMMA ConfirmedBeside ==
    ASSUME TypeOK, WayBack, NEW s \in Slots, ~Bought(flash, s)
    PROVE  /\ ConfirmedVersion = flash[Other(s)].ver
           /\ (CHOOSE t \in NormalPick(flash) : TRUE) = Other(s)
           /\ Bought(flash, Other(s))
           /\ flash[Other(s)].ver \in Nat
<1>1. Other(s) \in Slots /\ Other(Other(s)) = s /\ \A t \in Slots : t = s \/ t = Other(s)
  BY SlotFacts
<1>2. Bought(flash, Other(s))
  BY <1>1 DEF WayBack, FlashSafe
<1>3. flash[Other(s)].ver \in Nat
  BY <1>1, FlashVersions
<1>4. (CHOOSE t \in NormalPick(flash) : TRUE) = Other(s)
  BY <1>1, <1>2, <1>3, PickIs
<1> QED
  BY <1>2, <1>3, <1>4 DEF ConfirmedVersion

LEMMA RefineInit == Init => Abstract!Init
<1> SUFFICES ASSUME Init PROVE Abstract!Init
  OBVIOUS
<1>1. flash["A"] = [ver |-> Initial, tbyb |-> FALSE] /\ flash["B"] = NoImage
  BY DEF Init, Slots
<1>2. Initial \in Version /\ Initial \in Nat /\ Initial # 0
  BY BoardAssumption, VersionAssumption
<1>3. (CHOOSE t \in NormalPick(flash) : TRUE) = "A"
  BY <1>1, <1>2, PickIs DEF Slots, Other, Bought, Valid, NoImage
<1>4. ConfirmedVersion = Initial
  <2>1. flash["A"].ver = Initial
    BY <1>1
  <2> QED
    BY <1>3, <2>1 DEF ConfirmedVersion
<1> QED
  BY <1>2, <1>4 DEF Init, Abstract!Init, Abstract!NoTrial, TrialVersion

(* A step of one boot that writes no slot.                                 *)
LEMMA RefineQuiet ==
    ASSUME UNCHANGED <<flash, boot, proven>>, pc # "reset", pc' # "reset"
    PROVE  UNCHANGED Abstract!vars
BY DEF Abstract!vars, ConfirmedVersion, TrialVersion

(* A reset ends the trial, if there is one.                                *)
LEMMA RefineReset ==
    ASSUME TypeOK, UNCHANGED <<flash, boot, proven>>, pc # "reset", pc' = "reset"
    PROVE  [Abstract!Next]_(Abstract!vars)
<1>1. ConfirmedVersion' = ConfirmedVersion /\ TrialVersion' = 0
  BY DEF ConfirmedVersion, TrialVersion
<1>2. CASE boot.pending
  <2>1. TrialVersion # 0
    BY <1>2, Roles DEF TrialVersion
  <2> QED
    BY <1>1, <2>1 DEF Abstract!Next, Abstract!Abort, Abstract!NoTrial
<1>3. CASE ~boot.pending
  BY <1>1, <1>3 DEF TrialVersion, Abstract!vars
<1> QED
  BY <1>2, <1>3

LEMMA RefineUpdateBoot ==
    ASSUME TypeOK, WayBack, TypeOK', WayBack', NEW s \in Slots, RomUpdateBoot(s)
    PROVE  [Abstract!Next]_(Abstract!vars)
<1> DEFINE o == Other(s)
<1>1. /\ o \in Slots /\ o # s /\ Other(o) = s
      /\ \A t \in Slots : t = s \/ t = o
  BY SlotFacts
<1>2. /\ flash[s].ver \in Nat /\ flash[o].ver \in Nat /\ flash[s].ver # 0
      /\ flash[s].tbyb \in BOOLEAN /\ Valid(flash, s)
      /\ flash[s].ver \in Version
  BY <1>1, FlashVersions, FlashType DEF RomUpdateBoot, UpdateTo, Valid, TypeOK
<1>3. /\ pc = "reset" /\ pc' = "main" /\ proven' = proven
      /\ boot'.ver = flash[s].ver /\ boot'.pending = flash[s].tbyb
      /\ flash' = AfterUpdateBoot(flash, s)
  BY DEF RomUpdateBoot
<1>4. TrialVersion = 0 /\ TrialVersion' = IF flash[s].tbyb THEN flash[s].ver ELSE 0
  BY <1>3 DEF TrialVersion
<1>5. CASE flash[s].tbyb
  <2>1. flash' = flash
    BY <1>3, <1>5 DEF AfterUpdateBoot, FlashUpdateErases
  <2>2. ~Bought(flash, s)
    BY <1>5 DEF Bought
  <2>3. ConfirmedVersion' = ConfirmedVersion
    BY <2>1 DEF ConfirmedVersion
  <2>4. ConfirmedVersion = flash[o].ver
    BY <2>2, ConfirmedBeside
  <2>5. flash[o].ver < flash[s].ver
    BY <1>2, <1>5 DEF WayBack, FlashSafe
  <2>6. Abstract!StartTrial(flash[s].ver)
    BY <1>2, <1>3, <1>4, <1>5, <2>3, <2>4, <2>5 DEF Abstract!StartTrial, Abstract!NoTrial
  <2> QED
    BY <1>2, <2>6 DEF Abstract!Next
<1>6. CASE ~flash[s].tbyb
  <2>1. Bought(flash, s) /\ flash[s].ver \in proven
    BY <1>2, <1>6 DEF WayBack, FlashSafe, Bought
  <2>2. TrialVersion' = 0
    BY <1>4, <1>6
  <2>3. ConfirmedVersion' = flash[s].ver
    BY <1>2, <1>3, <1>6, ConfirmedRunningNext DEF Running
  <2>4. CASE Bought(flash, o) /\ flash[o].ver > flash[s].ver
    <3>1. ConfirmedVersion = flash[o].ver
      <4>1. (CHOOSE t \in NormalPick(flash) : TRUE) = o
        BY <1>1, <1>2, <2>4, PickIs
      <4> QED
        BY <4>1 DEF ConfirmedVersion
    <3>2. Abstract!FallBack(flash[s].ver)
      BY <1>2, <1>3, <1>4, <2>1, <2>2, <2>3, <2>4, <3>1 DEF Abstract!FallBack, Abstract!NoTrial
    <3> QED
      BY <1>2, <3>2 DEF Abstract!Next
  <2>5. CASE ~(Bought(flash, o) /\ flash[o].ver > flash[s].ver)
    <3>1. Bought(flash, o) => flash[o].ver < flash[s].ver
      BY <1>1, <1>2, <2>1, <2>5 DEF WayBack, FlashSafe
    <3>2. (CHOOSE t \in NormalPick(flash) : TRUE) = s
      BY <1>1, <1>2, <2>1, <3>1, PickIs
    <3>3. ConfirmedVersion = flash[s].ver
      BY <3>2 DEF ConfirmedVersion
    <3> QED
      BY <1>3, <1>4, <2>2, <2>3, <3>3 DEF Abstract!vars
  <2> QED
    BY <2>4, <2>5
<1> QED
  BY <1>2, <1>5, <1>6

(* The slot a download writes is not the one that is confirmed.            *)
LEMMA RefineWrite ==
    ASSUME TypeOK, WayBack, TypeOK', WayBack', UNCHANGED <<pc, boot, proven>>,
           Running, ~boot.pending
    PROVE  UNCHANGED Abstract!vars
<1>1. ConfirmedVersion = boot.ver
  BY ConfirmedRunning
<1>2. ConfirmedVersion' = boot.ver
  BY ConfirmedRunningNext DEF Running
<1> QED
  BY <1>1, <1>2 DEF TrialVersion, Abstract!vars

LEMMA RefineBuy ==
    ASSUME TypeOK, WayBack, TypeOK', WayBack', BuyBegin \/ BuyDone
    PROVE  [Abstract!Next]_(Abstract!vars)
<1>1. /\ boot.slot \in Slots /\ Target \in Slots /\ Target # boot.slot
      /\ Other(boot.slot) = Target /\ boot.ver \in Nat /\ boot.ver # 0
      /\ boot.ver \in Version
  BY Roles
<1>2. CASE BuyBegin
  <2>1. /\ pc = "normal" /\ pc' = "buying" /\ boot.pending = TRUE /\ boot' = boot
        /\ proven' = proven /\ flash'[boot.slot] = NoImage
        /\ flash'[Target] = flash[Target]
    BY <1>1, <1>2 DEF BuyBegin, MayBuy, BuyErased, TypeOK, Flash, Boots
  <2>2. ~Bought(flash, boot.slot)
    BY <2>1 DEF WayBack, RunSafe, Running, Bought
  <2>3. ConfirmedVersion = flash[Target].ver /\ Bought(flash, Target)
        /\ flash[Target].ver \in Nat
    BY <1>1, <2>2, ConfirmedBeside
  <2>4. Bought(flash', Target) /\ ~Bought(flash', boot.slot)
    BY <2>1, <2>3 DEF Bought, Valid, NoImage
  <2>5. (CHOOSE t \in NormalPick(flash') : TRUE) = Target
    BY <1>1, <2>1, <2>3, <2>4, PickIs DEF Target, Slots, Other
  <2>6. ConfirmedVersion' = ConfirmedVersion
    BY <2>1, <2>3, <2>5 DEF ConfirmedVersion
  <2> QED
    BY <2>1, <2>6 DEF TrialVersion, Abstract!vars
<1>3. CASE BuyDone
  <2>1. boot.pending /\ pc = "buying" /\ pc' = "normal" /\ proven' = proven \cup {boot.ver}
    BY <1>3 DEF BuyDone, WayBack, RunSafe, Running
  <2>2. boot'.ver = boot.ver /\ boot'.pending = FALSE
    BY <1>3 DEF BuyDone, TypeOK, Boots
  <2>3. TrialVersion = boot.ver /\ TrialVersion' = 0
    BY <2>1, <2>2 DEF TrialVersion
  <2>4. ConfirmedVersion' = boot.ver
    BY <2>1, <2>2, ConfirmedRunningNext DEF Running
  <2> QED
    BY <1>1, <2>1, <2>3, <2>4 DEF Abstract!Next, Abstract!Commit, Abstract!NoTrial
<1> QED
  BY <1>2, <1>3

LEMMA RefineStep ==
    ASSUME TypeOK, WayBack, TypeOK', WayBack', [Next]_vars
    PROVE  [Abstract!Next]_(Abstract!vars)
<1>1. ASSUME NEW s \in Slots, RomUpdateBoot(s) PROVE [Abstract!Next]_(Abstract!vars)
  BY <1>1, RefineUpdateBoot
<1>2. ASSUME NEW s \in Slots, RomNormalBoot(s) PROVE UNCHANGED Abstract!vars
  BY <1>2 DEF RomNormalBoot, Abstract!vars, ConfirmedVersion, TrialVersion
<1>3. CASE Start \/ FallbackMark \/ RebootDue
  BY <1>3, RefineQuiet DEF Start, FallbackMark, RebootDue, world, scratch
<1>4. CASE Setup \/ PersistProgram
  BY <1>4, RefineQuiet DEF Setup, SetupKeepsRecord, SetupErasesRecord, PersistFails,
     RecoverySetup, PersistProgram
<1>5. CASE CheckNothing \/ CheckOnly \/ CheckRejected
  BY <1>5, RefineQuiet DEF CheckNothing, CheckOnly, CheckRejected, CheckWorks, MayCheck
<1>6. CASE CheckDownload
  BY <1>6, RefineWrite DEF CheckDownload, CheckWorks, MayCheck, DownloadOk, Running
<1>7. ASSUME NEW a \in BOOLEAN, CheckFails(a) PROVE UNCHANGED Abstract!vars
  BY <1>7, RefineQuiet DEF CheckFails, MayCheck
<1>8. CASE DownloadDone
  BY <1>8, RefineWrite DEF DownloadDone, WayBack, WriteSafe, Running
<1>9. CASE DownloadFails
  BY <1>9, RefineQuiet DEF DownloadFails
<1>10. CASE BuyBegin \/ BuyDone
  BY <1>10, RefineBuy
<1>11. CASE BuyError \/ HealthClear \/ NormalRetry
  BY <1>11, RefineQuiet DEF BuyError, MayBuy, HealthClear, NormalRetry
<1>12. CASE FallbackReboot \/ RebootIntoSlot \/ BuyTimeout \/ RetryReset \/ WebReboot
            \/ Crash
  BY <1>12, RefineReset DEF FallbackReboot, RebootIntoSlot, BuyTimeout, MayBuy, RetryReset,
     WebReboot, Crash, CrashRecorded, CrashSilent, Reset
<1>13. CASE PowerCut
  <2>1. CASE pc = "reset"
    BY <1>13, <2>1 DEF PowerCut, Reset, Abstract!vars, ConfirmedVersion, TrialVersion
  <2>2. CASE pc # "reset"
    BY <1>13, <2>2, RefineReset DEF PowerCut, Reset
  <2> QED
    BY <2>1, <2>2
<1>14. CASE Publish \/ UNCHANGED vars
  BY <1>14 DEF Publish, vars, Abstract!vars, ConfirmedVersion, TrialVersion
<1> QED
  BY <1>1, <1>2, <1>3, <1>4, <1>5, <1>6, <1>7, <1>8, <1>9, <1>10, <1>11, <1>12,
     <1>13, <1>14
  DEF Next, RomBoot, Firmware, Check

(* The two slots, the boot ROM and the firmware together implement the     *)
(* update of AbUpdate: the confirmed version changes only by committing a  *)
(* newer version after its trial or by falling back to a proven older one. *)
THEOREM Refinement == Spec => ImplementsAbUpdate
<1>1. Init => Abstract!Init
  BY RefineInit
<1>2. TypeOK /\ WayBack /\ TypeOK' /\ WayBack' /\ [Next]_vars
        => [Abstract!Next]_(Abstract!vars)
  BY RefineStep
<1> QED
  BY <1>1, <1>2, TypeCorrect, WayBackHolds, PTL
  DEF Spec, ImplementsAbUpdate, Abstract!Spec

-----------------------------------------------------------------------------
(* The trace and the fallback mark keep four bits of a major number.       *)
MajorsFit == \A v \in Version : v < 16 * HALFWORD

-----------------------------------------------------------------------------
(* The counts are earned: by as many abnormal ends as they claim.          *)
EarnedBy(s, n) ==
    /\ s.in_recovery => /\ n >= RECOVERY_AFTER
                        /\ \A k \in 1 .. FALLBACK_AFTER : s.rec >= k => n >= RECOVERY_AFTER + k
    /\ ~s.in_recovery => s.rec = 0 /\ s.crash <= n

(* A state after one more end that counts.                                 *)
Bumped(s) == IF s.in_recovery THEN [s EXCEPT !.rec = SatInc(s.rec)]
             ELSE [s EXCEPT !.crash = SatInc(s.crash)]

CountsEarned ==
    LET s == DecodeState(scratch1)
    IN EarnedBy(s, ends) /\ (~s.in_recovery => s.crash < RECOVERY_AFTER)

(* A record of a bought version that the next boot may count is of an end  *)
(* that was counted.                                                       *)
EndIsCounted ==
    /\ pc = "main" /\ boot.update => ~trace.armed
    /\ /\ pc = "main" \/ (pc = "reset" /\ reset.kind # "update")
       /\ trace.armed
       /\ \E s \in Slots : Bought(flash, s) /\ flash[s].ver = trace.ver
       => EarnedBy(Bumped(DecodeState(scratch1)), ends)

TraceIsOwn == Running /\ pc # "main" /\ trace.armed => trace.ver = boot.ver

(* What each stretch of a boot implies of the plan.                        *)
PlanOfPlace ==
    /\ pc \in {"normal", "persist", "buying"} => plan.mode = "normal"
    /\ pc \in {"recovery", "retry"} => plan.mode = "recovery"
    /\ pc \in {"fallback", "fallback_reboot"} => plan.mode = "fallback"
    /\ pc \in {"main", "setup", "persist"} => run.ota # "writing"

-----------------------------------------------------------------------------
(* The mark of a version that gave itself up.                              *)
MarkOf(v) == IsMarker(scratch0) /\ MarkerVersion(scratch0) = v

MarkIsEarned ==
    IsMarker(scratch0) => pc \in {"fallback_reboot", "reset", "main"} /\ ends >= MaxEnds

(* While it travels from the version that made it to the one that reads    *)
(* it, its version is in the other slot, newer, and gone in the end.       *)
MarkIsTrue ==
    IsMarker(scratch0) =>
      LET v == MarkerVersion(scratch0)
      IN /\ pc = "fallback_reboot" => boot.ver = v /\ ~boot.pending
         /\ pc = "reset" /\ reset.kind = "update" =>
              /\ flash[Other(reset.slot)] = [ver |-> v, tbyb |-> FALSE]
              /\ Bought(flash, reset.slot) => flash[reset.slot].ver < v
         /\ pc = "main" /\ boot.update /\ ~boot.pending /\ v # boot.ver =>
              \A s \in Slots : flash[s].ver # v

(* The blocked version on its way from the plan through the memory of this *)
(* boot to the record.                                                     *)
OutOfSlots(v) == v # 0 => \A s \in Slots : flash[s].ver # v

BlockedIsOut ==
    /\ OutOfSlots(record)
    /\ pc = "setup" => OutOfSlots(plan.fell_back_from)
    /\ pc = "persist" => OutOfSlots(run.blocked)
    /\ pc \in {"persist", "normal", "recovery", "buying"} => record <= run.blocked
    /\ pc = "buying" => record # boot.ver
    /\ pc \in {"normal", "recovery"} /\ run.ota = "writing" /\ record # 0 => run.want # record

PlanInv ==
    /\ CountsEarned /\ EndIsCounted /\ TraceIsOwn /\ PlanOfPlace /\ PlanEarned
    /\ MarkIsEarned /\ MarkIsTrue /\ BlockedIsOut

-----------------------------------------------------------------------------
(* Facts about versions, states and the counts they claim.                 *)

LEMMA PlainTrace ==
    ASSUME NEW v \in Nat, v < 16 * HALFWORD
    PROVE  TraceVersion(v) = v
<1> DEFINE major == v \div HALFWORD
<1>1. major \in Nat /\ major < 16 /\ v = major * HALFWORD + (v % HALFWORD)
  BY SMT DEF HALFWORD
<1>2. major % 16 = major
  BY <1>1, SMT
<1> QED
  BY <1>1, <1>2 DEF TraceVersion

LEMMA ZeroFacts ==
    /\ DecodeState(ZeroWord) = DefaultState
    /\ ~IsMarker(ZeroWord)
    /\ DecodeState(EncodeState(DefaultState)) = DefaultState
<1>1. DecodeState(ZeroWord) = DefaultState
  BY DEF DecodeState, ZeroWord, STATE_MAGIC, LEGACY_TOP
<1>2. ~IsMarker(ZeroWord)
  BY DEF IsMarker, ZeroWord, MARKER_MAGIC
<1> QED
  BY <1>1, <1>2, StateRoundTrip, DefaultType

LEMMA EarnedMonotone ==
    ASSUME NEW s \in BootState, NEW n \in Nat, NEW m \in Nat, n <= m, EarnedBy(s, n)
    PROVE  EarnedBy(s, m)
BY DEF EarnedBy, BootState, Byte, RECOVERY_AFTER, FALLBACK_AFTER

LEMMA NothingEarned ==
    ASSUME NEW n \in Nat
    PROVE  EarnedBy(DefaultState, n) /\ DefaultState.crash < RECOVERY_AFTER
BY DEF EarnedBy, DefaultState, RECOVERY_AFTER

(* One end more earns one count more; at the bound of the history every    *)
(* count is earned already.                                                *)
LEMMA OneMoreEnd ==
    ASSUME NEW s \in BootState, NEW n \in 0 .. MaxEnds, EarnedBy(s, n),
           ~s.in_recovery => s.crash < RECOVERY_AFTER
    PROVE  EarnedBy(Bumped(s), IF n = MaxEnds THEN n ELSE n + 1)
<1> DEFINE m == IF n = MaxEnds THEN n ELSE n + 1
<1>1. MaxEnds = 5 /\ m \in Nat /\ n <= m /\ (m = n + 1 \/ m = 5)
  BY Basics
<1>2. s.crash \in Nat /\ s.rec \in Nat /\ s.in_recovery \in BOOLEAN
  BY DEF BootState, Byte
<1>3. StreakMax \in Nat /\ StreakMax >= 3
  BY StreakMaxAssumption DEF FALLBACK_AFTER
<1> HIDE DEF m
<1>4. CASE s.in_recovery
  <2>1. Bumped(s).in_recovery = TRUE /\ Bumped(s).rec = SatInc(s.rec)
    BY <1>4 DEF Bumped, BootState
  <2>2. SatInc(s.rec) \in Nat /\ SatInc(s.rec) <= s.rec + 1
    BY <1>2, <1>3 DEF SatInc
  <2>3. n >= 2 /\ \A k \in 1 .. 3 : s.rec >= k => n >= 2 + k
    BY <1>4 DEF EarnedBy, RECOVERY_AFTER, FALLBACK_AFTER
  <2>4. \A k \in 1 .. 3 : SatInc(s.rec) >= k => m >= 2 + k
    <3> SUFFICES ASSUME NEW k \in 1 .. 3, SatInc(s.rec) >= k PROVE m >= 2 + k
      OBVIOUS
    <3>1. CASE k = 1
      BY <1>1, <2>3, <3>1
    <3>2. CASE k # 1
      <4>1. k - 1 \in 1 .. 3 /\ s.rec >= k - 1
        BY <1>2, <2>2, <3>2
      <4>2. n >= 2 + (k - 1)
        BY <2>3, <4>1
      <4> QED
        BY <1>1, <4>2
    <3> QED
      BY <3>1, <3>2
  <2> QED
    BY <1>1, <2>1, <2>3, <2>4 DEF EarnedBy, RECOVERY_AFTER, FALLBACK_AFTER, m
<1>5. CASE ~s.in_recovery
  <2>1. /\ Bumped(s).in_recovery = FALSE /\ Bumped(s).rec = s.rec
        /\ Bumped(s).crash = SatInc(s.crash)
    BY <1>2, <1>5 DEF Bumped, BootState
  <2>2. s.rec = 0 /\ s.crash <= n /\ s.crash < 2
    BY <1>5 DEF EarnedBy, RECOVERY_AFTER
  <2>3. SatInc(s.crash) <= m
    BY <1>1, <1>2, <1>3, <2>2 DEF SatInc
  <2> QED
    BY <2>1, <2>2, <2>3 DEF EarnedBy, m
<1> QED
  BY <1>4, <1>5

(* What decide concludes from counts that are earned, and what it writes.  *)
LEMMA DecideEarned ==
    ASSUME NEW inp \in Inputs, ~inp.pending, NEW n \in Nat, EarnedBy(Counted(inp), n)
    PROVE  /\ EarnedBy(Decide(inp).state, n)
           /\ ~Decide(inp).state.in_recovery => Decide(inp).state.crash < RECOVERY_AFTER
           /\ Decide(inp).mode = "recovery" => n >= RECOVERY_AFTER
           /\ Decide(inp).mode = "fallback" => n >= RECOVERY_AFTER + FALLBACK_AFTER
<1> DEFINE s == Counted(inp)
           m == ModeOf(s, inp.other_known)
<1>1. s \in BootState
  BY CountedType
<1>2. s.crash \in Nat /\ s.rec \in Nat /\ s.in_recovery \in BOOLEAN /\ EarnedBy(s, n)
  BY <1>1 DEF BootState, Byte
<1>3. /\ Decide(inp).mode = m
      /\ Decide(inp).state.crash = s.crash
      /\ Decide(inp).state.rec = (IF m = "fallback" THEN 0 ELSE s.rec)
      /\ Decide(inp).state.in_recovery = (m # "normal")
  BY DEF Decide
<1>4. /\ m = "normal" => s.crash < 2 /\ ~s.in_recovery
      /\ m # "normal" => s.crash >= 2 \/ s.in_recovery
      /\ m = "fallback" => s.rec >= 3
      /\ m \in {"normal", "recovery", "fallback"}
  BY <1>2 DEF ModeOf, RECOVERY_AFTER, FALLBACK_AFTER
<1> HIDE DEF s, m
<1>5. m # "normal" => n >= 2
  BY <1>2, <1>4 DEF EarnedBy, RECOVERY_AFTER
<1>6. m = "fallback" => n >= 5
  BY <1>2, <1>4 DEF EarnedBy, RECOVERY_AFTER, FALLBACK_AFTER
<1>7. \A k \in 1 .. 3 : s.rec >= k => n >= 2 + k
  BY <1>2 DEF EarnedBy, RECOVERY_AFTER, FALLBACK_AFTER
<1>8. CASE m = "normal"
  BY <1>2, <1>3, <1>4, <1>8 DEF EarnedBy, RECOVERY_AFTER
<1>9. CASE m # "normal"
  <2>1. Decide(inp).state.in_recovery = TRUE
    BY <1>3, <1>9
  <2>2. n >= 2
    BY <1>5, <1>9
  <2>3. \A k \in 1 .. 3 : Decide(inp).state.rec >= k => n >= 2 + k
    BY <1>2, <1>3, <1>7
  <2>4. EarnedBy(Decide(inp).state, n)
    BY <2>1, <2>2, <2>3 DEF EarnedBy, RECOVERY_AFTER, FALLBACK_AFTER
  <2> QED
    BY <1>3, <1>6, <2>1, <2>2, <2>4 DEF RECOVERY_AFTER, FALLBACK_AFTER
<1> QED
  BY <1>3, <1>4, <1>5, <1>6, <1>8, <1>9 DEF RECOVERY_AFTER, FALLBACK_AFTER

-----------------------------------------------------------------------------
(* The counts.                                                             *)

LEMMA PlanInit == Init => PlanInv
<1> SUFFICES ASSUME Init PROVE PlanInv
  OBVIOUS
<1>1. /\ scratch0 = ZeroWord /\ scratch1 = ZeroWord /\ trace.armed = FALSE /\ record = 0
      /\ pc = "reset" /\ reset.kind = "hw" /\ ends = 0
  BY DEF Init, NoTrace
<1>2. CountsEarned
  BY <1>1, ZeroFacts, NothingEarned DEF CountsEarned, DefaultState
<1>3. MarkIsEarned /\ MarkIsTrue
  BY <1>1, ZeroFacts DEF MarkIsEarned, MarkIsTrue
<1> QED
  BY <1>1, <1>2, <1>3 DEF PlanInv, EndIsCounted, TraceIsOwn, PlanOfPlace, PlanEarned,
     BlockedIsOut, OutOfSlots, Running

(* The counts a bought boot starts from are earned.                        *)
LEMMA StartEarned ==
    ASSUME TypeOK, TypeOK', WayBack, PlanInv, Start, ~boot.pending
    PROVE  EarnedBy(Counted(BootInputs), ends')
<1> DEFINE d == DecodeState(scratch1)
<1>1. d \in BootState /\ ends \in Nat /\ ends' \in Nat /\ boot.update \in BOOLEAN
  BY DecodeType, Basics DEF TypeOK, Boots
<1>2. EarnedBy(d, ends) /\ (~d.in_recovery => d.crash < RECOVERY_AFTER)
  BY DEF PlanInv, CountsEarned
<1>3. /\ BootInputs.hw_reset = (reset.kind = "hw") /\ BootInputs.update = boot.update
      /\ BootInputs.trace = trace /\ BootInputs.own = boot.ver
      /\ BootInputs.state = scratch1 /\ BootInputs.marker = scratch0
  BY DEF BootInputs
<1>4. CASE reset.kind = "hw"
  BY <1>1, <1>3, <1>4, NothingEarned DEF Counted, Counts, Inherited
<1>5. CASE reset.kind # "hw" /\ boot.update /\ MarkedBy(BootInputs, boot.ver)
  <2>1. ends' = ends /\ ends >= 5
    BY <1>3, <1>5, Basics DEF Start, StartsOver, PlanInv, MarkIsEarned, MarkedBy
  <2>2. Counted(BootInputs) = [d EXCEPT !.fell_back = TRUE, !.rec = 0,
                                        !.crash = AtLeast(d.crash, RECOVERY_AFTER)]
    BY <1>3, <1>5 DEF Counted, Counts, Inherited
  <2> DEFINE c == Counted(BootInputs)
  <2>3. /\ c.in_recovery = d.in_recovery /\ c.rec = 0
        /\ c.crash = AtLeast(d.crash, RECOVERY_AFTER)
    BY <1>1, <2>2 DEF BootState
  <2>4. ~d.in_recovery => c.crash = 2
    BY <1>1, <1>2, <2>3 DEF AtLeast, RECOVERY_AFTER, BootState, Byte
  <2> HIDE DEF c
  <2>5. EarnedBy(c, ends)
    BY <1>1, <2>1, <2>3, <2>4 DEF EarnedBy, RECOVERY_AFTER, FALLBACK_AFTER
  <2> QED
    BY <2>1, <2>5 DEF c
<1>6. CASE reset.kind # "hw" /\ boot.update /\ ~MarkedBy(BootInputs, boot.ver)
  BY <1>1, <1>3, <1>6, NothingEarned DEF Counted, Counts, Inherited
<1>7. CASE reset.kind # "hw" /\ ~boot.update
  <2>1. ends' = ends
    BY <1>7 DEF Start, StartsOver
  <2>2. Counted(BootInputs) = IF IsFault(BootInputs) THEN Bumped(d) ELSE d
    BY <1>3, <1>7 DEF Counted, Counts, Inherited, Bumped
  <2>3. IsFault(BootInputs) => EarnedBy(Bumped(d), ends)
    <3> SUFFICES ASSUME IsFault(BootInputs) PROVE EarnedBy(Bumped(d), ends)
      OBVIOUS
    <3>1. pc = "main" /\ trace.armed /\ trace.ver = boot.ver
      BY <1>3 DEF IsFault, Start
    <3>2. Bought(flash, boot.slot) /\ flash[boot.slot].ver = boot.ver /\ boot.slot \in Slots
      BY <3>1, Roles DEF WayBack, RunSafe, Running, Bought, Valid
    <3> QED
      BY <3>1, <3>2 DEF PlanInv, EndIsCounted
  <2> QED
    BY <1>2, <2>1, <2>2, <2>3
<1> QED
  BY <1>1, <1>4, <1>5, <1>6, <1>7

LEMMA CountsQuiet ==
    ASSUME TypeOK, TypeOK', CountsEarned, scratch1' = scratch1, ends <= ends'
    PROVE  CountsEarned'
<1>1. DecodeState(scratch1) \in BootState /\ ends \in Nat /\ ends' \in Nat
  BY DecodeType, Basics DEF TypeOK
<1> QED
  BY <1>1, EarnedMonotone DEF CountsEarned

LEMMA EndedGrows ==
    ASSUME TypeOK, Ended
    PROVE  ends <= ends' /\ (~boot.pending => ends' = IF ends = MaxEnds THEN ends ELSE ends + 1)
BY Basics DEF TypeOK, Ended

LEMMA CountsStep ==
    ASSUME TypeOK, TypeOK', WayBack, PlanInv, [Next]_vars
    PROVE  CountsEarned'
<1>0. CountsEarned /\ ends \in Nat /\ ends <= ends
  BY Basics DEF PlanInv, TypeOK
<1>1. CASE RomBoot
  BY <1>0, <1>1, CountsQuiet DEF RomBoot, RomUpdateBoot, RomNormalBoot
<1>2. CASE Start
  <2>1. CASE boot.pending
    <3>1. scratch1' = scratch1 /\ ends' = ends
      BY <1>2, <2>1 DEF Start, Decide, BootInputs, StartsOver
    <3> QED
      BY <1>0, <3>1, CountsQuiet
  <2>2. CASE ~boot.pending
    <3> DEFINE st == Decide(BootInputs).state
    <3>1. BootInputs \in Inputs /\ ~BootInputs.pending /\ ends' \in Nat
      BY <2>2, InputsType, Basics DEF BootInputs, TypeOK
    <3>2. EarnedBy(Counted(BootInputs), ends')
      BY <1>2, <2>2, StartEarned
    <3>3. EarnedBy(st, ends') /\ (~st.in_recovery => st.crash < RECOVERY_AFTER)
      BY <3>1, <3>2, DecideEarned
    <3>4. Decide(BootInputs).write /\ st \in BootState
      BY <3>1, DecideFacts DEF Plans
    <3>5. scratch1' = EncodeState(st)
      BY <1>2, <3>4 DEF Start
    <3>6. DecodeState(scratch1') = st
      BY <3>4, <3>5, StateRoundTrip
    <3> QED
      BY <3>3, <3>6 DEF CountsEarned
  <2> QED
    BY <2>1, <2>2
<1>3. CASE FallbackMark \/ FallbackReboot \/ RebootDue \/ RebootIntoSlot \/ BuyTimeout
          \/ RetryReset \/ WebReboot
  BY <1>0, <1>3, CountsQuiet
  DEF FallbackMark, FallbackReboot, RebootDue, RebootIntoSlot, BuyTimeout, RetryReset,
      WebReboot, scratch
<1>4. CASE Setup \/ PersistProgram
  BY <1>0, <1>4, CountsQuiet
  DEF Setup, SetupKeepsRecord, SetupErasesRecord, PersistFails, RecoverySetup,
      PersistProgram, scratch
<1>5. CASE Check \/ (\E a \in BOOLEAN : CheckFails(a)) \/ DownloadDone \/ DownloadFails
  BY <1>0, <1>5, CountsQuiet
  DEF Check, CheckNothing, CheckOnly, CheckRejected, CheckDownload, CheckFails,
      DownloadDone, DownloadFails, scratch
<1>6. CASE BuyBegin \/ BuyError
  BY <1>0, <1>6, CountsQuiet DEF BuyBegin, BuyError, scratch
<1>7. CASE BuyDone \/ HealthClear
  <2>1. scratch1' = EncodeState(DefaultState) /\ ends' = 0
    BY <1>7 DEF BuyDone, HealthClear
  <2> QED
    BY <2>1, ZeroFacts, NothingEarned DEF CountsEarned
<1>8. CASE NormalRetry
  <2> DEFINE st == ForNormalRetry(plan.state)
  <2>1. plan.mode = "recovery" /\ pc \notin {"reset", "main"}
    BY <1>8 DEF NormalRetry, PlanInv, PlanOfPlace
  <2>2. ends >= 2 /\ ends' = ends
    BY <1>8, <2>1 DEF NormalRetry, PlanInv, PlanEarned, RECOVERY_AFTER
  <2>3. st \in BootState
    BY RetryType DEF TypeOK, Plans
  <2>4. DecodeState(scratch1') = st
    BY <1>8, <2>3, StateRoundTrip DEF NormalRetry
  <2>5. st.in_recovery = FALSE /\ st.rec = 0 /\ st.crash = 1
    BY DEF ForNormalRetry, RECOVERY_AFTER
  <2> HIDE DEF st
  <2> QED
    BY <1>0, <2>2, <2>4, <2>5 DEF CountsEarned, EarnedBy, RECOVERY_AFTER
<1>9. CASE Crash
  BY <1>0, <1>9, CountsQuiet, EndedGrows DEF Crash, CrashRecorded, CrashSilent, scratch
<1>10. CASE PowerCut
  <2>1. scratch1' = ZeroWord /\ ends' = 0
    BY <1>10 DEF PowerCut
  <2> QED
    BY <2>1, ZeroFacts, NothingEarned DEF CountsEarned
<1>11. CASE Publish \/ UNCHANGED vars
  BY <1>0, <1>11, CountsQuiet DEF Publish, vars, scratch
<1> QED
  BY <1>1, <1>2, <1>3, <1>4, <1>5, <1>6, <1>7, <1>8, <1>9, <1>10, <1>11 DEF Next, Firmware

LEMMA BumpedType ==
    ASSUME NEW s \in BootState
    PROVE  Bumped(s) \in BootState
<1>1. \A n \in Byte : SatInc(n) \in Byte
  BY StreakMaxAssumption DEF SatInc, Byte, FALLBACK_AFTER
<1> QED
  BY <1>1 DEF Bumped, BootState

(* A step that leaves the record of the run and the way of the reset alone. *)
LEMMA CountableQuiet ==
    ASSUME TypeOK, TypeOK', EndIsCounted, scratch1' = scratch1, ends <= ends',
           pc' = pc, flash' = flash, UNCHANGED <<trace, reset, boot>>
    PROVE  EndIsCounted'
<1>1. Bumped(DecodeState(scratch1)) \in BootState /\ ends \in Nat /\ ends' \in Nat
  BY DecodeType, BumpedType, Basics DEF TypeOK
<1> QED
  BY <1>1, EarnedMonotone DEF EndIsCounted, Bought, Valid

LEMMA EndIsCountedStep ==
    ASSUME TypeOK, TypeOK', WayBack, PlanInv, [Next]_vars
    PROVE  EndIsCounted'
<1> DEFINE d == DecodeState(scratch1)
<1>0. /\ EndIsCounted /\ CountsEarned /\ ends \in 0 .. MaxEnds /\ ends \in Nat /\ ends <= ends
      /\ d \in BootState /\ Bumped(d) \in BootState
  BY Basics, DecodeType, BumpedType DEF PlanInv, TypeOK
<1>1. ASSUME NEW s \in Slots, RomUpdateBoot(s) PROVE EndIsCounted'
  BY <1>1 DEF RomUpdateBoot, EndIsCounted, NoTrace
<1>2. ASSUME NEW s \in Slots, RomNormalBoot(s) PROVE EndIsCounted'
  <2>1. CASE reset.kind = "update"
    BY <1>2, <2>1 DEF RomNormalBoot, EndIsCounted, NoTrace
  <2>2. CASE reset.kind # "update"
    BY <1>0, <1>2, <2>2 DEF RomNormalBoot, EndIsCounted, Bought, Valid
  <2> QED
    BY <2>1, <2>2
<1>3. CASE pc' \notin {"reset", "main"}
  BY <1>3 DEF EndIsCounted
<1>4. CASE FallbackReboot \/ RebootIntoSlot
  BY <1>4 DEF FallbackReboot, RebootIntoSlot, Reset, EndIsCounted
<1>5. CASE RetryReset \/ WebReboot \/ PowerCut
  BY <1>5 DEF RetryReset, WebReboot, PowerCut, Reset, EndIsCounted, NoTrace
<1>6. CASE BuyTimeout
  <2>1. /\ pc = "normal" /\ boot.pending /\ pc' = "reset"
        /\ UNCHANGED <<flash, trace, boot>>
    BY <1>6 DEF BuyTimeout, MayBuy, Reset, scratch
  <2>2. trace.armed => trace.ver = boot.ver
    BY <2>1 DEF PlanInv, TraceIsOwn, Running
  <2>3. \A s \in Slots : ~(Bought(flash, s) /\ flash[s].ver = boot.ver)
    <3>1. flash[boot.slot].tbyb /\ (Bought(flash, Target) => flash[Target].ver < boot.ver)
      BY <2>1 DEF WayBack, RunSafe, Running
    <3> QED
      BY <3>1, Roles DEF Bought
  <2> QED
    BY <2>1, <2>2, <2>3 DEF EndIsCounted, Bought, Valid
<1>7. CASE Crash
  <2>1. /\ UNCHANGED <<flash, scratch1, boot>> /\ pc' = "reset" /\ pc # "reset"
        /\ Ended /\ trace'.armed = trace.armed /\ trace'.ver = trace.ver
    BY <1>7 DEF Crash, CrashRecorded, CrashSilent, Reset, scratch, TypeOK, Traces
  <2>2. ends' \in Nat /\ ends <= ends'
    BY <2>1, EndedGrows, Basics DEF TypeOK
  <2>3. CASE ~boot.pending
    <3>1. ends' = IF ends = MaxEnds THEN ends ELSE ends + 1
      BY <2>1, <2>3, EndedGrows
    <3>2. EarnedBy(Bumped(d), ends')
      BY <1>0, <3>1, OneMoreEnd DEF CountsEarned
    <3> QED
      BY <2>1, <3>2 DEF EndIsCounted
  <2>4. CASE boot.pending /\ pc # "main"
    <3>1. trace.armed => trace.ver = boot.ver
      BY <2>1, <2>4 DEF PlanInv, TraceIsOwn, Running
    <3>2. \A s \in Slots : ~(Bought(flash, s) /\ flash[s].ver = boot.ver)
      <4>1. /\ pc # "buying" => flash[boot.slot].tbyb
            /\ pc = "buying" => ~Valid(flash, boot.slot)
            /\ Bought(flash, Target) => flash[Target].ver < boot.ver
        BY <2>1, <2>4 DEF WayBack, RunSafe, Running, Valid, NoImage
      <4> QED
        BY <4>1, Roles DEF Bought
    <3> QED
      BY <2>1, <3>1, <3>2 DEF EndIsCounted, Bought, Valid
  <2>5. CASE boot.pending /\ pc = "main"
    <3>1. SUFFICES ASSUME trace.armed,
                          \E s \in Slots : Bought(flash, s) /\ flash[s].ver = trace.ver
                   PROVE  EarnedBy(Bumped(d), ends')
      BY <2>1 DEF EndIsCounted, Bought, Valid
    <3>2. EarnedBy(Bumped(d), ends)
      BY <1>0, <2>5, <3>1 DEF EndIsCounted
    <3> QED
      BY <1>0, <2>2, <3>2, EarnedMonotone
  <2> QED
    BY <2>3, <2>4, <2>5
<1>8. CASE Publish \/ UNCHANGED vars
  BY <1>0, <1>8, CountableQuiet DEF Publish, vars, scratch
<1>9. CASE Start
  BY <1>3, <1>9 DEF Start
<1>10. CASE Setup \/ PersistProgram
  BY <1>3, <1>10 DEF Setup, SetupKeepsRecord, SetupErasesRecord, PersistFails, RecoverySetup,
     PersistProgram
<1>11. CASE FallbackMark \/ RebootDue \/ BuyBegin \/ BuyDone \/ NormalRetry
  BY <1>3, <1>11 DEF FallbackMark, RebootDue, BuyBegin, BuyDone, NormalRetry
<1>12. CASE Check \/ (\E a \in BOOLEAN : CheckFails(a))
  BY <1>3, <1>12 DEF Check, CheckNothing, CheckOnly, CheckRejected, CheckDownload,
     CheckWorks, CheckFails, MayCheck
<1>13. CASE DownloadDone \/ DownloadFails \/ BuyError \/ HealthClear
  BY <1>3, <1>13 DEF DownloadDone, DownloadFails, BuyError, HealthClear, MayBuy
<1> QED
  BY <1>1, <1>2, <1>4, <1>5, <1>6, <1>7, <1>8, <1>9, <1>10, <1>11, <1>12, <1>13
  DEF Next, RomBoot, Firmware

LEMMA TraceIsOwnStep ==
    ASSUME TypeOK, PlanInv, MajorsFit, [Next]_vars
    PROVE  TraceIsOwn'
<1>0. TraceIsOwn
  BY DEF PlanInv
<1>1. CASE RomBoot
  BY <1>1 DEF RomBoot, RomUpdateBoot, RomNormalBoot, TraceIsOwn
<1>2. CASE Start
  <2>1. TraceVersion(boot.ver) = boot.ver
    BY Roles, PlainTrace DEF MajorsFit
  <2> QED
    BY <1>2, <2>1 DEF Start, TraceIsOwn
<1>3. CASE FallbackMark \/ Setup \/ PersistProgram \/ Check \/ DownloadDone \/ DownloadFails
          \/ (\E a \in BOOLEAN : CheckFails(a))
  <2>1. UNCHANGED <<trace, boot>> /\ pc \notin {"reset", "main"}
    BY <1>3 DEF FallbackMark, Setup, SetupKeepsRecord, SetupErasesRecord, PersistFails,
       RecoverySetup, PersistProgram, Check, CheckNothing, CheckOnly, CheckRejected,
       CheckDownload, CheckWorks, CheckFails, MayCheck, DownloadDone, DownloadFails, scratch
  <2> QED
    BY <1>0, <2>1 DEF TraceIsOwn, Running
<1>4. CASE BuyBegin \/ BuyDone \/ BuyError \/ HealthClear \/ NormalRetry
  <2>1. trace' = trace /\ boot'.ver = boot.ver /\ pc \notin {"reset", "main"}
    BY <1>4 DEF BuyBegin, BuyDone, BuyError, HealthClear, NormalRetry, MayBuy, scratch,
       TypeOK, Boots
  <2> QED
    BY <1>0, <2>1 DEF TraceIsOwn, Running
<1>5. CASE FallbackReboot \/ RebootIntoSlot \/ BuyTimeout \/ RetryReset \/ WebReboot
          \/ Crash \/ PowerCut
  BY <1>5 DEF FallbackReboot, RebootIntoSlot, BuyTimeout, RetryReset, WebReboot, Crash,
     CrashRecorded, CrashSilent, PowerCut, Reset, TraceIsOwn, Running
<1>6. CASE RebootDue
  BY <1>6 DEF RebootDue, TraceIsOwn, NoTrace
<1>7. CASE Publish \/ UNCHANGED vars
  BY <1>0, <1>7 DEF Publish, vars, scratch, TraceIsOwn, Running
<1> QED
  BY <1>1, <1>2, <1>3, <1>4, <1>5, <1>6, <1>7 DEF Next, Firmware

(* The plan stays what Decide said while the boot goes its way.            *)
LEMMA PlanStep ==
    ASSUME TypeOK, TypeOK', WayBack, TrialMode, PlanInv, [Next]_vars
    PROVE  PlanOfPlace' /\ PlanEarned'
<1>0. PlanOfPlace /\ PlanEarned
  BY DEF PlanInv
<1>1. CASE RomBoot
  <2>1. pc' = "main" /\ run' = FreshRun
    BY <1>1 DEF RomBoot, RomUpdateBoot, RomNormalBoot
  <2> QED
    BY <2>1 DEF PlanOfPlace, PlanEarned, FreshRun
<1>2. CASE Start
  <2>0. /\ plan' = Decide(BootInputs) /\ run' = run /\ pc = "main"
        /\ pc' = IF plan'.mode = "fallback" THEN "fallback" ELSE "setup"
    BY <1>2 DEF Start
  <2>1. PlanOfPlace'
    BY <1>0, <2>0 DEF PlanOfPlace
  <2>2. ASSUME boot.pending PROVE PlanEarned'
    BY <2>0, <2>2 DEF Decide, BootInputs, PlanEarned
  <2>3. ASSUME ~boot.pending PROVE PlanEarned'
    <3>1. BootInputs \in Inputs /\ ~BootInputs.pending /\ ends' \in Nat
      BY <2>3, InputsType, Basics DEF BootInputs, TypeOK
    <3>2. EarnedBy(Counted(BootInputs), ends')
      BY <1>2, <2>3, StartEarned
    <3> QED
      BY <2>0, <3>1, <3>2, DecideEarned DEF PlanEarned
  <2> QED
    BY <2>1, <2>2, <2>3 DEF PlanOfPlace
<1>3. CASE FallbackMark \/ RebootDue \/ NormalRetry
  <2>1. /\ UNCHANGED <<plan, run, ends>> /\ pc \notin {"reset", "main"}
        /\ pc' \notin {"normal", "persist", "buying", "recovery", "fallback", "main", "setup"}
        /\ pc' = "retry" => pc = "recovery"
        /\ pc' = "fallback_reboot" => pc = "fallback"
    BY <1>3 DEF FallbackMark, RebootDue, NormalRetry
  <2> QED
    BY <1>0, <2>1 DEF PlanOfPlace, PlanEarned
<1>4. CASE Setup \/ PersistProgram
  <2>1. /\ UNCHANGED <<plan, ends>>
        /\ \/ pc = "setup" /\ plan.mode = "normal" /\ pc' \in {"normal", "persist"}
           \/ pc = "setup" /\ plan.mode = "recovery" /\ pc' = "recovery"
           \/ pc = "persist" /\ pc' = "normal"
    <3>1. CASE PersistFails
      BY <3>1 DEF PersistFails
    <3>2. CASE SetupKeepsRecord \/ SetupErasesRecord \/ RecoverySetup \/ PersistProgram
      BY <3>2 DEF SetupKeepsRecord, SetupErasesRecord, RecoverySetup, PersistProgram
    <3> QED
      BY <1>4, <3>1, <3>2 DEF Setup
  <2>2. run'.ota = run.ota
    BY <1>4 DEF Setup, SetupKeepsRecord, SetupErasesRecord, PersistFails, RecoverySetup,
       PersistProgram, TypeOK, Runs
  <2> QED
    BY <1>0, <2>1, <2>2 DEF PlanOfPlace, PlanEarned
<1>5. CASE Check \/ (\E a \in BOOLEAN : CheckFails(a)) \/ DownloadDone \/ DownloadFails
  <2>1. UNCHANGED <<plan, ends, pc>> /\ pc \in {"normal", "recovery"}
    BY <1>5 DEF Check, CheckNothing, CheckOnly, CheckRejected, CheckDownload, CheckWorks,
       CheckFails, MayCheck, DownloadDone, DownloadFails
  <2> QED
    BY <1>0, <2>1 DEF PlanOfPlace, PlanEarned
<1>6. CASE BuyBegin \/ BuyError
  <2>1. UNCHANGED <<plan, ends>> /\ pc = "normal" /\ pc' \in {"normal", "buying"}
    BY <1>6 DEF BuyBegin, BuyError, MayBuy
  <2> QED
    BY <1>0, <2>1 DEF PlanOfPlace, PlanEarned
<1>7. CASE BuyDone \/ HealthClear
  <2>1. plan' = plan /\ pc \in {"normal", "buying"} /\ pc' = "normal"
    BY <1>7 DEF BuyDone, HealthClear
  <2> QED
    BY <1>0, <2>1 DEF PlanOfPlace, PlanEarned
<1>8. CASE pc' = "reset"
  BY <1>8 DEF PlanOfPlace, PlanEarned
<1>9. CASE FallbackReboot \/ RebootIntoSlot \/ BuyTimeout \/ RetryReset \/ WebReboot
          \/ Crash \/ PowerCut
  BY <1>8, <1>9 DEF FallbackReboot, RebootIntoSlot, BuyTimeout, RetryReset, WebReboot, Crash,
     CrashRecorded, CrashSilent, PowerCut, Reset
<1>10. CASE Publish \/ UNCHANGED vars
  BY <1>0, <1>10 DEF Publish, vars, PlanOfPlace, PlanEarned
<1> QED
  BY <1>1, <1>2, <1>3, <1>4, <1>5, <1>6, <1>7, <1>9, <1>10 DEF Next, Firmware

-----------------------------------------------------------------------------
(* The mark.                                                               *)

LEMMA MarkUpdateBoot ==
    ASSUME TypeOK, PlanInv, NEW s \in Slots, RomUpdateBoot(s)
    PROVE  MarkIsTrue'
<1> DEFINE v == MarkerVersion(scratch0)
           o == Other(s)
<1>1. /\ reset.kind = "update" /\ reset.slot = s /\ Valid(flash, s) /\ pc = "reset"
      /\ scratch0' = scratch0 /\ pc' = "main"
      /\ boot'.ver = flash[s].ver /\ boot'.pending = flash[s].tbyb
      /\ flash' = AfterUpdateBoot(flash, s)
  BY DEF RomUpdateBoot, UpdateTo
<1>2. /\ o \in Slots /\ o # s /\ \A t \in Slots : t = s \/ t = o
      /\ flash[s].ver \in Nat /\ flash[s].tbyb \in BOOLEAN /\ flash[o].ver \in Nat
  BY SlotFacts, FlashVersions
<1>3. SUFFICES ASSUME IsMarker(scratch0), ~flash[s].tbyb
               PROVE  \A t \in Slots : flash'[t].ver # v
  BY <1>1 DEF MarkIsTrue
<1>4. flash[o] = [ver |-> v, tbyb |-> FALSE] /\ flash[s].ver < v
  BY <1>1, <1>3 DEF PlanInv, MarkIsTrue, Bought
<1>5. FlashUpdateErases(flash, s)
  BY <1>1, <1>2, <1>3, <1>4 DEF FlashUpdateErases, OtherNewer, Valid
<1>6. flash'[o] = NoImage /\ flash'[s] = flash[s]
  BY <1>1, <1>2, <1>5 DEF AfterUpdateBoot, TypeOK, Flash
<1> QED
  BY <1>2, <1>4, <1>6 DEF NoImage

LEMMA MarkStep ==
    ASSUME TypeOK, TypeOK', WayBack, TrialMode, PlanInv, MajorsFit, [Next]_vars
    PROVE  MarkIsEarned' /\ MarkIsTrue'
<1>0. MarkIsEarned /\ MarkIsTrue
  BY DEF PlanInv
<1>1. ASSUME NEW s \in Slots, RomUpdateBoot(s) PROVE MarkIsEarned' /\ MarkIsTrue'
  BY <1>0, <1>1, MarkUpdateBoot DEF RomUpdateBoot, MarkIsEarned
<1>2. ASSUME NEW s \in Slots, RomNormalBoot(s) PROVE MarkIsEarned' /\ MarkIsTrue'
  <2>1. /\ pc = "reset" /\ pc' = "main" /\ UNCHANGED <<scratch0, flash, ends, reset>>
        /\ boot'.update = (reset.kind = "update") /\ boot'.ver = flash[s].ver
        /\ Bought(flash, s)
    BY <1>2 DEF RomNormalBoot, NormalPick
  <2>2. MarkIsEarned'
    BY <1>0, <2>1 DEF MarkIsEarned
  <2>3. IsMarker(scratch0) /\ reset.kind = "update" => flash[s].ver = MarkerVersion(scratch0)
    <3> SUFFICES ASSUME IsMarker(scratch0), reset.kind = "update"
                 PROVE  flash[s].ver = MarkerVersion(scratch0)
      OBVIOUS
    <3>1. reset.slot \in Slots /\ ~Valid(flash, reset.slot)
      BY <1>2 DEF RomNormalBoot, NoUpdate, UpdateTo, TypeOK, Resets
    <3>2. s = Other(reset.slot)
      BY <2>1, <3>1, SlotFacts DEF Bought
    <3> QED
      BY <1>0, <2>1, <3>2 DEF MarkIsTrue
  <2> QED
    BY <2>1, <2>2, <2>3 DEF MarkIsTrue
<1>3. CASE Start \/ PowerCut
  BY <1>3, ZeroFacts DEF Start, PowerCut, MarkIsEarned, MarkIsTrue
<1>4. CASE FallbackMark
  <2>1. /\ scratch0' = FallbackMarker(boot.ver) /\ pc = "fallback" /\ pc' = "fallback_reboot"
        /\ boot' = boot /\ ends' = ends
    BY <1>4 DEF FallbackMark
  <2>2. ends >= MaxEnds
    BY <2>1 DEF PlanInv, PlanOfPlace, PlanEarned, MaxEnds
  <2>3. MarkerVersion(scratch0') = boot.ver
    BY <2>1, Roles, MarkerRoundTrip DEF MajorsFit
  <2>4. ~boot.pending
    BY <2>1 DEF TrialMode, Running
  <2> QED
    BY <2>1, <2>2, <2>3, <2>4 DEF MarkIsEarned, MarkIsTrue
<1>5. CASE FallbackReboot
  <2>1. /\ pc = "fallback_reboot" /\ pc' = "reset" /\ reset' = [kind |-> "update", slot |-> Target]
        /\ UNCHANGED <<scratch0, flash, boot, ends>>
    BY <1>5 DEF FallbackReboot, Reset, scratch
  <2>2. MarkIsEarned'
    BY <1>0, <2>1 DEF MarkIsEarned
  <2>3. IsMarker(scratch0) => MarkerVersion(scratch0) = boot.ver /\ boot.pending = FALSE
    BY <1>0, <2>1, Roles DEF MarkIsTrue
  <2>4. /\ flash[boot.slot] = [ver |-> boot.ver, tbyb |-> boot.pending]
        /\ Bought(flash, Target) => flash[Target].ver < boot.ver
    BY <2>1 DEF WayBack, RunSafe, Running
  <2> QED
    BY <2>1, <2>2, <2>3, <2>4, Roles DEF MarkIsTrue, Bought, Valid
<1>6. ASSUME scratch0' = scratch0, pc \notin {"fallback_reboot", "reset", "main"}
      PROVE  MarkIsEarned' /\ MarkIsTrue'
  BY <1>0, <1>6 DEF MarkIsEarned, MarkIsTrue
<1>7. CASE Setup \/ PersistProgram \/ Check \/ (\E a \in BOOLEAN : CheckFails(a))
          \/ DownloadDone \/ DownloadFails
  BY <1>6, <1>7 DEF Setup, SetupKeepsRecord, SetupErasesRecord, PersistFails, RecoverySetup,
     PersistProgram, Check, CheckNothing, CheckOnly, CheckRejected, CheckDownload, CheckWorks,
     CheckFails, MayCheck, DownloadDone, DownloadFails, scratch
<1>8. CASE RebootDue \/ RebootIntoSlot \/ BuyBegin \/ BuyDone \/ BuyError \/ BuyTimeout
          \/ HealthClear \/ NormalRetry \/ RetryReset \/ WebReboot
  BY <1>6, <1>8 DEF RebootDue, RebootIntoSlot, BuyBegin, BuyDone, BuyError, BuyTimeout, MayBuy,
     HealthClear, NormalRetry, RetryReset, WebReboot, scratch
<1>9. CASE Crash
  <2>1. scratch0' = scratch0 /\ pc' = "reset" /\ reset'.kind \in {"force", "timer"} /\ Ended
    BY <1>9 DEF Crash, CrashRecorded, CrashSilent, Reset, scratch
  <2>2. ends <= ends' /\ ends \in Nat /\ ends' \in Nat /\ MaxEnds \in Nat
    BY <2>1, EndedGrows, Basics DEF TypeOK
  <2>3. MarkIsEarned'
    BY <1>0, <2>1, <2>2 DEF MarkIsEarned
  <2> QED
    BY <2>1, <2>3 DEF MarkIsTrue
<1>10. CASE Publish \/ UNCHANGED vars
  BY <1>0, <1>10 DEF Publish, vars, scratch, MarkIsEarned, MarkIsTrue, Bought, Valid
<1> QED
  BY <1>1, <1>2, <1>3, <1>4, <1>5, <1>7, <1>8, <1>9, <1>10 DEF Next, RomBoot, Firmware

-----------------------------------------------------------------------------
(* The blocked version.                                                    *)

(* A step that only empties slots keeps out what is out.                   *)
LEMMA OutStays ==
    ASSUME NEW v, OutOfSlots(v),
           \A s \in Slots : flash'[s].ver = flash[s].ver \/ flash'[s].ver = 0
    PROVE  v # 0 => \A s \in Slots : flash'[s].ver # v
BY DEF OutOfSlots

LEMMA BlockedStart ==
    ASSUME TypeOK, PlanInv, Start
    PROVE  OutOfSlots(plan'.fell_back_from)
<1> DEFINE v == FellBackFrom(BootInputs)
<1>1. plan'.fell_back_from = IF boot.pending THEN 0 ELSE v
  BY DEF Start, Decide, BootInputs
<1>2. v # 0 /\ ~boot.pending =>
        /\ pc = "main" /\ boot.update /\ IsMarker(scratch0)
        /\ v = MarkerVersion(scratch0) /\ v # boot.ver
  BY DEF FellBackFrom, BootInputs, Start
<1> HIDE DEF v
<1> QED
  BY <1>1, <1>2 DEF PlanInv, MarkIsTrue, OutOfSlots

LEMMA BlockedSetup ==
    ASSUME TypeOK, PlanInv, Setup \/ PersistProgram
    PROVE  BlockedIsOut'
<1>0. /\ OutOfSlots(record) /\ record \in Nat /\ run.blocked \in Nat
      /\ plan.fell_back_from \in Nat
      /\ pc = "setup" => OutOfSlots(plan.fell_back_from)
      /\ pc = "persist" => OutOfSlots(run.blocked) /\ record <= run.blocked
      /\ pc \in {"setup", "persist"} => run.ota # "writing"
  BY DEF PlanInv, BlockedIsOut, PlanOfPlace, TypeOK, Runs, Plans
<1>1. /\ NewBlocked \in Nat /\ record <= NewBlocked
      /\ pc = "setup" => OutOfSlots(NewBlocked)
  BY <1>0 DEF NewBlocked, AtLeast
<1>2. flash' = flash /\ plan' = plan /\ boot' = boot /\ run'.ota = run.ota
  BY DEF Setup, SetupKeepsRecord, SetupErasesRecord, PersistFails, RecoverySetup,
     PersistProgram, TypeOK, Runs
<1>3. OutOfSlots(0)
  BY DEF OutOfSlots
<1>4. CASE SetupKeepsRecord
  <2>1. pc = "setup" /\ pc' = "normal" /\ record' = record /\ run'.blocked = record
    BY <1>4 DEF SetupKeepsRecord, TypeOK, Runs
  <2> QED
    BY <1>0, <1>2, <2>1 DEF BlockedIsOut, OutOfSlots
<1>5. CASE SetupErasesRecord
  <2>1. pc = "setup" /\ pc' = "persist" /\ record' = 0 /\ run'.blocked = NewBlocked
    BY <1>5 DEF SetupErasesRecord, TypeOK, Runs
  <2> QED
    BY <1>0, <1>1, <1>2, <1>3, <2>1 DEF BlockedIsOut, OutOfSlots
<1>6. CASE PersistFails
  <2>1. /\ pc \in {"setup", "persist"} /\ pc' = "normal" /\ record' = record
        /\ run'.blocked = IF pc = "setup" THEN NewBlocked ELSE run.blocked
    BY <1>6 DEF PersistFails, TypeOK, Runs
  <2>2. record <= run'.blocked
    BY <1>0, <1>1, <2>1
  <2> QED
    BY <1>0, <1>2, <2>1, <2>2 DEF BlockedIsOut, OutOfSlots
<1>7. CASE RecoverySetup
  <2>1. pc = "setup" /\ pc' = "recovery" /\ record' = record /\ run'.blocked = record
    BY <1>7 DEF RecoverySetup, TypeOK, Runs
  <2> QED
    BY <1>0, <1>2, <2>1 DEF BlockedIsOut, OutOfSlots
<1>8. CASE PersistProgram
  <2>1. pc = "persist" /\ pc' = "normal" /\ record' = run.blocked /\ run' = run
    BY <1>8 DEF PersistProgram
  <2> QED
    BY <1>0, <1>2, <2>1 DEF BlockedIsOut, OutOfSlots
<1> QED
  BY <1>4, <1>5, <1>6, <1>7, <1>8 DEF Setup

LEMMA BlockedDownload ==
    ASSUME TypeOK, PlanInv, CheckDownload \/ DownloadDone
    PROVE  BlockedIsOut'
<1>0. /\ OutOfSlots(record) /\ record \in Nat /\ run.blocked \in Nat /\ published \in Nat
      /\ record <= run.blocked
      /\ pc \in {"normal", "recovery"} /\ pc' = pc /\ record' = record
      /\ run.ota = "writing" /\ record # 0 => run.want # record
  BY VersionAssumption
  DEF PlanInv, BlockedIsOut, TypeOK, Runs, CheckDownload, CheckWorks, MayCheck, DownloadDone
<1>1. CASE CheckDownload
  <2>1. /\ flash' = [flash EXCEPT ![Target] = NoImage]
        /\ run'.want = published /\ run'.blocked = run.blocked
    BY <1>1 DEF CheckDownload, TypeOK, Runs
  <2>2. \A s \in Slots : flash'[s].ver = flash[s].ver \/ flash'[s].ver = 0
    BY <2>1 DEF TypeOK, Flash, NoImage
  <2>3. run.blocked = 0 \/ run.blocked < published
    BY <1>0, <1>1 DEF CheckDownload, ToInstall, IsBlocked
  <2>4. record # 0 => published # record
    BY <1>0, <2>3
  <2> QED
    BY <1>0, <2>1, <2>2, <2>4, OutStays DEF BlockedIsOut, OutOfSlots
<1>2. CASE DownloadDone
  <2>1. /\ flash' = [flash EXCEPT ![Target] = [ver |-> run.want, tbyb |-> TRUE]]
        /\ run'.ota = "rebooting" /\ run'.blocked = run.blocked /\ run.ota = "writing"
    BY <1>2 DEF DownloadDone, Accepted, TypeOK, Runs
  <2>2. \A s \in Slots : flash'[s].ver = flash[s].ver \/ flash'[s].ver = run.want
    BY <2>1 DEF TypeOK, Flash
  <2>3. OutOfSlots(record)'
    BY <1>0, <2>1, <2>2 DEF OutOfSlots
  <2> QED
    BY <1>0, <2>1, <2>3 DEF BlockedIsOut
<1> QED
  BY <1>1, <1>2

LEMMA BlockedBuy ==
    ASSUME TypeOK, WayBack, PlanInv, BuyBegin \/ BuyDone
    PROVE  BlockedIsOut'
<1>0. /\ OutOfSlots(record) /\ boot.slot \in Slots /\ boot.ver # 0 /\ record' = record
      /\ run' = run /\ pc \in {"normal", "buying"} /\ record <= run.blocked
  BY Roles DEF PlanInv, BlockedIsOut, BuyBegin, BuyDone, MayBuy
<1>1. boot.pending /\ run.ota # "writing"
  BY DEF BuyBegin, BuyDone, MayBuy, WayBack, RunSafe, Running, WriteSafe
<1>2. CASE BuyBegin
  <2>1. flash' = BuyErased(flash, boot.slot) /\ pc' = "buying" /\ boot' = boot /\ pc = "normal"
    BY <1>2 DEF BuyBegin, MayBuy
  <2>2. \A s \in Slots : flash'[s].ver = flash[s].ver \/ flash'[s].ver = 0
    BY <2>1 DEF BuyErased, TypeOK, Flash, NoImage
  <2>3. flash[boot.slot].ver = boot.ver
    BY <2>1 DEF WayBack, RunSafe, Running
  <2>4. record # boot.ver
    BY <1>0, <2>3 DEF OutOfSlots
  <2> QED
    BY <1>0, <2>1, <2>2, <2>4, OutStays DEF BlockedIsOut, OutOfSlots
<1>3. CASE BuyDone
  <2>1. /\ flash' = BuyDoneFlash(flash, boot.slot, boot.ver, boot.eraseOther)
        /\ pc = "buying" /\ pc' = "normal"
    BY <1>3 DEF BuyDone
  <2>2. record # boot.ver
    BY <2>1 DEF PlanInv, BlockedIsOut
  <2>3. \A s \in Slots : \/ flash'[s].ver = flash[s].ver \/ flash'[s].ver = 0
                         \/ flash'[s].ver = boot.ver
    BY <2>1 DEF BuyDoneFlash, NoImage
  <2>4. OutOfSlots(record)'
    BY <1>0, <2>2, <2>3 DEF OutOfSlots
  <2> QED
    BY <1>0, <1>1, <2>1, <2>4 DEF BlockedIsOut
<1> QED
  BY <1>2, <1>3

LEMMA BlockedStep ==
    ASSUME TypeOK, WayBack, PlanInv, [Next]_vars
    PROVE  BlockedIsOut'
<1>0. BlockedIsOut
  BY DEF PlanInv
<1>1. ASSUME NEW s \in Slots, RomUpdateBoot(s) PROVE BlockedIsOut'
  <2>1. record' = record /\ pc' = "main" /\ flash' = AfterUpdateBoot(flash, s)
    BY <1>1 DEF RomUpdateBoot
  <2>2. \A t \in Slots : flash'[t].ver = flash[t].ver \/ flash'[t].ver = 0
    BY <2>1 DEF AfterUpdateBoot, TypeOK, Flash, NoImage
  <2> QED
    BY <1>0, <2>1, <2>2, OutStays DEF BlockedIsOut, OutOfSlots
<1>2. ASSUME NEW s \in Slots, RomNormalBoot(s) PROVE BlockedIsOut'
  BY <1>0, <1>2 DEF RomNormalBoot, BlockedIsOut, OutOfSlots
<1>3. CASE Start
  BY <1>0, <1>3, BlockedStart DEF Start, BlockedIsOut, OutOfSlots
<1>4. ASSUME UNCHANGED <<flash, record>>,
             pc' \in {"reset", "main", "fallback", "fallback_reboot", "retry", "leave"}
      PROVE  BlockedIsOut'
  BY <1>0, <1>4 DEF BlockedIsOut, OutOfSlots
<1>5. CASE FallbackMark \/ FallbackReboot \/ RebootDue \/ RebootIntoSlot \/ BuyTimeout
          \/ NormalRetry \/ RetryReset \/ WebReboot \/ Crash \/ PowerCut
  BY <1>4, <1>5 DEF FallbackMark, FallbackReboot, RebootDue, RebootIntoSlot, BuyTimeout,
     NormalRetry, RetryReset, WebReboot, Crash, CrashRecorded, CrashSilent, PowerCut, Reset
<1>6. CASE Setup \/ PersistProgram
  BY <1>6, BlockedSetup
<1>7. CASE CheckDownload \/ DownloadDone
  BY <1>7, BlockedDownload
<1>8. CASE BuyBegin \/ BuyDone
  BY <1>8, BlockedBuy
<1>9. ASSUME UNCHANGED <<flash, record, boot, pc>>, pc \in {"normal", "recovery"},
             run'.blocked = run.blocked, run'.ota # "writing" \/ run' = run
      PROVE  BlockedIsOut'
  BY <1>0, <1>9 DEF BlockedIsOut, OutOfSlots
<1>10. CASE CheckNothing \/ CheckOnly \/ CheckRejected
  <2>1. run'.blocked = run.blocked /\ run'.ota # "writing"
    BY <1>10 DEF CheckNothing, CheckOnly, CheckRejected, TypeOK, Runs
  <2> QED
    BY <1>9, <1>10, <2>1 DEF CheckNothing, CheckOnly, CheckRejected, CheckWorks, MayCheck
<1>11. CASE DownloadFails \/ (\E a \in BOOLEAN : CheckFails(a))
  <2>1. run'.blocked = run.blocked /\ run'.ota # "writing"
    BY <1>11 DEF DownloadFails, CheckFails, TypeOK, Runs
  <2> QED
    BY <1>9, <1>11, <2>1 DEF DownloadFails, CheckFails, MayCheck
<1>12. CASE BuyError
  <2>1. /\ run'.blocked = run.blocked /\ pc = "normal"
        /\ UNCHANGED <<flash, record, boot, pc>>
    BY <1>12 DEF BuyError, MayBuy, TypeOK, Runs
  <2>2. run'.ota # "writing"
    BY <1>12 DEF BuyError, MayBuy, WayBack, WriteSafe, TypeOK, Runs
  <2> QED
    BY <1>9, <2>1, <2>2
<1>13. CASE HealthClear
  BY <1>9, <1>13 DEF HealthClear
<1>14. CASE Publish \/ UNCHANGED vars
  BY <1>0, <1>14 DEF Publish, vars, BlockedIsOut, OutOfSlots
<1> QED
  BY <1>1, <1>2, <1>3, <1>5, <1>6, <1>7, <1>8, <1>10, <1>11, <1>12, <1>13, <1>14
  DEF Next, RomBoot, Firmware, Check

-----------------------------------------------------------------------------
(* The theorem.                                                            *)

LEMMA PlanInvStep ==
    MajorsFit /\ TypeOK /\ TypeOK' /\ WayBack /\ TrialMode /\ PlanInv /\ [Next]_vars => PlanInv'
<1> SUFFICES ASSUME MajorsFit, TypeOK, TypeOK', WayBack, TrialMode, PlanInv, [Next]_vars
             PROVE  PlanInv'
  OBVIOUS
<1>1. CountsEarned' /\ EndIsCounted' /\ TraceIsOwn'
  BY CountsStep, EndIsCountedStep, TraceIsOwnStep
<1>2. PlanOfPlace' /\ PlanEarned' /\ MarkIsEarned' /\ MarkIsTrue' /\ BlockedIsOut'
  BY PlanStep, MarkStep, BlockedStep
<1> QED
  BY <1>1, <1>2 DEF PlanInv

(* Everything a plan rests on is inductive, as long as the version words   *)
(* survive the trace and the mark.                                         *)
THEOREM PlanInvHolds ==
    ASSUME MajorsFit
    PROVE  Spec => []PlanInv
<1>1. Init => PlanInv
  BY PlanInit
<1>2. TypeOK /\ TypeOK' /\ WayBack /\ TrialMode /\ PlanInv /\ [Next]_vars => PlanInv'
  BY PlanInvStep
<1> QED
  BY <1>1, <1>2, TypeCorrect, WayBackHolds, TrialModeHolds, PTL DEF Spec

(* However releases crash and power fails: recovery mode takes two         *)
(* abnormal ends of bought versions and giving up takes five, and what     *)
(* gave up is in no slot while the record blocks it (boot_policy.rs).      *)
THEOREM PlansAreSoundHolds ==
    ASSUME MajorsFit
    PROVE  Spec => []PlansAreSound
<1>1. PlanInv => PlansAreSound
  BY DEF PlanInv, BlockedIsOut, OutOfSlots, PlansAreSound, BlockedStaysOut
<1>2. Spec => []PlanInv
  BY PlanInvHolds
<1> QED
  BY <1>1, <1>2, PTL

-----------------------------------------------------------------------------
(***************************************************************************)
(* BootTrace: what the screen says of the last reset is what has happened, *)
(* for every two versions whose words survive the trace.                   *)
(***************************************************************************)

(* A version word is never 0, and the trace and the mark keep four bits of *)
(* its major number.                                                       *)
VersionsFit == {Old, New} \subseteq 1 .. 16 * HALFWORD - 1

-----------------------------------------------------------------------------
(* The inductive invariant.                                                *)

(* Which version runs, and what it may still have to prove.                *)
Images ==
    /\ at \in {"rom", "main", "setup", "up", "handler", "leaving", "fallback"}
    /\ new \in {"absent", "trial", "bought"}
    /\ buyState \in {"NotTbyb", "Pending", "Bought", "Failed", "TimedOut"}
    /\ asked \in {0, Old, New} /\ reason \in {"hw", "timer", "force"}
    /\ \/ image = Old /\ buyState = "NotTbyb" /\ new # "bought"
       \/ image = New /\ new = IF buyState \in Unbought THEN "trial" ELSE "bought"
    /\ at \in {"main", "fallback"} => buyState \in {"NotTbyb", "Pending"}
    /\ at = "fallback" => buyState = "NotTbyb"

NoFault == SCRATCH6 \in Nat /\ SCRATCH6 < 224

(* What SCRATCH7 holds without a fault: the joins, until a buy fails.      *)
WordIsOwn ==
    IF SCRATCH6 = Code["BuyFailed"] THEN buyState = "Failed" /\ SCRATCH7.as = "rc"
    ELSE buyState # "Failed" => SCRATCH7 = [as |-> "counters", n |-> joins]

(* The words while a run goes on, and once it has closed them.             *)
OwnRecord ==
    /\ at \in {"setup", "up", "fallback"} => ARMED /\ SCRATCH5 = image /\ NoFault /\ WordIsOwn
    /\ at = "main" => joins = 0
    /\ at = "leaving" => ~ARMED /\ SCRATCH5 = 0
    /\ at \notin {"rom", "main"} => ~IsMarker(SCRATCH0)

FaultKept ==
    /\ is_fault(SCRATCH6) /\ decode(SCRATCH6) = ended.how
    /\ ended.n = SCRATCH7.n /\ ended.how # "not recorded"
    /\ SCRATCH7.as = InfoAs(SCRATCH6)
    /\ ended.how = "panic" => SCRATCH6 = 224
    /\ ended.how = "HardFault" => SCRATCH6 = 225

(* `ended` is of the run that has just been.                               *)
EndIsOwn == ended.ver = image /\ ended.trial = (buyState \in Unbought)

HandlerRecord ==
    at = "handler" =>
        /\ EndIsOwn
        /\ ARMED => ended.how \in Bad /\ SCRATCH5 = image /\ FaultKept
        /\ ~ARMED => ended.how = "leaving" /\ SCRATCH5 = 0

(* What a run leaves for the next boot.                                    *)
LeftBehind ==
    /\ ended.how \in Bad \cup {"planned", "power", "leaving", "fallback"}
    /\ ended.how \in {"planned", "power", "leaving"} => SCRATCH5 = 0
    /\ ended.how # "fallback" => ~IsMarker(SCRATCH0)
    /\ ended.how = "fallback" =>
         /\ SCRATCH5 = 0 /\ SCRATCH0 = FallbackMarker(ended.ver) /\ ~ended.trial
         /\ asked # 0 /\ reason = "timer"
    /\ ended.how \in Bad =>
         /\ SCRATCH5 = ended.ver /\ asked = 0 /\ reason # "hw"
         /\ ended.how # "not recorded" => FaultKept
         /\ ended.how = "not recorded" =>
              /\ NoFault /\ reason = "timer" /\ ended.last = SCRATCH6
              /\ SCRATCH6 = Code["BuyFailed"] => ended.failed /\ SCRATCH7.as = "rc"
              /\ ~ended.failed => SCRATCH7 = [as |-> "counters", n |-> ended.joins]

NextRecord ==
    /\ at \in {"rom", "main"} => LeftBehind
    /\ at = "rom" => EndIsOwn
    /\ at = "main" =>
         /\ ended.ver \in {Old, New} /\ (ended.trial => ended.ver = New)
         /\ ended.trial \in BOOLEAN
         /\ ended.how \in Bad =>
              image = (IF ended.trial THEN Old ELSE ended.ver) /\ buyState = "NotTbyb"

TraceInv == Images /\ OwnRecord /\ HandlerRecord /\ NextRecord /\ LastResetIsTrue

-----------------------------------------------------------------------------
(* Stages and their codes.                                                 *)

LEMMA RunCodes ==
    ASSUME NEW c \in Nat, c < 224
    PROVE  ~is_fault(c) /\ decode(c) = "not recorded"
<1>1. ~is_fault(c)
  BY DEF is_fault
<1>2. ~\E w \in DOMAIN Stalls : Stalls[w] = c
  BY DEF Stalls
<1>3. c # 224 /\ c # 225 /\ c # 226 /\ c # 230
  OBVIOUS
<1> QED
  BY <1>1, <1>2, <1>3, Zenon DEF decode

LEMMA FaultCodes ==
    ASSUME NEW s \in Stage, Code[s] >= 224
    PROVE  is_fault(Code[s])
<1>1. label(Code[s]) \in Stage
  BY DEF label
<1>2. "?" \notin Stage
  BY DEF Stage, Code
<1> QED
  BY <1>1, <1>2 DEF is_fault

(* The tables of boot_trace and of health agree on every stall.            *)
LEMMA StallCodes ==
    ASSUME NEW w \in DOMAIN Stalls
    PROVE  /\ WdtStage(w) \in Stage /\ Code[WdtStage(w)] = Stalls[w]
           /\ is_fault(Stalls[w]) /\ decode(Stalls[w]) = w /\ w \in Bad /\ w # "not recorded"
           /\ w # "panic" /\ w # "HardFault" /\ InfoAs(Stalls[w]) = "ms"
<1>1. w \in {"main", "jobs", "render", "web", "matter"}
  BY DEF Stalls
<1>2. \E s \in Stage : Code[s] = Stalls[w]
  <2>1. Stalls[w] = Code[IF w = "main" THEN "WdtMain" ELSE IF w = "jobs" THEN "WdtJobs"
                         ELSE IF w = "render" THEN "WdtRender" ELSE IF w = "web" THEN "WdtWeb"
                         ELSE "WdtMatter"]
    BY <1>1 DEF Stalls, Code
  <2>2. {"WdtMain", "WdtJobs", "WdtRender", "WdtWeb", "WdtMatter"} \subseteq Stage
    BY DEF Stage, Code
  <2> QED
    BY <1>1, <2>1, <2>2
<1>3. WdtStage(w) \in Stage /\ Code[WdtStage(w)] = Stalls[w]
  BY <1>2 DEF WdtStage
<1>4. Stalls[w] \in 227 .. 232 /\ Stalls[w] # 230
  BY <1>1 DEF Stalls
<1>5. is_fault(Stalls[w])
  BY <1>3, <1>4, FaultCodes
<1>6. decode(Stalls[w]) = CHOOSE v \in DOMAIN Stalls : Stalls[v] = Stalls[w]
  <2> Stalls[w] # 224 /\ Stalls[w] # 225 /\ Stalls[w] # 226 /\ Stalls[w] # 230
    BY <1>4
  <2> QED
    BY Zenon DEF decode
<1>7. \A v \in DOMAIN Stalls : Stalls[v] = Stalls[w] => v = w
  BY <1>1 DEF Stalls
<1>8. decode(Stalls[w]) = w
  BY <1>6, <1>7
<1>9. InfoAs(Stalls[w]) = "ms"
  BY <1>4 DEF InfoAs
<1> QED
  BY <1>1, <1>3, <1>5, <1>8, <1>9 DEF Bad

LEMMA HandlerCodes ==
    /\ {"Panic", "HardFault", "StackOverflow", "UnhandledIrq"} \subseteq Stage
    /\ \A s \in {"Panic", "HardFault", "StackOverflow", "UnhandledIrq"} : is_fault(Code[s])
    /\ decode(Code["Panic"]) = "panic" /\ decode(Code["HardFault"]) = "HardFault"
    /\ decode(Code["StackOverflow"]) = "STACK OVERFLOW"
    /\ decode(Code["UnhandledIrq"]) = "unhandled IRQ"
    /\ Code["Panic"] = 224 /\ Code["HardFault"] = 225
    /\ InfoAs(Code["Panic"]) = "line" /\ InfoAs(Code["HardFault"]) = "pc"
    /\ InfoAs(Code["StackOverflow"]) = "pc" /\ InfoAs(Code["UnhandledIrq"]) = "irq"
<1>1. {"Panic", "HardFault", "StackOverflow", "UnhandledIrq"} \subseteq Stage
  BY DEF Stage, Code
<1>2. /\ Code["Panic"] = 224 /\ Code["HardFault"] = 225 /\ Code["StackOverflow"] = 226
      /\ Code["UnhandledIrq"] = 230
  BY DEF Code
<1>3. \A s \in {"Panic", "HardFault", "StackOverflow", "UnhandledIrq"} : is_fault(Code[s])
  BY <1>1, <1>2, FaultCodes
<1> QED
  BY <1>1, <1>2, <1>3 DEF decode, InfoAs

LEMMA StageCodes ==
    /\ \A s \in {"MainEntered", "DisplayStarted", "Running", "BuyFailed", "SelftestTimedOut"} :
         Code[s] \in Nat /\ Code[s] < 224
    /\ \A s \in {"MainEntered", "DisplayStarted", "Running", "SelftestTimedOut"} :
         Code[s] # Code["BuyFailed"]
    /\ \A s \in Passed : Code[s] \in Nat /\ Code[s] < 224 /\ Code[s] # Code["BuyFailed"]
<1>1. \A s \in Stage : Code[s] \in Nat /\ (s # "BuyFailed" => Code[s] # Code["BuyFailed"])
  BY DEF Stage, Code
<1>2. \A s \in {"MainEntered", "DisplayStarted", "Running", "BuyFailed", "SelftestTimedOut"} :
         Code[s] \in Nat /\ Code[s] < 224
  BY DEF Code
<1>3. \A s \in {"MainEntered", "DisplayStarted", "Running", "SelftestTimedOut"} :
         Code[s] # Code["BuyFailed"]
  BY DEF Code
<1> QED
  BY <1>1, <1>2, <1>3, PassedAssumption

(* The three stages whose word is taken for what it is.                    *)
LEMMA ShownAsIs ==
    /\ ShownAs(224) = "line" /\ ShownAs(225) = "pc" /\ ShownAs(Code["BuyFailed"]) = "rc"
    /\ InfoAs(224) = "line" /\ InfoAs(225) = "pc"
    /\ \A c \in Nat : c < 224 /\ c # Code["BuyFailed"] => ShownAs(c) = "counters"
<1>1. Code["Panic"] = 224 /\ Code["HardFault"] = 225 /\ Code["BuyFailed"] = 15
  BY DEF Code
<1> QED
  BY <1>1 DEF ShownAs, InfoAs

(* None of the values SCRATCH0 takes in a run is a mark.                   *)
LEMMA NoMark ==
    /\ ~IsMarker(ZeroWord) /\ ~IsMarker(SUPERVISED_MARK) /\ ~IsMarker(RETURN_CODE)
    /\ \A d \in Detail : ~IsMarker(AddressOf(d))
BY DEF IsMarker, ZeroWord, SUPERVISED_MARK, RETURN_CODE, AddressOf, MARKER_MAGIC

LEMMA VersionFacts ==
    ASSUME VersionsFit, NEW v \in {Old, New}
    PROVE  /\ v \in Nat /\ v # 0 /\ TraceVersion(v) = v
           /\ IsMarker(FallbackMarker(v)) /\ MarkerVersion(FallbackMarker(v)) = v
<1>1. v \in Nat /\ v # 0 /\ v < 16 * HALFWORD
  <2> DEFINE n == 16 * HALFWORD
  <2>1. n \in Nat
    BY DEF HALFWORD
  <2>2. v \in 1 .. n - 1
    BY DEF VersionsFit
  <2> HIDE DEF n
  <2>3. v \in Nat /\ v # 0 /\ v < n
    BY <2>1, <2>2
  <2> QED
    BY <2>3 DEF n
<1>2. TraceVersion(v) = v
  <2> DEFINE major == v \div HALFWORD
  <2>1. major \in Nat /\ major < 16 /\ v = major * HALFWORD + (v % HALFWORD)
    BY <1>1, SMT DEF HALFWORD
  <2>2. major % 16 = major
    BY <2>1, SMT
  <2> QED
    BY <2>1, <2>2 DEF TraceVersion
<1> QED
  BY <1>1, <1>2, MarkerRoundTrip

-----------------------------------------------------------------------------
(* The start of a run reads what the run before has left.                  *)

LEMMA MainTells ==
    ASSUME VersionsFit, TraceInv, main
    PROVE  LastResetIsTrue'
<1>0. /\ at = "main" /\ decided' = Decide(Inputs1) /\ line' = publish_diag(decided')
      /\ UNCHANGED <<new, image, buyState, ended>>
  BY DEF main
<1>1. /\ LeftBehind /\ ended.ver \in {Old, New} /\ (ended.trial => ended.ver = New)
      /\ ended.trial \in BOOLEAN /\ image \in {Old, New} /\ Old # New
      /\ buyState \in {"NotTbyb", "Pending"}
      /\ ended.how \in Bad =>
           image = (IF ended.trial THEN Old ELSE ended.ver) /\ buyState = "NotTbyb"
  BY <1>0, BootTraceAssumption DEF TraceInv, Images, NextRecord
<1>2. ended.ver # 0 /\ TraceVersion(ended.ver) = ended.ver
  BY <1>1, VersionFacts
<1>3. decided'.fell_back_from = IF buyState = "Pending" THEN 0 ELSE FellBackFrom(Inputs1)
  BY <1>0 DEF Decide, Inputs1
<1>4. FellBackFrom(Inputs1) =
        IF ended.how = "fallback" /\ buyState # "Pending" /\ ended.ver # image
          THEN ended.ver ELSE 0
  <2>1. CASE ended.how = "fallback"
    <3>1. /\ asked # 0 /\ reason = "timer" /\ IsMarker(SCRATCH0)
          /\ MarkerVersion(SCRATCH0) = ended.ver
      BY <1>1, <2>1, VersionFacts DEF LeftBehind
    <3> QED
      BY <2>1, <3>1 DEF FellBackFrom, Inputs1
  <2>2. CASE ended.how # "fallback"
    <3>1. ~IsMarker(SCRATCH0)
      BY <1>1, <2>2 DEF LeftBehind
    <3> QED
      BY <2>2, <3>1 DEF FellBackFrom, Inputs1
  <2> QED
    BY <2>1, <2>2
<1>5. buyState # "Pending" /\ Counts(Inputs1) <=> ended.how \in Bad /\ ~ended.trial
  <2>1. ASSUME ended.how \in Bad, ~ended.trial PROVE buyState # "Pending" /\ Counts(Inputs1)
    <3>1. /\ SCRATCH5 = image /\ image # 0 /\ asked = 0 /\ reason # "hw"
          /\ is_fault(SCRATCH6) \/ reason = "timer"
      BY <1>1, <1>2, <2>1 DEF LeftBehind, FaultKept
    <3> QED
      BY <1>1, <2>1, <3>1 DEF Counts, IsFault, Inputs1
  <2>2. ASSUME ended.how \in Bad, ended.trial PROVE ~Counts(Inputs1)
    BY <1>1, <2>2 DEF LeftBehind, Counts, IsFault, Inputs1
  <2>3. ASSUME ended.how \notin Bad PROVE ~Counts(Inputs1)
    BY <1>1, <2>3 DEF LeftBehind, Counts, IsFault, Inputs1
  <2> QED
    BY <1>1, <2>1, <2>2, <2>3
<1>6. "fallback" \notin Bad /\ "planned" \notin Bad /\ "power" \notin Bad /\ "leaving" \notin Bad
  BY DEF Bad, Stalls
<1>7. /\ (SCRATCH5 # 0 <=> ended.how \in Bad)
      /\ ended.how \in Bad => SCRATCH5 = ended.ver
  BY <1>1, <1>2, <1>6 DEF LeftBehind
<1>8. CASE ended.how \in Bad /\ ~ended.trial
  <2>1. line' = last_reset
    BY <1>0, <1>2, <1>3, <1>4, <1>5, <1>6, <1>8 DEF publish_diag
  <2>2. /\ last_reset.kind = "reset" /\ last_reset.how = ended.how
        /\ ended.how # "not recorded" =>
             RightlyShown(last_reset.what) /\ last_reset.what.word.n = ended.n
    <3>1. CASE ended.how = "not recorded"
      <4>1. decode(SCRATCH6) = "not recorded"
        BY <1>1, <1>8, <3>1, RunCodes DEF LeftBehind, NoFault
      <4> QED
        BY <3>1, <4>1 DEF last_reset
    <3>2. CASE ended.how # "not recorded"
      <4>1. decode(SCRATCH6) = ended.how /\ ended.n = SCRATCH7.n /\ SCRATCH7.as = InfoAs(SCRATCH6)
        BY <1>1, <1>8, <3>2 DEF LeftBehind, FaultKept
      <4> QED
        BY <3>2, <4>1 DEF last_reset, RightlyShown
    <3> QED
      BY <3>1, <3>2
  <2>3. /\ line'.kind = "reset" /\ line'.how = ended.how /\ image = ended.ver
        /\ ended.how # "not recorded" => RightlyShown(line'.what) /\ line'.what.word.n = ended.n
    BY <1>1, <1>8, <2>1, <2>2
  <2> QED
    BY <1>0, <1>6, <1>8, <2>3
    DEF LastResetIsTrue, FaultIsTold, NothingIsHidden, TrialIsTold, TrialDetailIsTold, BackIsTold
<1>9. CASE ended.how \in Bad /\ ended.trial
  <2>1. line' = prev_trace
    BY <1>0, <1>2, <1>3, <1>4, <1>5, <1>6, <1>7, <1>9 DEF publish_diag
  <2>2. /\ line'.kind = "trial" /\ line'.ver = ended.ver /\ line'.last = SCRATCH6
        /\ line'.what = [as |-> ShownAs(SCRATCH6), word |-> SCRATCH7]
    BY <1>7, <1>9, <2>1 DEF prev_trace
  <2>3. IF ended.how = "not recorded" THEN line'.last = ended.last
        ELSE decode(line'.last) = ended.how
    BY <1>1, <1>9, <2>2 DEF LeftBehind, FaultKept
  <2>4. line'.what.as = ShownAs(SCRATCH6) /\ line'.what.word = SCRATCH7
    BY <2>2
  <2>5. NoFault /\ SCRATCH6 # Code["BuyFailed"] => ShownAs(SCRATCH6) = "counters"
    BY ShownAsIs DEF NoFault
  <2>6. ended.how \in {"panic", "HardFault"} =>
          RightlyShown(line'.what) /\ line'.what.word.n = ended.n
    <3>1. CASE ended.how = "panic"
      <4>1. SCRATCH6 = 224 /\ SCRATCH7.as = InfoAs(SCRATCH6) /\ ended.n = SCRATCH7.n
        BY <1>1, <1>9, <3>1 DEF LeftBehind, FaultKept
      <4> QED
        BY <2>4, <3>1, <4>1, ShownAsIs DEF RightlyShown
    <3>2. CASE ended.how = "HardFault"
      <4>1. SCRATCH6 = 225 /\ SCRATCH7.as = InfoAs(SCRATCH6) /\ ended.n = SCRATCH7.n
        BY <1>1, <1>9, <3>2 DEF LeftBehind, FaultKept
      <4> QED
        BY <2>4, <3>2, <4>1, ShownAsIs DEF RightlyShown
    <3> QED
      BY <3>1, <3>2
  <2>7. ended.how = "not recorded" =>
          /\ line'.last = Code["BuyFailed"] => RightlyShown(line'.what)
          /\ ~ended.failed => RightlyShown(line'.what) /\ line'.what.word.n = ended.joins
    <3> SUFFICES ASSUME ended.how = "not recorded"
                 PROVE  /\ line'.last = Code["BuyFailed"] => RightlyShown(line'.what)
                        /\ ~ended.failed =>
                             RightlyShown(line'.what) /\ line'.what.word.n = ended.joins
      OBVIOUS
    <3>1. /\ NoFault
          /\ SCRATCH6 = Code["BuyFailed"] => ended.failed /\ SCRATCH7.as = "rc"
          /\ ~ended.failed => SCRATCH7 = [as |-> "counters", n |-> ended.joins]
      BY <1>1, <1>9 DEF LeftBehind
    <3>2. ASSUME SCRATCH6 = Code["BuyFailed"] PROVE RightlyShown(line'.what)
      <4>1. ShownAs(SCRATCH6) = "rc" /\ SCRATCH7.as = "rc"
        BY <3>1, <3>2, ShownAsIs
      <4> QED
        BY <2>4, <4>1 DEF RightlyShown
    <3>3. ASSUME ~ended.failed
          PROVE  RightlyShown(line'.what) /\ line'.what.word.n = ended.joins
      <4>1. SCRATCH6 # Code["BuyFailed"] /\ SCRATCH7 = [as |-> "counters", n |-> ended.joins]
        BY <3>1, <3>3
      <4>2. ShownAs(SCRATCH6) = "counters"
        BY <2>5, <3>1, <4>1
      <4>3. SCRATCH7.as = "counters" /\ SCRATCH7.n = ended.joins
        BY <4>1
      <4> QED
        BY <2>4, <4>2, <4>3 DEF RightlyShown
    <3> QED
      BY <2>2, <3>2, <3>3
  <2> QED
    BY <1>0, <1>1, <1>2, <1>6, <1>9, <2>2, <2>3, <2>6, <2>7
    DEF LastResetIsTrue, FaultIsTold, NothingIsHidden, TrialIsTold, TrialDetailIsTold, BackIsTold
<1>10. CASE ended.how \notin Bad
  <2>1. line' = IF ended.how = "fallback" /\ buyState # "Pending" /\ ended.ver # image
                  THEN [kind |-> "fallback", ver |-> ended.ver] ELSE [kind |-> "boot"]
    BY <1>0, <1>2, <1>3, <1>4, <1>5, <1>7, <1>10 DEF publish_diag
  <2>2. /\ line'.kind \in {"fallback", "boot"}
        /\ (line'.kind = "fallback" <=>
              ended.how = "fallback" /\ buyState # "Pending" /\ ended.ver # image)
    BY <2>1
  <2> QED
    BY <1>0, <1>1, <1>6, <1>10, <2>2
    DEF LastResetIsTrue, FaultIsTold, NothingIsHidden, TrialIsTold, TrialDetailIsTold, BackIsTold
<1> QED
  BY <1>1, <1>8, <1>9, <1>10

LEMMA ToldStays ==
    ASSUME LastResetIsTrue,
           Told' => /\ Told /\ UNCHANGED <<line, ended, image>>
                    /\ buyState' = "NotTbyb" => buyState = "NotTbyb"
    PROVE  LastResetIsTrue'
BY DEF LastResetIsTrue, FaultIsTold, NothingIsHidden, TrialIsTold, TrialDetailIsTold, BackIsTold

LEMMA TraceStart ==
    ASSUME VersionsFit, TraceInv, main
    PROVE  TraceInv'
<1>0. /\ at = "main" /\ at' \in {"setup", "fallback"} /\ decided' = Decide(Inputs1)
      /\ at' = "fallback" => decided'.mode = "fallback"
      /\ UNCHANGED <<new, image, buyState, reason, asked, joins, ended>>
  BY DEF main, reboot
<1>1. at' = "fallback" => buyState # "Pending"
  BY <1>0 DEF Decide, Inputs1
<1>2. Images'
  BY <1>0, <1>1 DEF TraceInv, Images
<1>3. image \in {Old, New}
  BY DEF TraceInv, Images
<1>4. OwnRecord'
  BY <1>0, <1>3, VersionFacts, StageCodes, NoMark DEF TraceInv, main, arm, OwnRecord, NoFault, WordIsOwn
<1>5. HandlerRecord' /\ NextRecord'
  BY <1>0 DEF HandlerRecord, NextRecord
<1>6. LastResetIsTrue'
  BY MainTells
<1> QED
  BY <1>2, <1>4, <1>5, <1>6 DEF TraceInv

LEMMA TraceRom ==
    ASSUME VersionsFit, TraceInv, Rom
    PROVE  TraceInv'
<1>0. /\ at = "rom" /\ at' = "main" /\ image' = RomPicks
      /\ buyState' = IF asked = New /\ new = "trial" THEN "Pending" ELSE "NotTbyb"
      /\ new' = IF asked = Old /\ new = "bought" THEN "absent" ELSE new
      /\ joins' = 0 /\ UNCHANGED <<reason, asked, SCRATCH0, SCRATCH5, SCRATCH6, SCRATCH7, ended>>
  BY DEF Rom, reboot, words
<1>1. Old # New /\ Old # 0 /\ New # 0
  BY BootTraceAssumption, VersionFacts
<1>2. Images /\ LeftBehind /\ EndIsOwn
  BY <1>0 DEF TraceInv, NextRecord
<1>3. Images'
  BY <1>0, <1>1, <1>2 DEF Images, RomPicks, Unbought
<1>4. LeftBehind'
  BY <1>0, <1>2 DEF LeftBehind, FaultKept, NoFault
<1>5. ended.ver \in {Old, New} /\ (ended.trial => ended.ver = New) /\ ended.trial \in BOOLEAN
  <2>1. ended.ver = image /\ ended.trial = (buyState \in Unbought)
    BY <1>2 DEF EndIsOwn
  <2>2. ended.trial \in BOOLEAN
    BY <2>1
  <2>3. ended.trial => buyState # "NotTbyb"
    BY <2>1 DEF Unbought
  <2> QED
    BY <1>2, <2>1, <2>2, <2>3 DEF Images
<1>6. ended.how \in Bad => image' = (IF ended.trial THEN Old ELSE ended.ver)
                           /\ buyState' = "NotTbyb"
  <2> SUFFICES ASSUME ended.how \in Bad
               PROVE  image' = (IF ended.trial THEN Old ELSE ended.ver) /\ buyState' = "NotTbyb"
    OBVIOUS
  <2>1. asked = 0
    BY <1>2 DEF LeftBehind
  <2> QED
    BY <1>0, <1>1, <1>2, <2>1 DEF Images, EndIsOwn, RomPicks, Unbought
<1>7. NextRecord'
  BY <1>0, <1>4, <1>5, <1>6 DEF NextRecord
<1>8. OwnRecord' /\ HandlerRecord' /\ LastResetIsTrue'
  BY <1>0, ToldStays DEF OwnRecord, HandlerRecord, Told, TraceInv
<1> QED
  BY <1>3, <1>7, <1>8 DEF TraceInv

(* A step that leaves the words of a run that goes on in order.            *)
LEMMA TraceGoes ==
    ASSUME TraceInv, at \in {"setup", "up"}, at' \in {"setup", "up"},
           UNCHANGED <<image, reason, asked, SCRATCH5, ARMED, line, ended>>,
           \/ UNCHANGED <<new, buyState>>
           \/ /\ at = "up" /\ buyState = "Pending"
              /\ \/ new' = new /\ buyState' \in {"Failed", "TimedOut"}
                 \/ new' = "bought" /\ buyState' = "Bought",
           NoFault', WordIsOwn', SCRATCH0' \in {SCRATCH0, SUPERVISED_MARK}
    PROVE  TraceInv'
<1>0. Images
  BY DEF TraceInv
<1>1. Images'
  <2>1. CASE UNCHANGED <<new, buyState>>
    BY <1>0, <2>1 DEF Images
  <2>2. CASE buyState = "Pending"
    <3>1. image = New /\ new = "trial"
      BY <1>0, <2>2 DEF Images, Unbought
    <3> QED
      BY <1>0, <2>2, <3>1 DEF Images, Unbought
  <2> QED
    BY <2>1, <2>2
<1>2. OwnRecord'
  BY NoMark DEF TraceInv, OwnRecord
<1>3. LastResetIsTrue'
  BY ToldStays DEF TraceInv, Told
<1> QED
  BY <1>1, <1>2, <1>3 DEF TraceInv, HandlerRecord, NextRecord

LEMMA TraceGoesOn ==
    ASSUME TraceInv, GoesOn
    PROVE  TraceInv'
<1>0. at \in {"setup", "up"} /\ NoFault /\ WordIsOwn /\ ARMED
  BY DEF GoesOn, Supervised, ExplicitBuy, BuyFails, TimesOut, Healthy, Passes, Alive, TraceInv,
     OwnRecord
<1>1. CASE Supervised
  <2>1. NoFault'
    BY <1>0, <1>1, StageCodes DEF Supervised, stage, NoFault
  <2>2. WordIsOwn'
    BY <1>0, <1>1, StageCodes DEF Supervised, stage, WordIsOwn, Going
  <2> QED
    BY <1>0, <1>1, <2>1, <2>2, TraceGoes DEF Supervised, Going, reboot, known
<1>2. CASE ExplicitBuy
  <2>1. NoFault'
    BY <1>0, <1>2, StageCodes DEF ExplicitBuy, stage, NoFault
  <2>2. WordIsOwn'
    BY <1>0, <1>2, StageCodes DEF ExplicitBuy, stage, WordIsOwn
  <2> QED
    BY <1>0, <1>2, <2>1, <2>2, TraceGoes DEF ExplicitBuy, reboot, known
<1>3. CASE BuyFails
  <2>1. NoFault'
    BY <1>0, <1>3, StageCodes DEF BuyFails, stage, NoFault
  <2>2. WordIsOwn'
    BY <1>0, <1>3, StageCodes DEF BuyFails, stage, WordIsOwn
  <2> QED
    BY <1>0, <1>3, <2>1, <2>2, TraceGoes DEF BuyFails, reboot, known
<1>4. CASE TimesOut
  <2>1. NoFault'
    BY <1>0, <1>4, StageCodes DEF TimesOut, stage, NoFault
  <2>2. WordIsOwn'
    BY <1>0, <1>4, StageCodes DEF TimesOut, stage, WordIsOwn
  <2> QED
    BY <1>0, <1>4, <2>1, <2>2, TraceGoes DEF TimesOut, reboot, known
<1>5. CASE Healthy
  <2>1. NoFault'
    BY <1>0, <1>5 DEF Healthy, NoFault
  <2>2. WordIsOwn'
    BY <1>0, <1>5 DEF Healthy, WordIsOwn, Going
  <2> QED
    BY <1>0, <1>5, <2>1, <2>2, TraceGoes DEF Healthy, Going, reboot, known
<1>6. ASSUME NEW s \in Passed, Passes(s) PROVE TraceInv'
  <2>1. NoFault'
    BY <1>0, <1>6, StageCodes DEF Passes, stage, NoFault
  <2>2. WordIsOwn'
    <3>1. SCRATCH6' # Code["BuyFailed"] /\ buyState' = buyState
      BY <1>0, <1>6, StageCodes DEF Passes, stage, Going
    <3>2. buyState # "Failed" => SCRATCH7' = [as |-> "counters", n |-> joins']
      <4>1. CASE s \in Joins
        BY <1>6, <4>1 DEF Passes
      <4>2. CASE s \notin Joins
        <5>1. joins' = joins /\ SCRATCH7' = SCRATCH7
          BY <1>6, <4>2 DEF Passes, Joins
        <5> QED
          BY <1>0, <5>1 DEF WordIsOwn, Images, TraceInv
      <4> QED
        BY <4>1, <4>2
    <3> QED
      BY <3>1, <3>2 DEF WordIsOwn
  <2> QED
    BY <1>0, <1>6, <2>1, <2>2, TraceGoes DEF Passes, Alive, Going, reboot, known
<1> QED
  BY <1>1, <1>2, <1>3, <1>4, <1>5, <1>6 DEF GoesOn

-----------------------------------------------------------------------------
(* The ways a run ends.                                                    *)

(* A step into the ROM: what is left behind is all there is to show.       *)
LEMMA TraceEnds ==
    ASSUME TraceInv, at' = "rom", UNCHANGED <<new, image, buyState>>,
           asked' \in {0, Old, New}, reason' \in {"hw", "timer", "force"},
           LeftBehind', EndIsOwn'
    PROVE  TraceInv'
<1>1. Images'
  BY DEF TraceInv, Images
<1>2. LastResetIsTrue'
  BY ToldStays DEF TraceInv, Told
<1> QED
  BY <1>1, <1>2 DEF TraceInv, OwnRecord, HandlerRecord, NextRecord

LEMMA NotBad ==
    {"planned", "power", "leaving", "fallback"} \cap Bad = {}
BY DEF Bad, Stalls

(* A meant end, a cut of the power, or one after the record was cleared.   *)
LEMMA TraceEndsQuietly ==
    ASSUME TraceInv, at' = "rom", UNCHANGED <<new, image, buyState>>,
           asked' \in {0, Old, New}, reason' \in {"hw", "timer", "force"},
           NEW how \in {"planned", "power", "leaving"}, NEW n, Closed(how, n),
           SCRATCH5' = 0, ~IsMarker(SCRATCH0')
    PROVE  TraceInv'
<1>1. /\ ended'.how = how /\ ended'.ver = image
      /\ ended'.trial = (buyState \in Unbought)
  BY DEF Closed
<1>2. LeftBehind'
  BY <1>1, NotBad DEF LeftBehind
<1>3. EndIsOwn'
  BY <1>1 DEF EndIsOwn
<1> QED
  BY <1>2, <1>3, TraceEnds

(* An exception handler records the first fault of the run.                *)
LEMMA TraceFails ==
    ASSUME TraceInv,
           NEW s \in {"Panic", "HardFault", "StackOverflow", "UnhandledIrq"},
           NEW how, NEW what, NEW extra \in {AtAddress, InHandler, Zero},
           how = decode(Code[s]), how # "not recorded", how \in Bad, what = InfoAs(Code[s]),
           Fails(s, how, what, extra)
    PROVE  TraceInv'
<1>0. /\ at \in {"setup", "up", "leaving"} /\ at' = "handler"
      /\ UNCHANGED <<new, image, buyState, asked, reason, SCRATCH5, ARMED>>
  BY DEF Fails, Ending
<1>1. PICK d \in Detail :
        /\ fault_with(s, [as |-> what, n |-> d], extra[d])
        /\ Closed(IF ARMED THEN how ELSE "leaving", d)
  BY DEF Fails
<1>2. /\ ended'.how = (IF ARMED THEN how ELSE "leaving") /\ ended'.n = d
      /\ ended'.ver = image /\ ended'.trial = (buyState \in Unbought)
  BY <1>1 DEF Closed
<1>3. ~IsMarker(extra[d])
  BY NoMark DEF AtAddress, InHandler, Zero
<1>4. /\ ARMED => SCRATCH5 = image /\ NoFault
      /\ ~ARMED => SCRATCH5 = 0
      /\ ~IsMarker(SCRATCH0)
  BY <1>0 DEF TraceInv, OwnRecord
<1>5. CASE ARMED
  <2>1. ~is_fault(SCRATCH6)
    BY <1>4, <1>5, RunCodes DEF NoFault
  <2>2. SCRATCH6' = Code[s] /\ SCRATCH7' = [as |-> what, n |-> d] /\ SCRATCH0' = extra[d]
    BY <1>1, <1>5, <2>1 DEF fault_with, Keeps
  <2>3. FaultKept'
    <3>1. /\ is_fault(SCRATCH6') /\ decode(SCRATCH6') = ended'.how /\ ended'.how # "not recorded"
          /\ ended'.n = SCRATCH7'.n /\ SCRATCH7'.as = InfoAs(SCRATCH6')
      BY <1>2, <1>5, <2>2, HandlerCodes
    <3>2. (how = "panic" => s = "Panic") /\ (how = "HardFault" => s = "HardFault")
      BY HandlerCodes
    <3>3. /\ ended'.how = "panic" => SCRATCH6' = 224
          /\ ended'.how = "HardFault" => SCRATCH6' = 225
      BY <1>2, <1>5, <2>2, <3>2, HandlerCodes
    <3> QED
      BY <3>1, <3>3 DEF FaultKept
  <2>4. HandlerRecord'
    BY <1>0, <1>2, <1>4, <1>5, <2>3 DEF HandlerRecord, EndIsOwn
  <2>5. OwnRecord'
    BY <1>0, <1>3, <2>2 DEF OwnRecord
  <2> QED
    BY <1>0, <2>4, <2>5, ToldStays DEF TraceInv, Images, NextRecord, Told
<1>6. CASE ~ARMED
  <2>1. SCRATCH0' = SCRATCH0
    BY <1>1, <1>6 DEF fault_with, Keeps
  <2>2. HandlerRecord'
    BY <1>0, <1>2, <1>4, <1>6 DEF HandlerRecord, EndIsOwn
  <2>3. OwnRecord'
    BY <1>0, <1>4, <2>1 DEF OwnRecord
  <2> QED
    BY <1>0, <2>2, <2>3, ToldStays DEF TraceInv, Images, NextRecord, Told
<1> QED
  BY <1>5, <1>6

LEMMA TraceHandlers ==
    ASSUME TraceInv, PanicHandler \/ HardFaults \/ Overflows \/ StrayInterrupt
    PROVE  TraceInv'
<1>1. {"panic", "HardFault", "STACK OVERFLOW", "unhandled IRQ"} \subseteq Bad
  BY DEF Bad
<1>2. CASE PanicHandler
  BY <1>1, <1>2, HandlerCodes, TraceFails DEF PanicHandler
<1>3. CASE HardFaults
  BY <1>1, <1>3, HandlerCodes, TraceFails DEF HardFaults
<1>4. CASE Overflows
  BY <1>1, <1>4, HandlerCodes, TraceFails DEF Overflows
<1>5. CASE StrayInterrupt
  BY <1>1, <1>5, HandlerCodes, TraceFails DEF StrayInterrupt
<1> QED
  BY <1>2, <1>3, <1>4, <1>5

(* A fault in a handler changes nothing: the first one stands.             *)
LEMMA TraceFailsAgain ==
    ASSUME TraceInv, FailsAgain
    PROVE  TraceInv'
<1>0. /\ at = "handler" /\ at' = at
      /\ UNCHANGED <<new, image, buyState, asked, reason, SCRATCH5, ARMED, line, ended>>
  BY DEF FailsAgain, Ending, known
<1>1. ~Keeps
  BY <1>0 DEF TraceInv, HandlerRecord, FaultKept, Keeps
<1>2. UNCHANGED <<SCRATCH0, SCRATCH6, SCRATCH7>>
  BY <1>1 DEF FailsAgain, fault_with
<1>3. OwnRecord' /\ HandlerRecord'
  BY <1>0, <1>2 DEF TraceInv, OwnRecord, NoFault, HandlerRecord, EndIsOwn, FaultKept
<1> QED
  BY <1>0, <1>3, ToldStays DEF TraceInv, Images, NextRecord, Told

LEMMA TraceHandlerEnds ==
    ASSUME TraceInv, HandlerEnds
    PROVE  TraceInv'
<1>0. /\ at = "handler" /\ at' = "rom" /\ reason' \in {"force", "timer"} /\ asked' = 0
      /\ UNCHANGED <<new, image, buyState, SCRATCH0, SCRATCH5, SCRATCH6, SCRATCH7, ARMED, ended>>
  BY DEF HandlerEnds, ResetBy, words
<1>1. HandlerRecord /\ EndIsOwn /\ ~IsMarker(SCRATCH0)
  BY <1>0 DEF TraceInv, HandlerRecord, OwnRecord
<1>2. LeftBehind'
  BY <1>0, <1>1, NotBad DEF HandlerRecord, LeftBehind, FaultKept, EndIsOwn
<1> QED
  BY <1>0, <1>1, <1>2, TraceEnds DEF EndIsOwn

LEMMA TraceStalled ==
    ASSUME TraceInv, NEW w \in DOMAIN Stalls, Stalled(w)
    PROVE  TraceInv'
<1>0. /\ at \in {"up", "leaving"} /\ at' = "rom" /\ reason' = "force" /\ asked' = 0
      /\ UNCHANGED <<new, image, buyState, SCRATCH5, ARMED>>
  BY DEF Stalled, ResetBy
<1>1. PICK d \in Detail :
        /\ fault_with(WdtStage(w), [as |-> "ms", n |-> d], ZeroWord)
        /\ Closed(IF ARMED THEN w ELSE "leaving", d)
  BY DEF Stalled
<1>2. /\ ended'.how = (IF ARMED THEN w ELSE "leaving") /\ ended'.n = d
      /\ ended'.ver = image /\ ended'.trial = (buyState \in Unbought)
  BY <1>1 DEF Closed
<1>3. /\ ARMED => SCRATCH5 = image /\ NoFault
      /\ ~ARMED => SCRATCH5 = 0
      /\ ~IsMarker(SCRATCH0)
  BY <1>0 DEF TraceInv, OwnRecord
<1>4. CASE ARMED
  <2>1. ~is_fault(SCRATCH6)
    BY <1>3, <1>4, RunCodes DEF NoFault
  <2>2. /\ SCRATCH6' = Stalls[w] /\ SCRATCH7' = [as |-> "ms", n |-> d]
        /\ SCRATCH0' = ZeroWord
    BY <1>1, <1>4, <2>1, StallCodes DEF fault_with, Keeps
  <2>3. FaultKept' /\ ended'.how \in Bad
    BY <1>2, <1>4, <2>2, StallCodes DEF FaultKept
  <2>4. LeftBehind'
    BY <1>0, <1>2, <1>3, <1>4, <2>2, <2>3, NoMark, NotBad, StallCodes DEF LeftBehind
  <2> QED
    BY <1>0, <1>2, <2>4, TraceEnds DEF EndIsOwn
<1>5. CASE ~ARMED
  <2>1. SCRATCH0' = SCRATCH0
    BY <1>1, <1>5 DEF fault_with, Keeps
  <2> QED
    BY <1>0, <1>1, <1>3, <1>5, <2>1, TraceEndsQuietly
<1> QED
  BY <1>4, <1>5

LEMMA TraceLocksUp ==
    ASSUME TraceInv, LocksUp
    PROVE  TraceInv'
<1>0. /\ at \in {"setup", "up", "leaving"} /\ at' = "rom" /\ reason' = "timer" /\ asked' = 0
      /\ Closed(IF ARMED THEN "not recorded" ELSE "leaving", 0)
      /\ UNCHANGED <<new, image, buyState, SCRATCH0, SCRATCH5, SCRATCH6, SCRATCH7>>
  BY DEF LocksUp, ResetBy, words
<1>1. /\ ARMED => SCRATCH5 = image /\ NoFault /\ WordIsOwn
      /\ ~ARMED => SCRATCH5 = 0
      /\ ~IsMarker(SCRATCH0)
  BY <1>0 DEF TraceInv, OwnRecord
<1>2. CASE ARMED
  <2>1. /\ ended'.how = "not recorded" /\ ended'.last = SCRATCH6
        /\ ended'.ver = image /\ ended'.trial = (buyState \in Unbought)
        /\ ended'.failed = (buyState = "Failed") /\ ended'.joins = joins
    BY <1>0, <1>2 DEF Closed
  <2>2. "not recorded" \in Bad
    BY DEF Bad
  <2>3. LeftBehind'
    BY <1>0, <1>1, <1>2, <2>1, <2>2, NotBad DEF LeftBehind, NoFault, WordIsOwn
  <2> QED
    BY <1>0, <2>1, <2>3, TraceEnds DEF EndIsOwn
<1>3. CASE ~ARMED
  BY <1>0, <1>1, <1>3, TraceEndsQuietly
<1> QED
  BY <1>2, <1>3

LEMMA TraceFallback ==
    ASSUME VersionsFit, TraceInv, fallback_now
    PROVE  TraceInv'
<1>0. /\ at = "fallback" /\ at' = "rom" /\ reason' = "timer"
      /\ asked' = (IF image = New THEN Old ELSE New)
      /\ SCRATCH0' = FallbackMarker(image) /\ SCRATCH5' = 0
      /\ Closed("fallback", 0) /\ UNCHANGED <<new, image, buyState>>
  BY DEF fallback_now, RomTakesRecord, ResetBy
<1>1. /\ ended'.how = "fallback" /\ ended'.ver = image
      /\ ended'.trial = (buyState \in Unbought)
  BY <1>0 DEF Closed
<1>2. buyState = "NotTbyb"
  BY <1>0 DEF TraceInv, Images
<1>3. ~ended'.trial
  BY <1>1, <1>2 DEF Unbought
<1>4. asked' # 0
  BY <1>0, VersionFacts
<1>5. LeftBehind'
  BY <1>0, <1>1, <1>3, <1>4, NotBad DEF LeftBehind
<1> QED
  BY <1>0, <1>1, <1>5, TraceEnds DEF EndIsOwn

LEMMA TraceMeant ==
    ASSUME TraceInv, CutOff \/ Rebooted \/ TriesNormal \/ Updates
    PROVE  TraceInv'
<1>1. CASE CutOff
  BY <1>1, NoMark, TraceEndsQuietly DEF CutOff, ResetBy, RomTakesRecord
<1>2. CASE Rebooted \/ TriesNormal
  <2>1. /\ at = "up" /\ at' = "rom" /\ asked' = 0 /\ reason' = "force" /\ SCRATCH5' = 0
        /\ Closed("planned", 0) /\ UNCHANGED <<new, image, buyState, SCRATCH0>>
    BY <1>2 DEF Rebooted, TriesNormal, ResetBy, clear
  <2>2. ~IsMarker(SCRATCH0)
    BY <2>1 DEF TraceInv, OwnRecord
  <2> QED
    BY <2>1, <2>2, TraceEndsQuietly
<1>3. CASE Updates
  <2>1. /\ at = "leaving" /\ at' = "rom" /\ asked' = New /\ reason' = "timer" /\ SCRATCH5' = 0
        /\ Closed("planned", 0) /\ UNCHANGED <<new, image, buyState, SCRATCH0>>
    BY <1>3 DEF Updates, ResetBy, RomTakesRecord
  <2>2. ~IsMarker(SCRATCH0)
    BY <2>1 DEF TraceInv, OwnRecord
  <2> QED
    BY <2>1, <2>2, TraceEndsQuietly
<1> QED
  BY <1>1, <1>2, <1>3

LEMMA TraceLeaves ==
    ASSUME TraceInv, Leaves
    PROVE  TraceInv'
<1>0. /\ at = "up" /\ at' = "leaving" /\ buyState \notin Unbought /\ image = Old /\ new' = "trial"
      /\ ARMED' = FALSE /\ SCRATCH5' = 0
      /\ UNCHANGED <<image, buyState, asked, reason, SCRATCH0>>
  BY DEF Leaves, clear, reboot
<1>1. Images'
  BY <1>0, BootTraceAssumption DEF TraceInv, Images
<1>2. OwnRecord'
  BY <1>0 DEF TraceInv, OwnRecord
<1> QED
  BY <1>0, <1>1, <1>2, ToldStays DEF TraceInv, HandlerRecord, NextRecord, Told

LEMMA TraceInvInit ==
    ASSUME VersionsFit, TraceInit
    PROVE  TraceInv
<1>1. /\ at = "rom" /\ new = "absent" /\ image = Old /\ buyState = "NotTbyb" /\ reason = "hw"
      /\ asked = 0 /\ SCRATCH5 = 0 /\ SCRATCH0 = ZeroWord
      /\ ended.how = "power" /\ ended.ver = Old /\ ended.trial = FALSE
  BY DEF TraceInit
<1>2. Images /\ OwnRecord /\ HandlerRecord /\ LastResetIsTrue
  BY <1>1 DEF Images, OwnRecord, HandlerRecord, LastResetIsTrue, FaultIsTold, NothingIsHidden,
     TrialIsTold, TrialDetailIsTold, BackIsTold, Told
<1>3. LeftBehind
  BY <1>1, NoMark, NotBad DEF LeftBehind
<1>4. EndIsOwn
  <2> (buyState \in Unbought) = FALSE
    BY <1>1 DEF Unbought
  <2> QED
    BY <1>1 DEF EndIsOwn
<1> QED
  BY <1>1, <1>2, <1>3, <1>4 DEF TraceInv, NextRecord

LEMMA TraceStutter ==
    ASSUME TraceInv, UNCHANGED traceVars
    PROVE  TraceInv'
<1>0. UNCHANGED <<new, image, buyState, at, reason, asked, SCRATCH0, SCRATCH5, SCRATCH6, SCRATCH7,
                  ARMED, line, joins, ended>>
  BY DEF traceVars, reboot, words, known
<1>1. Images' /\ OwnRecord'
  BY <1>0 DEF TraceInv, Images, OwnRecord, NoFault, WordIsOwn
<1>2. HandlerRecord'
  BY <1>0 DEF TraceInv, HandlerRecord, EndIsOwn, FaultKept
<1>3. NextRecord'
  BY <1>0 DEF TraceInv, NextRecord, LeftBehind, EndIsOwn, FaultKept, NoFault
<1>4. LastResetIsTrue'
  BY <1>0, ToldStays DEF TraceInv, Told
<1> QED
  BY <1>1, <1>2, <1>3, <1>4 DEF TraceInv

LEMMA TraceInvStep ==
    ASSUME VersionsFit, TraceInv, [TraceNext]_traceVars
    PROVE  TraceInv'
BY TraceRom, TraceStart, TraceFallback, TraceGoesOn, TraceHandlers, TraceFailsAgain,
   TraceHandlerEnds, TraceLocksUp, TraceMeant, TraceStalled, TraceLeaves, TraceStutter
DEF TraceNext, EndsBadly

(* However runs end, and whichever of two versions comes next: a reset     *)
(* that is told of did happen as told, no bad end is hidden, a trial's end *)
(* is told by the version it was rolled back to (ticker.rs publish_diag).  *)
THEOREM LastResetIsTrueHolds ==
    ASSUME VersionsFit
    PROVE  TraceSpec => []LastResetIsTrue
<1>1. TraceInit => TraceInv
  BY TraceInvInit
<1>2. TraceInv /\ [TraceNext]_traceVars => TraceInv'
  BY TraceInvStep
<1>3. TraceInv => LastResetIsTrue
  BY DEF TraceInv
<1> QED
  BY <1>1, <1>2, <1>3, PTL DEF TraceSpec
=============================================================================
