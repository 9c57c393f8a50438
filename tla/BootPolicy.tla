----------------------------- MODULE BootPolicy -----------------------------
(***************************************************************************)
(* src/src/boot_policy.rs: the pure decisions of a boot.  The state that   *)
(* survives a reset but not a power cut lives in two scratch words;        *)
(* SCRATCH1 holds the BootState and SCRATCH0, for one boot only, the mark  *)
(* of the version that gave itself up.                                     *)
(*                                                                         *)
(* A 32-bit scratch word is the record of its top byte (a magic number in  *)
(* every use) and the 24 bits below it.                                    *)
(***************************************************************************)
EXTENDS Naturals

CONSTANT StreakMax     \* where a streak saturates: u8::MAX, 255

RECOVERY_AFTER == 2
FALLBACK_AFTER == 3

ASSUME StreakMaxAssumption == StreakMax \in FALLBACK_AFTER .. 255

HALFWORD == 65536                   \* 2^16
FLAG_IN_RECOVERY == 65536           \* 1 << 16
FLAG_FELL_BACK == 131072            \* 1 << 17
MARKER_MAJOR_SHIFT24 == 16777216    \* mutant: 1 << 24, into the magic byte
MARKER_MAJOR == 1048576             \* 1 << 20

Byte == {n \in Nat : n < 256}
LowBits == {n \in Nat : n < 256 * HALFWORD}
Word == [top : Byte, low : LowBits]
ZeroWord == [top |-> 0, low |-> 0]

BootState == [crash : Byte, rec : Byte,
              in_recovery : BOOLEAN, fell_back : BOOLEAN]
DefaultState ==
    [crash |-> 0, rec |-> 0, in_recovery |-> FALSE, fell_back |-> FALSE]

STATE_MAGIC == 165                  \* 0xA5
LEGACY_TOP == 192                   \* 0xC0, and 0xDE in the byte below it
LEGACY_BYTE == 222
MARKER_MAGIC == 251                 \* 0xFB

Bit(b, weight) == IF b THEN weight ELSE 0

EncodeState(s) ==
    [top |-> STATE_MAGIC,
     low |-> s.crash + 256 * s.rec + Bit(s.in_recovery, FLAG_IN_RECOVERY)
             + Bit(s.fell_back, FLAG_FELL_BACK)]

LegacyCount(w) == IF w.low % HALFWORD < 255 THEN w.low % HALFWORD ELSE 255

DecodeState(w) ==
    IF w.top = STATE_MAGIC
      THEN [crash |-> w.low % 256,
            rec |-> (w.low \div 256) % 256,
            in_recovery |-> (w.low \div FLAG_IN_RECOVERY) % 2 = 1,
            fell_back |-> (w.low \div FLAG_FELL_BACK) % 2 = 1]
    ELSE IF w.top = LEGACY_TOP /\ w.low \div HALFWORD = LEGACY_BYTE
      THEN [crash |-> LegacyCount(w), rec |-> 0, in_recovery |-> FALSE, fell_back |-> FALSE]
    ELSE DefaultState

ForNormalRetry(s) ==
    [crash |-> RECOVERY_AFTER - 1, rec |-> 0,
     in_recovery |-> FALSE, fell_back |-> s.fell_back]

(* The mark keeps four bits of the major number, as the trace does: a      *)
(* version word with a major of 16 or more does not come back from it.     *)
FallbackMarker(v) ==
    [top |-> MARKER_MAGIC,
     low |-> ((v \div HALFWORD) % 16) * MARKER_MAJOR + (v % HALFWORD)]
IsMarker(w) == w.top = MARKER_MAGIC /\ (w.low \div HALFWORD) % 16 = 0
MarkerVersion(w) == (w.low \div MARKER_MAJOR) * HALFWORD + (w.low % HALFWORD)

(* The version word boot_trace::arm leaves behind and ::read returns.      *)
TraceVersion(v) == ((v \div HALFWORD) % 16) * HALFWORD + (v % HALFWORD)

(* BootInputs: own, hw_reset, update (FLASH_UPDATE boot), pending (TBYB),  *)
(* trace = [armed, ver, fault], timeout (watchdog), state and marker (the  *)
(* scratch words), other_known.                                            *)
IsFaultOfAny(inp) ==                \* mutant: whoever ran
    inp.trace.armed /\ (inp.trace.fault \/ inp.timeout)

IsFault(inp) ==
    /\ inp.trace.armed
    /\ inp.trace.ver = inp.own
    /\ inp.trace.fault \/ inp.timeout

Traces == [armed : BOOLEAN, ver : Nat, fault : BOOLEAN]
NoTrace == [armed |-> FALSE, ver |-> 0, fault |-> FALSE]

Inputs == [own : Nat, hw_reset : BOOLEAN, update : BOOLEAN, pending : BOOLEAN,
           trace : Traces, timeout : BOOLEAN, state : Word, marker : Word,
           other_known : BOOLEAN]

Counts(inp) == ~inp.hw_reset /\ ~inp.update /\ IsFault(inp)

MarkedBy(inp, v) == inp.update /\ IsMarker(inp.marker) /\ MarkerVersion(inp.marker) = v

(* fell_back_from: the version that gave itself up to this one, 0 if none. *)
FellBackFrom(inp) ==
    IF /\ ~inp.pending /\ ~inp.hw_reset
       /\ inp.update /\ IsMarker(inp.marker) /\ MarkerVersion(inp.marker) # inp.own
      THEN MarkerVersion(inp.marker) ELSE 0

AtLeast(n, m) == IF n < m THEN m ELSE n
SatInc(n) == IF n < StreakMax THEN n + 1 ELSE n

(* The state this boot starts from, before its predecessor's end counts.   *)
Inherited(inp) ==
    IF inp.hw_reset THEN DefaultState
    ELSE IF inp.update
      THEN IF MarkedBy(inp, inp.own)
             THEN LET s == DecodeState(inp.state)
                  IN [s EXCEPT !.fell_back = TRUE, !.rec = 0,
                               !.crash = AtLeast(s.crash, RECOVERY_AFTER)]
             ELSE DefaultState
    ELSE DecodeState(inp.state)

Counted(inp) ==
    LET s == Inherited(inp)
    IN IF ~Counts(inp) THEN s
       ELSE IF s.in_recovery THEN [s EXCEPT !.rec = SatInc(s.rec)]
       ELSE [s EXCEPT !.crash = SatInc(s.crash)]

ModeWithoutFallback(s, otherKnown) ==    \* mutant: recovery for ever
    IF s.crash < RECOVERY_AFTER /\ ~s.in_recovery THEN "normal" ELSE "recovery"

ModeOf(s, otherKnown) ==
    IF s.crash < RECOVERY_AFTER /\ ~s.in_recovery THEN "normal"
    ELSE IF s.rec >= FALLBACK_AFTER /\ ~s.fell_back /\ otherKnown THEN "fallback"
    ELSE "recovery"

Plans == [mode : {"normal", "recovery", "fallback"}, state : BootState,
          write : BOOLEAN, fell_back_from : Nat]

(* decide: the plan of this boot.  A boot that is still to be bought never *)
(* writes SCRATCH1, so that the version it may roll back to keeps its own  *)
(* counts.                                                                 *)
Decide(inp) ==
    IF inp.pending
      THEN [mode |-> "normal", state |-> DefaultState, write |-> FALSE,
            fell_back_from |-> 0]
      ELSE LET s == Counted(inp)
               m == ModeOf(s, inp.other_known)
           IN [mode |-> m,
               state |-> [crash |-> s.crash,
                          rec |-> IF m = "fallback" THEN 0 ELSE s.rec,
                          in_recovery |-> m # "normal",
                          fell_back |-> s.fell_back \/ m = "fallback"],
               write |-> TRUE,
               fell_back_from |-> FellBackFrom(inp)]
=============================================================================
