----------------------------- MODULE BootTrace -----------------------------
(***************************************************************************)
(* src/src/boot_trace.rs: the record a run of the firmware keeps of itself *)
(* in the scratch registers of the watchdog, how it is closed when the run *)
(* ends badly, and what the next boot makes of it: the line publish_diag   *)
(* of src/src/bin/ticker.rs shows of the last reset.                       *)
(*                                                                         *)
(* Two images: Old is in one slot and bought, New arrives in the other, is *)
(* tried, and bought or rolled back.  A run may end at any time by a power *)
(* cut, a panic, a fault of the processor, a stalled task, a lock-up that  *)
(* leaves no record, or because it was meant to.  The uptime in the upper  *)
(* bits of SCRATCH6 is left out.                                           *)
(***************************************************************************)
EXTENDS BootPolicy

CONSTANTS
    Old, New,       \* their version words
    Passed,         \* the stages runs pass through in this instance
    Detail,         \* what tells two faults of a kind apart: a line, a time
    JoinsMax        \* where the count of joins saturates: u8::MAX

ASSUME BootTraceAssumption ==
    Old \in Nat /\ New \in Nat /\ Old # New /\ Detail \subseteq LowBits /\ JoinsMax \in Nat

VARIABLES
    new,                \* of New: "absent", "trial" or "bought"
    image, buyState,    \* the version that runs, and its BuyState
    at,                 \* "rom", "setup", "up", "handler" or "leaving"
    reason,             \* WATCHDOG.REASON: "hw", "timer" or "force"
    asked,              \* the version reboot(FLASH_UPDATE) asks for, 0: none
    SCRATCH0, SCRATCH1, \* words
    SCRATCH5,           \* the version of the writer, 0 without its MAGIC
    SCRATCH6,           \* the code of the stage
    SCRATCH7,           \* what was written and its value
    ARMED,
    decided, line,      \* decide's plan of this boot, and what it shows
    joins,              \* history: the joins of this run
    ended               \* history: how the run before ended

reboot == <<reason, asked>>
words == <<SCRATCH5, SCRATCH6, SCRATCH7>>
known == <<decided, line>>
traceVars == <<new, image, buyState, at, reboot, SCRATCH0, SCRATCH1, words, ARMED, known, joins, ended>>

Code == [None |-> 0, MainEntered |-> 1, FeedStarted |-> 2, SdRead |-> 3, DisplayStarted |-> 4,
         WifiInit |-> 5, WifiReady |-> 6, Joining |-> 7, JoinFailed |-> 8, Joined |-> 9,
         DhcpWait |-> 10, DhcpTimeout |-> 11, NetworkUp |-> 12, BuyCalled |-> 13, Bought |-> 14,
         BuyFailed |-> 15, SelftestTimedOut |-> 16, WifiPowerCycle |-> 17, DhcpRetry |-> 18,
         Running |-> 19, Recovery |-> 20, OtaProved |-> 21, FallbackReboot |-> 22, SdInit |-> 23,
         WebListening |-> 24, Panic |-> 224, HardFault |-> 225, StackOverflow |-> 226,
         WdtMain |-> 227, WdtJobs |-> 228, WdtRender |-> 229, UnhandledIrq |-> 230,
         WdtWeb |-> 231, WdtMatter |-> 232]
Stage == DOMAIN Code

(* The stages of a run that goes on; those of its end come from Fails and  *)
(* Stalled alone, that of a failed buy from BuyFails.                      *)
ASSUME PassedAssumption == Passed \subseteq {s \in Stage : Code[s] < 224} \ {"BuyFailed"}

label(code) == IF \E s \in Stage : Code[s] = code
               THEN CHOOSE s \in Stage : Code[s] = code ELSE "?"
is_fault(code) == label(code) # "?" /\ code >= 224

(* health::decode reads the same codes by a table of its own.              *)
Stalls == [main |-> 227, jobs |-> 228, render |-> 229, web |-> 231, matter |-> 232]
decode(code) ==
    IF code = 224 THEN "panic" ELSE IF code = 225 THEN "HardFault"
    ELSE IF code = 226 THEN "STACK OVERFLOW" ELSE IF code = 230 THEN "unhandled IRQ"
    ELSE IF \E w \in DOMAIN Stalls : Stalls[w] = code
      THEN CHOOSE w \in DOMAIN Stalls : Stalls[w] = code
    ELSE "not recorded"

(* What SCRATCH7 holds: decode goes by the kind of the fault, but           *)
(* write_prev_trace_line knows three stages and takes the word of every    *)
(* other one for the counters of the joins.                                *)
InfoAs(code) == IF code = 224 THEN "line" ELSE IF code \in {225, 226} THEN "pc"
                ELSE IF code = 230 THEN "irq" ELSE "ms"
ShownAs(code) == IF code = Code["Panic"] THEN "line" ELSE IF code = Code["HardFault"] THEN "pc"
                 ELSE IF code = Code["BuyFailed"] THEN "rc" ELSE "counters"
RightlyShown(what) == what.as = what.word.as

SUPERVISED_MARK == [top |-> 83, low |-> 0]      \* 0x53.., "SUPV"
AddressOf(d) == [top |-> 16, low |-> d]         \* in flash: &Location, LR
RETURN_CODE == [top |-> 255, low |-> 0]         \* the LR of an exception

-----------------------------------------------------------------------------
(* What a run writes.                                                      *)

arm ==
    /\ SCRATCH5' = TraceVersion(image)
    /\ SCRATCH6' = Code["MainEntered"]          \* arm, then the first stage
    /\ SCRATCH7' = [as |-> "counters", n |-> 0]
    /\ SCRATCH0' = ZeroWord
    /\ ARMED' = TRUE

stage(s) == SCRATCH6' = IF ARMED THEN Code[s] ELSE SCRATCH6

clear == ARMED' = FALSE /\ SCRATCH5' = 0

(* The first fault of a run is kept: a panic ends in a fault of its own.   *)
KeepsNone == ARMED
Keeps == ARMED /\ ~is_fault(SCRATCH6)

fault_with(s, what, extra) ==
    /\ SCRATCH6' = IF Keeps THEN Code[s] ELSE SCRATCH6
    /\ SCRATCH7' = IF Keeps THEN what ELSE SCRATCH7
    /\ SCRATCH0' = IF Keeps THEN extra ELSE SCRATCH0

(* rom_data::reboot(FLASH_UPDATE) and a cut of the power take the record. *)
RomTakesRecord == SCRATCH5' = 0 /\ SCRATCH6' = 0 /\ SCRATCH7' = [as |-> "rom", n |-> 0]

Unbought == {"Pending", "TimedOut", "Failed"}

Closed(how, n) ==
    ended' = [how |-> how, n |-> n, ver |-> image, trial |-> buyState \in Unbought,
              failed |-> buyState = "Failed", joins |-> joins, last |-> SCRATCH6]

ResetBy(r) == at' = "rom" /\ reason' = r

-----------------------------------------------------------------------------
(* The boot ROM, as module Bootrom has it for two images of which New is   *)
(* the newer one.                                                          *)

RomPicks == IF asked = New /\ new # "absent" THEN New
            ELSE IF asked = Old \/ new # "bought" THEN Old ELSE New

Rom ==
    /\ at = "rom" /\ at' = "main"
    /\ image' = RomPicks
    /\ buyState' = IF asked = New /\ new = "trial" THEN "Pending" ELSE "NotTbyb"
    /\ new' = IF asked = Old /\ new = "bought" THEN "absent" ELSE new
    /\ joins' = 0
    /\ UNCHANGED <<reboot, SCRATCH0, SCRATCH1, words, ARMED, known, ended>>

(* BootStatus::collect and boot_inputs.                                    *)
Inputs1 ==
    [own |-> image, hw_reset |-> reason = "hw", update |-> asked # 0, pending |-> buyState = "Pending",
     trace |-> [armed |-> SCRATCH5 # 0, ver |-> SCRATCH5, fault |-> is_fault(SCRATCH6)],
     timeout |-> reason = "timer", state |-> SCRATCH1, marker |-> SCRATCH0, other_known |-> TRUE]

last_reset ==
    LET d == decode(SCRATCH6)
    IN IF d = "not recorded" THEN [kind |-> "reset", how |-> d]
       ELSE [kind |-> "reset", how |-> d, what |-> [as |-> InfoAs(SCRATCH6), word |-> SCRATCH7]]

(* write_prev_trace_line: the trial of another version.                    *)
prev_trace == [kind |-> "trial", ver |-> SCRATCH5, last |-> SCRATCH6,
               what |-> [as |-> ShownAs(SCRATCH6), word |-> SCRATCH7]]

publish_diag(p) ==
    IF p.fell_back_from # 0 THEN [kind |-> "fallback", ver |-> p.fell_back_from]
    ELSE IF buyState # "Pending" /\ Counts(Inputs1) THEN last_reset
    ELSE IF SCRATCH5 # 0 THEN prev_trace
    ELSE [kind |-> "boot"]

main ==
    /\ at = "main"
    /\ decided' = Decide(Inputs1)
    /\ line' = publish_diag(decided')
    /\ SCRATCH1' = IF decided'.write THEN EncodeState(decided'.state) ELSE SCRATCH1
    /\ arm
    /\ at' = IF decided'.mode = "fallback" THEN "fallback" ELSE "setup"
    /\ UNCHANGED <<new, image, buyState, reboot, joins, ended>>

fallback_now ==
    /\ at = "fallback"
    /\ Closed("fallback", 0)
    /\ ARMED' = FALSE /\ SCRATCH0' = FallbackMarker(image)
    /\ asked' = (IF image = New THEN Old ELSE New)
    /\ RomTakesRecord /\ ResetBy("timer")
    /\ UNCHANGED <<new, image, buyState, SCRATCH1, known, joins>>

-----------------------------------------------------------------------------
(* A run goes on.                                                          *)

Alive == at \in {"setup", "up"}
Going == <<new, image, buyState, reboot, SCRATCH5, ARMED, known, ended>>

Supervised ==                       \* supervisor::start
    /\ at = "setup" /\ at' = "up"
    /\ SCRATCH0' = SUPERVISED_MARK /\ stage("DisplayStarted")
    /\ UNCHANGED <<Going, SCRATCH1, SCRATCH7, joins>>

Joins == {"Joining", "JoinFailed", "DhcpTimeout"}   \* these write the counters

Passes(s) ==
    /\ Alive /\ stage(s)
    /\ joins' = IF s = "Joining" THEN (IF joins < JoinsMax THEN joins + 1 ELSE joins) ELSE joins
    /\ SCRATCH7' = IF s \in Joins THEN [as |-> "counters", n |-> joins'] ELSE SCRATCH7
    /\ UNCHANGED <<Going, at, SCRATCH0, SCRATCH1>>

ExplicitBuy ==
    /\ at = "up" /\ buyState = "Pending"
    /\ new' = "bought" /\ buyState' = "Bought"
    /\ stage("Running") /\ SCRATCH1' = EncodeState(DefaultState)
    /\ UNCHANGED <<image, at, reboot, SCRATCH0, SCRATCH5, SCRATCH7, ARMED, known, joins, ended>>

BuyFails ==
    /\ at = "up" /\ buyState = "Pending" /\ buyState' = "Failed"
    /\ stage("BuyFailed") /\ SCRATCH7' = [as |-> "rc", n |-> 0]
    /\ UNCHANGED <<new, image, at, reboot, SCRATCH0, SCRATCH1, SCRATCH5, ARMED, known, joins, ended>>

TimesOut ==                         \* the trial is over its deadline
    /\ at = "up" /\ buyState = "Pending" /\ buyState' = "TimedOut"
    /\ stage("SelftestTimedOut")
    /\ UNCHANGED <<new, image, at, reboot, SCRATCH0, SCRATCH1, SCRATCH5, SCRATCH7, ARMED, known,
                   joins, ended>>

Healthy ==                          \* ten minutes after the first proof
    /\ at = "up" /\ buyState \notin Unbought /\ decided.mode = "normal"
    /\ SCRATCH1' = EncodeState(DefaultState)
    /\ UNCHANGED <<Going, at, SCRATCH0, SCRATCH7, SCRATCH6, joins>>

-----------------------------------------------------------------------------
(* A run ends.                                                             *)

Ending == <<new, image, buyState, asked, SCRATCH1, SCRATCH5, ARMED, known, joins>>

(* The panic handler, HardFault and DefaultHandler.                        *)
Fails(s, how, what, extra) ==
    /\ at \in {"setup", "up", "leaving"}
    /\ \E d \in Detail :
         /\ fault_with(s, [as |-> what, n |-> d], extra[d])
         /\ Closed(IF ARMED THEN how ELSE "leaving", d)
    /\ at' = "handler"
    /\ UNCHANGED <<Ending, reason>>

AtAddress == [d \in Detail |-> AddressOf(d)]
InHandler == [d \in Detail |-> RETURN_CODE]
Zero == [d \in Detail |-> ZeroWord]

PanicHandler == Fails("Panic", "panic", "line", AtAddress)
HardFaults == \E extra \in {AtAddress, InHandler} : Fails("HardFault", "HardFault", "pc", extra)
Overflows == Fails("StackOverflow", "STACK OVERFLOW", "pc", AtAddress)
StrayInterrupt == Fails("UnhandledIrq", "unhandled IRQ", "irq", Zero)

(* A fault inside a handler.                                               *)
FailsAgain ==
    /\ at = "handler"
    /\ \E d \in Detail : fault_with("HardFault", [as |-> "pc", n |-> d], AddressOf(d))
    /\ UNCHANGED <<Ending, at, reason, ended>>

(* A handler resets the chip, or hangs until the watchdog does.            *)
HandlerEnds ==
    /\ at = "handler" /\ \E r \in {"force", "timer"} : ResetBy(r)
    /\ asked' = 0
    /\ UNCHANGED <<new, image, buyState, SCRATCH0, SCRATCH1, words, ARMED, known, joins, ended>>

WdtStage(w) == CHOOSE s \in Stage : Code[s] = Stalls[w]
Stalled(w) ==                       \* supervisor::on_frame
    /\ at \in {"up", "leaving"}
    /\ \E d \in Detail :
         /\ fault_with(WdtStage(w), [as |-> "ms", n |-> d], ZeroWord)
         /\ Closed(IF ARMED THEN w ELSE "leaving", d)
    /\ ResetBy("force") /\ asked' = 0
    /\ UNCHANGED <<new, image, buyState, SCRATCH1, SCRATCH5, ARMED, known, joins>>

LocksUp ==
    /\ at \in {"setup", "up", "leaving"}
    /\ Closed(IF ARMED THEN "not recorded" ELSE "leaving", 0)
    /\ ResetBy("timer") /\ asked' = 0
    /\ UNCHANGED <<new, image, buyState, SCRATCH0, SCRATCH1, words, ARMED, known, joins>>

CutOff ==
    /\ at # "rom"
    /\ Closed("power", 0) /\ ResetBy("hw") /\ asked' = 0
    /\ SCRATCH0' = ZeroWord /\ SCRATCH1' = ZeroWord /\ RomTakesRecord
    /\ UNCHANGED <<new, image, buyState, ARMED, known, joins>>

(* The reboot of the settings page and picotool's: the record goes first.  *)
Rebooted ==
    /\ at = "up" /\ buyState \notin Unbought /\ decided.mode = "normal"
    /\ clear /\ Closed("planned", 0) /\ ResetBy("force") /\ asked' = 0
    /\ UNCHANGED <<new, image, buyState, SCRATCH0, SCRATCH1, SCRATCH6, SCRATCH7, known, joins>>

(* Recovery mode tries the normal mode once more.                          *)
TriesNormal ==
    /\ at = "up" /\ decided.mode = "recovery"
    /\ SCRATCH1' = EncodeState(ForNormalRetry(decided.state))
    /\ clear /\ Closed("planned", 0) /\ ResetBy("force") /\ asked' = 0
    /\ UNCHANGED <<new, image, buyState, SCRATCH0, SCRATCH6, SCRATCH7, known, joins>>

(* The check has written New to the other slot; then reboot_into_slot      *)
(* switches the radio off before it asks for the reboot.                   *)
Leaves ==
    /\ at = "up" /\ buyState \notin Unbought /\ image = Old
    /\ new' = "trial" /\ clear /\ at' = "leaving"
    /\ UNCHANGED <<image, buyState, reboot, SCRATCH0, SCRATCH1, SCRATCH6, SCRATCH7, known, joins, ended>>

Updates ==
    /\ at = "leaving"
    /\ asked' = New /\ Closed("planned", 0) /\ RomTakesRecord /\ ResetBy("timer")
    /\ UNCHANGED <<new, image, buyState, SCRATCH0, SCRATCH1, ARMED, known, joins>>

-----------------------------------------------------------------------------
TraceInit ==
    /\ new = "absent" /\ image = Old /\ buyState = "NotTbyb"
    /\ at = "rom" /\ reason = "hw" /\ asked = 0
    /\ SCRATCH0 = ZeroWord /\ SCRATCH1 = ZeroWord
    /\ SCRATCH5 = 0 /\ SCRATCH6 = 0 /\ SCRATCH7 = [as |-> "rom", n |-> 0]
    /\ ARMED = FALSE /\ joins = 0
    /\ decided = [mode |-> "normal", state |-> DefaultState, write |-> FALSE, fell_back_from |-> 0]
    /\ line = [kind |-> "boot"]
    /\ ended = [how |-> "power", n |-> 0, ver |-> Old, trial |-> FALSE,
               failed |-> FALSE, joins |-> 0, last |-> 0]

GoesOn == Supervised \/ ExplicitBuy \/ BuyFails \/ TimesOut \/ Healthy \/ \E s \in Passed : Passes(s)

EndsBadly == PanicHandler \/ HardFaults \/ Overflows \/ StrayInterrupt \/ FailsAgain \/ HandlerEnds
             \/ LocksUp \/ CutOff \/ \E w \in DOMAIN Stalls : Stalled(w)

TraceNext == Rom \/ main \/ fallback_now \/ GoesOn \/ EndsBadly \/ Rebooted \/ TriesNormal
             \/ Leaves \/ Updates

TraceSpec == TraceInit /\ [][TraceNext]_traceVars

-----------------------------------------------------------------------------
Bad == {"panic", "HardFault", "STACK OVERFLOW", "unhandled IRQ", "not recorded"} \cup DOMAIN Stalls
Told == at \in {"setup", "up", "fallback"}     \* `ended` is still the run before

(* A reset that is told of did happen as it is told: in the run before, to *)
(* this version, of this kind, at this line or after this time.            *)
FaultIsTold ==
    Told /\ line.kind = "reset" =>
        /\ ended.ver = image /\ ~ended.trial /\ ended.how = line.how
        /\ ended.how # "not recorded" => RightlyShown(line.what) /\ line.what.word.n = ended.n

(* A bad end of a bought version is told by the next boot, and what was    *)
(* meant to happen is not called a fault.                                  *)
NothingIsHidden ==
    Told => /\ ended.how \in Bad /\ ~ended.trial => line.kind = "reset"
            /\ ended.how \in {"planned", "power", "leaving"} => line.kind = "boot"

(* A trial that was rolled back is told by the version it came back to,    *)
(* with the stage it had reached or the fault it died of.                  *)
TrialIsTold ==
    Told => /\ line.kind = "trial" => ended.trial /\ image = Old
            /\ ended.trial /\ ended.how \in Bad =>
                 /\ line.kind = "trial" /\ line.ver = TraceVersion(ended.ver)
                 /\ IF ended.how = "not recorded" THEN line.last = ended.last
                    ELSE decode(line.last) = ended.how

(* The line of a trial's panic, the pc of its HardFault, the rc of a buy   *)
(* that failed last, and the joins of a trial that ended without a record  *)
(* are shown as what they are.  Not so the time of a stall, the pc of a    *)
(* stack overflow, the number of an interrupt, which are all shown as      *)
(* counters, and the rc when a stage was noted after it.                   *)
TrialDetailIsTold ==
    Told /\ line.kind = "trial" =>
        /\ ended.how \in {"panic", "HardFault"} =>
              RightlyShown(line.what) /\ line.what.word.n = ended.n
        /\ ended.how = "not recorded" /\ line.last = Code["BuyFailed"] => RightlyShown(line.what)
        /\ ended.how = "not recorded" /\ ~ended.failed =>
              RightlyShown(line.what) /\ line.what.word.n = ended.joins

(* FALLBACK is shown by the version another one gave itself up to.         *)
BackIsTold ==
    Told /\ buyState = "NotTbyb" =>
        (line.kind = "fallback" <=> ended.how = "fallback" /\ ended.ver # image)

(* What the screen says of the last reset is what has happened; of a       *)
(* trial's, with the detail in the cases TrialDetailIsTold names.          *)
LastResetIsTrue ==
    FaultIsTold /\ NothingIsHidden /\ TrialIsTold /\ TrialDetailIsTold /\ BackIsTold
=============================================================================
