------------------------------- MODULE Board -------------------------------
(***************************************************************************)
(* The life of one clock: the two firmware slots, the scratch registers,   *)
(* the record in the data partition, and what src/src/bin/ticker.rs does   *)
(* between one reset and the next: decide the mode, check for a release,   *)
(* write it to the other slot, reboot into it, try it, buy it, or crash.   *)
(*                                                                         *)
(* A step is what the firmware does between two points where it can be     *)
(* interrupted to any effect: a reset, a panic, a hang or a power cut.     *)
(* Time is left out: a delay is a step that has not been taken yet.        *)
(***************************************************************************)
EXTENDS Bootrom, BootPolicy

CONSTANTS
    Initial,      \* the version the clock is delivered with
    Crashes,      \* Crashes[v]: the phases in which version v may crash or hang
    NoCheck,      \* NoCheck[v]: the phases in which v's release check never works
    Possible,     \* whether a boot has credentials to reach the network (a set)
    BuyMayFail,   \* whether explicit_buy may return an error
    MaxCuts       \* bound on power cuts

Phases == {"trial", "normal", "recovery", "fallback"}

ASSUME BoardAssumption ==
    /\ Initial \in Version
    /\ Crashes \in [Version -> SUBSET Phases]
    /\ NoCheck \in [Version -> SUBSET Phases]
    /\ Possible \in (SUBSET BOOLEAN) \ {{}}
    /\ BuyMayFail \in BOOLEAN
    /\ MaxCuts \in Nat

VARIABLES
    flash,        \* the two slots
    record,       \* the blocked version in the data partition, 0 when unreadable
    scratch0, scratch1,
    trace,        \* SCRATCH5..7: who ran, and whether a fault was recorded
    reset,        \* the last reset: its kind, and the slot of a FLASH_UPDATE
    pc,           \* how far this boot has come
    boot,         \* what the ROM and the image know of this boot
    plan,         \* what Decide said
    run,          \* the working state of this boot
    published,    \* the release the manifest names
    cuts,         \* power cuts so far
    proven,       \* history: every version that was ever bought
    ends          \* history: abnormal ends since the counts last started

vars == <<flash, record, scratch0, scratch1, trace, reset, pc, boot, plan,
          run, published, cuts, proven, ends>>
scratch == <<scratch0, scratch1, trace>>
world == <<published, cuts>>

MaxEnds == RECOVERY_AFTER + FALLBACK_AFTER    \* bound on the history

FreshRun == [possible |-> FALSE, blocked |-> 0, proved |-> FALSE,
             ota |-> "idle", want |-> 0, retryArmed |-> FALSE, buyFailed |-> FALSE]

Reset(kind, s) == reset' = [kind |-> kind, slot |-> s] /\ pc' = "reset"

NoPlan == [mode |-> "normal", state |-> DefaultState, write |-> FALSE,
           fell_back_from |-> 0]

Target == Other(boot.slot)      \* slots.target
Phase == IF boot.pending THEN "trial" ELSE plan.mode
DownloadOkAlways == TRUE        \* mutant: fetch on trial too
DownloadOk == ~boot.pending     \* DOWNLOAD_OK; in recovery mode always set

Init ==
    /\ flash = [s \in Slots |-> IF s = "A" THEN [ver |-> Initial, tbyb |-> FALSE]
                                ELSE NoImage]
    /\ record = 0
    /\ scratch0 = ZeroWord /\ scratch1 = ZeroWord /\ trace = NoTrace
    /\ reset = [kind |-> "hw", slot |-> "A"]
    /\ pc = "reset"
    /\ boot = [slot |-> "A", ver |-> Initial, pending |-> FALSE,
               update |-> FALSE, eraseOther |-> FALSE]
    /\ plan = NoPlan
    /\ run = FreshRun
    /\ published = Initial
    /\ cuts = 0
    /\ proven = {Initial}
    /\ ends = 0

-----------------------------------------------------------------------------
(* The boot ROM.                                                           *)

UpdateTo(s) == reset.kind = "update" /\ reset.slot = s /\ Valid(flash, s)
NoUpdate == \A s \in Slots : ~UpdateTo(s)

(* FLASH_UPDATE into a slot that holds an image. The ROM has used SCRATCH2 *)
(* to SCRATCH7 for its parameters, so the trace is gone.                   *)
RomUpdateBoot(s) ==
    /\ pc = "reset"
    /\ UpdateTo(s)
    /\ boot' = [slot |-> s, ver |-> flash[s].ver, pending |-> flash[s].tbyb,
                update |-> TRUE, eraseOther |-> EraseAtBuy(flash, s)]
    /\ flash' = AfterUpdateBoot(flash, s)
    /\ trace' = NoTrace
    /\ run' = FreshRun /\ plan' = NoPlan
    /\ pc' = "main"
    /\ UNCHANGED <<record, scratch0, scratch1, reset, world, proven, ends>>

(* Every other boot, and a FLASH_UPDATE whose slot holds no image.         *)
RomNormalBoot(s) ==
    /\ pc = "reset"
    /\ NoUpdate
    /\ s \in NormalPick(flash)
    /\ boot' = [slot |-> s, ver |-> flash[s].ver, pending |-> FALSE,
                update |-> reset.kind = "update", eraseOther |-> FALSE]
    /\ trace' = IF reset.kind = "update" THEN NoTrace ELSE trace
    /\ run' = FreshRun /\ plan' = NoPlan
    /\ pc' = "main"
    /\ UNCHANGED <<flash, record, scratch0, scratch1, reset, world, proven, ends>>

(* A board without a bootable image stops here, and TLC finds a deadlock.  *)
RomBoot == \E s \in Slots : RomUpdateBoot(s) \/ RomNormalBoot(s)

-----------------------------------------------------------------------------
(* The start of main: the plan, SCRATCH1, then boot_trace::arm.  The       *)
(* three are straight-line code with nothing to wait for.                  *)

BootInputs ==
    [own |-> boot.ver, hw_reset |-> reset.kind = "hw", update |-> boot.update,
     pending |-> boot.pending, trace |-> trace,
     timeout |-> reset.kind \in {"timer", "update"},
     state |-> scratch1, marker |-> scratch0, other_known |-> TRUE]

StartsOver == boot.update /\ ~boot.pending /\ ~MarkedBy(BootInputs, boot.ver)

Start ==
    /\ pc = "main"
    /\ plan' = Decide(BootInputs)
    /\ scratch1' = IF plan'.write THEN EncodeState(plan'.state) ELSE scratch1
    /\ scratch0' = ZeroWord
    /\ trace' = [armed |-> TRUE, ver |-> TraceVersion(boot.ver), fault |-> FALSE]
    /\ pc' = IF plan'.mode = "fallback" THEN "fallback" ELSE "setup"
    /\ ends' = IF StartsOver THEN 0 ELSE ends
    /\ UNCHANGED <<flash, record, reset, boot, run, world, proven>>

(* fallback_now: the mark, then reboot(FLASH_UPDATE) into the other slot.  *)
FallbackMark ==
    /\ pc = "fallback"
    /\ scratch0' = FallbackMarker(boot.ver)
    /\ pc' = "fallback_reboot"
    /\ UNCHANGED <<flash, record, scratch1, trace, reset, boot, plan, run, world,
                   proven, ends>>

FallbackReboot ==
    /\ pc = "fallback_reboot"
    /\ Reset("update", Target)
    /\ UNCHANGED <<flash, record, scratch, boot, plan, run, world, proven, ends>>

-----------------------------------------------------------------------------
(* Set-up.  In normal mode the record is rewritten when it changes, be it  *)
(* for the version that gave itself up or for an edited wifi.txt: erase    *)
(* the sector, program the page.  Recovery mode only reads it.             *)

NewBlocked == AtLeast(record, plan.fell_back_from)
Rewritten(p) == NewBlocked # record \/ p    \* p: wifi.txt gave credentials

SetupKeepsRecord ==
    /\ pc = "setup" /\ plan.mode = "normal"
    /\ NewBlocked = record
    /\ \E p \in Possible :
         run' = [run EXCEPT !.blocked = NewBlocked, !.possible = p]
    /\ pc' = "normal"
    /\ UNCHANGED <<flash, record, scratch, reset, boot, plan, world, proven, ends>>

SetupErasesRecord ==
    /\ pc = "setup" /\ plan.mode = "normal"
    /\ \E p \in Possible :
         /\ Rewritten(p)
         /\ run' = [run EXCEPT !.blocked = NewBlocked, !.possible = p]
    /\ record' = 0
    /\ pc' = "persist"
    /\ UNCHANGED <<flash, scratch, reset, boot, plan, world, proven, ends>>

PersistProgram ==
    /\ pc = "persist"
    /\ record' = run.blocked
    /\ pc' = "normal"
    /\ UNCHANGED <<flash, scratch, reset, boot, plan, run, world, proven, ends>>

(* A failed erase or program is logged, and the boot goes on.              *)
PersistFails ==
    /\ \/ /\ pc = "setup" /\ plan.mode = "normal"
          /\ \E p \in Possible :
               /\ Rewritten(p)
               /\ run' = [run EXCEPT !.blocked = NewBlocked, !.possible = p]
       \/ pc = "persist" /\ UNCHANGED run
    /\ pc' = "normal"
    /\ UNCHANGED <<flash, record, scratch, reset, boot, plan, world, proven, ends>>

(* Without credentials nothing can be fetched; the way back to normal mode *)
(* is then open from the start.                                            *)
RecoverySetup ==
    /\ pc = "setup" /\ plan.mode = "recovery"
    /\ \E p \in Possible :
         run' = [run EXCEPT !.blocked = record, !.possible = p, !.retryArmed = ~p]
    /\ pc' = "recovery"
    /\ UNCHANGED <<flash, record, scratch, reset, boot, plan, world, proven, ends>>

Setup == SetupKeepsRecord \/ SetupErasesRecord \/ PersistFails \/ RecoverySetup

-----------------------------------------------------------------------------
(* run_ota_check and OtaState::apply.  A check may start again while a     *)
(* verified image waits for its reboot ("check now" on the settings page); *)
(* recovery mode has no such page and reboots first.                       *)

MayCheck ==
    /\ pc \in {"normal", "recovery"}
    /\ run.possible
    /\ run.ota \in (IF pc = "normal" THEN {"idle", "rejected", "rebooting"}
                    ELSE {"idle", "rejected"})

CheckWorks == MayCheck /\ Phase \notin NoCheck[boot.ver]

NewerOrSame == published >= boot.ver                           \* mutant
Newer == published > boot.ver
IsBlocked == run.blocked # 0 /\ published <= run.blocked
ToInstall == Newer /\ ~IsBlocked

(* Up to date, no release, or blocked: the path works, nothing to do.      *)
CheckNothing ==
    /\ CheckWorks /\ ~ToInstall
    /\ run' = [run EXCEPT !.proved = TRUE, !.ota = "idle",
                          !.retryArmed = @ \/ pc = "recovery"]
    /\ UNCHANGED <<flash, record, scratch, reset, pc, boot, plan, world, proven, ends>>

(* A version still to be bought only reads the manifest.                   *)
CheckOnly ==
    /\ CheckWorks /\ ToInstall /\ ~DownloadOk
    /\ run' = [run EXCEPT !.proved = TRUE, !.ota = "idle"]
    /\ UNCHANGED <<flash, record, scratch, reset, pc, boot, plan, world, proven, ends>>

(* The very image is already there and has not been bought: it will be     *)
(* tried again after a while.                                              *)
CheckRejected ==
    /\ CheckWorks /\ ToInstall /\ DownloadOk
    /\ flash[Target] = [ver |-> published, tbyb |-> TRUE]
    /\ run' = [run EXCEPT !.proved = TRUE, !.ota = "rejected", !.want = published]
    /\ UNCHANGED <<flash, record, scratch, reset, pc, boot, plan, world, proven, ends>>

(* SlotWriter::begin erases the target's first sector.                     *)
CheckDownload ==
    /\ CheckWorks /\ ToInstall /\ DownloadOk
    /\ flash[Target] # [ver |-> published, tbyb |-> TRUE]
    /\ flash' = [flash EXCEPT ![Target] = NoImage]
    /\ run' = [run EXCEPT !.ota = "writing", !.want = published]
    /\ UNCHANGED <<record, scratch, reset, pc, boot, plan, world, proven, ends>>

(* A final status other than 200 and 404 proves the path but brings no     *)
(* manifest; a transport error does not even prove the path.               *)
CheckFails(answered) ==
    /\ MayCheck
    /\ answered => Phase \notin NoCheck[boot.ver]
    /\ run' = [run EXCEPT !.proved = @ \/ answered, !.ota = "idle"]
    /\ UNCHANGED <<flash, record, scratch, reset, pc, boot, plan, world, proven, ends>>

Check == CheckNothing \/ CheckOnly \/ CheckRejected \/ CheckDownload

(* image::check lets only an executable through that has the TBYB flag and *)
(* the version of the manifest.                                            *)
AcceptedUnflagged(v) == [ver |-> v, tbyb |-> FALSE]                \* mutant
Accepted(v) == [ver |-> v, tbyb |-> TRUE]

(* The asset is that of the latest release at the time it is fetched, so   *)
(* it has the manifest's digest only if no release came in between.        *)
DownloadDone ==
    /\ pc \in {"normal", "recovery"} /\ run.ota = "writing"
    /\ published = run.want
    /\ flash' = [flash EXCEPT ![Target] = Accepted(run.want)]
    /\ run' = [run EXCEPT !.proved = TRUE, !.ota = "rebooting"]
    /\ UNCHANGED <<record, scratch, reset, pc, boot, plan, world, proven, ends>>

DownloadFails ==
    /\ pc \in {"normal", "recovery"} /\ run.ota = "writing"
    /\ run' = [run EXCEPT !.proved = TRUE, !.ota = "idle"]
    /\ UNCHANGED <<flash, record, scratch, reset, pc, boot, plan, world, proven, ends>>

(* reboot_due: the trace is cleared first, since this reset is meant.      *)
RebootDue ==
    /\ pc \in {"normal", "recovery"}
    /\ run.ota \in {"rebooting", "rejected"}
    /\ trace' = NoTrace
    /\ pc' = "leave"
    /\ UNCHANGED <<flash, record, scratch0, scratch1, reset, boot, plan, run, world,
                   proven, ends>>

RebootIntoSlot ==
    /\ pc = "leave"
    /\ Reset("update", Target)
    /\ UNCHANGED <<flash, record, scratch, boot, plan, run, world, proven, ends>>

-----------------------------------------------------------------------------
(* The trial of a version that has not been bought.                        *)

MayBuy == pc = "normal" /\ boot.pending /\ ~run.buyFailed

(* explicit_buy runs with interrupts disabled and the watchdog stopped, so *)
(* only a power cut comes between its erase and its program.               *)
BuyBegin ==
    /\ MayBuy /\ run.proved
    /\ flash' = BuyErased(flash, boot.slot)
    /\ pc' = "buying"
    /\ UNCHANGED <<record, scratch, reset, boot, plan, run, world, proven, ends>>

BuyDone ==
    /\ pc = "buying"
    /\ flash' = BuyDoneFlash(flash, boot.slot, boot.ver, boot.eraseOther)
    /\ boot' = [boot EXCEPT !.pending = FALSE]
    /\ scratch1' = EncodeState(DefaultState)
    /\ pc' = "normal"
    /\ proven' = proven \cup {boot.ver}
    /\ ends' = 0
    /\ UNCHANGED <<record, scratch0, trace, reset, plan, run, world>>

(* The watchdog runs again, the deadline is lifted, DOWNLOAD_OK stays off. *)
BuyError ==
    /\ BuyMayFail
    /\ MayBuy /\ run.proved
    /\ run' = [run EXCEPT !.buyFailed = TRUE]
    /\ UNCHANGED <<flash, record, scratch, reset, pc, boot, plan, world, proven, ends>>

(* The deadline has passed: nothing reloads the watchdog any more.         *)
BuyTimeout ==
    /\ MayBuy
    /\ Reset("timer", boot.slot)
    /\ UNCHANGED <<flash, record, scratch, boot, plan, run, world, proven, ends>>

-----------------------------------------------------------------------------
(* Ten quiet minutes.                                                      *)

(* mutant: the counts are cleared on trial too                             *)
HealthClearOnTrial ==
    /\ pc = "normal" /\ run.proved
    /\ scratch1 # EncodeState(DefaultState)
    /\ scratch1' = EncodeState(DefaultState)
    /\ ends' = 0
    /\ UNCHANGED <<flash, record, scratch0, trace, reset, pc, boot, plan, run, world,
                   proven>>

(* on_frame, in a bought version: the counts go back to zero.              *)
HealthClear ==
    /\ pc = "normal" /\ ~boot.pending /\ run.proved
    /\ scratch1 # EncodeState(DefaultState)
    /\ scratch1' = EncodeState(DefaultState)
    /\ ends' = 0
    /\ UNCHANGED <<flash, record, scratch0, trace, reset, pc, boot, plan, run, world,
                   proven>>

(* Recovery mode: give normal mode another try.                            *)
NormalRetry ==
    /\ pc = "recovery" /\ run.retryArmed /\ run.ota # "writing"
    /\ scratch1' = EncodeState(ForNormalRetry(plan.state))
    /\ pc' = "retry"
    /\ UNCHANGED <<flash, record, scratch0, trace, reset, boot, plan, run, world,
                   proven, ends>>

RetryReset ==
    /\ pc = "retry"
    /\ trace' = NoTrace
    /\ Reset("force", boot.slot)
    /\ UNCHANGED <<flash, record, scratch0, scratch1, boot, plan, run, world, proven, ends>>

(* "Restart" on the settings page, refused until the version is bought.    *)
WebReboot ==
    /\ pc = "normal" /\ DownloadOk
    /\ trace' = NoTrace
    /\ Reset("force", boot.slot)
    /\ UNCHANGED <<flash, record, scratch0, scratch1, boot, plan, run, world, proven, ends>>

-----------------------------------------------------------------------------
(* Abnormal ends.                                                          *)

Ended == ends' = IF boot.pending \/ ends = MaxEnds THEN ends ELSE ends + 1

MayCrash == Phase \in Crashes[boot.ver]

(* A panic, a HardFault, a stalled task: recorded, then reset_now.         *)
CrashRecorded ==
    /\ pc \in {"setup", "persist", "normal", "recovery", "retry"}
    /\ MayCrash
    /\ trace' = [trace EXCEPT !.fault = TRUE]
    /\ Reset("force", boot.slot)
    /\ Ended
    /\ UNCHANGED <<flash, record, scratch0, scratch1, boot, plan, run, world, proven>>

(* A hang that records nothing, or a crash where the trace is not armed:   *)
(* the watchdog of start_early ends it.                                    *)
CrashSilent ==
    /\ pc \in {"main", "setup", "persist", "normal", "recovery", "retry", "leave",
               "fallback", "fallback_reboot"}
    /\ MayCrash
    /\ Reset("timer", boot.slot)
    /\ Ended
    /\ UNCHANGED <<flash, record, scratch, boot, plan, run, world, proven>>

Crash == CrashRecorded \/ CrashSilent

PowerCut ==
    /\ cuts < MaxCuts
    /\ cuts' = cuts + 1
    /\ scratch0' = ZeroWord /\ scratch1' = ZeroWord /\ trace' = NoTrace
    /\ Reset("hw", boot.slot)
    /\ ends' = 0
    /\ UNCHANGED <<flash, record, boot, plan, run, published, proven>>

(* A release is published.                                                 *)
Publish ==
    /\ \E v \in Version : v > published /\ published' = v
    /\ UNCHANGED <<flash, record, scratch, reset, pc, boot, plan, run, cuts, proven, ends>>

Firmware ==
    \/ Start \/ FallbackMark \/ FallbackReboot
    \/ Setup \/ PersistProgram
    \/ Check \/ (\E answered \in BOOLEAN : CheckFails(answered))
    \/ DownloadDone \/ DownloadFails
    \/ RebootDue \/ RebootIntoSlot
    \/ BuyBegin \/ BuyDone \/ BuyError \/ BuyTimeout
    \/ HealthClear \/ NormalRetry \/ RetryReset \/ WebReboot

Next == RomBoot \/ Firmware \/ Crash \/ PowerCut \/ Publish

Spec == Init /\ [][Next]_vars

(* Fairness, for the liveness runs. The ROM and the straight-line code go  *)
(* on; the network and the release server work again and again (strong     *)
(* fairness of what needs them); a version whose check never works ends    *)
(* abnormally in the end (its jobs task stalls: Limits::TICKER); releases  *)
(* are published until the last one is out.                                *)
Dies == /\ Crash
        /\ pc \in {"normal", "recovery"} /\ Phase \in NoCheck[boot.ver]

Fairness ==
    /\ WF_vars(RomBoot) /\ SF_vars(Start)
    /\ WF_vars(FallbackMark) /\ WF_vars(FallbackReboot)
    /\ SF_vars(Setup) /\ WF_vars(PersistProgram)
    /\ SF_vars(Check /\ boot.pending) /\ SF_vars(Check /\ ~boot.pending)
    /\ SF_vars(DownloadDone)
    /\ WF_vars(DownloadDone \/ DownloadFails)
    /\ SF_vars(RebootDue) /\ SF_vars(RebootIntoSlot)
    /\ SF_vars(BuyBegin) /\ WF_vars(BuyDone)
    /\ WF_vars(RetryReset)
    /\ SF_vars(Dies)
    /\ WF_vars(Publish)

FairSpec == Spec /\ Fairness

-----------------------------------------------------------------------------
(* Properties.                                                             *)

PCs == {"reset", "main", "fallback", "fallback_reboot", "setup", "persist",
        "normal", "buying", "recovery", "retry", "leave"}

Resets == [kind : {"hw", "timer", "force", "update"}, slot : Slots]

Boots == [slot : Slots, ver : Version, pending : BOOLEAN, update : BOOLEAN,
          eraseOther : BOOLEAN]

Runs == [possible : BOOLEAN, blocked : Nat, proved : BOOLEAN,
         ota : {"idle", "writing", "rebooting", "rejected"}, want : Version \cup {0},
         retryArmed : BOOLEAN, buyFailed : BOOLEAN]

(* The type invariant of the board.                                        *)
TypeOK ==
    /\ flash \in Flash
    /\ record \in Nat
    /\ scratch0 \in Word /\ scratch1 \in Word
    /\ trace \in Traces
    /\ reset \in Resets
    /\ pc \in PCs
    /\ boot \in Boots /\ plan \in Plans /\ run \in Runs
    /\ published \in Version
    /\ cuts \in 0 .. MaxCuts
    /\ proven \in SUBSET Version
    /\ ends \in 0 .. MaxEnds

(* Whatever crashes, hangs or loses power, in whatever order, and at every *)
(* instant of a download and of explicit_buy: an ordinary boot finds a     *)
(* bought image to start (the other slot is the way back, ota/app.rs       *)
(* ota_allowed, docs/ticker.md section 8.2).                               *)
AlwaysBootable == NormalPick(flash) # {}

(* Why that is so. An image that has not been bought always lies beside an *)
(* older bought one, also while it runs, is being bought or is half        *)
(* written; of two bought images the newer runs; every bought version was  *)
(* proven. This is inductive (BoardProofs).                                *)
Running == pc # "reset"

FlashSafe ==
    /\ \E s \in Slots : Bought(flash, s)
    /\ \A s \in Slots : Bought(flash, s) => flash[s].ver \in proven
    /\ \A s \in Slots :
         Valid(flash, s) /\ flash[s].tbyb =>
           Bought(flash, Other(s)) /\ flash[Other(s)].ver < flash[s].ver
    /\ \A s \in Slots : Bought(flash, s) /\ Bought(flash, Other(s)) =>
                          flash[s].ver # flash[Other(s)].ver

RunSafe ==
    Running =>
      /\ flash[boot.slot] = IF pc = "buying" THEN NoImage
                            ELSE [ver |-> boot.ver, tbyb |-> boot.pending]
      /\ Bought(flash, Target) => flash[Target].ver < boot.ver
      /\ pc = "buying" => boot.pending
      /\ ~boot.eraseOther

WriteSafe == run.ota = "writing" => ~boot.pending /\ run.want > boot.ver

WayBack == FlashSafe /\ RunSafe /\ WriteSafe

(* A version is only put into recovery mode after two abnormal ends of     *)
(* bought versions since the counts started, and only gives itself up      *)
(* after five: what a version on trial does is never held against the one  *)
(* it rolls back to (boot_policy.rs is_fault, decide).                     *)
PlanEarned ==
    pc \notin {"reset", "main"} =>
        /\ plan.mode = "recovery" => ends >= RECOVERY_AFTER
        /\ plan.mode = "fallback" => ends >= RECOVERY_AFTER + FALLBACK_AFTER

(* While the record names a version as blocked, no slot holds an image of  *)
(* it, and none is being written (boot_policy.rs Record::blocked).         *)
BlockedStaysOut ==
    record # 0 => /\ \A s \in Slots : flash[s].ver # record
                  /\ ~(pc \in {"normal", "recovery"} /\ run.ota = "writing"
                        /\ run.want = record)

PlansAreSound == PlanEarned /\ BlockedStaysOut

(* A version on trial leaves SCRATCH1, the counts of the version it may    *)
(* roll back to, alone until the very step that buys it; only a power cut  *)
(* takes them away (boot_policy.rs BootPlan::write_state).                 *)
TrialKeepsCounts ==
    [][boot.pending /\ pc # "reset" /\ cuts' = cuts /\ scratch1' # scratch1
         => Bought(flash', boot.slot) /\ flash'[boot.slot].ver = boot.ver]_vars

(* The board implements the update it promises. The confirmed version is   *)
(* the one an ordinary boot would run, the trial is the image that runs    *)
(* without having been bought.                                             *)
ConfirmedVersion == flash[CHOOSE s \in NormalPick(flash) : TRUE].ver
TrialVersion == IF boot.pending /\ pc # "reset" THEN boot.ver ELSE 0

Abstract == INSTANCE AbUpdate WITH
    confirmed <- ConfirmedVersion, trial <- TrialVersion, proven <- proven
ImplementsAbUpdate == Abstract!Spec

(* However the earlier releases are broken, the last one is confirmed in   *)
(* the end and stays (docs/ticker.md section 8: whatever version arrives,  *)
(* the way to "reset, check, update" stays open).                          *)
LastRelease == CHOOSE v \in Version : \A w \in Version : w <= v
ReachesLastRelease == <>[](ConfirmedVersion = LastRelease)
=============================================================================
