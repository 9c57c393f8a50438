# Verification of the ticker firmware (pico2w 300-yen LCD clock)

The program is the firmware of a small networked clock: a Raspberry Pi Pico 2 W
(RP2350) that drives a 400×96 LCD, keeps time by SNTP, shows weather, a message,
a power meter and photos, serves a settings page, and **updates itself over the
air** from GitHub releases. It has two firmware slots, the boot ROM's *try before
you buy* (TBYB), a supervisor that resets a board whose tasks hang, a recovery
mode, and a way for a version to give itself up. Nobody stands beside the clock
with a cable: a mistake in any of this is permanent. That is what the first
modules, and the proofs, are about. The others are about the tasks whose
interleavings nobody can test one by one: photos, settings page, display,
scrolling line, power meter, jobs, status lines.

Contents: [inventory](#1-inventory) · [modules](#2-modules) ·
[runs](#3-runs-and-bounds) · [fairness](#4-fairness) · [proofs](#5-proofs) ·
[findings](#6-disagreements-found) · [abstractions](#7-abstractions-and-limits) ·
[plan](#8-what-is-left) · [how to run](#9-running-the-checks).

## 1. Inventory

All tasks of `src/src/bin/ticker.rs` run on one cooperative executor (embassy):
an interleaving can only happen at an `await`. Interrupts (the LCD's DMA) and
resets can happen anywhere.

| Component (source) | State | Operations | Talks to |
|---|---|---|---|
| Boot policy (`boot_policy.rs`) | none: pure functions over words | `decide`, `encode`/`decode` of SCRATCH1, the fallback mark, `is_fault` | main, at boot |
| Boot trace (`boot_trace.rs`) | SCRATCH0, 1, 5–7 | `arm`, `stage`, fault records, marks; what the next boot shows of them | survives every reset but a power cut |
| Boot ROM (external), `ab_boot.rs` | two slots in flash, the partition table | choice of the slot, FLASH_UPDATE boot, `explicit_buy`, the table as words | flash, watchdog |
| Slots and record (`ota/slot.rs` `find_slots`, `persist.rs`, `wifi.rs`, `provision.rs`) | blocked version and credentials in a sector; WIFI.TXT | find, read, erase + program; install a missing file | main at boot, recovery mode, `OtaState` |
| Updates (`ota/app.rs`, `ota/http.rs`, `ota/manifest.rs`, `ota/image.rs`, `ota/slot.rs`) | phase, next check, backoff, rejected release; writer of the other slot | `due`, `begin`, `finish`, `reboot_due`; request, redirect, parse, erase, program, verify, commit | GitHub, flash, main's flags |
| jobs_task (`ticker.rs`) | `NET_READY`, `DOWNLOAD_OK`, `OTA_NOW`, `OTA_PROVED`, the schedules | one job after another: check, SNTP, weather, message, settings page | every other task, through atomics and `MODEL` |
| main's loop (`ticker.rs`) | `LinkManager`, `BootStatus` | join, DHCP, `buy_tick`, reboot, status lines | radio, supervisor |
| Buy gate (`boot_policy.rs` `BuyGate`) | since when everything is there | `tick` | main |
| Supervisor (`supervisor.rs`, `ticker/health.rs`) | last beats, deadline, proof, PHASE | `beat`, `park`, `start`, `rearm`, `ota_proved`, `on_frame` (interrupt) | the watchdog of the chip |
| Settings file (`web/server.rs` `save_ticker_txt`, `ticker/config.rs`) | TICKER.TXT, .NEW, .BAK | parse, rewrite, read back, delete; the choice at boot | SD card |
| Settings page (`web/*`) | socket, session, access code, lock-out | requests, uploads, check-now | jobs_task, SD card, slideshow |
| Slideshow (`ticker/slideshow.rs`) | background, level, `SD_LOCK`, `RELOAD`, `PAUSE`, `START` | fade, load row by row, list | SD card, renderer |
| Display (`lcd/display.rs`, PIO programs) | front and back buffer, FIFOs, DMA ring | `start`, `present`, frame interrupt | supervisor, renderer |
| Bring-up layers (`bin/layer*.rs`) | counters of the state machines, two buffers | frame by frame, hand-over of a picture | the panel |
| Scrolling line (`ui/scroll.rs`, `ticker.rs`) | the composed line, x, generation numbers | `compose`, `advance`, `copies`, `push` | jobs_task, page |
| Screen (`ui/screen.rs`, fonts) | none: a function of a view | place and width of every text | renderer |
| Clock and jobs (`ticker/sntp.rs`, `civil.rs`, `weather.rs`, `ticker.rs`) | clock, due times, fallbacks | `do_ntp`, `do_weather`, `do_message` | servers, page |
| Status lines (`ticker.rs`) | texts, tones, deadlines in `MODEL` | write, expand, banner, code | main, jobs_task, slideshow |
| Power meter (`matter/*`, `ticker/power.rs`) | latest reading, two rings | lookup, read, rest; `record`, `plot` | network, renderer |
| SD driver, recovery screen, older firmwares, host tools, board files | see `PROJECT.json` | | |

What makes the behaviour hard:

* **crashes and power cuts at any instant** – between the erase and the program
  of a sector, between the mark of a version that gives itself up and the record
  that blocks it, inside `explicit_buy`, between the ten card operations of a save;
* **state that outlives its writer** – scratch registers and slots are read by
  *another version* of the program;
* **a check of up to 330 s during which everything may change** – the version
  is bought, the network drops, a release is published, the page asks for a check;
* **timers that race** – the reboot into a verified release, the retry of normal
  mode, the retry of a rejected release, the trial's deadline, the watchdog;
* **clocks that wrap** – the supervisor's, one value of which means "not
  supervised"; the seconds of NTP; the readings' ring of times;
* **locks held over waits** – `SD_LOCK` across frames and across a pause that
  lasts a whole download;
* **a peer that may do anything** – pieces, pipelined requests, silence;
* **hardware that does not wait** – the scan reads the buffer that is copied;
* **liveness** – whichever broken version arrives, "reset, check, update" must
  stay possible; a photo, a fetch, a listening socket must come again.

What makes each component correct is stated as the properties of section 3. Every
place where the code is exposed to one of these is a row of `hazards` in
`PROJECT.json`, with the properties that watch it.

## 2. Modules

| Module | Models | Remarks |
|---|---|---|
| `Bootrom` | the ROM's choice of slot, TBYB, `explicit_buy` as seen from `ab_boot.rs` and the repository's simulator `boot_sim.rs` | external; constants and operators only |
| `BootPolicy` | `decide`, the two scratch words, the version in the trace | pure operators |
| `AbUpdate` | **abstract**: one confirmed version, at most one trial, fallback to confirmed versions only | |
| `Board` | one clock from reset to reset: ROM, `Start` (decide, SCRATCH1, arm), record, check, download, reboot, buy, crash, fallback, recovery | composes the three above; implements `AbUpdate` |
| `SlotWrite` | **abstract**: a slot holds a whole image or none | |
| `SlotWriter` | `SlotWriter` of `ota/slot.rs`, page by page | details `Board`'s `DownloadDone` |
| `ImageDef` | the blocks of an image word by word, `ota/image.rs`'s examination, and what the ROM may make of them | pure operators |
| `OtaCheck` | `run_ota_check`: redirects, statuses, manifest, asset, digest, reading back, class of every error | extends `SlotWriter`, `ImageDef`; implements `SlotWrite` |
| `Persist` | the partition table from words, both slots, WIFI.TXT, the record with its faults | what `OtaCheck` and `Board` take for granted |
| `OtaState` | `OtaState` of `ota/app.rs`: phases, next check, backoff | operators on a record |
| `OtaTask` | both loops of `jobs_task` with main's part (buy, reboot) and the page's check-now | time counted in units |
| `Supervisor` | `supervisor.rs`, `health.rs`: beats, the check in the frame interrupt, the watchdog, the wrapping clock | operations; no Next |
| `Trial` | one boot under the supervisor: main's loop with `LinkManager` and `BuyGate`, tasks that beat or hang | composes `Supervisor` with main |
| `BootTrace` | every writer of the scratch registers and of `ARMED`, exceptions, supervisor, planned reboots; what the next boot tells | opens up `Board`'s crash |
| `TickerConfig` | `parse`, `message_text`, `valid_value`, `rewrite` | pure operators |
| `TickerTxt` | saving and loading `ticker.txt` with card errors and power cuts | a text is a sequence of lines |
| `WebServer` | one socket, keep-alive, heads and bodies in pieces, deadlines, code and lock-out, uploads, the card | opens up "the page" of the others |
| `Slideshow` | the photo task against page, checks and card | |
| `Display` | both PIO programs, four DMA channels, the frame interrupt, `present` and its copy, clock by clock | |
| `Layers`, `Swap` | bring-up layers 2–7: counts of the state machines; how a picture gets on show | |
| `Ticker` | the scrolling line and the generation numbers by which the renderer learns of news | |
| `Screen` | the box of every text in every layout, from the widths of the fonts | pure function of a view; one step per frame |
| `Clock` | the jobs' schedule, NTP with two hosts, the clock, date and file times, what a save changes | opens up `OtaTask`'s "other work" |
| `Notices` | the three status lines, their deadlines and tones, banner and code | |
| `Power` | the meter's task, the two rings and the graph | |
| `MC*` | the instances for TLC | |
| `*Proofs` | see section 5 | |

How they fit: `Board` is the whole life of a board without time and without
tasks. `OtaTask`, `Trial` and `BootTrace` open up what `Board` takes as one step
(a check; the way from `Start` to a buy or a reset; how a run ends) and add time;
`OtaCheck` opens up one check and `Persist` where its slot and its blocked version
come from. `Clock`, `WebServer`, `Slideshow`, `Power` and `Notices` are the
other tasks, each against the flags and locks through which the rest reaches it;
`Display`, `Ticker` and `Screen` are what the renderer does with their results.
Names of variables and actions are those of the source where it has one (`PHASE`,
`LAST_BEAT`, `DOWNLOAD_OK`, `SD_LOCK`, `next_check`, `ready_since`); `pc` (in
`Power`, `waits`) says at which `await`, or between which two effects, the code is. History variables only
record; no guard reads them. `PROJECT.json` `map` gives the lines every definition
stands for; abbreviations have no entry of their own, their lines are those of the
definitions that use them.

Several instances hold two or three modules that share nothing: there a variable
`subject` says which one a behaviour is of (`MCOtaCheck`: check or record;
`MCTrial`: tasks or record of the run; `MCDisplay`: display, layer or swap;
`MCPower`: meter or places; `MCClock`: jobs or notices).

## 3. Runs and bounds

| Run | Properties | What it shows |
|---|---|---|
| `board` | `TypeOK` `AlwaysBootable` `WayBack` `PlansAreSound` `TrialKeepsCounts` `ImplementsAbUpdate` | three releases, each of which may crash or hang in every phase, `explicit_buy` that may fail, two power cuts at any instant: some bought image always boots, no version is put into recovery or given up for what another one did, a blocked version stays out, the board implements the abstract update |
| `board_live` | `ReachesLastRelease` | a release that passes its trial and then neither runs nor checks is replaced in the end |
| `slot_writer` | `UpdateIsSafe` `ImplementsSlotWrite` | checks of releases that end inside a sector, fill the slot, are unacceptable or too large; the server redirects, refuses, breaks off or sends any of them in chunks of any size; two faults. And partition tables and records over any number of boots |
| `settings_file` | `TextsAreSafe` `SavedIsLoaded` | any sequence of forms, saves and boots, six cards, two faults at any step |
| `ota_task` | `TypeOK` `RebootsIntoWhole` `RecoveryChecksOften` `TrialKeepsTheSlot` `AfterBuyAtOnce` `NewReleaseTried` `RecoveryEnds` | both loops, the network coming and going, buy and check-now at any `await` |
| `trial` | `TypeOK` `StalledIsReset` `TrialEnds` `LastResetIsTrue` `NoFalseReset` `BuyIsSettled` `ClearedWhenProven` | every hang of every task, a wrapping clock, a link that drops, a trial that must end; and, run after run, what a run leaves in the scratch registers |
| `slideshow` | `ShowIsSound` `KeepsGoing` `KeepsShowing` | two photos of which one cannot be read, a card that reads well, only slowly, or errs; the page deletes, adds, saves; checks pause the show at any time |
| `web_server` | `ServiceIsSound` `GuessesAreRationed` `ListensAgain` | seventeen kinds of requests in any order, in pieces, delayed, pipelined, broken off; a card that errs twice |
| `display` | `PanelIsSound` `FramesGoOn` | scan against copy, upright and turned, a task woken late; and the layers |
| `ticker` | `LineIsSound` `LineIsCurrent` `LineRunsOn` | changes of message, URL, source and code between frames that come late |
| `power` | `LcdIsSound` `GraphIsTrue` | a meter that answers, is silent, fails, a network that comes and goes; the place of every text for every view |
| `clock` | `ClockIsRight` `StatusIsSound` | the jobs across leap days and the end of NTP's era with checks, saves and silent servers; the status lines through joins, fetches, checks, saves |

What the composed properties say (each is a conjunction of definitions of the
module that hold one idea each; a mutant that breaks any one of them breaks it):

* `PlansAreSound` = `PlanEarned` (recovery and fallback are earned by this
  version's own crashes) ∧ `BlockedStaysOut`.
* `UpdateIsSafe`: for a check `CheckIsSound` = `SlotIsSafe` (`NeighbourIntact`
  whatever the server sends, `FirstSectorLast`, `OnlyOnTrial`: nothing the ROM
  would boot for good) ∧ `ProvedByAnswer` (only a complete answer proves the
  network to the buy gate); for a record `CopyIsSound` = `TableIsRead` (a table of
  any names comes back out of the words) ∧ `SlotsAreEachOthers` ∧
  `RecordIsTheLast` (what is read is the last one written whole, and recovery
  joins with it) ∧ `ErasedForAReason`.
* `TextsAreSafe` = `OneComplete` (one of the files holds a whole text at every
  instant) ∧ `LeftInNew` ∧ `AsAsked` (a saved text says what the form asked, and of
  other keys what it said before).
* `LastResetIsTrue` = `FaultIsTold` ∧ `NothingIsHidden` ∧ `TrialIsTold` ∧
  `TrialDetailIsTold` ∧ `BackIsTold`. The kind of the last reset is always right, and so
  is the detail of a fault of this version. Of a rolled back trial, the
  screen decodes the detail of three stages and takes that of every other one for join
  counters (`ShownAs`, `ota/app.rs:454–475`); `TrialDetailIsTold` claims it for a
  panic, a HardFault, a failed buy noted last, and the joins of a run without a
  record, and for nothing else (section 6, item 7).
* `ShowIsSound` = `HalfIsDim` (half a photo is never lit) ∧ `OneOpensTheCard` ∧
  `ListIsCurrent` ∧ `LayoutIsCurrent`; `KeepsGoing` = `FirstPhotoIsTried` ∧
  `ReloadIsTaken` ∧ `CardComesBack` ∧ `FadesOneWay`.
* `ServiceIsSound` = `InSync` (no piece of a body is read as a head) ∧
  `WebBeatsInTime` (Web's sign of life, not Jobs') ∧ `GivenUpInTime` (a head is given
  up in less than 2 · `IO_TIMEOUT`, the header and data of an upload within
  `UPLOAD_DEADLINE + IO_TIMEOUT`; forms and answers have no deadline for the whole,
  so none is claimed: section 6, item 11) ∧ `NothingWithoutCode` ∧ `WholeOrGone`.
* `PanelIsSound` = `FrameIsSound` (`OnGlass`, `AsFullFrame`, `NoTear`,
  `OneFrameIsTorn`) ∧ `LayersInStep` (`SyncIsSteady`, `PixelsStay`) ∧ `SwapIsSound`
  (`DrawsOffStage`, `PicturesAreWhole`); `FramesGoOn` = `IrqAtFrameEnd` ∧
  `PresentReturns`.
* `LineIsSound` = `OldMessageIsReplaced` ∧ `SettingsAreWhole` ∧ `StaysInReach` ∧
  `LoopHasNoGap`; `LineRunsOn` = `MovesEvenly` ∧ `SettingsPassBy`.
* `LcdIsSound`: for the meter `FreshIsFresh` ∧ `NeverTooSilent` ∧
  `FirstDoneInTime`; for the places `FitsItsPlace` ∧ `RunsWhereItIsDrawn` ∧
  `MiddleIsFree`. `FitsItsPlace` has an exception: a place longer than `PLACE_ROOM`
  (8 half characters in Glass, 5 in Dock and Classic) spoils the row it is drawn in, and
  then speaks of all other texts (section 6, item 20). `GraphIsTrue` = `TrendIsTrue` ∧ `NoLineOverGap`.
* `ClockIsRight` = `ClockIsClose` ∧ `DateIsRight` (against a civil calendar
  defined independently). `StatusIsSound`: for the jobs `WeatherIsOfPlace` ∧
  `JobsBeatInTime` ∧ `EveryJobIsTried`; for the lines `CodeIsShown` ∧ `TextsAreTrue` ∧
  `FailuresOpenTheLines`.

The type invariant of each module is a conjunct of its first property.

Bounds, and why they are enough:

* *Board*: three versions are the least with which "the version before the one
  that is blocked" and "a release between two others" exist; one has a major
  number above 0, because a trace keeps four bits of it. `StreakMax` is 3 (255 in
  the code): above `RECOVERY_AFTER` = 2 and at `FALLBACK_AFTER` = 3 nothing tells
  two values apart. Two power cuts are needed for "cut, and cut again in what
  repairs it". The proofs of section 5 do not depend on any of these.
* *OtaCheck*: two pages a sector and two sectors distinguish first/last page of
  a sector, first/last sector, and the neighbour's first page. About 230 first
  sectors are every block of up to three items, each with a wrong length, link
  or end, behind or before another.
* *Persist*: the table of `partition/pico2w-ab.json`, and tables with unnamed
  partitions, a name longer than is kept (32 in the code, 6 here), another
  order, links to other partitions, no second slot that takes the family. Two
  versions fallen back from make "the highest" mean something; one page that
  breaks, and a power cut before every write of it.
* *TickerTxt*: two keys the page changes, one it does not know, comments; room
  for six lines; two faults are one that leaves a file behind and one that meets it.
* *OtaTask*: durations keep the order of the real ones (10 s < 60 s < 600 s; the
  2 s before a reboot last several rounds of the loop); three versions, one of
  them blocked.
* *Trial*: the clock wraps at 14 with limits 2 and 1, a watchdog of 3, a deadline
  of 6, a settling time of 2, 4 for the streak; `SupervisorAssumption` states the
  order that is kept (deadline and watchdog before the wrap, every limit far below
  half of the clock's range). Three tasks: main, one always supervised, one only
  while it serves. `InitTime` bounds the time before the display runs, which is
  straight-line code of bounded length.
* *BootTrace*: two versions, three stages on the way, two details, one join:
  two of each are what a confusion needs. Runs are not bounded.
* *Slideshow*: two photos are the least for "the next one" and "every photo
  failed"; a frame of 350 ms makes a fade two frames long.
* *WebServer*: a body of two pieces, a socket that holds two, a head of three,
  locks of 1 and 2 after two wrong codes, four wrong codes in all. A deadline of 2 for an
  upload is two reads that time out; `LongAgo` = 4 is past every deadline.
* *Display*: 3 × 2 pixels with lines one word longer than SM1's shortest, so that
  its loop counts; three pictures tell the one on show, the one before and the one
  to come apart. *Layers*: lines of 13 clocks (4 + 8 + 1), 5 lines a frame, FIFOs
  of 5 words. *Swap*: 6 rows, a drawing of up to 4.
* *Ticker*: a line of four units, messages of 0, 1 and 6, room for 15: the
  longest is cut when the settings are in the line. Frames are up to 2 late.
* *Clock*: a tick is 10 s and a day has four, so that a run crosses midnight;
  the evenings are 28 February 2000 and 2100 (one is a leap year) and the day in
  2036 on which NTP's seconds begin anew. Three calls of the page or of a check.
* *Notices*: a tick of 30 s; every deadline keeps its order; an SSID of 20
  characters, for which one of the texts does not fit (section 6).
* *Power*: rings of three buckets that go round twice; a clock that wraps at 5
  ticks of 7. *Screen*: the widest temperature, readings of 2, 10 and 17 digits,
  places of 5, 8 and 32 half characters (the room Dock and Classic have, the room Glass
  has, all that `place=` takes), the shortest and the longest weather, all layouts,
  both modes: the widest text of each kind decides.

Deadlock is checked in every run but `power` and `clock`, whose time ends at
`NOW_MAX`: a board that the ROM cannot boot, for example, is a deadlock of `Board`.

## 4. Fairness

* `board`, `slot_writer`, `settings_file`, `trial`, `power` and `clock` check safety
  only and assume nothing: a task that hangs simply does not act any more. What
  `power` and `clock` say of time ("tried within …") are invariants over history.
* `board_live` (`Board!FairSpec`): the ROM and the straight-line
  code go on (WF); a check, a download and a buy that are possible again and again
  succeed some time (SF: the network and the server are not in league with the
  bug); a version whose checks never work crashes or hangs some time (SF `Dies`: in
  the program a watchdog enforces it); releases appear until the last (WF).
* `ota_task` (`OtaTask!FairSpec`): every `await` of the loop has a timeout in the
  code, so it goes on (WF `Round \/ Outcome`); time passes and main runs in some
  of the waits (SF); manifests that are asked for again and again are answered
  some time, and so are downloads (SF). `NET_READY` itself is not fair: the
  properties say "if the network stays".
* `slideshow`: frames and timers come, the page's requests and checks end,
  because they have timeouts (WF); the photo task is awake at some of the times
  at which nobody else has the card and no check runs, if those come again and
  again (SF `Waits`). No fairness makes a card good: `KeepsShowing` says "a photo
  that can be read". A task that waits for a lock is not promised it in one wait.
* `web_server`: timeouts fire and what jobs_task does between requests has one
  (WF); its loop looks at the socket in every round (SF `Round`). The peer is not fair.
* `display`: the hardware never stops, the interrupt is taken, a task that was
  woken is polled (WF each).
* `ticker`: the renderer draws with every frame, again and again as long as a
  frame would change anything. `TickerFairSpec` has `WF_tickerVars(AnyFrame)` with its ENABLED
  written out, because TLC's own evaluation of it is too slow.

## 5. Proofs

`tlapm` proves every obligation of the eight proof modules, for all constants that
satisfy the `ASSUME`s of the models (TLC evaluates those in the runs).

| Theorem (module) | Says |
|---|---|
| `StateRoundTrip`, `MarkerRoundTrip`, `DecideFacts` (`BoardProofs`) | SCRATCH1 and the mark decode to what was encoded; what `decide` may return |
| `TypeCorrect`, `WayBackHolds`, `NeverBricked` (`BoardProofs`) | `[]TypeOK` of the board; the slots always hold a way back; an ordinary boot always finds a bought image |
| `PlanInvHolds`, `PlansAreSoundHolds` (`BoardProofs`) | what the scratch registers plan is earned: a trial counted, a version blocked only after it failed, a fallback only after its boots |
| `LastResetIsTrueHolds` (`BoardProofs`) | what a boot shows of the last reset is what happened; of a trial's detail, in the cases the code decodes it |
| `TrialKeepsCountsHolds`, `Refinement` (`BoardProofs`) | a trial leaves the counts alone; `Board` implements `AbUpdate` |
| `Invariance`, `TypeOKHolds`, `RebootsIntoWholeHolds`, `RecoveryChecksOftenHolds`, `TrialKeepsTheSlotHolds`, `AfterBuyAtOnceHolds` (`TaskProofs`) | safety of the update checks |
| `PowerInvHolds`, `GraphIsTrueHolds`, `MeterIsSoundHolds` (`TaskProofs`) | the graph shows what was received, each reading in its place; the meter's part of `LcdIsSound` |
| `LcdIsSoundHolds` (`TaskProofs`) | every text of every view is whole, in its panel, and by itself, but for the row of a place longer than its layout has room for; with the meter, all of `LcdIsSound` |
| `Inductive`, `TrialTypesHold`, `StalledIsResetHolds`, `TrialEndsHolds`, `NoFalseResetHolds`, `BuyIsSettledHolds`, `ClearedWhenProvenHolds` (`UpdateProofs`) | safety of a supervised boot |
| `RomReadsTheSame` (`UpdateProofs`) | of a sector that the program's checks let through the boot ROM thinks what the program does: on trial, of the manifest's version |
| `CheckInvHolds`, `CheckIsSoundHolds`, `SlotWriteImplemented` (`UpdateProofs`) | a download keeps to its slot and makes it bootable last; it implements `SlotWrite`, in which the new image is there at once or not at all |
| `RecordInvHolds`, `CopyIsSoundHolds`, `UpdateIsSafeHolds` (`UpdateProofs`) | the table is read as it is written, the two slots and the record are three places, the record is the last one written whole; with the check, all of `UpdateIsSafe` |
| `ShowInvHolds`, `ShowIsSoundHolds` (`ShowProofs`) | safety of the slideshow against the settings page and the checks |
| `WebInvHolds`, `ServiceIsSoundHolds`, `GuessesAreRationedHolds` (`WebServerProofs`) | no body is read as a head, Web is heard in time, slow heads and uploads are given up, nothing changes without the code, guesses are paid for with the locks |
| `CalendarIsRight` (`ClockProofs`) | `civil_from_days` is the calendar, for every day from 1970 on |
| `ClockIsRightHolds`, `StatusIsSoundHolds` (`ClockProofs`) | safety of clock, date, jobs and of the status lines |
| `RewriteSaysWhatWasAsked` (`TickerTxtProofs`) | what `rewrite` does to what a text says, for every text and every form |
| `TextInvHolds`, `TextsAreSafeHolds`, `SavedIsLoadedHolds` (`TickerTxtProofs`) | safety of saving and loading `ticker.txt` |
| `LineInvHolds`, `LineIsCurrentHolds`, `LineIsSoundHolds`, `MovesEvenlyHolds` (`ShowProofs`) | the line that runs is what there is to say, URL and code uncut and marked; it stays in reach, a loop has no gap and moves evenly |
| `SwapIsSoundHolds` (`LcdProofs`) | the bring-up layers 5 to 7 show whole pictures in order: the `Swap` part of `PanelIsSound` |
| `DisplayInvHolds`, `FrameIsSoundHolds`, `IrqAtFrameEndHolds` (`LcdProofs`) | the scan-out: state machines, DMA and panel keep in step, every pixel shows its word, a frame one picture: the `Display` part of `PanelIsSound`; the interrupt comes at the frame's end: the safety part of `FramesGoOn` |

The arguments:

* **Board.** `AlwaysBootable` is not inductive: nothing in it forbids that the
  image being overwritten is the last bought one. `WayBack` = `FlashSafe` (an
  unbought image lies beside an *older bought* one, of two bought images the
  versions differ, all bought versions were proven) ∧ `RunSafe` (the running image
  is what the slots say, the other bought image is older, and during
  `explicit_buy` the running slot counts as empty) ∧ `WriteSafe` (only a bought
  version writes, and only a newer one) is. The refinement maps the confirmed
  version to the one an ordinary boot would pick and the trial to the running,
  unbought image; every action is a step of `AbUpdate` or a stutter, case by case.
* **OtaTask.** The invariant adds to `TypeOK` what a running check has
  established (`CheckRuns`: the wanted version is newer, not blocked, fetched only
  by a bought version), that a version just bought is still owed its check
  (`OwedIsAsked`: `OTA_NOW` stands, or the check is due), and which phases each
  mode can be in.
* **Trial.** The heart is that a beat's stamp tells the truth although the clock
  wraps: the age of a stamp is the silence of its task, or one more
  (`BeatIsTrue`), and a silence never exceeds limit + (timeout − watchdog)
  (`FedInTime`), so half of the clock's range is never reached and no wrapped age
  is mistaken for "just now". `TrialIsFed` says the same of the deadline:
  clock + watchdog stays below deadline + timeout while the trial lasts.
  `GateIsTrue` relates the gate's `ready_since` to how long main has *really*
  found nothing missing; `ProofIsTrue` the stamp of the first check to its age.

* **Plans of the board.** `PlansAreSound` speaks of what an installed plan
  says; `PlanInv` adds where plans come from: which counts a running boot has
  earned (`CountsEarned`), that the end of a run is counted (`EndIsCounted`), whose
  run the trace holds (`TraceIsOwn`), and that a mark names a version that really
  failed (`MarkIsEarned`, `MarkIsTrue`). The mark and SCRATCH1 keep few bits of a
  version, hence the hypothesis `MajorsFit`: no major number needs more than they keep.
* **Boot trace.** `LastResetIsTrue` compares what is shown with the ghost of what
  happened; `TraceInv` says, stage by stage, how much of the run's own record
  (`OwnRecord`), of a handler's (`HandlerRecord`) and of the next boot's copy
  (`NextRecord`) the registers hold. A word keeps, beside its number, what it was
  written as (a line, a pc, an rc, counters), so that `RightlyShown` can compare that with what
  the screen takes it for. Hypothesis `VersionsFit`: the versions survive being packed.
* **The two parsers.** `Chain` follows the items one by one, `Items` is any set of
  positions closed under "the next item". `ChainIsRun` and `RunIsChain` show, by
  induction over how much of the sector is left, that a chain that ends is the one
  such set; so both find the same blocks (`BlockOfBoth`), the same first one, and one
  type and one version in it.
* **Update check.** `FirstSectorLast` speaks of the flash once it can be booted;
  `CheckInv` adds what makes it true: while pages are asked for, received and written
  nothing in the slot can be booted (`NoneBootable`), every page received is on the
  flash, in the sector's buffer or still to be copied (`Counted`), at its own place
  (`Placed`), and when the first sector is written the digest was right and the image
  examined (`Examined`). `Spoiled`, `LaterWritten`, `FirstSectorGone` and
  `FirstWritten` say what an erase or a program that breaks off may leave
  (`LeftoverFacts`). The refinement maps the slot to the image that is whole in it:
  two cannot be, as both need page 0.
* **Record and partition table.** `RecordInv`: the page is that of the last record
  written whole, or `Damaged`; no damaged page is read (`DamagedIsNotRead`), whatever
  part of it was lost (`TornIsDamaged`), and it is damaged only by a fault or in the
  middle of a write. That a page is erased for a reason follows as the record of a
  boot is the one it should be (`SetUpKeeps`). For the table, `NameWordsAre` and
  `PartitionWordsAre` say what the words of one partition are, `WordsGrow` and
  `WordsStay` where they are among all, and `StepIsRead` that one round of the loop
  of `read` takes up one partition; both functions are defined by recursion, so their
  values are first shown to exist (`WordsExist`; `PartitionsAre` gives the values
  outright) and then followed by induction. `SlotsArePair` needs of the table
  (`PersistAssumption`, as picotool writes it) that partitions do not overlap and that
  every B is of one A, which has no other; `DataIs` that a name cut at `NAME_MAX`
  cannot become "data".
* **Slideshow.** `ShowIsSound` is not inductive: it says nothing of the page's job
  that is half done, of the place of the index in the list, or of the layout of the
  round. `ShowInv` = `TypeOK` ∧ `OneOpensTheCard` ∧ `LocalsFit` ∧ `RoundIsCurrent`
  (without a RELOAD the round's layout is the settings') ∧ `LoadsDim` (a load runs
  at the loading level) ∧ `Shaded` (what is lit was drawn for that layout) ∧
  `ListNow`. `LevelBounded` rests on 2²⁴ − t²(768 − 2t) = 2(256 − t)²(t + 128).
  What the recursive `Without` returns is proved by induction over the *set* of the
  prefixes for which it holds (`SetInduction`): the library's theorem on natural
  numbers takes an operator, the one on well-founded sets does not.
* **Settings page.** `InSync` says only what the next head begins with; to keep
  it, `WebInv` follows the whole stream. `InStep` says, position by position, that a
  piece is of a body exactly if it is `Covered`: by what the request in hand still
  has to read (`Owed`) or by the length in a head that has arrived. It holds until
  the connection is given up (`Cut`), which is why every answer that leaves a body
  unread must close. `InHand` is what a request has passed once its head was
  parsed (code, origin, length), `Tidy` that nothing of a request outlives its
  answer. `Beaten` bounds the beat by the awaits that may follow each other
  without one: the lock of the card or one read, one write, the flush; hence the
  assumptions that these fit into `WEB_LIMIT` (6 + 5 + 2 s of 90 s). `Timed` says
  how long a head or an upload may have lasted where a read begins: before its
  deadline, so one read later is the end; the wait for the card
  counts too, hence `SD_LOCK_TIMEOUT <= UPLOAD_DEADLINE` (6 and 60 s). `Rationed`
  counts the locks from the wrong codes: `LockNo[n]` is the next lock after `n` of
  them and the sum of those before. `WebServerAssumption` also has more names
  than there may be photos (1000 numbered ones, `MAX_FILES` = 16), so `pick_name`
  always finds one.

* **Clock and jobs.** `CalendarIsRight` counts leap days up to a year by induction
  over the years (`LeapsCounted`) and then follows the program's closed form from
  the era to the year, the month and the day. `ClockIsClose` needs to know when the query on its way was
  sent (`ClockInStep`, `WaitsEnd`); `JobsBeatInTime` that every wait that is under way
  ends in its timeout. `EveryJobIsTried` bounds the time until all jobs have been
  tried by a measure of what is under way and due (`TriesLeft`), which no step
  lets grow: this is where `ScheduleAssumption` (a fetch is shorter than the retries)
  is needed.
* **Status lines.** `TextsAreTrue` and `CodeIsShown` need that a deadline
  only stands for a line that is open (`DebtsAreCovered`, `TonesTurn`).
* **Settings file.** `TextInv` says, step by step, which file holds a whole text
  while another one is written (`InOrder`), that the buffers hold the form's rewrite
  of what was read (`Made`), and what an answer and a promise stand for (`Told`,
  `KeptPromise`). `AsAsked` then is `RewriteSaysWhatWasAsked`: what a text says of a
  key depends only on the lines of that key that count, kept in order
  (`ParsedIs`), and `Keep` commutes with joining, with other `Keep`s and with changes
  of lines that it does not keep (`KeepConcat`, `KeepKeep`, `KeepSame`; by an induction
  over sequences, `SeqInduction`).
* **Scrolling text.** `LineIsCurrent` looks at one state, so `LineInv` says when it
  must hold: after every change of MODEL that is not news. Beside that (`Current`),
  the line is always one of `compose` for the part shown (`Placed`, `Shaped`), and a
  fetch is never of a local text (`FetchIsOfSource`), without which an answer could
  count as the text in force. `ComposeIs` follows the pushes: the
  cut message leaves the settings' room free, so none of their pieces is cut or
  lacks a span. `AdvanceIs` and `NoGap` are the arithmetic of a loop for any width:
  rounds are whole, and the copies drawn cover the screen without overlap. The only
  demand on the room is that the settings fit (`TextAssumption`; the code asserts
  more, `scroll.rs:30`).
* **Power meter.** `GraphIsTrue` compares the graph with all readings ever received;
  `PowerInv` says of either ring that the slot of every bucket in reach holds the mean
  of that bucket's readings, or nothing if there was none (`HoldsUpTo`).
  `AdvanceHolds` and `RecordHolds` show that clearing, whether a reading or a frame
  causes it, empties the slots of the rounds before and no others (two buckets less
  than a round apart have different slots, `ModApart`), `WindowIsKept` that no range
  of the graph looks further back than the ring goes, whatever the number of columns.
  Readings add up in the order of a `CHOOSE` in the library's sum, so `SumStep` and
  `SumAdd` first show, by induction over the size of the set, that the order does not
  matter; `QuotientBetween` (Rust's division) that a mean lies between two readings and
  so is never taken for the mark of a missing one. A line once joined stays true as
  readings are only added (`KnownLater`). `Since` bounds the age of a fresh reading by
  the rest and the read under way, less than a round of the clock, so its wrap is
  harmless (`AgeIs`). The assumptions: readings are above the mark (`record` clamps
  them), 720 buckets cover the longest range of either ring, `READ_TIMEOUT` is within
  the supervisor's limit and below the clock's round (20 s of 49 days).
* **Places of the texts.** What other tasks compose is a view of any lengths
  (`LcdViews`); the rest is about one view. `Tidy` says of a set of items that
  each keeps to its room and to one part of the screen, and that none covers another; two
  tidy sets in parts that are apart are tidy together (`TidyUnion`). So each
  panel, band, chip and bar is dealt with alone, from bounds on the widths of its texts, and
  a layout puts its parts side by side. In the meter's view the font is the largest that
  holds the reading, and tiny digits hold one of 17; an end of the axis, rounded
  and with its `k` or `M`, has at most eight characters. The assumptions
  (`ScreenAssumption`, `AxisAssumption`; run `power` evaluates them): a place of up to 32
  half characters (`place=` takes 32 bytes), a condition of one to seven, temperatures below 100 degrees with one
  decimal, readings an i64 of mW can have, axis ends of an i32 but the lowest, which
  marks a gap. Of a place within `PLACE_ROOM` all texts are tidy. With a longer one, everything
  outside its row is what the layout draws without a place (`NoPlace`), and the row's texts
  stay in parts of the screen that nothing else is in (`SettledBy`); within the row
  they do overlap (section 6, item 20). Where a bar shows the
  reading, `FitsItsPlace` asks for at most `BAR_DIGITS` digits, ten or fewer.
* **Pictures of the layers.** `SwapIsSound` is not inductive: that main draws off
  stage depends on where the buffers are. `HandOver` says that they are always shared
  out (main's, on its way, staged, held), and which of them the pointer names.
  `InTimeYet` bounds how far the scan has gone while the end of a frame is
  not dealt with: one row, and what the drawing under way has taken (`Lag`); hence
  `DRAW_MAX` two rows below a frame. `WholeBuffers` says which pictures the buffers hold, one apart,
  `WholeRect` that the rectangle is only half moved while the scan is still above it
  (`RECT_MARGIN`), `SeenSoFar` that the rows of this frame were of one picture.

* **Scan-out.** Nothing in `FrameIsSound` is inductive: it speaks of the panel, which only
  sees pins and a word per clock. `DisplayInv` therefore puts everything at one place of
  the frame. `AtX`, `AtY` read that place off SM1's program counter and loop registers
  (`Counter`), which is right only if each line of its program takes `LINE_WORDS` clocks,
  its own instructions counted (`CounterStep`); `Scans` says that
  the panel is there, that the words in the FIFO are those of the next places, and that
  CH0, its descriptors (`SendsNext`, `SendsLoads`) and CH1 are as far ahead as the FIFOs hold. That no clock finds a
  FIFO empty follows: a clock happens only when both are full. On top of it, `Rowwise`
  says that the rows of the buffer are of one picture each, those copied of the present
  one, and `Seamless` that one frame shows one look: while the copy runs it stays ahead
  of the scan by the reserve (`Ahead`), since the task started in the blank lines at the
  top; or it started late, then it had seen no frame begin for so long (`Level`) that
  the frame before was whole and the next will be. The assumptions: a line is as long as the
  instructions of SM1's program, a FIFO no longer than a line, the panel's porches are
  those of the words, `MARGIN` lies between the blank lines at the bottom and at the
  top, `PRESENT_MAX_MISSES` is at least 2 (in the code 509 words, 8 words, 107 and 16, 1, 4 and
  16 lines, 4).

Only model-checked: the liveness properties (temporal reasoning under fairness and
ENABLED are outside this prover), and `Layers` (the part of `PanelIsSound` that is not
`SwapIsSound` or `FrameIsSound`; its lists of pushes are built with the library's
`FlattenSeq`, a recursion).

## 6. Disagreements found

Places at which the code does something other than a doc, a comment or a test says,
or that a reader would not expect. Paths are under `src/src/` unless they
begin with `docs/`. They were met while modelling; the models do what the code does,
and the properties are stated so that they hold of it.

Updates, trial, recovery

1. `bin/ticker.rs:1921,2127` – a power cut after a version gave itself up and
   before the next one has written the record loses the mark; the version may be
   installed again (`boot_policy.rs:26`, docs/ticker.md:495: never).
2. `bin/ticker.rs:2340` – after an error of `explicit_buy` the version on trial
   runs on, its deadline lifted, never buys and never downloads the newer release
   it sees (docs/ticker.md:380).
3. `bin/ticker.rs:1439`, `ota/app.rs:679` – a check asked for in the two seconds
   before the reboot into a verified release puts it off by ten minutes.
4. `bin/ticker.rs:1542,1712` – recovery mode's retry of normal mode, planned when
   there was no newer release, wins over one found and verified since.
5. `ota/app.rs:646`, `boot_policy.rs:410` – a link lost and joined again in one call
   of `LinkManager::step` does not restart the settling time of a trial.
6. `bin/ticker.rs:1256,1409,1503` – saving `message=` before the first message was
   fetched leaves `ROUND_MESSAGE` unset: a trial is not bought in its 180 s and rolls back.
7. `ota/app.rs:459–475` – the line about the version before takes every stage but
   three for join counters: a trial that ended in a stall, a stack overflow or an
   unhandled interrupt is shown as "join… fail…" (`boot_trace.rs:27,99–110,201`
   say otherwise). `TrialDetailIsTold` names the details that are right. The rc of `BuyFailed` in SCRATCH7 stays when
   `note_ota_proved` overwrites the stage and is then shown as counters;
   `SelftestTimedOut` may be overwritten before the rollback (docs/wifi-ota.md:210).
8. A crash before `arm()` is never counted, so it may count an older fault twice;
   docs claim recovery from any breakage. `reboot_flash_update(…, 100 ms)` waits
   with interrupts enabled: a frame check in that time feeds the watchdog to 8 s and
   delays the reboot; faults after `clear()` are not recorded.
9. `provision.rs:15–29` (private builds only) – a power cut between the creation and
   the filling of WIFI.TXT leaves an empty file, which "existing settings always
   win" never repairs.

Settings file and page

10. `web/server.rs:1133` – after a boot from TICKER.NEW the next save starts from the
    empty TICKER.TXT and drops every line the page does not know (docs/ticker.md:186).
11. `web/server.rs:414` – each read of a form has 5 s of its own; `REQUEST_DEADLINE`
    (:45) is never used, though :11–13 and docs/settings-server.md:97 say 15 s. Some
    twenty pieces 4 s apart keep jobs_task away from its beat for over 90 s; no property
    claims otherwise. A head, which has 5 s (:228), may take just under 10: a read that
    began in time is waited for.
12. A text of exactly 1536 bytes may be written but is refused when it is read for the
    next save; longer files are cut at boot. `ticker/config.rs:507–524`: `+-20` is a
    zone of −20 h (comment :506: ±14).
13. After a delete or an upload whose save fails, `RELOAD` is not set; a file that
    was begun stays if its deletion fails; `pick_name` may hold jobs_task for about
    1000 × 2 s; `maintain` counts idleness from `last_active`, not from the accept;
    `Guard.locked_until` (and `HOLD_UNTIL_MS`) compare times without regard to
    the wrap after 49.7 days.

Photos, display, line, screen

14. `ticker/slideshow.rs:341` – with `slide=0` the gradient after a failed photo stays;
    an I/O error while the root is listed counts as an empty list until the next
    `RELOAD`; a fade may begin during `PAUSE`; the hold of 5 s ends while an upload
    of 60 s still runs.
15. `lcd/display.rs:522` – the doc of `next_frame()` invites a second waiter, but
    `FRAME_WAKER` holds one.
16. Layers 3, 4, 5 – SM0 gets its words ahead once, but every frame sends `H_TOTAL − 8`
    words (`layer3_solid_color.rs:239`, `layer4_dma_colorbar.rs:78,249`,
    `layer5_framebuffer.rs:279`): the picture moves by 8 pixels a frame against HSYNC
    and the clock stops later, contrary to layer 4's header. Layer 6 removed it. Layers
    5 and 6 ask for row 96 of 96 at a frame's last line (`framebuffer.rs:117`).
17. `layer7_double_buffer_dma.rs:436` – when a drawing takes a frame or more, a frame
    end between clearing the flag and storing the pointer makes the next poll give
    back the buffer that is being sent: contrary to :10–11 it tears. With less
    (`SwapAssumption`) it does not. `layer7_fullframe_dma.rs` equals
    `layer7_single_buffer_dma.rs`.
18. `bin/ticker.rs:427–434` – texts of up to 80 characters go into 48, all or
    nothing: an SSID of 17, 28 or 32 characters loses "DHCP timeout…", "waiting
    for DHCP", "connecting to…".
19. `bin/ticker.rs:2254` – without WIFI.TXT the reason is overwritten by "power cycle"
    and not written again; the guard at :2424 is dead, so "DHCP timeout" gives way to
    "not connected"; the 300 s of the last reset's line hide the 90 s of the note on
    ticker.txt; a broken photo in a short rotation, or a blocked release, keeps
    the lines open for ever and the message away.
20. `ui/screen.rs` – a place of more than 8 half characters in Glass, 5 in Dock and
    Classic (three full ones) may overlap its neighbours, be cut or push them out
    (docs/ticker.md:207 allows 32 bytes). `FitsItsPlace` excepts just that row; with
    one half character more of room it would fail in each layout. Status rows hold 65 columns in two layouts,
    comments say 66, and the longest identity line is longer than that.
21. `bin/ticker.rs:1382` says at most some 20 s, NTP may take 30 s; a new zone
    reaches the card's clock with the next sync only; one TLS failure of the weather
    switches to plain HTTP until the next boot. If `matter.run` or `mdns.run` returned
    Ok early, the reading would stay "fresh"; *unsupported* keeps the old reading's number.

## 7. Abstractions and limits

* `Board` leaves time out: a delay is a step not yet taken. `Start` is one step
  (straight-line code without waits). `explicit_buy` and the following
  `write_streak` are one step; the erased sector in the middle of the buy is a
  state of its own. The slots are known (`other_known`); one-slot boards are only
  in `OtaTask` (`ota_possible`).
* `SlotWriter`, `OtaCheck`: a digest is the sequence of pages itself (no collisions);
  JSON, TLS and the lines of HTTP succeed or fail; what the manifest decides before
  anything is written (newer, blocked) is the subject of `Board` and `OtaTask` and a
  choice here. The ROM's search for a block is external (`RomMay`).
* `Persist`: addresses are sectors; a word of the table has either fields or four
  bytes of a name; the check sum tells any two records apart; a text is its name and its
  length, UTF-8 is left out; MATTER.TXT is installed as WIFI.TXT is.
* `OtaTask`: resets other than its two reboots are `Board`'s; a missing manifest
  (404) counts as "nothing newer"; the other fetches are one action of any time.
* `Trial`: what a task does between two beats is not modelled, only that it beats
  or does not. One reset is enough to judge a boot; after it the model boots
  again. `BootStatus` is collected a little after the clock's 0, so the gate's
  deadline may lie a little behind the supervisor's; both are modelled.
* `BootTrace`: the uptime is left out; `arm`, and a stage with its detail, are one
  step each (no wait between); a crash before `arm` is left out (finding 8).
* `TickerConfig`, `TickerTxt`: a text is a sequence of lines; case, white space,
  encoding and which values are valid are left out or constants; FAT's directory
  writes are atomic, a file is empty until it is closed or holds some of its lines.
* `WebServer`: texts, JSON and the form's decoding are their outcomes; `Expect:
  100-continue` and a lock near the clock's wrap are left out.
* `Slideshow`: decoding a photo is an outcome; the hold is a flag.
* `Display`: colours are left out. `Layers`: a DMA refills a FIFO at once; a pixel is
  its place in the frame; `LayersInStep` speaks of layer 2 (even with a slow CPU), of
  6 (with a prompt one) and 7, not of 3 to 5 (finding 16). `Swap`: a task that may run
  takes its next step within a row.
* `Ticker`: `TEXT_MAX` is smaller than the code asserts, so that cutting happens.
  Frames without the graph are no step.
* `Screen`: glyphs' shapes, shadows and colours are left out; status lines that are cut at
  the edge are not boxes. `Notices`: the identity line, modes and layouts are quantified over.
* `Clock`: the JSON of the weather and the text of a message are outcomes; an NTP server
  tells the right time; the branch of `reboot_requested` is `OtaTask`'s. `Power`: one
  value of a reading; the Matter stack is external.
* Not modelled at all: what drawing does to pixels (`bmp.rs`, `icons.rs`, `background.rs`,
  the rest of `canvas.rs`; host programs render these), the SD driver's bit-banging, the recovery screen,
  layers 0 and 1, the older firmwares and self tests, the Matter probe, host
  tools, scripts and board design files: straight-line code, generated data, or programs
  that do not run on the clock. They are most of the lines no definition maps to.
  `PROJECT.json` `components` lists each with the reason.

## 8. What is left

1. Proofs: the counts of `Layers`.
2. Composition: the page of `WebServer` with the photo task of `Slideshow` and with
   `TickerTxt`, instead of each against a choice of what the other may do.
3. `ui/bmp.rs`: that the resampler's rows cover the photo, against a reference.
4. The SD driver: command sequences and their deadline, instead of errors at will.

## 9. Running the checks

    tlc -workers 2 -config MCBoard.cfg MCBoard      # and so on, per PROJECT.json "runs"
    tlapm BoardProofs.tla                           # and the other *Proofs modules

The largest run, `clock`, has 4.9 million states; the longest takes less than two
minutes; the proofs take a few minutes in all.
