------------------------------ MODULE Display ------------------------------
(***************************************************************************)
(* The scan-out of the LCD and the double buffer, src/src/lcd/display.rs   *)
(* and src/src/lcd/scan.rs: two state machines of the PIO and four DMA     *)
(* channels that feed them for ever without the processor, and the task    *)
(* that copies each finished picture into the buffer that is being sent.   *)
(*                                                                         *)
(* Hardware is modelled one pixel clock at a time.  CH0 sends the words of *)
(* a segment to SM0; CH2 hands it the next descriptor; the last one makes  *)
(* CH0 rewind CH2 and raise the frame interrupt.  CH1 sends the counts of  *)
(* SM1, which makes HSYNC and VSYNC; CH3 rewinds CH1.  The glass starts a  *)
(* line at the falling edge of HSYNC.  A pixel is the place of the picture *)
(* it comes from: <<picture, row, column>>.                                *)
(*                                                                         *)
(* Assumed: the DMA refills both FIFOs within a pixel clock, and the copy, *)
(* once begun, writes a row at least once per scanned line (it writes six).*)
(***************************************************************************)
EXTENDS Integers, Sequences, FiniteSets

CONSTANTS
    WIDTH, HEIGHT,              \* the picture (400 x 96)
    LEFT_WORDS, RIGHT_WORDS,    \* the words around a row (106, 3)
    TOP_LINES, BOTTOM_LINES,    \* the blank lines (16, 1)
    FIFO_WORDS,                 \* depth of a joined TX FIFO (8)
    LCD_PORCH, LCD_V_PORCH,     \* clocks, lines from the edge to the first pixel (107, 16)
    MARGIN,                     \* blank lines that present() keeps in reserve (4)
    PRESENT_MAX_MISSES,         \* frames it misses before it copies anyway (4)
    Pictures                    \* the tags of successive pictures, 0 .. n-1

ASSUME GeometryAssumption ==
    /\ {WIDTH, HEIGHT, LEFT_WORDS, RIGHT_WORDS, TOP_LINES, BOTTOM_LINES, FIFO_WORDS,
        LCD_PORCH, LCD_V_PORCH} \subseteq Nat \ {0}
    /\ LEFT_WORDS + WIDTH + RIGHT_WORDS >= 7 /\ FIFO_WORDS >= 2
    /\ FIFO_WORDS <= LEFT_WORDS + WIDTH + RIGHT_WORDS
    /\ FIFO_WORDS <= TOP_LINES + HEIGHT + BOTTOM_LINES
    /\ Cardinality(Pictures) \in Nat \ {0} /\ Pictures = 0 .. Cardinality(Pictures) - 1

(* The glass shows its first pixel a clock after the words to the left of  *)
(* the picture, in the first line after the blank ones at the top.         *)
ASSUME PanelAssumption == LCD_PORCH = LEFT_WORDS + 1 /\ LCD_V_PORCH = TOP_LINES

(* The reserve is more than the blank lines at the bottom, a task that is  *)
(* late twice is not late for good.                                        *)
ASSUME ReserveAssumption ==
    /\ MARGIN \in 2 .. TOP_LINES /\ BOTTOM_LINES <= MARGIN
    /\ PRESENT_MAX_MISSES \in Nat /\ PRESENT_MAX_MISSES >= 2

LINE_WORDS == LEFT_WORDS + WIDTH + RIGHT_WORDS
FRAME_LINES == TOP_LINES + HEIGHT + BOTTOM_LINES
V_NORMAL_LINES == FRAME_LINES - 1
NothingIsLate == TOP_LINES                                         \* mutant
PRESENT_DEADLINE_LINE == TOP_LINES - MARGIN
BOTTOM_INDEX == 1 + HEIGHT * 3
RELOAD_INDEX == BOTTOM_INDEX + 1
SEGMENT_COUNT == RELOAD_INDEX + 1
Rows == 0 .. HEIGHT - 1
Columns == 0 .. WIDTH - 1

BLACK_WORD == <<-1, 0, 0>>

(***************************************************************************)
(* scan.rs: what CH0 sends for each descriptor, and how many words.        *)
(***************************************************************************)
RowPart(part) == CASE part = 0 -> [source |-> "Left", words |-> LEFT_WORDS]
                   [] part = 1 -> [source |-> "Pixels", words |-> WIDTH]
                   [] part = 2 -> [source |-> "Right", words |-> RIGHT_WORDS]

Segment(index) ==
    CASE index = 0            -> [source |-> "Black", words |-> TOP_LINES * LINE_WORDS]
      [] index = BOTTOM_INDEX -> [source |-> "Black", words |-> BOTTOM_LINES * LINE_WORDS]
      [] index = RELOAD_INDEX -> [source |-> "Reload", words |-> 1]
      [] OTHER                -> RowPart((index - 1) % 3)
RowOf(index) == (index - 1) \div 3

(* The line in the making, from CH2's read pointer and CH0's count; all    *)
(* that is not the blank at the top counts as late.                        *)
CurrentLine(next, remaining) ==
    IF next = 1 THEN (TOP_LINES * LINE_WORDS - remaining) \div LINE_WORDS
    ELSE IF next \in 2 .. BOTTOM_INDEX THEN TOP_LINES + (next - 2) \div 3
    ELSE FRAME_LINES - 1

InTime(line) == line < PRESENT_DEADLINE_LINE

(***************************************************************************)
(* The program of SM1, one cycle an instruction, and the counts it pulls:  *)
(* "jmp x" runs X + 1 cycles, so that each line takes LINE_WORDS.          *)
(***************************************************************************)
Op(op, arg) == [op |-> op, arg |-> arg]
Timing == <<Op("set", 3), Op("set", 2), Op("pull", 0), Op("mov x", 0), Op("jmp x", 5),
            Op("pull", 0), Op("mov y", 0),
            Op("set", 1), Op("set", 0), Op("pull", 0), Op("mov x", 0), Op("jmp x", 12),
            Op("jmp y", 8)>>

Sm1FrameData == <<LINE_WORDS - 7, V_NORMAL_LINES - 1>>
                \o [line \in 1 .. V_NORMAL_LINES |-> LINE_WORDS - 6]

VARIABLES
    power,     \* "off", "enabled": the state machines run, "on": so do the DMA channels
    ch0,       \* [segment, remaining]: what CH0 sends and how many words are left
    next,      \* the descriptor CH2 will read
    pixels,    \* TX FIFO of SM0
    ch1,       \* the next count CH1 reads
    counts,    \* TX FIFO of SM1
    sm1,       \* [pc, osr, x, y, pins] of SM1; pins: HSYNC + 2 * VSYNC
    glass,     \* what the panel sees, see Sampled
    irq,       \* the frame interrupt is pending
    front, borders,   \* FRONT and BORDERS
    back,      \* [picture, rotated]: the back buffer and set_rotate_180
    task       \* the task that draws, see TaskType

hardware == <<power, ch0, next, pixels, ch1, counts, sm1, glass>>
displayVars == <<hardware, irq, front, borders, back, task>>

Asleep == [pc |-> "draw", misses |-> 0, due |-> FALSE, read |-> 0, row |-> 0,
           late |-> FALSE, moved |-> TRUE]

Looks == Pictures \X BOOLEAN
Unsynced == [x |-> 0, y |-> -1, hsync |-> 0, word |-> BLACK_WORD, fits |-> Looks,
             excused |-> FALSE, torn |-> FALSE]

DisplayInit ==
    /\ power = "off"
    /\ ch0 = [segment |-> 0, remaining |-> Segment(0).words] /\ next = 1
    /\ ch1 = 1 /\ pixels = <<>> /\ counts = <<>>
    /\ sm1 = [pc |-> 1, osr |-> 0, x |-> 0, y |-> 0, pins |-> 0]
    /\ glass = Unsynced
    /\ irq = FALSE
    /\ front = [y \in Rows |-> [x \in Columns |-> BLACK_WORD]]
    /\ borders = [y \in Rows |-> <<BLACK_WORD, BLACK_WORD>>]
    /\ back = [picture |-> 0, rotated |-> FALSE]
    /\ task = Asleep

-----------------------------------------------------------------------------
(***************************************************************************)
(* The DMA channels.                                                       *)
(***************************************************************************)
HasRoom(fifo) == Len(fifo) < FIFO_WORDS

RightWord(row) == borders[row][2]
WordOf(c) ==
    LET source == Segment(c.segment).source  row == RowOf(c.segment)
    IN  CASE source = "Black"  -> BLACK_WORD
          [] source = "Left"   -> borders[row][1]
          [] source = "Pixels" -> front[row][WIDTH - c.remaining]
          [] source = "Right"  -> RightWord(row)

(* irq_quiet for all segments but the last.                                *)
Quiet(source) == source # "Reload"

(* CH0 sends one word to SM0.                                              *)
Ch0Sends ==
    /\ power = "on" /\ ch0.remaining > 0 /\ HasRoom(pixels)
    /\ Segment(ch0.segment).source # "Reload"
    /\ pixels' = Append(pixels, WordOf(ch0))
    /\ ch0' = [ch0 EXCEPT !.remaining = @ - 1]
    /\ irq' = (irq \/ (ch0.remaining = 1 /\ ~Quiet(Segment(ch0.segment).source)))
    /\ UNCHANGED <<power, next, ch1, counts, sm1, glass, front, borders, back, task>>

(* CH2 loads the next descriptor into CH0 and starts it.                   *)
Ch2Loads ==
    /\ power = "on" /\ ch0.remaining = 0
    /\ ch0' = [segment |-> next, remaining |-> Segment(next).words]
    /\ next' = next + 1
    /\ UNCHANGED <<power, pixels, ch1, counts, sm1, glass, irq, front, borders, back, task>>

(* The last descriptor makes CH0 write the table's address into CH2, and   *)
(* its end is the frame interrupt.                                         *)
Ch0Rewinds ==
    /\ power = "on" /\ ch0.remaining > 0
    /\ Segment(ch0.segment).source = "Reload"
    /\ next' = 0
    /\ ch0' = [ch0 EXCEPT !.remaining = 0]
    /\ irq' = (irq \/ ~Quiet("Reload"))
    /\ UNCHANGED <<power, pixels, ch1, counts, sm1, glass, front, borders, back, task>>

(* CH1 sends the next count to SM1; CH3 starts it anew after the last.     *)
Ch1Sends ==
    /\ power = "on" /\ HasRoom(counts)
    /\ counts' = Append(counts, Sm1FrameData[ch1])
    /\ ch1' = IF ch1 = Len(Sm1FrameData) THEN 1 ELSE ch1 + 1
    /\ UNCHANGED <<power, ch0, next, pixels, sm1, glass, irq, front, borders, back, task>>

DmaIsDone == power = "on" => /\ ~HasRoom(pixels) /\ ~HasRoom(counts)

-----------------------------------------------------------------------------
(***************************************************************************)
(* One pixel clock: SM0 puts a word out, or stalls without a clock for the *)
(* panel when it has none; SM1 runs one instruction, or stalls at a pull.  *)
(***************************************************************************)
Here == Timing[sm1.pc]
Runs == Here.op = "pull" => counts # <<>>
After == IF sm1.pc = Len(Timing) THEN 1 ELSE sm1.pc + 1

Sm1Steps ==
    CASE Here.op = "set"   -> [sm1 EXCEPT !.pins = Here.arg, !.pc = After]
      [] Here.op = "pull"  -> [sm1 EXCEPT !.osr = Head(counts), !.pc = After]
      [] Here.op = "mov x" -> [sm1 EXCEPT !.x = sm1.osr, !.pc = After]
      [] Here.op = "mov y" -> [sm1 EXCEPT !.y = sm1.osr, !.pc = After]
      [] Here.op = "jmp x" -> IF sm1.x = 0 THEN [sm1 EXCEPT !.pc = After]
                              ELSE [sm1 EXCEPT !.x = @ - 1, !.pc = Here.arg]
      [] Here.op = "jmp y" -> IF sm1.y = 0 THEN [sm1 EXCEPT !.pc = After]
                              ELSE [sm1 EXCEPT !.y = @ - 1, !.pc = Here.arg]

Hsync(pins) == pins % 2
Vsync(pins) == pins \div 2
Upto(n, max) == IF n > max THEN max ELSE n
SourceRow(y, rotated) == IF rotated THEN HEIGHT - 1 - y ELSE y
SourceColumn(x, rotated) == IF rotated THEN WIDTH - 1 - x ELSE x

(***************************************************************************)
(* The panel takes a word with each clock.  x and y count from the falling *)
(* edges of HSYNC, y = -1 until the first line with VSYNC high.  `fits' are *)
(* the pictures the visible pixels of this frame could all belong to; a    *)
(* frame is `excused' when a copy of present()'s last resort overlaps it.  *)
(***************************************************************************)
Falls(pins) == glass.hsync = 1 /\ Hsync(pins) = 0
Placed(word, pins) ==
    LET falls == Falls(pins)
    IN  [glass EXCEPT
           !.x = IF falls THEN 0 ELSE Upto(@ + 1, LINE_WORDS),
           !.y = IF ~falls THEN @ ELSE IF Vsync(pins) = 1 THEN 0
                 ELSE IF @ = -1 THEN -1 ELSE Upto(@ + 1, FRAME_LINES),
           !.hsync = Hsync(pins), !.word = word]
Row(g) == g.y - LCD_V_PORCH
Column(g) == g.x - LCD_PORCH
Visible(g) == g.y # -1 /\ Row(g) \in Rows /\ Column(g) \in Columns
Fitting(g) ==
    IF ~Visible(g) THEN g.fits
    ELSE {l \in g.fits : g.word = <<l[1], SourceRow(Row(g), l[2]), SourceColumn(Column(g), l[2])>>}
Sampled(word, pins) ==
    LET g == Placed(word, pins)
    IN  IF Falls(pins) /\ Vsync(pins) = 1
        THEN [g EXCEPT !.fits = Looks, !.excused = task.late, !.torn = (glass.fits = {})]
        ELSE [g EXCEPT !.fits = Fitting(g)]

Clock ==
    /\ power # "off" /\ DmaIsDone
    /\ pixels # <<>> \/ Runs
    /\ sm1' = IF Runs THEN Sm1Steps ELSE sm1
    /\ counts' = IF Here.op = "pull" /\ Runs THEN Tail(counts) ELSE counts
    /\ Falls(sm1'.pins) => task.moved
    /\ IF pixels = <<>> THEN UNCHANGED <<pixels, glass, task>>
       ELSE /\ pixels' = Tail(pixels)
            /\ glass' = Sampled(Head(pixels), sm1'.pins)
            /\ task' = IF Falls(sm1'.pins) THEN [task EXCEPT !.moved = task.pc # "copy"] ELSE task
    /\ UNCHANGED <<power, ch0, next, ch1, irq, front, borders, back>>

-----------------------------------------------------------------------------
(***************************************************************************)
(* The frame interrupt, at any time after it was raised: interrupts are    *)
(* off while the flash is written.  FRAME_COUNT is abstracted to whether   *)
(* it has changed since wait_frame_start looked.                           *)
(***************************************************************************)
FrameIrq ==
    /\ irq
    /\ irq' = FALSE
    /\ task' = [task EXCEPT !.due = (task.pc = "wait")]
    /\ UNCHANGED <<hardware, front, borders, back>>

(* The next picture, drawn at leisure in the back buffer.                  *)
Draw ==
    /\ task.pc = "draw"
    /\ \E rotated \in BOOLEAN :
         back' = [picture |-> (back.picture + 1) % Cardinality(Pictures), rotated |-> rotated]
    /\ task' = [task EXCEPT !.pc = "present"]
    /\ UNCHANGED <<hardware, irq, front, borders>>

(* copy_back_to_front, for a row and for all.                              *)
CopiedRow(y) == [x \in Columns |-> <<back.picture, SourceRow(y, back.rotated),
                                     SourceColumn(x, back.rotated)>>]
CopyAll ==
    /\ front' = [y \in Rows |-> CopiedRow(y)]
    /\ borders' = [y \in Rows |-> <<CopiedRow(y)[0], CopiedRow(y)[WIDTH - 1]>>]

(* present() before the scan: nobody reads the front buffer.               *)
PresentAtOnce ==
    /\ task.pc = "present" /\ power = "off"
    /\ CopyAll
    /\ task' = [task EXCEPT !.pc = "draw"]
    /\ UNCHANGED <<hardware, irq, back>>

(* start(): the first picture is in front before anything is enabled; the  *)
(* table is built while SM1 runs to its first pull.                        *)
Start ==
    /\ task.pc = "present" /\ power = "off"
    /\ CopyAll
    /\ power' = "enabled"
    /\ task' = [task EXCEPT !.pc = "trigger"]
    /\ UNCHANGED <<ch0, next, pixels, ch1, counts, sm1, glass, irq, back>>

Trigger ==
    /\ task.pc = "trigger" /\ ~Runs
    /\ power' = "on"
    /\ task' = [task EXCEPT !.pc = "draw"]
    /\ UNCHANGED <<ch0, next, pixels, ch1, counts, sm1, glass, irq, front, borders, back>>

(* present() while the scan runs.                                          *)
FirstMisses == 0
WaitFrame ==
    /\ task.pc = "present" /\ power = "on"
    /\ task' = [task EXCEPT !.pc = "wait", !.misses = FirstMisses, !.due = FALSE]
    /\ UNCHANGED <<hardware, irq, front, borders, back>>

Woken ==
    /\ task.pc = "wait" /\ task.due
    /\ task' = [task EXCEPT !.pc = "read", !.due = FALSE]
    /\ UNCHANGED <<hardware, irq, front, borders, back>>

(* current_line() reads two registers, one after the other.                *)
ReadNext ==
    /\ task.pc = "read"
    /\ task' = [task EXCEPT !.pc = "count", !.read = next]
    /\ UNCHANGED <<hardware, irq, front, borders, back>>

NoneMissed(misses) == misses                                       \* mutant
Missed(misses) == misses + 1
GivesUp == task.misses >= PRESENT_MAX_MISSES

Decide ==
    /\ task.pc = "count"
    /\ IF InTime(CurrentLine(task.read, ch0.remaining)) \/ GivesUp
       THEN /\ task' = [task EXCEPT !.pc = "copy", !.row = 0, !.read = 0, !.moved = TRUE,
                                    !.late = GivesUp]
            /\ glass' = [glass EXCEPT !.excused = @ \/ GivesUp]
       ELSE /\ task' = [task EXCEPT !.pc = "wait", !.misses = Missed(@), !.read = 0]
            /\ UNCHANGED glass
    /\ UNCHANGED <<power, ch0, next, pixels, ch1, counts, sm1, irq, front, borders, back>>

CopyRow ==
    /\ task.pc = "copy"
    /\ front' = [front EXCEPT ![task.row] = CopiedRow(task.row)]
    /\ borders' = [borders EXCEPT ![task.row] = <<front'[task.row][0], front'[task.row][WIDTH - 1]>>]
    /\ task' = IF task.row = HEIGHT - 1 THEN Asleep
               ELSE [task EXCEPT !.row = @ + 1, !.moved = TRUE]
    /\ UNCHANGED <<hardware, irq, back>>

-----------------------------------------------------------------------------
Dma == Ch0Sends \/ Ch2Loads \/ Ch0Rewinds \/ Ch1Sends
Task == \/ Draw \/ PresentAtOnce \/ Start \/ Trigger \/ WaitFrame \/ Woken \/ ReadNext
        \/ Decide \/ CopyRow
DisplayNext == Dma \/ Clock \/ FrameIrq \/ Task

(* The hardware never stops, interrupts are taken, and the executor polls  *)
(* a task that was woken.                                                  *)
Fairness == WF_displayVars(Dma) /\ WF_displayVars(Clock) /\ WF_displayVars(FrameIrq) /\ WF_displayVars(Task)
DisplaySpec == DisplayInit /\ [][DisplayNext]_displayVars
-----------------------------------------------------------------------------
(* Types of the state.                                                     *)
Words == {BLACK_WORD} \cup (Pictures \X Rows \X Columns)
Fifos(values) == UNION {[1 .. n -> values] : n \in 0 .. FIFO_WORDS}
TaskType ==
    [pc : {"draw", "present", "trigger", "wait", "read", "count", "copy"},
     misses : 0 .. PRESENT_MAX_MISSES, due : BOOLEAN, read : 0 .. SEGMENT_COUNT,
     row : Rows, late : BOOLEAN, moved : BOOLEAN]
DisplayTypeOK ==
    /\ power \in {"off", "enabled", "on"}
    /\ ch0 \in [segment : 0 .. RELOAD_INDEX, remaining : 0 .. TOP_LINES * LINE_WORDS]
    /\ next \in 0 .. SEGMENT_COUNT
    /\ Len(pixels) <= FIFO_WORDS /\ \A i \in 1 .. Len(pixels) : pixels[i] \in Words
    /\ Len(counts) <= FIFO_WORDS /\ \A i \in 1 .. Len(counts) : counts[i] \in Nat
    /\ ch1 \in 1 .. Len(Sm1FrameData)
    /\ sm1.pc \in 1 .. Len(Timing) /\ sm1.pins \in 0 .. 3
    /\ glass.x \in 0 .. LINE_WORDS - 1 /\ glass.y \in -1 .. FRAME_LINES - 1
    /\ glass.fits \subseteq Looks /\ glass.word \in Words
    /\ front \in [Rows -> [Columns -> Words]]
    /\ borders \in [Rows -> Words \X Words]
    /\ back \in [picture : Pictures, rotated : BOOLEAN]
    /\ task \in TaskType

(* Each visible pixel of the panel is the pixel of that place of some      *)
(* picture, upright or turned: two state machines fed by two chains of DMA *)
(* never slip against each other, and the first visible word is the one    *)
(* the panel shows first (VISIBLE_X_OFFSET 106, not the nominal 108).      *)
OnGlass ==
    Visible(glass) =>
      \E rotated \in BOOLEAN :
        /\ glass.word[2] = SourceRow(Row(glass), rotated)
        /\ glass.word[3] = SourceColumn(Column(glass), rotated)
        /\ glass.word # BLACK_WORD

(* Word by word the segments give the frame of LINE_WORDS x FRAME_LINES    *)
(* they replace: black above and below, a row's first and last pixel to    *)
(* its left and right (a test of scan.rs says so of `segment').            *)
FrameX == (glass.x + LINE_WORDS - 1) % LINE_WORDS
FrameRow == glass.y - TOP_LINES - (IF glass.x = 0 THEN 1 ELSE 0)
AsFullFrame ==
    (glass.y # -1 /\ glass.x + glass.y # 0) =>
      IF FrameRow \notin Rows THEN glass.word = BLACK_WORD
      ELSE \E rotated \in BOOLEAN :
             LET x == FrameX - LEFT_WORDS
                 column == IF x < 0 THEN 0 ELSE IF x >= WIDTH THEN WIDTH - 1 ELSE x
             IN  /\ glass.word # BLACK_WORD
                 /\ glass.word[2] = SourceRow(FrameRow, rotated)
                 /\ glass.word[3] = SourceColumn(column, rotated)

(* A frame shows one picture, whole and one way up, unless present() has   *)
(* missed PRESENT_MAX_MISSES frame starts and copied in the middle of it.  *)
NoTear == glass.fits = {} => glass.excused

(* Such a copy spoils one frame and not the next as well (the comment at   *)
(* PRESENT_MAX_MISSES).                                                    *)
OneFrameIsTorn == ~(glass.torn /\ glass.fits = {})

(* The frame interrupt comes when the panel is within a FIFO of the end of *)
(* its frame, never with the early refill of the counts (the comment at    *)
(* FRAME_START_CHANNEL_BIT).                                               *)
IrqAtFrameEnd ==
    [][(irq' /\ ~irq /\ glass.y # -1) =>
         /\ glass.y = FRAME_LINES - 1
         /\ FrameX >= LINE_WORDS - 2 - FIFO_WORDS]_displayVars

(* However late the task is woken each time, present() returns.            *)
PresentReturns == (task.pc = "wait") ~> (task.pc = "draw")

(* What the panel shows: the right word at every place, and the words of   *)
(* one picture, a copy in the middle of a frame excepted, which spoils one *)
(* frame only.                                                             *)
FrameIsSound == DisplayTypeOK /\ OnGlass /\ AsFullFrame /\ NoTear /\ OneFrameIsTorn

(* The task that draws goes on, in step with the panel.                    *)
FramesGoOn == IrqAtFrameEnd /\ PresentReturns
=============================================================================
