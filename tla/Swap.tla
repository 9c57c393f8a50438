-------------------------------- MODULE Swap --------------------------------
(***************************************************************************)
(* How the bring-up layers 5 to 7 of the display hand pictures from the    *)
(* task that draws to the scan.                                            *)
(*                                                                         *)
(*   rows    layers 5 and 6: the display task sends a buffer row by row    *)
(*           and swaps between two frames                                  *)
(*   chain   layer7_double_buffer_dma: the DMA goes from frame to frame by *)
(*           itself, its next buffer read from DMA_PIXEL_FRAME_ADDR        *)
(*   single  layer7_single_buffer_dma: one buffer, a rectangle moves in it *)
(*                                                                         *)
(* Both tasks run on one executor, so that the display task does nothing   *)
(* while main draws; the DMA goes on.  A step of time is a scanned row.    *)
(* Assumed: a drawing takes at most DRAW_MAX rows, which is less than a    *)
(* frame, and a task that may run takes its next step within a row.  A     *)
(* buffer holds in each row the picture drawn there.                       *)
(***************************************************************************)
EXTENDS Integers, FiniteSets

CONSTANTS ROWS,            \* rows of a buffer (96)
          DRAW_MAX,        \* scanned rows that a drawing takes
          MOTION_Y,        \* first row of the moving rectangle (55)
          RECT_MARGIN      \* rows before it at which the update is too late (16)

ASSUME SwapAssumption == /\ ROWS \in Nat /\ DRAW_MAX \in 1 .. ROWS - 2
                         /\ MOTION_Y \in 1 .. ROWS /\ RECT_MARGIN \in 3 .. MOTION_Y

Ways == {"rows", "chain", "single"}
Buffers == {"A", "B"}
NoBuffer == "none"
PictureTags == 0 .. 2
Erased == -1
BufferRows == 1 .. ROWS

VARIABLES
    way,
    scan,       \* [buffer, row]: what the DMA sends next
    ch0Done,    \* the completion flag of CH0
    pointer,    \* DMA_PIXEL_FRAME_ADDR
    held,       \* the buffer the display task takes for the one on show
    staged,     \* staged_front
    swapCh, returnCh,
    display,    \* [pc, passed, x]: the display task, a row passed since its last step, and
                \* where the rectangle is
    main,       \* [pc, buffer, row, busy]: the task that draws
    image,      \* what each buffer holds
    seen        \* [tags, last, wrong]: the pictures in this frame, the one before
swapVars == <<way, scan, ch0Done, pointer, held, staged, swapCh, returnCh, display, main, image,
              seen>>

SwapInit ==
    /\ way \in Ways
    /\ scan = [buffer |-> "A", row |-> 1] /\ pointer = "A" /\ held = "A"
    /\ ch0Done = FALSE /\ staged = NoBuffer /\ swapCh = NoBuffer /\ returnCh = NoBuffer
    /\ display = [pc |-> "poll", passed |-> FALSE, x |-> 0]
    /\ main = [pc |-> IF way = "single" THEN "pending" ELSE "draw", buffer |-> "B", row |-> 1,
               busy |-> 0]
    /\ image = [b \in Buffers |-> [r \in BufferRows |-> 0]]
    /\ seen = [tags |-> {}, last |-> 0, wrong |-> FALSE]

Next3(tag) == (tag + 1) % 3

-----------------------------------------------------------------------------
(* Main draws the picture after the one it drew last, row by row, sends    *)
(* the buffer and takes the other one.                                     *)
LastDrawn(b) == image[b][ROWS]
DrawRow ==
    /\ main.pc = "draw" /\ main.buffer # NoBuffer
    /\ LET other == CHOOSE b \in Buffers : b # main.buffer
       IN image' = [image EXCEPT ![main.buffer][main.row] = Next3(LastDrawn(other))]
    /\ main' = IF main.row = ROWS THEN [main EXCEPT !.pc = "send", !.row = 1, !.busy = 0]
               ELSE [main EXCEPT !.row = @ + 1]
    /\ UNCHANGED <<way, scan, ch0Done, pointer, held, staged, swapCh, returnCh, display, seen>>

SendBack ==
    /\ main.pc = "send" /\ swapCh = NoBuffer
    /\ swapCh' = main.buffer
    /\ main' = [main EXCEPT !.pc = "receive", !.buffer = NoBuffer]
    /\ UNCHANGED <<way, scan, ch0Done, pointer, held, staged, returnCh, display, image, seen>>

ReceiveBack ==
    /\ main.pc = "receive" /\ returnCh # NoBuffer
    /\ main' = [main EXCEPT !.pc = "draw", !.buffer = returnCh]
    /\ returnCh' = NoBuffer
    /\ UNCHANGED <<way, scan, ch0Done, pointer, held, staged, swapCh, display, image, seen>>

(* No other task runs from the first row of a picture to its last.         *)
Drawing == main.pc = "draw" /\ (main.row > 1 \/ main.busy > 0)

-----------------------------------------------------------------------------
(* The completion flag is polled and cleared.                              *)
Goes(to) == [display EXCEPT !.pc = to, !.passed = FALSE]
PollDone ==
    /\ display.pc = "poll" /\ ch0Done /\ ~Drawing
    /\ ch0Done' = FALSE
    /\ display' = Goes(IF way = "single" THEN "check" ELSE "swap")
    /\ UNCHANGED <<way, scan, pointer, held, staged, swapCh, returnCh, main, image, seen>>

(* Layer 7: the buffer staged at the boundary before is on show by now and *)
(* the one before goes back; a new one is staged for the next boundary.    *)
JustReceived == swapCh                                             \* mutant
Reserved == staged
SwapAtBoundary ==
    /\ display.pc = "swap" /\ way = "chain" /\ ~Drawing
    /\ held' = IF Reserved # NoBuffer THEN Reserved ELSE held
    /\ returnCh' = IF Reserved # NoBuffer THEN held ELSE returnCh
    /\ staged' = swapCh /\ swapCh' = NoBuffer
    /\ pointer' = IF swapCh # NoBuffer THEN swapCh ELSE pointer
    /\ display' = Goes("poll")
    /\ UNCHANGED <<way, scan, ch0Done, main, image, seen>>

(* Layers 5 and 6: between the last row of a frame and the next frame.     *)
SwapBetween ==
    /\ display.pc = "swap" /\ way = "rows" /\ ~Drawing
    /\ IF swapCh = NoBuffer THEN UNCHANGED <<held, returnCh>>
       ELSE held' = swapCh /\ returnCh' = held
    /\ pointer' = held' /\ swapCh' = NoBuffer
    /\ scan' = [buffer |-> held', row |-> 1]
    /\ display' = Goes("poll")
    /\ UNCHANGED <<way, ch0Done, staged, main, image, seen>>

(* The rectangle is moved unless CH0 has come too near to it.              *)
RectRows == MOTION_Y .. ROWS
EarlyEnough == scan.row - 1 <= MOTION_Y - 1 - RECT_MARGIN
Filled(tag) == [r \in BufferRows |-> IF r \in RectRows THEN tag ELSE image.A[r]]
Fill(tag) == image' = [image EXCEPT !.A = Filled(tag)]
CheckDeadline ==
    /\ display.pc = "check"
    /\ display' = Goes(IF EarlyEnough THEN "erase" ELSE "poll")
    /\ UNCHANGED <<way, scan, ch0Done, pointer, held, staged, swapCh, returnCh, main, image, seen>>
EraseRect ==
    /\ display.pc = "erase"
    /\ Fill(Erased) /\ display' = Goes("move")
    /\ UNCHANGED <<way, scan, ch0Done, pointer, held, staged, swapCh, returnCh, main, seen>>
MoveRect ==
    /\ display.pc = "move"
    /\ Fill(Next3(display.x)) /\ display' = [Goes("poll") EXCEPT !.x = Next3(@)]
    /\ UNCHANGED <<way, scan, ch0Done, pointer, held, staged, swapCh, returnCh, main, seen>>

-----------------------------------------------------------------------------
(* The DMA sends a row.  In layers 5 and 6 the display task starts each    *)
(* row, in layer 7 the chain starts the next frame from the pointer.       *)
InTimeNow ==
    /\ Drawing => main.busy < IF way = "rows" THEN 1 ELSE DRAW_MAX
    /\ ~Drawing => /\ display.pc = "poll" => ~ch0Done \/ way = "single"
                   /\ display.pc # "poll" => ~display.passed
    /\ way = "rows" => ~ch0Done /\ display.pc = "poll"
Tag == image[scan.buffer][scan.row]
TagsNow == IF way = "single" /\ scan.row \notin RectRows THEN seen.tags ELSE seen.tags \cup {Tag}
FrameIsBad(tags) == \/ Cardinality(tags) # 1 \/ Erased \in tags
                    \/ way # "single" /\ ~(tags \subseteq {seen.last, Next3(seen.last)})
ScanRow ==
    /\ InTimeNow
    /\ main' = IF Drawing THEN [main EXCEPT !.busy = @ + 1] ELSE main
    /\ display' = [display EXCEPT !.passed = (display.pc # "poll")]
    /\ IF scan.row < ROWS
       THEN /\ scan' = [scan EXCEPT !.row = @ + 1]
            /\ seen' = [seen EXCEPT !.tags = TagsNow]
            /\ UNCHANGED ch0Done
       ELSE /\ scan' = [buffer |-> pointer, row |-> 1]
            /\ seen' = [tags |-> {}, last |-> CHOOSE t \in TagsNow : TRUE,
                        wrong |-> seen.wrong \/ FrameIsBad(TagsNow)]
            /\ ch0Done' = TRUE
    /\ UNCHANGED <<way, pointer, held, staged, swapCh, returnCh, image>>

SwapNext == DrawRow \/ SendBack \/ ReceiveBack \/ PollDone \/ SwapAtBoundary \/ SwapBetween
            \/ CheckDeadline \/ EraseRect \/ MoveRect \/ ScanRow
SwapSpec == SwapInit /\ [][SwapNext]_swapVars

-----------------------------------------------------------------------------
(* Main never draws into the buffer that the DMA reads, or will read when  *)
(* this frame ends.                                                        *)
DrawsOffStage == main.buffer # NoBuffer /\ way # "single" =>
                    main.buffer # scan.buffer /\ main.buffer # pointer

(* A frame shows one picture, that of the frame before or the next one;    *)
(* the rectangle is in one place, not half moved or erased.                *)
PicturesAreWhole == ~seen.wrong

SwapIsSound == DrawsOffStage /\ PicturesAreWhole
=============================================================================
