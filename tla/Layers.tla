------------------------------- MODULE Layers -------------------------------
(***************************************************************************)
(* The bring-up layers 2 to 7 of the display, src/src/bin/layer*.rs, with  *)
(* the timing of src/src/lcd/timing.rs: how the two state machines of the  *)
(* PIO are fed, and what the panel sees of it.                             *)
(*                                                                         *)
(*   layer2  one state machine makes NCLK and the syncs, fed by the CPU    *)
(*   layer3  SM0 makes NCLK and the pixels, SM1 the syncs, both fed by the *)
(*           CPU                                                           *)
(*   layer4  the pixels of a line come by DMA, the CPU does the rest       *)
(*           (layer 5 too)                                                 *)
(*   layer6  the same without words ahead for SM0                          *)
(*   layer7  two chains of DMA channels feed both                          *)
(*                                                                         *)
(* A step is one cycle of the PIO in layer 2, and one NCLK in the others:  *)
(* SM1 runs at half the speed of SM0.  A pixel word is its place in the    *)
(* frame.  A DMA channel refills a FIFO at once, the CPU, where it has to  *)
(* push, at once or, when it is `slow', at any time later.                 *)
(***************************************************************************)
EXTENDS Integers, Sequences
LOCAL INSTANCE SequencesExt

CONSTANTS H_ACTIVE, H_BACK_PORCH, H_FRONT_PORCH,    \* 400, 108, 1
          V_ACTIVE, V_BACK_PORCH, V_FRONT_PORCH,    \* 96, 16, 1
          HSYNC_PULSE_WIDTH,                        \* 5
          FIFO_DEPTH                                \* 8

H_TOTAL == H_ACTIVE + H_BACK_PORCH + H_FRONT_PORCH
V_TOTAL == V_ACTIVE + V_BACK_PORCH + V_FRONT_PORCH
H_REST == H_TOTAL - HSYNC_PULSE_WIDTH
V_NORMAL == V_TOTAL - 1
FRAME == H_TOTAL * V_TOTAL

ASSUME TimingAssumption ==
    /\ {H_ACTIVE, H_BACK_PORCH, H_FRONT_PORCH, V_ACTIVE, V_BACK_PORCH, V_FRONT_PORCH} \subseteq Nat
    /\ HSYNC_PULSE_WIDTH \in Nat /\ HSYNC_PULSE_WIDTH >= 4 /\ H_REST >= 6
    /\ FIFO_DEPTH \in Nat /\ FIFO_DEPTH >= 5 /\ V_TOTAL > 2

(* The counts: a loop of "jmp x--" runs X + 1 times.                       *)
PIO_HSYNC_COUNT == HSYNC_PULSE_WIDTH - 3
PIO_REST_COUNT == H_REST - 4
SM1_HSYNC_COUNT == HSYNC_PULSE_WIDTH - 4
SM1_REST_COUNT == H_REST - 5
SM1_REST_COUNT_ALWAYS == SM1_REST_COUNT                            \* mutant
SM1_VSYNC_REST_COUNT == SM1_REST_COUNT - 1
NORMAL_LINES_Y == V_NORMAL - 1

-----------------------------------------------------------------------------
(* The programs: <<operation, argument, NCLK>>.                            *)
SinglePio ==
    <<<<"set", 0, 0>>, <<"pull", 0, 1>>, <<"mov x", 0, 0>>, <<"nop", 0, 1>>,
      <<"nop", 0, 0>>, <<"jmp x", 5, 1>>,
      <<"set", 1, 0>>, <<"pull", 0, 1>>, <<"mov x", 0, 0>>, <<"nop", 0, 1>>,
      <<"nop", 0, 0>>, <<"jmp x", 11, 1>>,
      <<"pull", 0, 0>>, <<"mov y", 0, 1>>,
      <<"set", 2, 0>>, <<"pull", 0, 1>>, <<"mov x", 0, 0>>, <<"nop", 0, 1>>,
      <<"nop", 0, 0>>, <<"jmp x", 19, 1>>,
      <<"set", 3, 0>>, <<"pull", 0, 1>>, <<"mov x", 0, 0>>, <<"nop", 0, 1>>,
      <<"nop", 0, 0>>, <<"jmp x", 25, 1>>,
      <<"nop", 0, 0>>, <<"jmp y", 15, 1>>>>

SyncPio ==
    <<<<"set", 0, 0>>, <<"pull", 0, 0>>, <<"mov x", 0, 0>>, <<"jmp x", 4, 0>>,
      <<"set", 1, 0>>, <<"pull", 0, 0>>, <<"mov x", 0, 0>>, <<"jmp x", 8, 0>>,
      <<"pull", 0, 0>>, <<"mov y", 0, 0>>,
      <<"set", 2, 0>>, <<"pull", 0, 0>>, <<"mov x", 0, 0>>, <<"jmp x", 14, 0>>,
      <<"set", 3, 0>>, <<"pull", 0, 0>>, <<"mov x", 0, 0>>, <<"jmp x", 18, 0>>,
      <<"jmp y", 11, 0>>>>

Designs == {"layer2", "layer3", "layer4", "layer6", "layer7"}
Program == [d \in Designs |-> IF d = "layer2" THEN SinglePio ELSE SyncPio]

-----------------------------------------------------------------------------
(* What feeds the FIFOs: [to, word, cpu], where cpu says that the push     *)
(* waits for the CPU.                                                      *)
Pushed(fifo, words) == [i \in 1 .. Len(words) |-> [to |-> fifo, word |-> words[i], cpu |-> TRUE]]
ByDma(fifo, words) == [i \in 1 .. Len(words) |-> [to |-> fifo, word |-> words[i], cpu |-> i = 1]]
Chained(fifo, words) == [i \in 1 .. Len(words) |-> [to |-> fifo, word |-> words[i], cpu |-> FALSE]]
Repeat(n, seq) == FlattenSeq([i \in 1 .. n |-> seq])

(* The words of a line from a column on.                                   *)
Line(line, from) == [i \in 1 .. H_TOTAL - from |-> line * H_TOTAL + from + i - 1]

SinglePrefill == <<PIO_HSYNC_COUNT, PIO_REST_COUNT, NORMAL_LINES_Y, PIO_HSYNC_COUNT,
                   PIO_REST_COUNT>>
SingleFrame == Pushed("timing", Repeat(V_NORMAL - 1, <<PIO_HSYNC_COUNT, PIO_REST_COUNT>>)
                                \o SinglePrefill)

SyncPrefill == <<SM1_HSYNC_COUNT, SM1_VSYNC_REST_COUNT, NORMAL_LINES_Y, SM1_HSYNC_COUNT,
                 SM1_REST_COUNT>>
SyncLine == <<SM1_HSYNC_COUNT, SM1_REST_COUNT>>
SyncFrame == SubSeq(SyncPrefill, 1, 3) \o Repeat(V_NORMAL, SyncLine)

(* The frame loop of layers 3 to 6: the line of VSYNC from column `first'  *)
(* on, a line whose counts are there already, the others each after its    *)
(* counts, and the counts of the next two lines.                           *)
SendLine(dma, words) == IF dma THEN ByDma("pixels", words) ELSE Pushed("pixels", words)
FrameLoop(dma, first) ==
    SendLine(dma, Line(0, first)) \o SendLine(dma, Line(1, 0))
    \o FlattenSeq([l \in 1 .. V_NORMAL - 1 |->
                     Pushed("timing", SyncLine) \o SendLine(dma, Line(l + 1, 0))])
    \o Pushed("timing", SyncPrefill)

(* One list of pushes, or two that run side by side.                       *)
Feeds == [layer2 |-> <<SingleFrame>>,
          layer3 |-> <<FrameLoop(FALSE, FIFO_DEPTH)>>,
          layer4 |-> <<FrameLoop(TRUE, FIFO_DEPTH)>>,
          layer6 |-> <<FrameLoop(TRUE, 0)>>,
          layer7 |-> <<Chained("pixels", [i \in 1 .. FRAME |-> i - 1]),
                       Chained("timing", SyncFrame)>>]
Prefill == [d \in Designs |->
              [timing |-> CASE d = "layer2" -> SinglePrefill [] d = "layer7" -> <<>>
                            [] OTHER -> SyncPrefill,
               pixels |-> IF d \in {"layer3", "layer4"} THEN [i \in 1 .. FIFO_DEPTH |-> i - 1]
                          ELSE <<>>]]

VARIABLES
    layer, slow,
    tx,         \* the FIFOs: [timing, pixels]
    at,         \* where each list of pushes is
    sm,         \* the state machine of the syncs: [pc, osr, x, y, hsync, vsync, nclk]
    panel       \* what the panel has seen, see Seen
layerVars == <<layer, slow, tx, at, sm, panel>>

Unseen == [hsync |-> 1, vsync |-> 1, x |-> 0, y |-> 0, length |-> 0, lines |-> 0, falls |-> 0,
           shift |-> 0, moved |-> FALSE]

LayersInit ==
    /\ layer \in Designs
    /\ slow \in (IF layer = "layer2" THEN BOOLEAN ELSE {FALSE})
    /\ tx = Prefill[layer]
    /\ at = [i \in 1 .. Len(Feeds[layer]) |-> 1]
    /\ sm = [pc |-> 1, osr |-> 0, x |-> 0, y |-> 0, hsync |-> 1, vsync |-> 1, nclk |-> 0]
    /\ panel = Unseen

Item(i) == Feeds[layer][i][at[i]]
Fits(i) == Len(tx[Item(i).to]) < FIFO_DEPTH
Push(i) ==
    /\ Fits(i)
    /\ tx' = [tx EXCEPT ![Item(i).to] = Append(@, Item(i).word)]
    /\ at' = [at EXCEPT ![i] = IF @ = Len(Feeds[layer][i]) THEN 1 ELSE @ + 1]
    /\ UNCHANGED <<layer, slow, sm, panel>>
Pushes == \E i \in DOMAIN at : Push(i)

AllFed == \A i \in DOMAIN at : Fits(i) => slow /\ Item(i).cpu

-----------------------------------------------------------------------------
(* One instruction; a pull waits for its word, and NCLK waits with it.     *)
Ins == Program[layer][sm.pc]
Waits == Ins[1] = "pull" /\ tx.timing = <<>>
NextPc == IF sm.pc = Len(Program[layer]) THEN 1 ELSE sm.pc + 1
Loop(counter) == IF sm[counter] = 0 THEN NextPc ELSE Ins[2]

Stepped ==
    LET s == [sm EXCEPT !.pc = NextPc, !.nclk = Ins[3]]
    IN CASE Waits           -> [sm EXCEPT !.nclk = Ins[3]]
         [] Ins[1] = "set"   -> [s EXCEPT !.hsync = Ins[2] % 2, !.vsync = Ins[2] \div 2]
         [] Ins[1] = "pull"  -> [s EXCEPT !.osr = Head(tx.timing)]
         [] Ins[1] = "mov x" -> [s EXCEPT !.x = sm.osr]
         [] Ins[1] = "mov y" -> [s EXCEPT !.y = sm.osr]
         [] Ins[1] = "nop"   -> s
         [] Ins[1] = "jmp x" -> [s EXCEPT !.pc = Loop("x"), !.x = IF @ = 0 THEN 0 ELSE @ - 1]
         [] Ins[1] = "jmp y" -> [s EXCEPT !.pc = Loop("y"), !.y = IF @ = 0 THEN 0 ELSE @ - 1]

(* The panel at a falling edge of NCLK: x clocks after the fall of HSYNC   *)
(* in line y after the fall of VSYNC.  length and lines are those of the   *)
(* line and the frame before; shift is the place in the frame the words    *)
(* are ahead of the panel, and moved that it has changed.                  *)
Seen(s, word) ==
    LET falls == panel.hsync = 1 /\ s.hsync = 0
        top == falls /\ panel.vsync = 1 /\ s.vsync = 0
        p == [panel EXCEPT !.hsync = s.hsync,
                           !.vsync = IF falls THEN s.vsync ELSE @,
                           !.x = IF falls THEN 0 ELSE @ + 1,
                           !.y = IF top THEN 0 ELSE IF falls THEN @ + 1 ELSE @]
        shift == (word - p.y * H_TOTAL - p.x) % FRAME
    IN IF ~falls THEN p
       ELSE [p EXCEPT !.length = panel.x + 1,
                      !.lines = IF top THEN panel.y + 1 ELSE @,
                      !.falls = IF @ < 2 * V_TOTAL THEN @ + 1 ELSE @,
                      !.shift = shift,
                      !.moved = @ \/ (panel.falls > V_TOTAL /\ word >= 0 /\ shift # panel.shift)]

Taken(words) == IF words = <<>> THEN <<>> ELSE Tail(words)
Pulled == [tx EXCEPT !.timing = IF Ins[1] = "pull" THEN Taken(@) ELSE @]

SingleCycle ==
    /\ layer = "layer2" /\ AllFed
    /\ sm' = Stepped /\ tx' = Pulled
    /\ panel' = IF sm.nclk = 1 /\ sm'.nclk = 0 THEN Seen(sm', -1) ELSE panel
    /\ UNCHANGED <<layer, slow, at>>

(* SM0 puts a word out with every NCLK; without one there is no NCLK,      *)
(* while SM1 goes on.                                                      *)
DualCycle ==
    /\ layer # "layer2" /\ AllFed
    /\ sm' = Stepped
    /\ tx' = [Pulled EXCEPT !.pixels = Taken(@)]
    /\ panel' = IF tx.pixels = <<>> THEN panel ELSE Seen(sm', Head(tx.pixels))
    /\ UNCHANGED <<layer, slow, at>>

LayersNext == Pushes \/ SingleCycle \/ DualCycle

-----------------------------------------------------------------------------
(* Which layers keep the panel in step, and against a CPU of which kind:   *)
(* layers 3 to 5 put words ahead for SM0 once, and leave out as many in    *)
(* every frame.                                                            *)
InStep == layer = "layer2" \/ layer = "layer7" \/ (layer = "layer6" /\ ~slow)

(* Every line the panel sees has H_TOTAL clocks and a pulse of HSYNC of    *)
(* the set width, every frame V_TOTAL lines, of which VSYNC takes one.     *)
SyncIsSteady ==
    InStep /\ panel.falls > 2 =>
        /\ panel.length = H_TOTAL
        /\ panel.hsync = 0 <=> panel.x < HSYNC_PULSE_WIDTH
        /\ panel.falls = 2 * V_TOTAL => panel.lines = V_TOTAL /\ (panel.vsync = 0 <=> panel.y = 0)

(* A pixel arrives at its place in every frame.                            *)
PixelsStay == InStep => ~panel.moved

LayersInStep == SyncIsSteady /\ PixelsStay
=============================================================================
