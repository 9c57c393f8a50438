------------------------------ MODULE LcdProofs ------------------------------
(***************************************************************************)
(* What reaches the panel.                                                 *)
(*                                                                         *)
(* The pictures of the bring-up layers 5 to 7 (the first part, module      *)
(* Swap): for every number of rows, time that a drawing takes and place of *)
(* the moving rectangle that SwapAssumption allows, main draws where the   *)
(* scan does not look, and a frame shows one picture.                      *)
(*                                                                         *)
(* The display of the ticker (the second, module Display): for every size  *)
(* of the picture, of its porches and of the FIFOs, every number of        *)
(* pictures and every lateness of the task, each word of the framebuffer   *)
(* falls on its pixel, and what is in the FIFOs and under way is known at  *)
(* every clock; from which follows that a frame shows the words of one     *)
(* picture unless the task was late for good.                              *)
(***************************************************************************)
EXTENDS Display, Swap, TLAPS, SequenceTheorems, FiniteSetTheorems

-----------------------------------------------------------------------------
(***************************************************************************)
(* The hand-over of pictures (module Swap).                                *)
(***************************************************************************)

SwapTypes ==
    /\ way \in Ways
    /\ scan \in [buffer : Buffers, row : BufferRows]
    /\ ch0Done \in BOOLEAN
    /\ pointer \in Buffers /\ held \in Buffers
    /\ staged \in Buffers \cup {NoBuffer}
    /\ swapCh \in Buffers \cup {NoBuffer}
    /\ returnCh \in Buffers \cup {NoBuffer}
    /\ display \in [pc : {"poll", "swap", "check", "erase", "move"}, passed : BOOLEAN, x : PictureTags]
    /\ main \in [pc : {"pending", "draw", "send", "receive"}, buffer : Buffers \cup {NoBuffer},
                 row : BufferRows, busy : 0 .. DRAW_MAX]
    /\ image \in [Buffers -> [BufferRows -> PictureTags \cup {Erased}]]
    /\ seen \in [tags : SUBSET (PictureTags \cup {Erased}), last : PictureTags, wrong : BOOLEAN]

OtherOf(b) == IF b = "A" THEN "B" ELSE "A"
Spare == OtherOf(held)

(* Who has which buffer.                                                   *)
HandOver ==
    /\ pointer = IF staged # NoBuffer THEN staged ELSE held
    /\ main.pc # "draw" => main.row = 1 /\ main.busy = 0
    /\ way = "single" =>
         /\ main.pc = "pending" /\ display.pc # "swap"
         /\ held = "A" /\ staged = NoBuffer /\ swapCh = NoBuffer /\ returnCh = NoBuffer
    /\ way # "single" =>
         /\ display.pc \in {"poll", "swap"}
         /\ \/ /\ main.pc \in {"draw", "send"} /\ main.buffer = Spare
               /\ staged = NoBuffer /\ swapCh = NoBuffer /\ returnCh = NoBuffer
            \/ /\ main.pc = "receive" /\ main.buffer = NoBuffer
               /\ \/ staged = Spare /\ swapCh = NoBuffer /\ returnCh = NoBuffer
                  \/ staged = NoBuffer /\ swapCh = Spare /\ returnCh = NoBuffer
                  \/ staged = NoBuffer /\ swapCh = NoBuffer /\ returnCh = Spare
    /\ way # "chain" => staged = NoBuffer /\ scan.buffer = held
    /\ scan.buffer \in {held, pointer}
    /\ ch0Done \/ display.pc = "swap" => scan.buffer = pointer

(* How far the scan may be when the end of a frame is not dealt with yet.  *)
Lag == IF main.pc = "draw" THEN main.busy ELSE IF returnCh # NoBuffer THEN 0 ELSE DRAW_MAX
InTimeYet ==
    /\ way = "rows" /\ (ch0Done \/ display.pc = "swap") =>
         /\ scan.row = 1 /\ image[held][ROWS] = seen.last
    /\ way # "single" /\ display.pc = "swap" => ~ch0Done
    /\ way = "chain" /\ ch0Done => scan.row - 1 <= Lag
    /\ way = "chain" /\ display.pc = "swap" =>
         scan.row - 1 <= Lag + (IF display.passed THEN 1 ELSE 0)
    /\ display.pc = "erase" => scan.row <= MOTION_Y - (IF display.passed THEN 2 ELSE 3)
    /\ display.pc = "move" => scan.row <= MOTION_Y - (IF display.passed THEN 1 ELSE 2)

(* A buffer holds one picture, but for the one in which main draws.        *)
OnePicture(b) == image[b][ROWS] \in PictureTags /\ \A r \in BufferRows : image[b][r] = image[b][ROWS]
Finished == main.pc = "send" \/ staged # NoBuffer \/ swapCh # NoBuffer
WholeBuffers ==
    way # "single" =>
      /\ OnePicture(held)
      /\ main.pc # "draw" => OnePicture(Spare)
      /\ main.pc = "draw" => \A r \in 1 .. main.row - 1 : image[Spare][r] = Next3(image[held][ROWS])
      /\ Finished => image[Spare][ROWS] = Next3(image[held][ROWS])
WholeRect ==
    way = "single" =>
      \A r \in RectRows : image.A[r] = IF display.pc = "move" THEN Erased ELSE display.x

(* What the panel has seen of the frame in the making.                     *)
SeenSoFar ==
    /\ ~seen.wrong
    /\ way # "single" =>
         /\ seen.tags = IF scan.row = 1 THEN {} ELSE {image[scan.buffer][ROWS]}
         /\ image[scan.buffer][ROWS] \in {seen.last, Next3(seen.last)}
    /\ way = "single" => seen.tags = IF scan.row <= MOTION_Y THEN {} ELSE {display.x}

SwapInv == SwapTypes /\ HandOver /\ InTimeYet /\ WholeBuffers /\ WholeRect /\ SeenSoFar

(* Every picture has a next one, and drawing is of the buffer not held.    *)
LEMMA NextTag ==
  /\ \A t \in PictureTags : Next3(t) \in PictureTags
  /\ Erased \notin PictureTags /\ 0 \in PictureTags /\ ROWS \in BufferRows
<1>1. Next3(0) = 1 /\ Next3(1) = 2 /\ Next3(2) = 0
  BY DEF Next3
<1>2. \A t \in PictureTags : t = 0 \/ t = 1 \/ t = 2
  BY DEF PictureTags
<1> QED
  BY <1>1, <1>2, SwapAssumption DEF PictureTags, Erased, BufferRows


LEMMA DrawRowKeeps == SwapInv /\ DrawRow => SwapInv'
<1> SUFFICES ASSUME SwapInv, DrawRow PROVE SwapInv'
  OBVIOUS
<1> USE SwapAssumption DEF SwapInv, DrawRow, LastDrawn
<1>a. /\ way # "single" /\ main.buffer = Spare /\ Spare \in Buffers /\ Spare # held /\ held \in Buffers
      /\ main.row \in BufferRows
  BY DEF HandOver, SwapTypes, Buffers, NoBuffer, Spare, OtherOf
<1>b. (CHOOSE b \in Buffers : b # main.buffer) = held
  BY <1>a DEF Buffers, Spare, OtherOf
<1>c. /\ image[held][ROWS] \in PictureTags /\ Next3(image[held][ROWS]) \in PictureTags
      /\ image' = [image EXCEPT ![Spare][main.row] = Next3(image[held][ROWS])]
  BY <1>a, <1>b, NextTag DEF WholeBuffers, OnePicture
<1>1. SwapTypes'
  <2>1. way' \in Ways /\ ch0Done' \in BOOLEAN
    BY DEF SwapTypes, HandOver, Ways, Buffers, NoBuffer, PictureTags, Erased, BufferRows, Next3
  <2>2. scan' \in [buffer : Buffers, row : BufferRows]
    BY DEF SwapTypes, HandOver, Ways, Buffers, NoBuffer, PictureTags, Erased, BufferRows, Next3
  <2>3. {pointer', held'} \subseteq Buffers
    BY DEF SwapTypes, HandOver, Ways, Buffers, NoBuffer, PictureTags, Erased, BufferRows, Next3
  <2>4. {staged', swapCh', returnCh'} \subseteq Buffers \cup {NoBuffer}
    BY DEF SwapTypes, HandOver, Ways, Buffers, NoBuffer, PictureTags, Erased, BufferRows, Next3
  <2>5. display' \in [pc : {"poll", "swap", "check", "erase", "move"}, passed : BOOLEAN, x : PictureTags]
    BY DEF SwapTypes, HandOver, Ways, Buffers, NoBuffer, PictureTags, Erased, BufferRows, Next3
  <2>6. main' \in [pc : {"pending", "draw", "send", "receive"}, buffer : Buffers \cup {NoBuffer},
                  row : BufferRows, busy : 0 .. DRAW_MAX]
    <3>1. CASE main.row = ROWS
      <4>1. /\ main' = [main EXCEPT !.pc = "send", !.row = 1, !.busy = 0]
            /\ 1 \in BufferRows /\ 0 \in 0 .. DRAW_MAX
        BY <3>1 DEF BufferRows
      <4> QED
        BY <4>1 DEF SwapTypes
    <3>2. CASE main.row # ROWS
      <4>1. main.row + 1 \in BufferRows /\ main' = [main EXCEPT !.row = @ + 1]
        BY <3>2 DEF SwapTypes, BufferRows
      <4> QED
        BY <4>1 DEF SwapTypes
    <3> QED
      BY <3>1, <3>2
  <2>7. image' \in [Buffers -> [BufferRows -> PictureTags \cup {Erased}]]
    BY <1>a, <1>c DEF SwapTypes
  <2>8. seen' \in [tags : SUBSET (PictureTags \cup {Erased}), last : PictureTags, wrong : BOOLEAN]
    BY DEF SwapTypes, HandOver, Ways, Buffers, NoBuffer, PictureTags, Erased, BufferRows, Next3
  <2> QED
    BY <2>1, <2>2, <2>3, <2>4, <2>5, <2>6, <2>7, <2>8 DEF SwapTypes
<1>2. HandOver'
  BY DEF HandOver, SwapTypes, Ways, Buffers, NoBuffer, BufferRows, Spare, OtherOf
<1>3. InTimeYet'
  BY DEF InTimeYet, Lag, HandOver, SwapTypes, Ways, Buffers, NoBuffer, BufferRows, Spare, OtherOf
<1>4. WholeBuffers'
  <2>1. image'[held] = image[held]
    BY <1>a, <1>c DEF SwapTypes
  <2>2. \A r \in BufferRows : image'[Spare][r] =
           IF r = main.row THEN Next3(image[held][ROWS]) ELSE image[Spare][r]
    BY <1>a, <1>c DEF SwapTypes
  <2>3. \A r \in 1 .. main.row : image'[Spare][r] = Next3(image[held][ROWS])
    <3> SUFFICES ASSUME NEW r \in 1 .. main.row
                 PROVE  image'[Spare][r] = Next3(image[held][ROWS])
      OBVIOUS
    <3>1. r \in BufferRows /\ (r = main.row \/ r \in 1 .. main.row - 1)
      BY <1>a DEF BufferRows
    <3> QED
      BY <1>a, <2>2, <3>1 DEF WholeBuffers
  <2>4. held' = held /\ Spare' = Spare /\ way' = way
    BY DEF Spare
  <2>5. OnePicture(held)'
    BY <1>a, <2>1, <2>4 DEF WholeBuffers, OnePicture
  <2>6. ~(staged' # NoBuffer \/ swapCh' # NoBuffer)
    BY <1>a DEF HandOver, SwapTypes, Buffers, NoBuffer
  <2>7. CASE main.row = ROWS
    <3>1. main'.pc = "send" /\ 1 .. ROWS = BufferRows
      BY <2>7 DEF SwapTypes, BufferRows
    <3>2. \A r \in BufferRows : image'[Spare][r] = Next3(image[held][ROWS])
      BY <2>3, <2>7, <3>1
    <3> QED
      BY <1>a, <1>c, <2>1, <2>4, <2>5, <3>1, <3>2, NextTag DEF WholeBuffers, OnePicture
  <2>8. CASE main.row # ROWS
    <3>1. main'.pc = "draw" /\ main'.row = main.row + 1 /\ main'.row - 1 = main.row
      BY <2>8 DEF SwapTypes, BufferRows
    <3> QED
      BY <2>1, <2>3, <2>4, <2>5, <2>6, <3>1 DEF WholeBuffers, Finished
  <2> QED
    BY <2>7, <2>8
<1>5. WholeRect'
  BY DEF WholeRect, HandOver, SwapTypes, Ways, Buffers, BufferRows, PictureTags, Erased, RectRows, Next3, NoBuffer
<1>6. SeenSoFar'
  BY DEF SeenSoFar, HandOver, SwapTypes, Ways, Buffers, NoBuffer, BufferRows, PictureTags, Erased, Next3, Spare, OtherOf
<1> QED
  BY <1>1, <1>2, <1>3, <1>4, <1>5, <1>6

LEMMA SendBackKeeps == SwapInv /\ SendBack => SwapInv'
<1> SUFFICES ASSUME SwapInv, SendBack PROVE SwapInv'
  OBVIOUS
<1> USE SwapAssumption DEF SwapInv, SendBack
<1>1. SwapTypes'
  <2>1. way' \in Ways /\ ch0Done' \in BOOLEAN
    BY DEF SwapTypes, HandOver, Ways, Buffers, NoBuffer, PictureTags, Erased, BufferRows, Next3
  <2>2. scan' \in [buffer : Buffers, row : BufferRows]
    BY DEF SwapTypes, HandOver, Ways, Buffers, NoBuffer, PictureTags, Erased, BufferRows, Next3
  <2>3. {pointer', held'} \subseteq Buffers
    BY DEF SwapTypes, HandOver, Ways, Buffers, NoBuffer, PictureTags, Erased, BufferRows, Next3
  <2>4. {staged', swapCh', returnCh'} \subseteq Buffers \cup {NoBuffer}
    BY DEF SwapTypes, HandOver, Ways, Buffers, NoBuffer, PictureTags, Erased, BufferRows, Next3
  <2>5. display' \in [pc : {"poll", "swap", "check", "erase", "move"}, passed : BOOLEAN, x : PictureTags]
    BY DEF SwapTypes, HandOver, Ways, Buffers, NoBuffer, PictureTags, Erased, BufferRows, Next3
  <2>6. main' \in [pc : {"pending", "draw", "send", "receive"}, buffer : Buffers \cup {NoBuffer},
                  row : BufferRows, busy : 0 .. DRAW_MAX]
    BY DEF SwapTypes, HandOver, Ways, Buffers, NoBuffer, PictureTags, Erased, BufferRows, Next3
  <2>7. image' \in [Buffers -> [BufferRows -> PictureTags \cup {Erased}]]
    BY DEF SwapTypes, HandOver, Ways, Buffers, NoBuffer, PictureTags, Erased, BufferRows, Next3
  <2>8. seen' \in [tags : SUBSET (PictureTags \cup {Erased}), last : PictureTags, wrong : BOOLEAN]
    BY DEF SwapTypes, HandOver, Ways, Buffers, NoBuffer, PictureTags, Erased, BufferRows, Next3
  <2> QED
    BY <2>1, <2>2, <2>3, <2>4, <2>5, <2>6, <2>7, <2>8 DEF SwapTypes
<1>2. HandOver'
  BY DEF HandOver, SwapTypes, Ways, Buffers, NoBuffer, BufferRows, Spare, OtherOf
<1>3. InTimeYet'
  BY DEF InTimeYet, Lag, HandOver, SwapTypes, Ways, Buffers, NoBuffer, BufferRows, Spare, OtherOf
<1>4. WholeBuffers'
  BY DEF WholeBuffers, OnePicture, Finished, HandOver, SwapTypes, Ways, Buffers, NoBuffer, BufferRows, PictureTags, Erased, Next3, Spare, OtherOf
<1>5. WholeRect'
  BY DEF WholeRect, HandOver, SwapTypes, Ways, Buffers, BufferRows, PictureTags, Erased, RectRows, Next3, NoBuffer
<1>6. SeenSoFar'
  BY DEF SeenSoFar, HandOver, SwapTypes, Ways, Buffers, NoBuffer, BufferRows, PictureTags, Erased, Next3, Spare, OtherOf
<1> QED
  BY <1>1, <1>2, <1>3, <1>4, <1>5, <1>6

LEMMA ReceiveBackKeeps == SwapInv /\ ReceiveBack => SwapInv'
<1> SUFFICES ASSUME SwapInv, ReceiveBack PROVE SwapInv'
  OBVIOUS
<1> USE SwapAssumption DEF SwapInv, ReceiveBack
<1>1. SwapTypes'
  <2>1. way' \in Ways /\ ch0Done' \in BOOLEAN
    BY DEF SwapTypes, HandOver, Ways, Buffers, NoBuffer, PictureTags, Erased, BufferRows, Next3
  <2>2. scan' \in [buffer : Buffers, row : BufferRows]
    BY DEF SwapTypes, HandOver, Ways, Buffers, NoBuffer, PictureTags, Erased, BufferRows, Next3
  <2>3. {pointer', held'} \subseteq Buffers
    BY DEF SwapTypes, HandOver, Ways, Buffers, NoBuffer, PictureTags, Erased, BufferRows, Next3
  <2>4. {staged', swapCh', returnCh'} \subseteq Buffers \cup {NoBuffer}
    BY DEF SwapTypes, HandOver, Ways, Buffers, NoBuffer, PictureTags, Erased, BufferRows, Next3
  <2>5. display' \in [pc : {"poll", "swap", "check", "erase", "move"}, passed : BOOLEAN, x : PictureTags]
    BY DEF SwapTypes, HandOver, Ways, Buffers, NoBuffer, PictureTags, Erased, BufferRows, Next3
  <2>6. main' \in [pc : {"pending", "draw", "send", "receive"}, buffer : Buffers \cup {NoBuffer},
                  row : BufferRows, busy : 0 .. DRAW_MAX]
    BY DEF SwapTypes, HandOver, Ways, Buffers, NoBuffer, PictureTags, Erased, BufferRows, Next3
  <2>7. image' \in [Buffers -> [BufferRows -> PictureTags \cup {Erased}]]
    BY DEF SwapTypes, HandOver, Ways, Buffers, NoBuffer, PictureTags, Erased, BufferRows, Next3
  <2>8. seen' \in [tags : SUBSET (PictureTags \cup {Erased}), last : PictureTags, wrong : BOOLEAN]
    BY DEF SwapTypes, HandOver, Ways, Buffers, NoBuffer, PictureTags, Erased, BufferRows, Next3
  <2> QED
    BY <2>1, <2>2, <2>3, <2>4, <2>5, <2>6, <2>7, <2>8 DEF SwapTypes
<1>2. HandOver'
  BY DEF HandOver, SwapTypes, Ways, Buffers, NoBuffer, BufferRows, Spare, OtherOf
<1>3. InTimeYet'
  BY DEF InTimeYet, Lag, HandOver, SwapTypes, Ways, Buffers, NoBuffer, BufferRows, Spare, OtherOf
<1>4. WholeBuffers'
  BY DEF WholeBuffers, OnePicture, Finished, HandOver, SwapTypes, Ways, Buffers, NoBuffer, BufferRows, PictureTags, Erased, Next3, Spare, OtherOf
<1>5. WholeRect'
  BY DEF WholeRect, HandOver, SwapTypes, Ways, Buffers, BufferRows, PictureTags, Erased, RectRows, Next3, NoBuffer
<1>6. SeenSoFar'
  BY DEF SeenSoFar, HandOver, SwapTypes, Ways, Buffers, NoBuffer, BufferRows, PictureTags, Erased, Next3, Spare, OtherOf
<1> QED
  BY <1>1, <1>2, <1>3, <1>4, <1>5, <1>6

LEMMA PollDoneKeeps == SwapInv /\ PollDone => SwapInv'
<1> SUFFICES ASSUME SwapInv, PollDone PROVE SwapInv'
  OBVIOUS
<1> USE SwapAssumption DEF SwapInv, PollDone, Goes, Drawing
<1>1. SwapTypes'
  <2>1. way' \in Ways /\ ch0Done' \in BOOLEAN
    BY DEF SwapTypes, HandOver, Ways, Buffers, NoBuffer, PictureTags, Erased, BufferRows, Next3
  <2>2. scan' \in [buffer : Buffers, row : BufferRows]
    BY DEF SwapTypes, HandOver, Ways, Buffers, NoBuffer, PictureTags, Erased, BufferRows, Next3
  <2>3. {pointer', held'} \subseteq Buffers
    BY DEF SwapTypes, HandOver, Ways, Buffers, NoBuffer, PictureTags, Erased, BufferRows, Next3
  <2>4. {staged', swapCh', returnCh'} \subseteq Buffers \cup {NoBuffer}
    BY DEF SwapTypes, HandOver, Ways, Buffers, NoBuffer, PictureTags, Erased, BufferRows, Next3
  <2>5. display' \in [pc : {"poll", "swap", "check", "erase", "move"}, passed : BOOLEAN, x : PictureTags]
    BY DEF SwapTypes, HandOver, Ways, Buffers, NoBuffer, PictureTags, Erased, BufferRows, Next3
  <2>6. main' \in [pc : {"pending", "draw", "send", "receive"}, buffer : Buffers \cup {NoBuffer},
                  row : BufferRows, busy : 0 .. DRAW_MAX]
    BY DEF SwapTypes, HandOver, Ways, Buffers, NoBuffer, PictureTags, Erased, BufferRows, Next3
  <2>7. image' \in [Buffers -> [BufferRows -> PictureTags \cup {Erased}]]
    BY DEF SwapTypes, HandOver, Ways, Buffers, NoBuffer, PictureTags, Erased, BufferRows, Next3
  <2>8. seen' \in [tags : SUBSET (PictureTags \cup {Erased}), last : PictureTags, wrong : BOOLEAN]
    BY DEF SwapTypes, HandOver, Ways, Buffers, NoBuffer, PictureTags, Erased, BufferRows, Next3
  <2> QED
    BY <2>1, <2>2, <2>3, <2>4, <2>5, <2>6, <2>7, <2>8 DEF SwapTypes
<1>2. HandOver'
  BY DEF HandOver, SwapTypes, Ways, Buffers, NoBuffer, BufferRows, Spare, OtherOf
<1>3. InTimeYet'
  BY DEF InTimeYet, Lag, HandOver, SwapTypes, Ways, Buffers, NoBuffer, BufferRows, Spare, OtherOf
<1>4. WholeBuffers'
  BY DEF WholeBuffers, OnePicture, Finished, HandOver, SwapTypes, Ways, Buffers, NoBuffer, BufferRows, PictureTags, Erased, Next3, Spare, OtherOf
<1>5. WholeRect'
  BY DEF WholeRect, HandOver, SwapTypes, Ways, Buffers, BufferRows, PictureTags, Erased, RectRows, Next3, NoBuffer
<1>6. SeenSoFar'
  BY DEF SeenSoFar, HandOver, SwapTypes, Ways, Buffers, NoBuffer, BufferRows, PictureTags, Erased, Next3, Spare, OtherOf
<1> QED
  BY <1>1, <1>2, <1>3, <1>4, <1>5, <1>6

LEMMA SwapAtBoundaryKeeps == SwapInv /\ SwapAtBoundary => SwapInv'
<1> SUFFICES ASSUME SwapInv, SwapAtBoundary PROVE SwapInv'
  OBVIOUS
<1> USE SwapAssumption DEF SwapInv, SwapAtBoundary, Goes, Reserved, Drawing
<1>1. SwapTypes'
  <2>1. way' \in Ways /\ ch0Done' \in BOOLEAN
    BY DEF SwapTypes, HandOver, Ways, Buffers, NoBuffer, PictureTags, Erased, BufferRows, Next3
  <2>2. scan' \in [buffer : Buffers, row : BufferRows]
    BY DEF SwapTypes, HandOver, Ways, Buffers, NoBuffer, PictureTags, Erased, BufferRows, Next3
  <2>3. {pointer', held'} \subseteq Buffers
    BY DEF SwapTypes, HandOver, Ways, Buffers, NoBuffer, PictureTags, Erased, BufferRows, Next3
  <2>4. {staged', swapCh', returnCh'} \subseteq Buffers \cup {NoBuffer}
    BY DEF SwapTypes, HandOver, Ways, Buffers, NoBuffer, PictureTags, Erased, BufferRows, Next3
  <2>5. display' \in [pc : {"poll", "swap", "check", "erase", "move"}, passed : BOOLEAN, x : PictureTags]
    BY DEF SwapTypes, HandOver, Ways, Buffers, NoBuffer, PictureTags, Erased, BufferRows, Next3
  <2>6. main' \in [pc : {"pending", "draw", "send", "receive"}, buffer : Buffers \cup {NoBuffer},
                  row : BufferRows, busy : 0 .. DRAW_MAX]
    BY DEF SwapTypes, HandOver, Ways, Buffers, NoBuffer, PictureTags, Erased, BufferRows, Next3
  <2>7. image' \in [Buffers -> [BufferRows -> PictureTags \cup {Erased}]]
    BY DEF SwapTypes, HandOver, Ways, Buffers, NoBuffer, PictureTags, Erased, BufferRows, Next3
  <2>8. seen' \in [tags : SUBSET (PictureTags \cup {Erased}), last : PictureTags, wrong : BOOLEAN]
    BY DEF SwapTypes, HandOver, Ways, Buffers, NoBuffer, PictureTags, Erased, BufferRows, Next3
  <2> QED
    BY <2>1, <2>2, <2>3, <2>4, <2>5, <2>6, <2>7, <2>8 DEF SwapTypes
<1>2. HandOver'
  <2>0. way # "single" /\ way # "rows" /\ scan.buffer = pointer
    BY DEF HandOver, SwapTypes
  <2>1. CASE staged # NoBuffer
    BY <2>0, <2>1 DEF HandOver, SwapTypes, Ways, Buffers, NoBuffer, BufferRows, Spare, OtherOf, InTimeYet
  <2>2. CASE staged = NoBuffer /\ swapCh # NoBuffer
    BY <2>0, <2>2 DEF HandOver, SwapTypes, Ways, Buffers, NoBuffer, BufferRows, Spare, OtherOf, InTimeYet
  <2>3. CASE staged = NoBuffer /\ swapCh = NoBuffer
    BY <2>0, <2>3 DEF HandOver, SwapTypes, Ways, Buffers, NoBuffer, BufferRows, Spare, OtherOf, InTimeYet
  <2> QED
    BY <2>1, <2>2, <2>3
<1>3. InTimeYet'
  BY DEF InTimeYet, Lag, HandOver, SwapTypes, Ways, Buffers, NoBuffer, BufferRows, Spare, OtherOf
<1>4. WholeBuffers'
  BY DEF WholeBuffers, OnePicture, Finished, HandOver, SwapTypes, Ways, Buffers, NoBuffer, BufferRows, PictureTags, Erased, Next3, Spare, OtherOf
<1>5. WholeRect'
  BY DEF WholeRect, HandOver, SwapTypes, Ways, Buffers, BufferRows, PictureTags, Erased, RectRows, Next3, NoBuffer
<1>6. SeenSoFar'
  BY DEF SeenSoFar, HandOver, SwapTypes, Ways, Buffers, NoBuffer, BufferRows, PictureTags, Erased, Next3, Spare, OtherOf
<1> QED
  BY <1>1, <1>2, <1>3, <1>4, <1>5, <1>6

LEMMA SwapBetweenKeeps == SwapInv /\ SwapBetween => SwapInv'
<1> SUFFICES ASSUME SwapInv, SwapBetween PROVE SwapInv'
  OBVIOUS
<1> USE SwapAssumption DEF SwapInv, SwapBetween, Goes, Drawing
<1>1. SwapTypes'
  <2>1. way' \in Ways /\ ch0Done' \in BOOLEAN
    BY DEF SwapTypes, HandOver, Ways, Buffers, NoBuffer, PictureTags, Erased, BufferRows, Next3
  <2>2. scan' \in [buffer : Buffers, row : BufferRows]
    BY DEF SwapTypes, HandOver, Ways, Buffers, NoBuffer, PictureTags, Erased, BufferRows, Next3
  <2>3. {pointer', held'} \subseteq Buffers
    BY DEF SwapTypes, HandOver, Ways, Buffers, NoBuffer, PictureTags, Erased, BufferRows, Next3
  <2>4. {staged', swapCh', returnCh'} \subseteq Buffers \cup {NoBuffer}
    BY DEF SwapTypes, HandOver, Ways, Buffers, NoBuffer, PictureTags, Erased, BufferRows, Next3
  <2>5. display' \in [pc : {"poll", "swap", "check", "erase", "move"}, passed : BOOLEAN, x : PictureTags]
    BY DEF SwapTypes, HandOver, Ways, Buffers, NoBuffer, PictureTags, Erased, BufferRows, Next3
  <2>6. main' \in [pc : {"pending", "draw", "send", "receive"}, buffer : Buffers \cup {NoBuffer},
                  row : BufferRows, busy : 0 .. DRAW_MAX]
    BY DEF SwapTypes, HandOver, Ways, Buffers, NoBuffer, PictureTags, Erased, BufferRows, Next3
  <2>7. image' \in [Buffers -> [BufferRows -> PictureTags \cup {Erased}]]
    BY DEF SwapTypes, HandOver, Ways, Buffers, NoBuffer, PictureTags, Erased, BufferRows, Next3
  <2>8. seen' \in [tags : SUBSET (PictureTags \cup {Erased}), last : PictureTags, wrong : BOOLEAN]
    BY DEF SwapTypes, HandOver, Ways, Buffers, NoBuffer, PictureTags, Erased, BufferRows, Next3
  <2> QED
    BY <2>1, <2>2, <2>3, <2>4, <2>5, <2>6, <2>7, <2>8 DEF SwapTypes
<1>2. HandOver'
  BY DEF HandOver, SwapTypes, Ways, Buffers, NoBuffer, BufferRows, Spare, OtherOf
<1>3. InTimeYet'
  BY DEF InTimeYet, Lag, HandOver, SwapTypes, Ways, Buffers, NoBuffer, BufferRows, Spare, OtherOf
<1>4. WholeBuffers'
  BY DEF WholeBuffers, OnePicture, Finished, HandOver, SwapTypes, Ways, Buffers, NoBuffer, BufferRows, PictureTags, Erased, Next3, Spare, OtherOf
<1>5. WholeRect'
  BY DEF WholeRect, HandOver, SwapTypes, Ways, Buffers, BufferRows, PictureTags, Erased, RectRows, Next3, NoBuffer
<1>6. SeenSoFar'
  <2>1. /\ scan.buffer = held /\ scan.row = 1 /\ seen.tags = {} /\ image[held][ROWS] = seen.last
        /\ image[held][ROWS] \in PictureTags /\ image' = image /\ seen' = seen /\ way' = "rows"
        /\ ~seen.wrong
    BY DEF HandOver, InTimeYet, SeenSoFar, WholeBuffers, OnePicture
  <2>2. scan' = [buffer |-> held', row |-> 1]
    OBVIOUS
  <2>3. image[held'][ROWS] \in {image[held][ROWS], Next3(image[held][ROWS])}
    <3>1. CASE swapCh = NoBuffer
      BY <3>1
    <3>2. CASE swapCh # NoBuffer
      <4>1. held' = swapCh /\ swapCh = Spare
        BY <3>2 DEF HandOver, NoBuffer
      <4> QED
        BY <3>2, <4>1 DEF WholeBuffers, Finished
    <3> QED
      BY <3>1, <3>2
  <2> QED
    BY <2>1, <2>2, <2>3 DEF SeenSoFar
<1> QED
  BY <1>1, <1>2, <1>3, <1>4, <1>5, <1>6

LEMMA CheckDeadlineKeeps == SwapInv /\ CheckDeadline => SwapInv'
<1> SUFFICES ASSUME SwapInv, CheckDeadline PROVE SwapInv'
  OBVIOUS
<1> USE SwapAssumption DEF SwapInv, CheckDeadline, Goes, EarlyEnough
<1>1. SwapTypes'
  <2>1. way' \in Ways /\ ch0Done' \in BOOLEAN
    BY DEF SwapTypes, HandOver, Ways, Buffers, NoBuffer, PictureTags, Erased, BufferRows, Next3
  <2>2. scan' \in [buffer : Buffers, row : BufferRows]
    BY DEF SwapTypes, HandOver, Ways, Buffers, NoBuffer, PictureTags, Erased, BufferRows, Next3
  <2>3. {pointer', held'} \subseteq Buffers
    BY DEF SwapTypes, HandOver, Ways, Buffers, NoBuffer, PictureTags, Erased, BufferRows, Next3
  <2>4. {staged', swapCh', returnCh'} \subseteq Buffers \cup {NoBuffer}
    BY DEF SwapTypes, HandOver, Ways, Buffers, NoBuffer, PictureTags, Erased, BufferRows, Next3
  <2>5. display' \in [pc : {"poll", "swap", "check", "erase", "move"}, passed : BOOLEAN, x : PictureTags]
    BY DEF SwapTypes, HandOver, Ways, Buffers, NoBuffer, PictureTags, Erased, BufferRows, Next3
  <2>6. main' \in [pc : {"pending", "draw", "send", "receive"}, buffer : Buffers \cup {NoBuffer},
                  row : BufferRows, busy : 0 .. DRAW_MAX]
    BY DEF SwapTypes, HandOver, Ways, Buffers, NoBuffer, PictureTags, Erased, BufferRows, Next3
  <2>7. image' \in [Buffers -> [BufferRows -> PictureTags \cup {Erased}]]
    BY DEF SwapTypes, HandOver, Ways, Buffers, NoBuffer, PictureTags, Erased, BufferRows, Next3
  <2>8. seen' \in [tags : SUBSET (PictureTags \cup {Erased}), last : PictureTags, wrong : BOOLEAN]
    BY DEF SwapTypes, HandOver, Ways, Buffers, NoBuffer, PictureTags, Erased, BufferRows, Next3
  <2> QED
    BY <2>1, <2>2, <2>3, <2>4, <2>5, <2>6, <2>7, <2>8 DEF SwapTypes
<1>2. HandOver'
  BY DEF HandOver, SwapTypes, Ways, Buffers, NoBuffer, BufferRows, Spare, OtherOf
<1>3. InTimeYet'
  BY DEF InTimeYet, Lag, HandOver, SwapTypes, Ways, Buffers, NoBuffer, BufferRows, Spare, OtherOf
<1>4. WholeBuffers'
  BY DEF WholeBuffers, OnePicture, Finished, HandOver, SwapTypes, Ways, Buffers, NoBuffer, BufferRows, PictureTags, Erased, Next3, Spare, OtherOf
<1>5. WholeRect'
  BY DEF WholeRect, HandOver, SwapTypes, Ways, Buffers, BufferRows, PictureTags, Erased, RectRows, Next3, NoBuffer
<1>6. SeenSoFar'
  BY DEF SeenSoFar, HandOver, SwapTypes, Ways, Buffers, NoBuffer, BufferRows, PictureTags, Erased, Next3, Spare, OtherOf
<1> QED
  BY <1>1, <1>2, <1>3, <1>4, <1>5, <1>6

LEMMA EraseRectKeeps == SwapInv /\ EraseRect => SwapInv'
<1> SUFFICES ASSUME SwapInv, EraseRect PROVE SwapInv'
  OBVIOUS
<1> USE SwapAssumption DEF SwapInv, EraseRect, Goes, Fill, Filled, RectRows
<1>1. SwapTypes'
  <2>1. way' \in Ways /\ ch0Done' \in BOOLEAN
    BY DEF SwapTypes, HandOver, Ways, Buffers, NoBuffer, PictureTags, Erased, BufferRows, Next3
  <2>2. scan' \in [buffer : Buffers, row : BufferRows]
    BY DEF SwapTypes, HandOver, Ways, Buffers, NoBuffer, PictureTags, Erased, BufferRows, Next3
  <2>3. {pointer', held'} \subseteq Buffers
    BY DEF SwapTypes, HandOver, Ways, Buffers, NoBuffer, PictureTags, Erased, BufferRows, Next3
  <2>4. {staged', swapCh', returnCh'} \subseteq Buffers \cup {NoBuffer}
    BY DEF SwapTypes, HandOver, Ways, Buffers, NoBuffer, PictureTags, Erased, BufferRows, Next3
  <2>5. display' \in [pc : {"poll", "swap", "check", "erase", "move"}, passed : BOOLEAN, x : PictureTags]
    BY DEF SwapTypes, HandOver, Ways, Buffers, NoBuffer, PictureTags, Erased, BufferRows, Next3
  <2>6. main' \in [pc : {"pending", "draw", "send", "receive"}, buffer : Buffers \cup {NoBuffer},
                  row : BufferRows, busy : 0 .. DRAW_MAX]
    BY DEF SwapTypes, HandOver, Ways, Buffers, NoBuffer, PictureTags, Erased, BufferRows, Next3
  <2>7. image' \in [Buffers -> [BufferRows -> PictureTags \cup {Erased}]]
    BY DEF SwapTypes, HandOver, Ways, Buffers, NoBuffer, PictureTags, Erased, BufferRows, Next3
  <2>8. seen' \in [tags : SUBSET (PictureTags \cup {Erased}), last : PictureTags, wrong : BOOLEAN]
    BY DEF SwapTypes, HandOver, Ways, Buffers, NoBuffer, PictureTags, Erased, BufferRows, Next3
  <2> QED
    BY <2>1, <2>2, <2>3, <2>4, <2>5, <2>6, <2>7, <2>8 DEF SwapTypes
<1>2. HandOver'
  BY DEF HandOver, SwapTypes, Ways, Buffers, NoBuffer, BufferRows, Spare, OtherOf
<1>3. InTimeYet'
  BY DEF InTimeYet, Lag, HandOver, SwapTypes, Ways, Buffers, NoBuffer, BufferRows, Spare, OtherOf
<1>4. WholeBuffers'
  BY DEF WholeBuffers, OnePicture, Finished, HandOver, SwapTypes, Ways, Buffers, NoBuffer, BufferRows, PictureTags, Erased, Next3, Spare, OtherOf
<1>5. WholeRect'
  BY DEF WholeRect, HandOver, SwapTypes, Ways, Buffers, BufferRows, PictureTags, Erased, RectRows, Next3, NoBuffer
<1>6. SeenSoFar'
  BY DEF SeenSoFar, HandOver, SwapTypes, Ways, Buffers, NoBuffer, BufferRows, PictureTags, Erased, Next3, Spare, OtherOf
<1> QED
  BY <1>1, <1>2, <1>3, <1>4, <1>5, <1>6

LEMMA MoveRectKeeps == SwapInv /\ MoveRect => SwapInv'
<1> SUFFICES ASSUME SwapInv, MoveRect PROVE SwapInv'
  OBVIOUS
<1> USE SwapAssumption DEF SwapInv, MoveRect, Goes, Fill, Filled, RectRows
<1>a. /\ way = "single" /\ display.x \in PictureTags /\ Next3(display.x) \in PictureTags
      /\ display' = [pc |-> "poll", passed |-> FALSE, x |-> Next3(display.x)]
  BY NextTag DEF HandOver, SwapTypes
<1>1. SwapTypes'
  <2>1. way' \in Ways /\ ch0Done' \in BOOLEAN
    BY DEF SwapTypes, HandOver, Ways, Buffers, NoBuffer, PictureTags, Erased, BufferRows, Next3
  <2>2. scan' \in [buffer : Buffers, row : BufferRows]
    BY DEF SwapTypes, HandOver, Ways, Buffers, NoBuffer, PictureTags, Erased, BufferRows, Next3
  <2>3. {pointer', held'} \subseteq Buffers
    BY DEF SwapTypes, HandOver, Ways, Buffers, NoBuffer, PictureTags, Erased, BufferRows, Next3
  <2>4. {staged', swapCh', returnCh'} \subseteq Buffers \cup {NoBuffer}
    BY DEF SwapTypes, HandOver, Ways, Buffers, NoBuffer, PictureTags, Erased, BufferRows, Next3
  <2>5. display' \in [pc : {"poll", "swap", "check", "erase", "move"}, passed : BOOLEAN, x : PictureTags]
    BY <1>a
  <2>6. main' \in [pc : {"pending", "draw", "send", "receive"}, buffer : Buffers \cup {NoBuffer},
                  row : BufferRows, busy : 0 .. DRAW_MAX]
    BY DEF SwapTypes, HandOver, Ways, Buffers, NoBuffer, PictureTags, Erased, BufferRows, Next3
  <2>7. image' \in [Buffers -> [BufferRows -> PictureTags \cup {Erased}]]
    BY <1>a DEF SwapTypes, Buffers
  <2>8. seen' \in [tags : SUBSET (PictureTags \cup {Erased}), last : PictureTags, wrong : BOOLEAN]
    BY DEF SwapTypes, HandOver, Ways, Buffers, NoBuffer, PictureTags, Erased, BufferRows, Next3
  <2> QED
    BY <2>1, <2>2, <2>3, <2>4, <2>5, <2>6, <2>7, <2>8 DEF SwapTypes
<1>2. HandOver'
  BY DEF HandOver, SwapTypes, Ways, Buffers, NoBuffer, BufferRows, Spare, OtherOf
<1>3. InTimeYet'
  BY DEF InTimeYet, Lag, HandOver, SwapTypes, Ways, Buffers, NoBuffer, BufferRows, Spare, OtherOf
<1>4. WholeBuffers'
  BY DEF WholeBuffers, OnePicture, Finished, HandOver, SwapTypes, Ways, Buffers, NoBuffer, BufferRows, PictureTags, Erased, Next3, Spare, OtherOf
<1>5. WholeRect'
  BY DEF WholeRect, HandOver, SwapTypes, Ways, Buffers, BufferRows, PictureTags, Erased, RectRows, Next3, NoBuffer
<1>6. SeenSoFar'
  <2>1. scan.row <= MOTION_Y
    BY DEF InTimeYet, SwapTypes, BufferRows
  <2> QED
    BY <1>a, <2>1 DEF SeenSoFar
<1> QED
  BY <1>1, <1>2, <1>3, <1>4, <1>5, <1>6

(* What a scanned row shows.                                               *)
LEMMA TagsAreOne ==
  ASSUME SwapInv, ScanRow
  PROVE  /\ way # "single" => /\ TagsNow = {image[scan.buffer][ROWS]}
                              /\ image[scan.buffer][ROWS] \in PictureTags
         /\ way = "single" => /\ scan.row < MOTION_Y => TagsNow = {}
                              /\ scan.row >= MOTION_Y => TagsNow = {display.x}
<1> USE SwapAssumption DEF SwapInv
<1>a. /\ scan.buffer \in Buffers /\ scan.row \in BufferRows /\ held \in Buffers
      /\ scan.buffer \in {held, pointer}
  BY DEF SwapTypes, HandOver
<1>1. ASSUME way # "single"
      PROVE  TagsNow = {image[scan.buffer][ROWS]} /\ image[scan.buffer][ROWS] \in PictureTags
  <2>1. OnePicture(scan.buffer)
    BY <1>a, <1>1 DEF WholeBuffers, HandOver, SwapTypes, NoBuffer, Buffers, Spare, OtherOf
  <2>2. Tag = image[scan.buffer][ROWS]
    BY <1>a, <2>1 DEF OnePicture, Tag
  <2> QED
    BY <1>1, <2>1, <2>2 DEF SeenSoFar, OnePicture, TagsNow
<1>2. ASSUME way = "single", scan.row < MOTION_Y
      PROVE  TagsNow = {}
  BY <1>a, <1>2 DEF SeenSoFar, BufferRows, TagsNow, RectRows
<1>3. ASSUME way = "single", scan.row >= MOTION_Y
      PROVE  TagsNow = {display.x}
  <2>1. scan.row \in RectRows /\ scan.buffer = "A"
    BY <1>a, <1>3 DEF BufferRows, HandOver, RectRows
  <2>2. display.pc # "move"
    BY <1>a, <1>3 DEF InTimeYet, BufferRows
  <2>3. Tag = display.x
    BY <1>3, <2>1, <2>2 DEF WholeRect, Tag
  <2> QED
    BY <1>3, <2>1, <2>3 DEF SeenSoFar, TagsNow
<1> QED
  BY <1>1, <1>2, <1>3

(* The scan within a frame.                                                *)
LEMMA RowInFrame ==
  ASSUME SwapInv, ScanRow, scan.row < ROWS
  PROVE  SwapInv'
<1> USE SwapAssumption DEF SwapInv
<1>a. /\ scan.row \in BufferRows /\ scan.row + 1 \in BufferRows
      /\ scan' = [scan EXCEPT !.row = scan.row + 1] /\ seen' = [seen EXCEPT !.tags = TagsNow]
      /\ scan'.row = scan.row + 1 /\ scan'.buffer = scan.buffer
      /\ main' = IF Drawing THEN [main EXCEPT !.busy = @ + 1] ELSE main
      /\ display' = [display EXCEPT !.passed = (display.pc # "poll")]
      /\ UNCHANGED <<ch0Done, way, pointer, held, staged, swapCh, returnCh, image, Spare>>
  BY DEF ScanRow, SwapTypes, BufferRows, Spare
<1>b. /\ Drawing => main.pc = "draw" /\ main.busy < DRAW_MAX /\ way # "single"
      /\ main' \in [pc : {"pending", "draw", "send", "receive"}, buffer : Buffers \cup {NoBuffer},
                    row : BufferRows, busy : 0 .. DRAW_MAX]
      /\ main'.pc = main.pc /\ main'.buffer = main.buffer /\ main'.row = main.row
      /\ main.pc # "draw" => main'.busy = main.busy
      /\ display'.pc = display.pc /\ display'.x = display.x
      /\ display'.passed = (display.pc # "poll")
  BY <1>a DEF ScanRow, InTimeNow, Drawing, SwapTypes, HandOver
<1>c. TagsNow \subseteq PictureTags
  BY <1>a, TagsAreOne DEF SwapTypes, BufferRows
<1>1. SwapTypes'
  BY <1>a, <1>b, <1>c DEF SwapTypes
<1>2. HandOver'
  BY <1>a, <1>b DEF HandOver
<1>3. InTimeYet'
  <2>0. /\ scan.row \in Nat /\ main.busy \in 0 .. DRAW_MAX /\ DRAW_MAX \in Nat
        /\ Drawing => main'.busy = main.busy + 1
        /\ ~Drawing => main'.busy = main.busy
    BY <1>a DEF SwapTypes, BufferRows
  <2>1. way = "rows" => ~ch0Done /\ display.pc = "poll"
    BY DEF ScanRow, InTimeNow
  <2>2. way = "chain" /\ ch0Done /\ display.pc = "poll" => scan'.row - 1 <= Lag'
    BY <1>a, <1>b, <2>0 DEF InTimeYet, Lag, HandOver, ScanRow, InTimeNow, Drawing
  <2>3. way = "chain" /\ display.pc = "swap" => scan'.row - 1 <= Lag' + 1
    BY <1>a, <1>b, <2>0 DEF InTimeYet, Lag, HandOver, ScanRow, InTimeNow, Drawing
  <2>4. display.pc \in {"erase", "move"} => way = "single" /\ ~display.passed
    BY <1>b DEF ScanRow, InTimeNow, HandOver
  <2>5. /\ display.pc = "erase" => scan'.row <= MOTION_Y - 2
        /\ display.pc = "move" => scan'.row <= MOTION_Y - 1
    BY <1>a, <2>0, <2>4 DEF InTimeYet
  <2>6. way = "single" \/ way = "rows" \/ (way = "chain" /\ display.pc \in {"poll", "swap"})
    BY DEF SwapTypes, Ways, HandOver
  <2>7. way # "single" /\ display.pc = "swap" => ~ch0Done
    BY DEF InTimeYet
  <2> QED
    BY <1>a, <1>b, <2>1, <2>2, <2>3, <2>5, <2>6, <2>7 DEF InTimeYet
<1>4. WholeBuffers'
  BY <1>a, <1>b DEF WholeBuffers, OnePicture, Finished
<1>5. WholeRect'
  BY <1>a, <1>b DEF WholeRect
<1>6. SeenSoFar'
  BY <1>a, <1>b, TagsAreOne DEF SeenSoFar, SwapTypes, BufferRows
<1> QED
  BY <1>1, <1>2, <1>3, <1>4, <1>5, <1>6

(* The last row of a frame: the end before was dealt with in time.         *)
LEMMA RowEndsFrame ==
  ASSUME SwapInv, ScanRow, scan.row = ROWS
  PROVE  SwapInv'
<1> USE SwapAssumption DEF SwapInv
<1>a. /\ scan.row = ROWS /\ scan' = [buffer |-> pointer, row |-> 1] /\ ch0Done' = TRUE
      /\ seen' = [tags |-> {}, last |-> CHOOSE t \in TagsNow : TRUE,
                  wrong |-> seen.wrong \/ FrameIsBad(TagsNow)]
      /\ main' = IF Drawing THEN [main EXCEPT !.busy = @ + 1] ELSE main
      /\ display' = [display EXCEPT !.passed = (display.pc # "poll")]
      /\ UNCHANGED <<way, pointer, held, staged, swapCh, returnCh, image, Spare>>
  BY DEF ScanRow, SwapTypes, BufferRows, Spare
<1>b. /\ Drawing => main.pc = "draw" /\ main.busy < DRAW_MAX /\ way # "single"
      /\ main' \in [pc : {"pending", "draw", "send", "receive"}, buffer : Buffers \cup {NoBuffer},
                    row : BufferRows, busy : 0 .. DRAW_MAX]
      /\ main'.pc = main.pc /\ main'.buffer = main.buffer /\ main'.row = main.row
      /\ main.pc # "draw" => main'.busy = main.busy
      /\ display'.pc = display.pc /\ display'.x = display.x
      /\ display'.passed = (display.pc # "poll")
  BY <1>a DEF ScanRow, InTimeNow, Drawing, SwapTypes, HandOver
<1>c. way # "single" => display.pc = "poll"
  BY <1>a DEF ScanRow, InTimeNow, Drawing, InTimeYet, HandOver, SwapTypes, Lag, Ways
<1>d. display.pc \notin {"erase", "move"}
  BY <1>a DEF ScanRow, InTimeNow, Drawing, InTimeYet, HandOver, SwapTypes
<1>e. PICK shown \in PictureTags :
        /\ TagsNow = {shown}
        /\ way # "single" => shown = image[scan.buffer][ROWS]
  BY <1>a, TagsAreOne DEF SwapTypes
<1>f. (CHOOSE t \in TagsNow : TRUE) = shown
  BY <1>e
<1>g. ~FrameIsBad(TagsNow)
  <2>1. Cardinality(TagsNow) = 1
    BY <1>e, FS_Singleton
  <2> QED
    BY <1>e, <2>1, NextTag DEF FrameIsBad, SeenSoFar
<1>h. seen' = [tags |-> {}, last |-> shown, wrong |-> FALSE]
  BY <1>a, <1>f, <1>g DEF SeenSoFar
<1>1. SwapTypes'
  <2>1. /\ seen' \in [tags : SUBSET (PictureTags \cup {Erased}), last : PictureTags, wrong : BOOLEAN]
        /\ 1 \in BufferRows
    BY <1>e, <1>h DEF BufferRows
  <2>2. /\ scan' \in [buffer : Buffers, row : BufferRows]
        /\ display' \in [pc : {"poll", "swap", "check", "erase", "move"}, passed : BOOLEAN,
                        x : PictureTags]
    BY <1>a, <2>1 DEF SwapTypes
  <2> QED
    BY <1>a, <1>b, <2>1, <2>2 DEF SwapTypes
<1>2. HandOver'
  BY <1>a, <1>b DEF HandOver
<1>3. InTimeYet'
  BY <1>a, <1>b, <1>c, <1>d, <1>e, <1>h
     DEF InTimeYet, Lag, HandOver, SwapTypes, Ways, BufferRows, NoBuffer
<1>4. WholeBuffers'
  BY <1>a, <1>b DEF WholeBuffers, OnePicture, Finished
<1>5. WholeRect'
  BY <1>a, <1>b DEF WholeRect
<1>6. SeenSoFar'
  <2>1. ASSUME way # "single"
        PROVE  image[pointer][ROWS] \in {shown, Next3(shown)}
    BY <1>e, <2>1 DEF HandOver, WholeBuffers, Finished, NoBuffer, Spare, OtherOf, SwapTypes, Buffers
  <2> QED
    <3>1. scan'.row = 1 /\ scan'.buffer = pointer /\ scan'.row <= MOTION_Y
      BY <1>a
    <3>2. seen'.tags = {} /\ seen'.last = shown /\ ~seen'.wrong
      BY <1>h
    <3> QED
      BY <1>a, <2>1, <3>1, <3>2 DEF SeenSoFar
<1> QED
  BY <1>1, <1>2, <1>3, <1>4, <1>5, <1>6

LEMMA ScanRowKeeps == SwapInv /\ ScanRow => SwapInv'
BY SwapAssumption, RowInFrame, RowEndsFrame DEF SwapInv, SwapTypes, BufferRows

LEMMA SwapBegins == SwapInit => SwapInv
<1> SUFFICES ASSUME SwapInit PROVE SwapInv
  OBVIOUS
<1> USE SwapAssumption DEF SwapInit
<1>1. SwapTypes
  <2>1. /\ 1 \in BufferRows /\ 0 \in 0 .. DRAW_MAX /\ {"A", "B"} = Buffers
        /\ {} \in SUBSET (PictureTags \cup {Erased})
    BY DEF BufferRows, Buffers
  <2>2. image \in [Buffers -> [BufferRows -> PictureTags \cup {Erased}]]
    BY NextTag
  <2>3. main \in [pc : {"pending", "draw", "send", "receive"}, buffer : Buffers \cup {NoBuffer},
                 row : BufferRows, busy : 0 .. DRAW_MAX]
    BY <2>1
  <2>4. /\ scan \in [buffer : Buffers, row : BufferRows]
        /\ display \in [pc : {"poll", "swap", "check", "erase", "move"}, passed : BOOLEAN,
                       x : PictureTags]
        /\ seen \in [tags : SUBSET (PictureTags \cup {Erased}), last : PictureTags, wrong : BOOLEAN]
    BY <2>1, NextTag
  <2> QED
    BY <2>1, <2>2, <2>3, <2>4 DEF SwapTypes
<1>2. HandOver
  BY DEF HandOver, Spare, OtherOf, NoBuffer, Ways
<1>3. InTimeYet
  BY NextTag DEF InTimeYet, BufferRows, Buffers
<1>4. WholeBuffers
  BY NextTag DEF WholeBuffers, OnePicture, Finished, Spare, OtherOf, BufferRows, Buffers, NoBuffer, Ways
<1>5. WholeRect
  BY DEF WholeRect, RectRows, BufferRows, Buffers
<1>6. SeenSoFar
  BY NextTag DEF SeenSoFar, BufferRows, Buffers
<1> QED
  BY <1>1, <1>2, <1>3, <1>4, <1>5, <1>6 DEF SwapInv

LEMMA SwapStutters == SwapInv /\ UNCHANGED swapVars => SwapInv'
BY DEF SwapInv, swapVars, SwapTypes, HandOver, InTimeYet, Lag, WholeBuffers, WholeRect, SeenSoFar, OnePicture, Finished, Spare

THEOREM SwapIsSoundHolds == SwapSpec => []SwapIsSound
<1>1. SwapInv /\ [SwapNext]_swapVars => SwapInv'
  BY DrawRowKeeps, SendBackKeeps, ReceiveBackKeeps, PollDoneKeeps, SwapAtBoundaryKeeps,
     SwapBetweenKeeps, CheckDeadlineKeeps, EraseRectKeeps, MoveRectKeeps, ScanRowKeeps,
     SwapStutters DEF SwapNext
<1>2. SwapInv => SwapIsSound
  BY DEF SwapInv, SwapTypes, HandOver, SeenSoFar, SwapIsSound, DrawsOffStage, PicturesAreWhole, Spare, OtherOf, NoBuffer, Buffers, Ways
<1> QED
  BY SwapBegins, <1>1, <1>2, PTL DEF SwapSpec
-----------------------------------------------------------------------------

(***************************************************************************)
(* Where the state machines are in the frame: the word that SM0 puts out   *)
(* next, as line and place in it, which is also how far the panel is.      *)
(***************************************************************************)
LineAfter(line) == IF line = FRAME_LINES - 1 THEN 0 ELSE line + 1
LineBefore(line) == IF line = 0 THEN FRAME_LINES - 1 ELSE line - 1

AtX(s) ==
    CASE s.pc \in {1, 8}  -> LINE_WORDS - 2
      [] s.pc \in {2, 9}  -> LINE_WORDS - 1
      [] s.pc \in {3, 10} -> 0
      [] s.pc \in {4, 11} -> 1
      [] s.pc = 5         -> LINE_WORDS - 5 - s.x
      [] s.pc = 6         -> LINE_WORDS - 4
      [] s.pc \in {7, 13} -> LINE_WORDS - 3
      [] s.pc = 12        -> LINE_WORDS - 4 - s.x
AtY(s) ==
    IF s.pc <= 2 THEN FRAME_LINES - 1
    ELSE IF s.pc <= 7 THEN 0
    ELSE IF s.pc <= 9 THEN V_NORMAL_LINES - s.y - 1 ELSE V_NORMAL_LINES - s.y

(* k words on from x in the line y.                                        *)
OnX(x, k) == IF x + k < LINE_WORDS THEN x + k ELSE x + k - LINE_WORDS
OnY(y, x, k) == IF x + k < LINE_WORDS THEN y ELSE LineAfter(y)

(* What SM1 holds at each instruction.                                     *)
Counter(s) ==
    /\ s \in [pc : 1 .. 13, osr : Nat, x : Nat, y : Nat, pins : 0 .. 3]
    /\ s.pc = 4 => s.osr = LINE_WORDS - 7
    /\ s.pc = 5 => s.x \in 0 .. LINE_WORDS - 7
    /\ s.pc = 7 => s.osr = V_NORMAL_LINES - 1
    /\ s.pc >= 8 => s.y \in 0 .. V_NORMAL_LINES - 1
    /\ s.pc = 11 => s.osr = LINE_WORDS - 6
    /\ s.pc = 12 => s.x \in 0 .. LINE_WORDS - 6
    /\ s.pc = 2 => s.pins = 3
    /\ s.pc \in 3 .. 7 => s.pins = 2
    /\ s.pc = 9 => s.pins = 1
    /\ s.pc >= 10 => s.pins = 0
    /\ s.pc = 1 => s.pins = 0
    /\ s.pc = 8 => s.pins = (IF s.y = V_NORMAL_LINES - 1 THEN 2 ELSE 0)

(* The counts: the one SM1 pulls next, and those on their way.             *)
Counts == 2 + V_NORMAL_LINES
Pulls(s) ==
    IF s.pc <= 3 THEN 1 ELSE IF s.pc <= 6 THEN 2
    ELSE IF s.pc = 7 THEN 3
    ELSE IF s.pc <= 10 THEN 2 + V_NORMAL_LINES - s.y
    ELSE IF s.y = 0 THEN 1 ELSE 3 + V_NORMAL_LINES - s.y
OnCount(q, k) == IF q + k > Counts THEN q + k - Counts ELSE q + k
CountsOf(s, c, fifo) ==
    /\ c = OnCount(Pulls(s), Len(fifo))
    /\ \A i \in 1 .. Len(fifo) : fifo[i] = Sm1FrameData[OnCount(Pulls(s), i - 1)]

(* CH0 sends the word at `col' of `line' next.                             *)
From(part) == CASE part = 0 -> 0 [] part = 1 -> LEFT_WORDS [] part = 2 -> LEFT_WORDS + WIDTH
SendsOf(c, nx, line, col) ==
    \/ /\ c.segment = 0 /\ nx = 1
       /\ c.remaining = (TOP_LINES - line) * LINE_WORDS - col
       /\ line < TOP_LINES \/ (line = TOP_LINES /\ col = 0)
    \/ \E row \in Rows, part \in 0 .. 2 :
         /\ c.segment = 1 + 3 * row + part /\ nx = c.segment + 1
         /\ \/ /\ line = TOP_LINES + row
               /\ c.remaining = From(part) + RowPart(part).words - col
               /\ col >= From(part)
            \/ part = 2 /\ c.remaining = 0 /\ line = TOP_LINES + row + 1 /\ col = 0
    \/ /\ c.segment = BOTTOM_INDEX /\ nx = RELOAD_INDEX
       /\ \/ line >= TOP_LINES + HEIGHT /\ c.remaining = (FRAME_LINES - line) * LINE_WORDS - col
          \/ line = 0 /\ col = 0 /\ c.remaining = 0
    \/ /\ c.segment = RELOAD_INDEX /\ line = 0 /\ col = 0
       /\ \/ nx = SEGMENT_COUNT /\ c.remaining = 1
          \/ nx = 0 /\ c.remaining = 0
Position(c, nx, s, k) == SendsOf(c, nx, OnY(AtY(s), AtX(s), k), OnX(AtX(s), k))

(* The word of a look at a place of the frame, and a word that is right there. *)
Within(col) == IF col < LEFT_WORDS THEN 0
               ELSE IF col >= LEFT_WORDS + WIDTH THEN WIDTH - 1 ELSE col - LEFT_WORDS
OfLook(l, row, x) == <<l[1], SourceRow(row, l[2]), SourceColumn(x, l[2])>>
InRow(line) == line >= TOP_LINES /\ line < TOP_LINES + HEIGHT
IsOf(word, l, line, col) ==
    word = IF InRow(line) THEN OfLook(l, line - TOP_LINES, Within(col)) ELSE BLACK_WORD
IsRight(word, line, col) == \E l \in Looks : IsOf(word, l, line, col)

RowIs(row, l) ==
    /\ front[row] = [x \in Columns |-> OfLook(l, row, x)]
    /\ borders[row] = <<OfLook(l, row, 0), OfLook(l, row, WIDTH - 1)>>
Whole(l) == \A row \in Rows : RowIs(row, l)
Cur == <<back.picture, back.rotated>>

Types ==
    /\ power \in {"off", "enabled", "on"} /\ irq \in BOOLEAN
    /\ back \in [picture : Pictures, rotated : BOOLEAN]
    /\ task \in TaskType /\ ch0 \in [segment : Nat, remaining : Nat] /\ next \in Nat
    /\ glass \in [x : Nat, y : Int, hsync : 0 .. 1, word : Words, fits : SUBSET Looks,
                 excused : BOOLEAN, torn : BOOLEAN]
    /\ task.due => task.pc = "wait"
    /\ task.late => task.pc = "copy"
    /\ task.pc # "copy" => task.row = 0
    /\ pixels \in Seq(Words) /\ Len(pixels) <= FIFO_WORDS
    /\ counts \in Seq(Nat) /\ Len(counts) <= FIFO_WORDS
    /\ front \in [Rows -> [Columns -> Words]] /\ borders \in [Rows -> Words \X Words]

NotYet ==
    power # "on" =>
      /\ ch0 = [segment |-> 0, remaining |-> TOP_LINES * LINE_WORDS] /\ next = 1
      /\ ch1 = 1 /\ pixels = <<>> /\ counts = <<>> /\ glass = Unsynced /\ ~irq
      /\ sm1.pc \in (IF power = "off" THEN {1} ELSE {1, 2, 3})
      /\ task.pc \in (IF power = "off" THEN {"draw", "present"} ELSE {"trigger"})

(* The panel is where the state machines are, and shows the word of the    *)
(* place before; the FIFO holds those that follow.                         *)
GlassOf(g, s) ==
    /\ g.x = AtX(s) /\ g.y \in {-1, AtY(s)} /\ g.hsync = Hsync(s.pins)
    /\ g.y = -1 => g.fits = Looks /\ ~g.torn
    /\ IsRight(g.word, OnY(LineBefore(AtY(s)), AtX(s), LINE_WORDS - 1), OnX(AtX(s), LINE_WORDS - 1))
FifoOf(fifo, s) ==
    \A i \in 1 .. Len(fifo) : IsRight(fifo[i], OnY(AtY(s), AtX(s), i - 1), OnX(AtX(s), i - 1))

Scans ==
    power = "on" =>
      /\ task.pc # "trigger"
      /\ CountsOf(sm1, ch1, counts)
      /\ Position(ch0, next, sm1, Len(pixels))
      /\ GlassOf(glass, sm1)
      /\ FifoOf(pixels, sm1)

(* A clock leaves a word in the FIFO: it is only empty before the first.   *)
Fed == power = "on" /\ pixels = <<>> => ch0.segment = 0 /\ ch0.remaining > 0

(* Rows are whole; while they are copied, each is new or old.              *)
Rowwise ==
    power # "off" =>
      /\ \A row \in Rows : \E l \in Looks : RowIs(row, l)
      /\ task.pc # "copy" => \E l \in Looks : Whole(l)
      /\ task.pc = "copy" => \A row \in 0 .. task.row - 1 : RowIs(row, Cur)

(* CH0 has begun the next frame.                                           *)
WrappedOf(s, c) ==
    AtY(s) = FRAME_LINES - 1 /\ (c.segment = 0 \/ (c.segment = RELOAD_INDEX /\ c.remaining = 0))
Wrapped == WrappedOf(sm1, ch0)
Ahead == AtY(sm1) <= TOP_LINES - MARGIN - 1 + task.row + (IF task.moved THEN 0 ELSE 1)

(* What is left of the picture in this frame will be of the look l.        *)
Keeps(l) == IF task.pc = "copy" THEN l = Cur /\ Ahead ELSE Whole(l)
FifoIs(fifo, s, l) ==
    \A i \in 1 .. Len(fifo) : IsOf(fifo[i], l, OnY(AtY(s), AtX(s), i - 1), OnX(AtX(s), i - 1))
Clean == \E l \in Looks : l \in glass.fits /\ FifoIs(pixels, sm1, l) /\ Keeps(l)

(* How many frames the task can have missed before the interrupt is raised again. *)
LevelOf(t, pending) ==
    (IF t.pc \in {"wait", "read", "count"} THEN t.misses ELSE 0)
    + (IF t.pc \in {"read", "count"} \/ t.due THEN 1 ELSE 0) + (IF pending THEN 1 ELSE 0)
Level == LevelOf(task, irq)

Seamless ==
    power = "on" =>
      IF Wrapped THEN glass.fits = {} => glass.excused /\ ~glass.torn /\ Level <= 2
      ELSE /\ AtY(sm1) < TOP_LINES => glass.fits = Looks
           /\ glass.torn => Level <= 2
           /\ Clean \/ (glass.excused /\ ~glass.torn /\ Level <= 1)

DisplayInv == Types /\ Counter(sm1) /\ NotYet /\ Scans /\ Fed /\ Rowwise /\ Seamless

-----------------------------------------------------------------------------
(* The sizes.                                                              *)
LEMMA Sizes ==
  /\ WIDTH \in Nat /\ HEIGHT \in Nat /\ LEFT_WORDS \in Nat /\ RIGHT_WORDS \in Nat
  /\ TOP_LINES \in Nat /\ BOTTOM_LINES \in Nat /\ FIFO_WORDS \in Nat
  /\ LINE_WORDS \in Nat /\ FRAME_LINES \in Nat /\ V_NORMAL_LINES \in Nat
  /\ WIDTH >= 1 /\ HEIGHT >= 1 /\ LEFT_WORDS >= 1 /\ RIGHT_WORDS >= 1 /\ BOTTOM_LINES >= 1
  /\ FIFO_WORDS >= 2 /\ TOP_LINES >= 2
  /\ LINE_WORDS = LEFT_WORDS + WIDTH + RIGHT_WORDS /\ LINE_WORDS >= 7
  /\ FRAME_LINES = TOP_LINES + HEIGHT + BOTTOM_LINES /\ V_NORMAL_LINES = FRAME_LINES - 1
  /\ FIFO_WORDS <= LINE_WORDS /\ FIFO_WORDS <= FRAME_LINES
<1>1. \A n \in {WIDTH, HEIGHT, LEFT_WORDS, RIGHT_WORDS, TOP_LINES, BOTTOM_LINES, FIFO_WORDS} :
        n \in Nat /\ n >= 1
  BY GeometryAssumption
<1>2. TOP_LINES >= 2
  BY <1>1, ReserveAssumption
<1> QED
  BY SMTT(30), <1>1, <1>2, GeometryAssumption DEF LINE_WORDS, FRAME_LINES, V_NORMAL_LINES

LEMMA CountsAre ==
  /\ Len(Sm1FrameData) = Counts /\ Sm1FrameData \in Seq(Nat)
  /\ Sm1FrameData[1] = LINE_WORDS - 7 /\ Sm1FrameData[2] = V_NORMAL_LINES - 1
  /\ \A q \in 3 .. Counts : Sm1FrameData[q] = LINE_WORDS - 6
<1> DEFINE first == <<LINE_WORDS - 7, V_NORMAL_LINES - 1>>
           rest == [line \in 1 .. V_NORMAL_LINES |-> LINE_WORDS - 6]
<1>1. /\ first \in Seq(Nat) /\ Len(first) = 2
      /\ first[1] = LINE_WORDS - 7 /\ first[2] = V_NORMAL_LINES - 1
  BY Sizes
<1>2. rest \in Seq(Nat) /\ Len(rest) = V_NORMAL_LINES /\ \A i \in 1 .. V_NORMAL_LINES : rest[i] = LINE_WORDS - 6
  BY Sizes
<1>3. Sm1FrameData = first \o rest
  BY DEF Sm1FrameData
<1> HIDE DEF first, rest
<1>4. /\ first \o rest \in Seq(Nat) /\ Len(first \o rest) = 2 + V_NORMAL_LINES
      /\ (first \o rest)[1] = first[1] /\ (first \o rest)[2] = first[2]
      /\ \A q \in 3 .. 2 + V_NORMAL_LINES : (first \o rest)[q] = rest[q - 2]
  <2>1. /\ first \o rest \in Seq(Nat) /\ Len(first \o rest) = Len(first) + Len(rest)
        /\ \A i \in 1 .. Len(first) + Len(rest) :
             (first \o rest)[i] = IF i <= Len(first) THEN first[i] ELSE rest[i - Len(first)]
    BY <1>1, <1>2, ConcatProperties, Zenon
  <2>2. 1 \in 1 .. 2 + V_NORMAL_LINES /\ 2 \in 1 .. 2 + V_NORMAL_LINES
    BY Sizes
  <2>3. \A q \in 3 .. 2 + V_NORMAL_LINES : q \in 1 .. 2 + V_NORMAL_LINES /\ ~(q <= 2)
    BY Sizes
  <2> QED
    BY <1>1, <1>2, <2>1, <2>2, <2>3
<1>5. \A q \in 3 .. 2 + V_NORMAL_LINES : q - 2 \in 1 .. V_NORMAL_LINES
  BY Sizes
<1>6. Counts = 2 + V_NORMAL_LINES
  BY DEF Counts
<1>7. \A q \in 3 .. Counts : (first \o rest)[q] = LINE_WORDS - 6
  BY <1>2, <1>4, <1>5, <1>6
<1> QED
  BY <1>1, <1>3, <1>4, <1>6, <1>7

-----------------------------------------------------------------------------
(* SM1: it is a word further on after each clock, with the syncs there.    *)
LEMMA InstructionIs ==
  /\ Len(Timing) = 13
  /\ Timing[1] = Op("set", 3) /\ Timing[2] = Op("set", 2)
  /\ \A k \in {3, 6, 10} : Timing[k] = Op("pull", 0)
  /\ \A k \in {4, 11} : Timing[k] = Op("mov x", 0)
  /\ Timing[5] = Op("jmp x", 5) /\ Timing[7] = Op("mov y", 0)
  /\ Timing[8] = Op("set", 1) /\ Timing[9] = Op("set", 0)
  /\ Timing[12] = Op("jmp x", 12) /\ Timing[13] = Op("jmp y", 8)
BY DEF Timing

LEMMA OpIs ==
  ASSUME NEW op, NEW arg
  PROVE  Op(op, arg).op = op /\ Op(op, arg).arg = arg
BY DEF Op

Sm(pc, osr, x, y, pins) == [pc |-> pc, osr |-> osr, x |-> x, y |-> y, pins |-> pins]

LEMMA SmExcept ==
  ASSUME sm1 \in [pc : 1 .. 13, osr : Nat, x : Nat, y : Nat, pins : 0 .. 3], NEW pc \in Nat, NEW n \in Nat
  PROVE  /\ [sm1 EXCEPT !.pc = pc] = Sm(pc, sm1.osr, sm1.x, sm1.y, sm1.pins)
         /\ [sm1 EXCEPT !.pins = n, !.pc = pc] = Sm(pc, sm1.osr, sm1.x, sm1.y, n)
         /\ [sm1 EXCEPT !.osr = n, !.pc = pc] = Sm(pc, n, sm1.x, sm1.y, sm1.pins)
         /\ [sm1 EXCEPT !.x = n, !.pc = pc] = Sm(pc, sm1.osr, n, sm1.y, sm1.pins)
         /\ [sm1 EXCEPT !.y = n, !.pc = pc] = Sm(pc, sm1.osr, sm1.x, n, sm1.pins)
<1> DEFINE R == [pc : Nat, osr : Nat, x : Nat, y : Nat, pins : Nat]
<1>1. \A s \in R : [s EXCEPT !.pc = pc] = Sm(pc, s.osr, s.x, s.y, s.pins)
  BY DEF Sm
<1>2. sm1 \in R
  OBVIOUS
<1>3. /\ [sm1 EXCEPT !.pins = n] = Sm(sm1.pc, sm1.osr, sm1.x, sm1.y, n)
      /\ [sm1 EXCEPT !.osr = n] = Sm(sm1.pc, n, sm1.x, sm1.y, sm1.pins)
      /\ [sm1 EXCEPT !.x = n] = Sm(sm1.pc, sm1.osr, n, sm1.y, sm1.pins)
      /\ [sm1 EXCEPT !.y = n] = Sm(sm1.pc, sm1.osr, sm1.x, n, sm1.pins)
  BY DEF Sm
<1>4. ASSUME NEW k \in Nat, NEW o \in Nat, NEW x \in Nat, NEW y \in Nat, NEW p \in Nat
      PROVE  Sm(k, o, x, y, p) \in R
  BY DEF Sm
<1>5. sm1.pc \in Nat /\ sm1.osr \in Nat /\ sm1.x \in Nat /\ sm1.y \in Nat /\ sm1.pins \in Nat
  OBVIOUS
<1> HIDE DEF R
<1>6. [sm1 EXCEPT !.pc = pc] = Sm(pc, sm1.osr, sm1.x, sm1.y, sm1.pins)
  BY <1>1, <1>2
<1>7. [sm1 EXCEPT !.pins = n, !.pc = pc] = Sm(pc, sm1.osr, sm1.x, sm1.y, n)
  <2> DEFINE a == [sm1 EXCEPT !.pins = n]
  <2>1. a = Sm(sm1.pc, sm1.osr, sm1.x, sm1.y, n)
    BY <1>3
  <2> HIDE DEF a
  <2>2. [a EXCEPT !.pc = pc] = Sm(pc, a.osr, a.x, a.y, a.pins)
    BY <1>1, <1>4, <1>5, <2>1
  <2> QED
    BY <2>1, <2>2 DEF a, Sm
<1>8. [sm1 EXCEPT !.osr = n, !.pc = pc] = Sm(pc, n, sm1.x, sm1.y, sm1.pins)
  <2> DEFINE a == [sm1 EXCEPT !.osr = n]
  <2>1. a = Sm(sm1.pc, n, sm1.x, sm1.y, sm1.pins)
    BY <1>3
  <2> HIDE DEF a
  <2>2. [a EXCEPT !.pc = pc] = Sm(pc, a.osr, a.x, a.y, a.pins)
    BY <1>1, <1>4, <1>5, <2>1
  <2> QED
    BY <2>1, <2>2 DEF a, Sm
<1>9. [sm1 EXCEPT !.x = n, !.pc = pc] = Sm(pc, sm1.osr, n, sm1.y, sm1.pins)
  <2> DEFINE a == [sm1 EXCEPT !.x = n]
  <2>1. a = Sm(sm1.pc, sm1.osr, n, sm1.y, sm1.pins)
    BY <1>3
  <2> HIDE DEF a
  <2>2. [a EXCEPT !.pc = pc] = Sm(pc, a.osr, a.x, a.y, a.pins)
    BY <1>1, <1>4, <1>5, <2>1
  <2> QED
    BY <2>1, <2>2 DEF a, Sm
<1>10. [sm1 EXCEPT !.y = n, !.pc = pc] = Sm(pc, sm1.osr, sm1.x, n, sm1.pins)
  <2> DEFINE a == [sm1 EXCEPT !.y = n]
  <2>1. a = Sm(sm1.pc, sm1.osr, sm1.x, n, sm1.pins)
    BY <1>3
  <2> HIDE DEF a
  <2>2. [a EXCEPT !.pc = pc] = Sm(pc, a.osr, a.x, a.y, a.pins)
    BY <1>1, <1>4, <1>5, <2>1
  <2> QED
    BY <2>1, <2>2 DEF a, Sm
<1> QED
  BY <1>6, <1>7, <1>8, <1>9, <1>10

LEMMA HereIs ==
  ASSUME sm1.pc \in 1 .. 13
  PROVE  /\ sm1.pc \in {1, 2, 8, 9} => Here.op = "set"
         /\ sm1.pc \in {3, 6, 10} => Here.op = "pull"
         /\ sm1.pc \in {4, 11} => Here.op = "mov x"
         /\ sm1.pc = 7 => Here.op = "mov y"
         /\ sm1.pc \in {5, 12} => Here.op = "jmp x" /\ Here.arg = sm1.pc
         /\ sm1.pc = 13 => Here.op = "jmp y" /\ Here.arg = 8
         /\ sm1.pc = 1 => Here.arg = 3
         /\ sm1.pc = 2 => Here.arg = 2
         /\ sm1.pc = 8 => Here.arg = 1
         /\ sm1.pc = 9 => Here.arg = 0
<1>1. /\ sm1.pc = 1 => Here = Op("set", 3)
      /\ sm1.pc = 2 => Here = Op("set", 2)
      /\ sm1.pc = 8 => Here = Op("set", 1)
      /\ sm1.pc = 9 => Here = Op("set", 0)
      /\ sm1.pc \in {3, 6, 10} => Here = Op("pull", 0)
      /\ sm1.pc \in {4, 11} => Here = Op("mov x", 0)
      /\ sm1.pc = 7 => Here = Op("mov y", 0)
      /\ sm1.pc \in {5, 12} => Here = Op("jmp x", sm1.pc)
      /\ sm1.pc = 13 => Here = Op("jmp y", 8)
  BY InstructionIs DEF Here
<1>2. ASSUME NEW op, NEW arg, Here = Op(op, arg) PROVE Here.op = op /\ Here.arg = arg
  BY <1>2, OpIs
<1> QED
  BY <1>1, <1>2, ZenonT(40)

LEMMA StepIs ==
  ASSUME Counter(sm1), sm1.pc \in {3, 6, 10} => Head(counts) \in Nat
  PROVE  /\ sm1.pc = 1 => Sm1Steps = Sm(2, sm1.osr, sm1.x, sm1.y, 3)
         /\ sm1.pc = 2 => Sm1Steps = Sm(3, sm1.osr, sm1.x, sm1.y, 2)
         /\ sm1.pc \in {3, 6, 10} => Sm1Steps = Sm(sm1.pc + 1, Head(counts), sm1.x, sm1.y, sm1.pins)
         /\ sm1.pc \in {4, 11} => Sm1Steps = Sm(sm1.pc + 1, sm1.osr, sm1.osr, sm1.y, sm1.pins)
         /\ sm1.pc \in {5, 12} => Sm1Steps = IF sm1.x = 0 THEN Sm(sm1.pc + 1, sm1.osr, sm1.x, sm1.y, sm1.pins)
                                             ELSE Sm(sm1.pc, sm1.osr, sm1.x - 1, sm1.y, sm1.pins)
         /\ sm1.pc = 7 => Sm1Steps = Sm(8, sm1.osr, sm1.x, sm1.osr, sm1.pins)
         /\ sm1.pc = 8 => Sm1Steps = Sm(9, sm1.osr, sm1.x, sm1.y, 1)
         /\ sm1.pc = 9 => Sm1Steps = Sm(10, sm1.osr, sm1.x, sm1.y, 0)
         /\ sm1.pc = 13 => Sm1Steps = IF sm1.y = 0 THEN Sm(1, sm1.osr, sm1.x, sm1.y, sm1.pins)
                                      ELSE Sm(8, sm1.osr, sm1.x, sm1.y - 1, sm1.pins)
<1>1. sm1 \in [pc : 1 .. 13, osr : Nat, x : Nat, y : Nat, pins : 0 .. 3]
  BY DEF Counter
<1>2. sm1.pc \in 1 .. 13 /\ sm1.osr \in Nat /\ sm1.x \in Nat /\ sm1.y \in Nat
  BY <1>1
<1>3. After = IF sm1.pc = 13 THEN 1 ELSE sm1.pc + 1
  BY <1>2, InstructionIs DEF After
<1>4. After \in Nat
  BY <1>2, <1>3
<1>10. /\ sm1.pc \in {1, 2, 8, 9} => Here.op = "set"
       /\ sm1.pc \in {3, 6, 10} => Here.op = "pull"
       /\ sm1.pc \in {4, 11} => Here.op = "mov x"
       /\ sm1.pc = 7 => Here.op = "mov y"
       /\ sm1.pc \in {5, 12} => Here.op = "jmp x" /\ Here.arg = sm1.pc
       /\ sm1.pc = 13 => Here.op = "jmp y" /\ Here.arg = 8
       /\ sm1.pc = 1 => Here.arg = 3
       /\ sm1.pc = 2 => Here.arg = 2
       /\ sm1.pc = 8 => Here.arg = 1
       /\ sm1.pc = 9 => Here.arg = 0
  BY <1>2, HereIs
<1>11. ASSUME NEW n \in Nat, sm1.pc \in {1, 2, 8, 9}, Here.op = "set", Here.arg = n
       PROVE  Sm1Steps = Sm(sm1.pc + 1, sm1.osr, sm1.x, sm1.y, n)
  <2>1. Sm1Steps = [sm1 EXCEPT !.pins = n, !.pc = After]
    BY <1>11, Zenon DEF Sm1Steps
  <2>2. After = sm1.pc + 1
    BY <1>3, <1>11
  <2> QED
    BY <2>1, <2>2, <1>1, <1>4, SmExcept, Zenon
<1>12. ASSUME sm1.pc \in {3, 6, 10} PROVE Sm1Steps = Sm(sm1.pc + 1, Head(counts), sm1.x, sm1.y, sm1.pins)
  <2>0. Here.op = "pull"
    BY <1>10, <1>12
  <2>1. Sm1Steps = [sm1 EXCEPT !.osr = Head(counts), !.pc = After]
    BY <2>0, Zenon DEF Sm1Steps
  <2>2. After = sm1.pc + 1
    BY <1>3, <1>12
  <2> QED
    BY <2>1, <2>2, <1>1, <1>4, <1>12, SmExcept, Zenon
<1>13. ASSUME sm1.pc \in {4, 11} PROVE Sm1Steps = Sm(sm1.pc + 1, sm1.osr, sm1.osr, sm1.y, sm1.pins)
  <2>0. Here.op = "mov x"
    BY <1>10, <1>13
  <2>1. Sm1Steps = [sm1 EXCEPT !.x = sm1.osr, !.pc = After]
    BY <2>0, Zenon DEF Sm1Steps
  <2>2. After = sm1.pc + 1
    BY <1>3, <1>13
  <2> QED
    BY <2>1, <2>2, <1>1, <1>2, <1>4, SmExcept, Zenon
<1>14. ASSUME sm1.pc = 7 PROVE Sm1Steps = Sm(8, sm1.osr, sm1.x, sm1.osr, sm1.pins)
  <2>0. Here.op = "mov y"
    BY <1>10, <1>14
  <2>1. Sm1Steps = [sm1 EXCEPT !.y = sm1.osr, !.pc = After]
    BY <2>0, Zenon DEF Sm1Steps
  <2>2. After = 8
    BY <1>3, <1>14
  <2> QED
    BY <2>1, <2>2, <1>1, <1>2, <1>4, SmExcept, Zenon
<1>15. ASSUME sm1.pc \in {5, 12}
       PROVE  Sm1Steps = IF sm1.x = 0 THEN Sm(sm1.pc + 1, sm1.osr, sm1.x, sm1.y, sm1.pins)
                         ELSE Sm(sm1.pc, sm1.osr, sm1.x - 1, sm1.y, sm1.pins)
  <2>0. Here.op = "jmp x" /\ Here.arg = sm1.pc
    BY <1>10, <1>15
  <2>1. Sm1Steps = IF sm1.x = 0 THEN [sm1 EXCEPT !.pc = After]
                   ELSE [sm1 EXCEPT !.x = sm1.x - 1, !.pc = sm1.pc]
    BY <2>0, Zenon DEF Sm1Steps
  <2>2. After = sm1.pc + 1 /\ sm1.pc \in Nat /\ (sm1.x # 0 => sm1.x - 1 \in Nat)
    BY <1>2, <1>3, <1>15
  <2>3. [sm1 EXCEPT !.pc = After] = Sm(sm1.pc + 1, sm1.osr, sm1.x, sm1.y, sm1.pins)
    BY <2>2, <1>1, <1>2, <1>4, SmExcept, Zenon
  <2>4. sm1.x # 0 => [sm1 EXCEPT !.x = sm1.x - 1, !.pc = sm1.pc] = Sm(sm1.pc, sm1.osr, sm1.x - 1, sm1.y, sm1.pins)
    BY <2>2, <1>1, SmExcept, Zenon
  <2> QED
    BY <2>1, <2>3, <2>4, Zenon
<1>16. ASSUME sm1.pc = 13
       PROVE  Sm1Steps = IF sm1.y = 0 THEN Sm(1, sm1.osr, sm1.x, sm1.y, sm1.pins)
                         ELSE Sm(8, sm1.osr, sm1.x, sm1.y - 1, sm1.pins)
  <2>0. Here.op = "jmp y" /\ Here.arg = 8
    BY <1>10, <1>16
  <2>1. Sm1Steps = IF sm1.y = 0 THEN [sm1 EXCEPT !.pc = After]
                   ELSE [sm1 EXCEPT !.y = sm1.y - 1, !.pc = 8]
    BY <2>0, Zenon DEF Sm1Steps
  <2>2. After = 1 /\ 8 \in Nat /\ (sm1.y # 0 => sm1.y - 1 \in Nat)
    BY <1>2, <1>3, <1>16
  <2>3. [sm1 EXCEPT !.pc = After] = Sm(1, sm1.osr, sm1.x, sm1.y, sm1.pins)
    BY <2>2, <1>1, <1>2, <1>4, SmExcept, Zenon
  <2>4. sm1.y # 0 => [sm1 EXCEPT !.y = sm1.y - 1, !.pc = 8] = Sm(8, sm1.osr, sm1.x, sm1.y - 1, sm1.pins)
    BY <2>2, <1>1, SmExcept, Zenon
  <2> QED
    BY <2>1, <2>3, <2>4, Zenon
<1>17. ASSUME sm1.pc = 1 PROVE Sm1Steps = Sm(2, sm1.osr, sm1.x, sm1.y, 3)
  <2>1. Here.op = "set" /\ Here.arg = 3 /\ sm1.pc \in {1, 2, 8, 9} /\ sm1.pc + 1 = 2
    BY <1>10, <1>17
  <2> QED
    BY <1>11, <2>1
<1>18. ASSUME sm1.pc = 2 PROVE Sm1Steps = Sm(3, sm1.osr, sm1.x, sm1.y, 2)
  <2>1. Here.op = "set" /\ Here.arg = 2 /\ sm1.pc \in {1, 2, 8, 9} /\ sm1.pc + 1 = 3
    BY <1>10, <1>18
  <2> QED
    BY <1>11, <2>1
<1>19. ASSUME sm1.pc = 8 PROVE Sm1Steps = Sm(9, sm1.osr, sm1.x, sm1.y, 1)
  <2>1. Here.op = "set" /\ Here.arg = 1 /\ sm1.pc \in {1, 2, 8, 9} /\ sm1.pc + 1 = 9
    BY <1>10, <1>19
  <2> QED
    BY <1>11, <2>1
<1>20. ASSUME sm1.pc = 9 PROVE Sm1Steps = Sm(10, sm1.osr, sm1.x, sm1.y, 0)
  <2>1. Here.op = "set" /\ Here.arg = 0 /\ sm1.pc \in {1, 2, 8, 9} /\ sm1.pc + 1 = 10
    BY <1>10, <1>20
  <2> QED
    BY <1>11, <2>1
<1> QED
  BY <1>12, <1>13, <1>14, <1>15, <1>16, <1>17, <1>18, <1>19, <1>20, Zenon

(* The syncs where SM1 is: HSYNC is high in the last word of a line, VSYNC *)
(* at its fall in the first line.                                          *)
LEMMA SyncsAre ==
  ASSUME NEW s, Counter(s)
  PROVE  /\ AtX(s) \in 0 .. LINE_WORDS - 1 /\ AtY(s) \in 0 .. FRAME_LINES - 1
         /\ Hsync(s.pins) = IF AtX(s) = LINE_WORDS - 1 THEN 1 ELSE 0
         /\ AtX(s) = 0 => Vsync(s.pins) = IF AtY(s) = 0 THEN 1 ELSE 0
<1>1. s.pc \in 1 .. 13 /\ s.pins \in 0 .. 3 /\ s.x \in Nat /\ s.y \in Nat
  BY DEF Counter
<1>2. AtX(s) \in 0 .. LINE_WORDS - 1 /\ AtY(s) \in 0 .. FRAME_LINES - 1
  BY <1>1, Sizes DEF AtX, AtY, Counter
<1>3. AtX(s) = LINE_WORDS - 1 <=> s.pc \in {2, 9}
  BY <1>1, Sizes DEF AtX, Counter
<1>4. AtX(s) = 0 => s.pc \in {3, 10} \/ LINE_WORDS < 7
  BY <1>1, Sizes DEF AtX, Counter
<1>5. s.pc \in {2, 9} => Hsync(s.pins) = 1
  BY <1>1 DEF Hsync, Counter
<1>6. s.pc \notin {2, 9} => Hsync(s.pins) = 0
  BY <1>1 DEF Hsync, Counter
<1>7. s.pc = 3 => Vsync(s.pins) = 1 /\ AtY(s) = 0
  BY <1>1 DEF Vsync, Counter, AtY
<1>8. s.pc = 10 => Vsync(s.pins) = 0 /\ AtY(s) # 0
  BY <1>1, Sizes DEF Vsync, Counter, AtY
<1> QED
  BY <1>2, <1>3, <1>4, <1>5, <1>6, <1>7, <1>8, Sizes

LEMMA CounterStep ==
  ASSUME Counter(sm1), NEW s, s = Sm1Steps, 
         sm1.pc = 3 => Head(counts) = LINE_WORDS - 7,
         sm1.pc = 6 => Head(counts) = V_NORMAL_LINES - 1,
         sm1.pc = 10 => Head(counts) = LINE_WORDS - 6
  PROVE  /\ Counter(s)
         /\ AtX(s) = OnX(AtX(sm1), 1) /\ AtY(s) = OnY(AtY(sm1), AtX(sm1), 1)
         /\ Pulls(s) = IF sm1.pc \in {3, 6, 10} THEN OnCount(Pulls(sm1), 1) ELSE Pulls(sm1)
<1>1. sm1 \in [pc : 1 .. 13, osr : Nat, x : Nat, y : Nat, pins : 0 .. 3]
  BY DEF Counter
<1>2. CASE sm1.pc \in {1, 2}
  BY <1>1, <1>2, StepIs, Sizes DEF Sm, Counter, AtX, AtY, OnX, OnY, LineAfter, Pulls, OnCount
<1>3. CASE sm1.pc \in {3, 4}
  BY <1>1, <1>3, StepIs, Sizes DEF Sm, Counter, AtX, AtY, OnX, OnY, LineAfter, Pulls, OnCount, Counts
<1>4. CASE sm1.pc = 5
  BY <1>1, <1>4, StepIs, Sizes DEF Sm, Counter, AtX, AtY, OnX, OnY, LineAfter, Pulls, OnCount
<1>5. CASE sm1.pc = 6
  BY <1>1, <1>5, StepIs, Sizes DEF Sm, Counter, AtX, AtY, OnX, OnY, LineAfter, Pulls, OnCount, Counts
<1>5a. CASE sm1.pc = 7
  <2>1. s = Sm(8, sm1.osr, sm1.x, sm1.osr, sm1.pins)
    BY <1>5a, StepIs
  <2>2. sm1.pins = 2 /\ sm1.osr = V_NORMAL_LINES - 1 /\ sm1.osr \in 0 .. V_NORMAL_LINES - 1
    BY <1>5a, Sizes DEF Counter
  <2>3. Counter(s) /\ s.pc = 8 /\ s.y = V_NORMAL_LINES - 1
    BY <1>1, <2>1, <2>2, Sizes DEF Sm, Counter
  <2> QED
    BY <1>1, <1>5a, <2>3, Sizes DEF AtX, AtY, OnX, OnY, Pulls
<1>6. CASE sm1.pc = 8
  BY <1>1, <1>6, StepIs, Sizes DEF Sm, Counter, AtX, AtY, OnX, OnY, LineAfter, Pulls, OnCount
<1>6a. CASE sm1.pc = 9
  BY <1>1, <1>6a, StepIs, Sizes DEF Sm, Counter, AtX, AtY, OnX, OnY, LineAfter, Pulls, OnCount
<1>7. CASE sm1.pc \in {10, 11}
  BY <1>1, <1>7, StepIs, Sizes DEF Sm, Counter, AtX, AtY, OnX, OnY, LineAfter, Pulls, OnCount, Counts
<1>8. CASE sm1.pc = 12
  BY <1>1, <1>8, StepIs, Sizes DEF Sm, Counter, AtX, AtY, OnX, OnY, LineAfter, Pulls, OnCount
<1>9. CASE sm1.pc = 13
  BY <1>1, <1>9, StepIs, Sizes DEF Sm, Counter, AtX, AtY, OnX, OnY, LineAfter, Pulls, OnCount
<1> QED
  BY <1>1, <1>2, <1>3, <1>4, <1>5, <1>5a, <1>6, <1>6a, <1>7, <1>8, <1>9

-----------------------------------------------------------------------------
(* Places of the frame.                                                    *)
Lines == 0 .. FRAME_LINES - 1
Cols == 0 .. LINE_WORDS - 1

LEMMA OnIs ==
  ASSUME NEW y \in Lines, NEW x \in Cols, NEW k \in 0 .. LINE_WORDS
  PROVE  OnX(x, k) \in Cols /\ OnY(y, x, k) \in Lines
BY Sizes DEF OnX, OnY, LineAfter, Lines, Cols

LEMMA OnNext ==
  ASSUME NEW y \in Lines, NEW x \in Cols, NEW k \in 0 .. LINE_WORDS - 1
  PROVE  /\ OnX(x, k + 1) = OnX(OnX(x, k), 1) /\ OnY(y, x, k + 1) = OnY(OnY(y, x, k), OnX(x, k), 1)
         /\ OnX(x, k + 1) = OnX(OnX(x, 1), k) /\ OnY(y, x, k + 1) = OnY(OnY(y, x, 1), OnX(x, 1), k)
BY Sizes DEF OnX, OnY, LineAfter, Lines, Cols

LEMMA Blank ==
  ASSUME NEW n \in Int
  PROVE  /\ n * LINE_WORDS \in Int /\ (n + 1) * LINE_WORDS = n * LINE_WORDS + LINE_WORDS
         /\ n >= 0 => n * LINE_WORDS >= 0
         /\ n >= 1 => n * LINE_WORDS >= LINE_WORDS
         /\ n = 1 => n * LINE_WORDS = LINE_WORDS
         /\ n = 0 => n * LINE_WORDS = 0
<1>1. n * LINE_WORDS \in Int /\ (n + 1) * LINE_WORDS = n * LINE_WORDS + LINE_WORDS
  BY Sizes
<1>2. n >= 0 => n * LINE_WORDS >= 0
  BY Sizes
<1>3. n >= 1 => n * LINE_WORDS >= LINE_WORDS
  <2>1. ASSUME n >= 1 PROVE (n - 1) * LINE_WORDS >= 0
    BY <2>1, Sizes
  <2>2. n * LINE_WORDS = (n - 1) * LINE_WORDS + LINE_WORDS
    BY Sizes
  <2>3. (n - 1) * LINE_WORDS \in Int
    BY Sizes
  <2> QED
    BY <2>1, <2>2, <2>3, <1>1, Sizes
<1> QED
  BY <1>1, <1>2, <1>3, Sizes

-----------------------------------------------------------------------------
(* The segments: the words of each, in their order.                        *)
LEMMA SegmentsAre ==
  /\ Segment(0) = [source |-> "Black", words |-> TOP_LINES * LINE_WORDS]
  /\ Segment(BOTTOM_INDEX) = [source |-> "Black", words |-> BOTTOM_LINES * LINE_WORDS]
  /\ Segment(RELOAD_INDEX) = [source |-> "Reload", words |-> 1]
  /\ BOTTOM_INDEX = 1 + 3 * HEIGHT /\ RELOAD_INDEX = 2 + 3 * HEIGHT /\ SEGMENT_COUNT = 3 + 3 * HEIGHT
<1>1. BOTTOM_INDEX = 1 + 3 * HEIGHT /\ RELOAD_INDEX = 2 + 3 * HEIGHT /\ SEGMENT_COUNT = 3 + 3 * HEIGHT
  BY Sizes DEF BOTTOM_INDEX, RELOAD_INDEX, SEGMENT_COUNT
<1>2. BOTTOM_INDEX # 0 /\ RELOAD_INDEX # 0 /\ RELOAD_INDEX # BOTTOM_INDEX
  BY <1>1, Sizes
<1>3. Segment(0) = [source |-> "Black", words |-> TOP_LINES * LINE_WORDS]
  BY <1>2, Zenon DEF Segment
<1>4. Segment(BOTTOM_INDEX) = [source |-> "Black", words |-> BOTTOM_LINES * LINE_WORDS]
  BY <1>2, Zenon DEF Segment
<1>5. Segment(RELOAD_INDEX) = [source |-> "Reload", words |-> 1]
  BY <1>2, Zenon DEF Segment
<1> QED
  BY <1>1, <1>3, <1>4, <1>5

LEMMA PartsAre ==
  /\ RowPart(0) = [source |-> "Left", words |-> LEFT_WORDS]
  /\ RowPart(1) = [source |-> "Pixels", words |-> WIDTH]
  /\ RowPart(2) = [source |-> "Right", words |-> RIGHT_WORDS]
  /\ From(0) = 0 /\ From(1) = LEFT_WORDS /\ From(2) = LEFT_WORDS + WIDTH
BY DEF RowPart, From

LEMMA RowSegment ==
  ASSUME NEW row \in Rows, NEW part \in 0 .. 2
  PROVE  /\ 1 + 3 * row + part \in 1 .. BOTTOM_INDEX - 1
         /\ RowOf(1 + 3 * row + part) = row
         /\ Segment(1 + 3 * row + part) = RowPart(part)
<1>1. 1 + 3 * row + part \in 1 .. BOTTOM_INDEX - 1
  BY Sizes, SegmentsAre DEF Rows
<1> DEFINE n == 1 + 3 * row + part
<1>2. (n - 1) \div 3 = row /\ (n - 1) % 3 = part
  BY Sizes DEF Rows
<1>3. n # 0 /\ n # BOTTOM_INDEX /\ n # RELOAD_INDEX
  BY <1>1, Sizes, SegmentsAre DEF Rows
<1> HIDE DEF n
<1>4. Segment(n) = RowPart((n - 1) % 3)
  BY <1>3, Zenon DEF Segment
<1>5. Segment(n) = RowPart(part)
  BY <1>2, <1>4, Zenon
<1>6. RowOf(n) = row
  BY <1>2 DEF RowOf
<1> QED
  BY <1>1, <1>5, <1>6 DEF n

(* The cases of what CH0 does at a place.                                  *)
AtTop(c, nx, line, col) ==
  /\ c.segment = 0 /\ nx = 1
  /\ c.remaining = (TOP_LINES - line) * LINE_WORDS - col
  /\ line < TOP_LINES \/ (line = TOP_LINES /\ col = 0)
AtRow(c, nx, line, col, row, part) ==
  /\ c.segment = 1 + 3 * row + part /\ nx = c.segment + 1
  /\ \/ /\ line = TOP_LINES + row
        /\ c.remaining = From(part) + RowPart(part).words - col
        /\ col >= From(part)
     \/ part = 2 /\ c.remaining = 0 /\ line = TOP_LINES + row + 1 /\ col = 0
AtBottom(c, nx, line, col) ==
  /\ c.segment = BOTTOM_INDEX /\ nx = RELOAD_INDEX
  /\ \/ line >= TOP_LINES + HEIGHT /\ c.remaining = (FRAME_LINES - line) * LINE_WORDS - col
     \/ line = 0 /\ col = 0 /\ c.remaining = 0
AtEnd(c, nx, line, col) ==
  /\ c.segment = RELOAD_INDEX /\ line = 0 /\ col = 0
  /\ \/ nx = SEGMENT_COUNT /\ c.remaining = 1
     \/ nx = 0 /\ c.remaining = 0

LEMMA SendsCases ==
  ASSUME NEW c, NEW nx, NEW line, NEW col
  PROVE  SendsOf(c, nx, line, col) <=>
           \/ AtTop(c, nx, line, col)
           \/ \E row \in Rows, part \in 0 .. 2 : AtRow(c, nx, line, col, row, part)
           \/ AtBottom(c, nx, line, col)
           \/ AtEnd(c, nx, line, col)
BY Zenon DEF SendsOf, AtTop, AtRow, AtBottom, AtEnd

(* A word is sent: the next one stands a place further on.                 *)
LEMMA SendsNext ==
  ASSUME NEW c \in [segment : Nat, remaining : Nat], NEW nx \in Nat,
         NEW line \in Lines, NEW col \in Cols, SendsOf(c, nx, line, col),
         c.remaining > 0, Segment(c.segment).source # "Reload",
         NEW d, d = [c EXCEPT !.remaining = @ - 1]
  PROVE  SendsOf(d, nx, OnY(line, col, 1), OnX(col, 1))
<1>1. /\ d \in [segment : Nat, remaining : Nat] /\ d.segment = c.segment
      /\ d.remaining = c.remaining - 1
  OBVIOUS
<1>2. line \in Int /\ col \in Int /\ line < FRAME_LINES /\ col < LINE_WORDS /\ line >= 0 /\ col >= 0
  BY Sizes DEF Lines, Cols
<1>3. CASE AtTop(c, nx, line, col)
  <2>1. line < TOP_LINES
    BY <1>2, <1>3, Blank, Sizes DEF AtTop
  <2>2. (TOP_LINES - line) * LINE_WORDS = (TOP_LINES - (line + 1)) * LINE_WORDS + LINE_WORDS
    BY <1>2, Sizes
  <2>3. (TOP_LINES - (line + 1)) * LINE_WORDS \in Int
    BY <1>2, Sizes
  <2>4. OnY(line, col, 1) = (IF col = LINE_WORDS - 1 THEN line + 1 ELSE line)
        /\ OnX(col, 1) = (IF col = LINE_WORDS - 1 THEN 0 ELSE col + 1)
    BY <1>2, <2>1, Sizes DEF OnY, OnX, LineAfter
  <2> DEFINE now == (TOP_LINES - line) * LINE_WORDS
             then == (TOP_LINES - (line + 1)) * LINE_WORDS
  <2>5. /\ c.segment = 0 /\ nx = 1 /\ c.remaining = now - col /\ now = then + LINE_WORDS /\ then \in Int
    BY <1>3, <2>2, <2>3 DEF AtTop
  <2>6. CASE col = LINE_WORDS - 1
    <3>1. d.remaining = then
      <4> HIDE DEF now, then
      <4> QED
        BY <1>1, <2>5, <2>6, Sizes
    <3>2. OnY(line, col, 1) = line + 1 /\ OnX(col, 1) = 0
      BY <2>4, <2>6
    <3>3. line + 1 < TOP_LINES \/ line + 1 = TOP_LINES
      BY <1>2, <2>1, Sizes
    <3>4. AtTop(d, nx, line + 1, 0)
      BY <1>1, <2>3, <2>5, <3>1, <3>3 DEF AtTop
    <3> QED
      BY <3>2, <3>4, SendsCases
  <2>7. CASE col # LINE_WORDS - 1
    <3>1. d.remaining = now - (col + 1)
      <4> HIDE DEF now, then
      <4> QED
        BY <1>1, <1>2, <2>5, Sizes
    <3>2. OnY(line, col, 1) = line /\ OnX(col, 1) = col + 1
      BY <2>4, <2>7
    <3>3. AtTop(d, nx, line, col + 1)
      BY <1>1, <2>1, <2>5, <3>1 DEF AtTop
    <3> QED
      BY <3>2, <3>3, SendsCases
  <2> QED
    BY <2>6, <2>7
<1>4. CASE \E row \in Rows, part \in 0 .. 2 : AtRow(c, nx, line, col, row, part)
  <2>1. PICK row \in Rows, part \in 0 .. 2 : AtRow(c, nx, line, col, row, part)
    BY <1>4
  <2>2. line = TOP_LINES + row /\ c.remaining = From(part) + RowPart(part).words - col
        /\ col >= From(part)
    BY <2>1, <1>1 DEF AtRow
  <2>3. From(part) + RowPart(part).words <= LINE_WORDS
        /\ (From(part) + RowPart(part).words = LINE_WORDS => part = 2)
        /\ From(part) \in Nat /\ RowPart(part).words \in Nat
    BY PartsAre, Sizes
  <2>4. line < FRAME_LINES - 1
    BY <2>2, Sizes DEF Rows
  <2>5. OnY(line, col, 1) = (IF col = LINE_WORDS - 1 THEN line + 1 ELSE line)
        /\ OnX(col, 1) = (IF col = LINE_WORDS - 1 THEN 0 ELSE col + 1)
    BY <1>2, <2>4, Sizes DEF OnY, OnX, LineAfter
  <2>6. d.segment = 1 + 3 * row + part /\ nx = d.segment + 1
    BY <2>1, <1>1 DEF AtRow
  <2>7. CASE col = LINE_WORDS - 1
    <3>1. part = 2 /\ d.remaining = 0
      BY <1>1, <1>2, <2>2, <2>3, <2>7, Sizes
    <3>2. AtRow(d, nx, OnY(line, col, 1), OnX(col, 1), row, part)
      BY <3>1, <2>2, <2>5, <2>6, <2>7 DEF AtRow
    <3> QED
      BY <3>2, SendsCases
  <2>8. CASE col # LINE_WORDS - 1
    <3>1. AtRow(d, nx, OnY(line, col, 1), OnX(col, 1), row, part)
      BY <1>1, <1>2, <2>2, <2>3, <2>5, <2>6, <2>8 DEF AtRow
    <3> QED
      BY <3>1, SendsCases
  <2> QED
    BY <2>7, <2>8
<1>5. CASE AtBottom(c, nx, line, col)
  <2>1. line >= TOP_LINES + HEIGHT /\ c.remaining = (FRAME_LINES - line) * LINE_WORDS - col
    BY <1>1, <1>5 DEF AtBottom
  <2>2. (FRAME_LINES - line) * LINE_WORDS = (FRAME_LINES - (line + 1)) * LINE_WORDS + LINE_WORDS
    BY <1>2, Sizes
  <2>3. (FRAME_LINES - (line + 1)) * LINE_WORDS \in Int
        /\ (line = FRAME_LINES - 1 => (FRAME_LINES - (line + 1)) * LINE_WORDS = 0)
    BY <1>2, Blank, Sizes
  <2>4. OnY(line, col, 1) = (IF col = LINE_WORDS - 1 THEN LineAfter(line) ELSE line)
        /\ OnX(col, 1) = (IF col = LINE_WORDS - 1 THEN 0 ELSE col + 1)
    BY <1>2, <2>1, Sizes DEF OnY, OnX
  <2> DEFINE now == (FRAME_LINES - line) * LINE_WORDS
             then == (FRAME_LINES - (line + 1)) * LINE_WORDS
  <2>5. /\ c.segment = BOTTOM_INDEX /\ nx = RELOAD_INDEX /\ c.remaining = now - col
        /\ now = then + LINE_WORDS /\ then \in Int /\ (line = FRAME_LINES - 1 => then = 0)
    BY <1>5, <2>1, <2>2, <2>3 DEF AtBottom
  <2>6. CASE col = LINE_WORDS - 1
    <3>1. d.remaining = then
      <4> HIDE DEF now, then
      <4> QED
        BY <1>1, <2>5, <2>6, Sizes
    <3>2. OnY(line, col, 1) = LineAfter(line) /\ OnX(col, 1) = 0
      BY <2>4, <2>6
    <3>3. CASE line = FRAME_LINES - 1
      <4>1. AtBottom(d, nx, 0, 0) /\ LineAfter(line) = 0
        BY <1>1, <2>5, <3>1, <3>3 DEF AtBottom, LineAfter
      <4> QED
        BY <3>2, <4>1, SendsCases
    <3>4. CASE line # FRAME_LINES - 1
      <4>1. LineAfter(line) = line + 1 /\ line + 1 >= TOP_LINES + HEIGHT
        BY <1>2, <2>1, <3>4, Sizes DEF LineAfter
      <4>2. d.remaining = then - 0
        <5> HIDE DEF now, then
        <5> QED
          BY <2>5, <3>1
      <4>3. AtBottom(d, nx, line + 1, 0)
        BY <1>1, <2>5, <4>1, <4>2 DEF AtBottom
      <4> QED
        BY <3>2, <4>1, <4>3, SendsCases
    <3> QED
      BY <3>3, <3>4
  <2>7. CASE col # LINE_WORDS - 1
    <3>1. d.remaining = now - (col + 1)
      <4> HIDE DEF now, then
      <4> QED
        BY <1>1, <1>2, <2>5, Sizes
    <3>2. OnY(line, col, 1) = line /\ OnX(col, 1) = col + 1
      BY <2>4, <2>7
    <3>3. AtBottom(d, nx, line, col + 1)
      BY <1>1, <2>1, <2>5, <3>1 DEF AtBottom
    <3> QED
      BY <3>2, <3>3, SendsCases
  <2> QED
    BY <2>6, <2>7
<1>6. CASE AtEnd(c, nx, line, col)
  BY <1>6, SegmentsAre DEF AtEnd
<1> QED
  BY <1>3, <1>4, <1>5, <1>6, SendsCases

(* CH2 loads the segment that follows, which begins at the same place.     *)
LEMMA SendsLoads ==
  ASSUME NEW c \in [segment : Nat, remaining : Nat], NEW nx \in Nat,
         NEW line \in Lines, NEW col \in Cols, SendsOf(c, nx, line, col), c.remaining = 0,
         NEW d, d = [segment |-> nx, remaining |-> Segment(nx).words]
  PROVE  SendsOf(d, nx + 1, line, col) /\ d \in [segment : Nat, remaining : Nat]
<1>1. d.segment = nx /\ d.remaining = Segment(nx).words
  OBVIOUS
<1>2. line \in Int /\ col \in Int /\ line < FRAME_LINES /\ col < LINE_WORDS /\ line >= 0 /\ col >= 0
  BY Sizes DEF Lines, Cols
<1>3. CASE AtTop(c, nx, line, col)
  <2>1. line = TOP_LINES /\ col = 0
    <3>1. ASSUME line < TOP_LINES PROVE FALSE
      <4>1. (TOP_LINES - line) * LINE_WORDS >= LINE_WORDS /\ (TOP_LINES - line) * LINE_WORDS \in Int
        BY <1>2, <3>1, Blank, Sizes
      <4> QED
        BY <1>2, <1>3, <4>1, Sizes DEF AtTop
    <3> QED
      BY <3>1, <1>3 DEF AtTop
  <2>2. 0 \in Rows /\ nx = 1 + 3 * 0 + 0
    BY <1>3, Sizes DEF AtTop, Rows
  <2>3. d.remaining = LEFT_WORDS
    BY <1>1, <2>2, RowSegment, PartsAre
  <2>4. AtRow(d, nx + 1, line, col, 0, 0)
    BY <1>1, <2>1, <2>2, <2>3, PartsAre, Sizes DEF AtRow
  <2> QED
    BY <1>1, <2>2, <2>3, <2>4, SendsCases, Sizes
<1>4. CASE \E row \in Rows, part \in 0 .. 2 : AtRow(c, nx, line, col, row, part)
  <2>1. PICK row \in Rows, part \in 0 .. 2 : AtRow(c, nx, line, col, row, part)
    BY <1>4
  <2>2. row \in Int /\ 0 <= row /\ row < HEIGHT /\ nx = 1 + 3 * row + part + 1
    BY <2>1, Sizes DEF AtRow, Rows
  <2>3. CASE part \in {0, 1}
    <3>1. line = TOP_LINES + row /\ col = From(part) + RowPart(part).words
      BY <2>1, <2>3, <1>2, PartsAre, Sizes DEF AtRow
    <3>2. From(part + 1) = col /\ part + 1 \in 0 .. 2 /\ nx = 1 + 3 * row + (part + 1)
      BY <3>1, <2>2, <2>3, PartsAre, Sizes
    <3>3. d.remaining = RowPart(part + 1).words /\ RowPart(part + 1).words \in Nat
      <4>1. Segment(1 + 3 * row + (part + 1)) = RowPart(part + 1)
        BY <3>2, RowSegment, Zenon
      <4> QED
        BY <1>1, <2>3, <3>2, <4>1, PartsAre, Sizes
    <3>4. AtRow(d, nx + 1, line, col, row, part + 1)
      BY <1>1, <1>2, <3>1, <3>2, <3>3, Sizes DEF AtRow
    <3> QED
      BY <1>1, <3>2, <3>3, <3>4, SendsCases
  <2>4. CASE part = 2
    <3>1. line = TOP_LINES + row + 1 /\ col = 0
      BY <2>1, <2>4, <1>2, PartsAre, Sizes DEF AtRow
    <3>2. CASE row + 1 < HEIGHT
      <4>1. row + 1 \in Rows /\ 0 \in 0 .. 2 /\ nx = 1 + 3 * (row + 1) + 0
        BY <2>2, <2>4, <3>2, Sizes DEF Rows
      <4>2. d.remaining = LEFT_WORDS
        <5>1. Segment(1 + 3 * (row + 1) + 0) = RowPart(0)
          BY <4>1, RowSegment, Zenon
        <5> QED
          BY <1>1, <4>1, <5>1, PartsAre
      <4>3. AtRow(d, nx + 1, line, col, row + 1, 0)
        BY <1>1, <1>2, <2>2, <3>1, <4>1, <4>2, PartsAre, Sizes DEF AtRow
      <4> QED
        BY <1>1, <4>1, <4>2, <4>3, SendsCases, Sizes
    <3>3. CASE ~(row + 1 < HEIGHT)
      <4>1. nx = BOTTOM_INDEX /\ line = TOP_LINES + HEIGHT
        BY <2>2, <2>4, <3>1, <3>3, SegmentsAre, Sizes
      <4>2. d.remaining = BOTTOM_LINES * LINE_WORDS /\ FRAME_LINES - line = BOTTOM_LINES
        BY <1>1, <4>1, SegmentsAre, Sizes
      <4>3. BOTTOM_LINES * LINE_WORDS \in Nat
        BY Sizes
      <4>4. AtBottom(d, nx + 1, line, col)
        BY <1>1, <3>1, <4>1, <4>2, <4>3, SegmentsAre, Sizes DEF AtBottom
      <4> QED
        BY <1>1, <4>2, <4>3, <4>4, SendsCases
    <3> QED
      BY <3>2, <3>3
  <2> QED
    BY <2>3, <2>4
<1>5. CASE AtBottom(c, nx, line, col)
  <2>1. line = 0 /\ col = 0
    <3>1. (FRAME_LINES - line) * LINE_WORDS >= LINE_WORDS /\ (FRAME_LINES - line) * LINE_WORDS \in Int
      BY <1>2, Blank, Sizes
    <3> QED
      BY <1>2, <1>5, <3>1, Sizes DEF AtBottom
  <2>2. d.segment = RELOAD_INDEX /\ d.remaining = 1 /\ nx + 1 = SEGMENT_COUNT
    BY <1>1, <1>5, SegmentsAre, Sizes DEF AtBottom
  <2> QED
    BY <1>1, <2>1, <2>2, SendsCases DEF AtEnd
<1>6. CASE AtEnd(c, nx, line, col)
  <2>1. nx = 0 /\ line = 0 /\ col = 0
    BY <1>6 DEF AtEnd
  <2>2. d.remaining = TOP_LINES * LINE_WORDS /\ TOP_LINES * LINE_WORDS \in Nat
    BY <1>1, <2>1, SegmentsAre, Sizes
  <2>3. AtTop(d, nx + 1, line, col)
    BY <1>1, <2>1, <2>2, Sizes DEF AtTop
  <2> QED
    BY <1>1, <2>1, <2>2, <2>3, SendsCases
<1> QED
  BY <1>3, <1>4, <1>5, <1>6, SendsCases

(* The last segment makes CH0 point CH2 at the first one.                  *)
LEMMA SendsAnew ==
  ASSUME NEW c \in [segment : Nat, remaining : Nat], NEW nx \in Nat,
         NEW line, NEW col, SendsOf(c, nx, line, col),
         c.remaining > 0, Segment(c.segment).source = "Reload"
  PROVE  /\ c.segment = RELOAD_INDEX /\ c.remaining = 1 /\ line = 0 /\ col = 0
         /\ SendsOf([c EXCEPT !.remaining = 0], 0, line, col)
<1>1. c.segment # 0 /\ c.segment # BOTTOM_INDEX
  BY SegmentsAre
<1>2. ASSUME NEW row \in Rows, NEW part \in 0 .. 2, c.segment = 1 + 3 * row + part PROVE FALSE
  <2>1. Segment(c.segment) = RowPart(part)
    BY <1>2, RowSegment
  <2> QED
    BY <2>1, PartsAre
<1>3. AtEnd(c, nx, line, col)
  BY <1>1, <1>2, SendsCases DEF AtTop, AtRow, AtBottom
<1>4. AtEnd([c EXCEPT !.remaining = 0], 0, line, col)
  BY <1>3 DEF AtEnd
<1> QED
  BY <1>3, <1>4, SendsCases DEF AtEnd

-----------------------------------------------------------------------------
(* The words: what a row holds for a look, and what CH0 sends.             *)
LEMMA LooksAre ==
  ASSUME NEW l \in Looks
  PROVE  l[1] \in Pictures /\ l[2] \in BOOLEAN
BY DEF Looks

LEMMA OfLookIs ==
  ASSUME NEW l \in Looks, NEW row \in Rows, NEW x \in Columns
  PROVE  /\ OfLook(l, row, x) \in Words /\ OfLook(l, row, x) # BLACK_WORD
         /\ OfLook(l, row, x)[2] = SourceRow(row, l[2])
         /\ OfLook(l, row, x)[3] = SourceColumn(x, l[2])
<1>1. l[1] \in Pictures /\ l[1] >= 0 /\ l[1] # -1
  BY SMTT(30), GeometryAssumption DEF Looks
<1>2. SourceRow(row, l[2]) \in Rows /\ SourceColumn(x, l[2]) \in Columns
  BY Sizes DEF SourceRow, SourceColumn, Rows, Columns
<1>3. OfLook(l, row, x) = <<l[1], SourceRow(row, l[2]), SourceColumn(x, l[2])>>
  BY DEF OfLook
<1>4. OfLook(l, row, x) \in Words
  BY <1>1, <1>2, <1>3 DEF Words
<1>5. OfLook(l, row, x)[1] # BLACK_WORD[1]
  BY <1>1, <1>3 DEF BLACK_WORD
<1> QED
  BY <1>3, <1>4, <1>5

LEMMA WithinIs ==
  ASSUME NEW col \in Cols
  PROVE  Within(col) \in Columns
BY Sizes DEF Within, Columns, Cols

LEMMA RightIsWord ==
  ASSUME NEW word, NEW line \in Lines, NEW col \in Cols, IsRight(word, line, col)
  PROVE  word \in Words
<1>1. PICK l \in Looks : IsOf(word, l, line, col)
  BY DEF IsRight
<1>2. CASE InRow(line)
  <2>1. line - TOP_LINES \in Rows
    BY <1>2, Sizes DEF InRow, Lines, Rows
  <2> QED
    BY <1>1, <1>2, <2>1, OfLookIs, WithinIs DEF IsOf
<1>3. CASE ~InRow(line)
  BY <1>1, <1>3 DEF IsOf, Words
<1> QED
  BY <1>2, <1>3

(* CH0 sends at each place the word of the look that the row has there.    *)
LEMMA WordIs ==
  ASSUME ch0 \in [segment : Nat, remaining : Nat], NEW nx,
         NEW line \in Lines, NEW col \in Cols, SendsOf(ch0, nx, line, col),
         ch0.remaining > 0, Segment(ch0.segment).source # "Reload",
         NEW l \in Looks, InRow(line) => RowIs(line - TOP_LINES, l)
  PROVE  IsOf(WordOf(ch0), l, line, col)
<1>1. line \in Int /\ col \in Int /\ line < FRAME_LINES /\ col < LINE_WORDS /\ line >= 0 /\ col >= 0
  BY Sizes DEF Lines, Cols
<1>2. ASSUME Segment(ch0.segment).source = "Black", ~InRow(line)
      PROVE  IsOf(WordOf(ch0), l, line, col)
  <2>1. WordOf(ch0) = BLACK_WORD
    BY <1>2, Zenon DEF WordOf
  <2> QED
    BY <1>2, <2>1 DEF IsOf
<1>3. CASE AtTop(ch0, nx, line, col)
  <2>1. line < TOP_LINES
    BY <1>1, <1>3, Blank, Sizes DEF AtTop
  <2>2. ~InRow(line) /\ Segment(ch0.segment).source = "Black"
    BY <1>3, <2>1, <1>1, SegmentsAre, Sizes DEF AtTop, InRow
  <2> QED
    BY <1>2, <2>2
<1>4. CASE \E row \in Rows, part \in 0 .. 2 : AtRow(ch0, nx, line, col, row, part)
  <2>1. PICK row \in Rows, part \in 0 .. 2 : AtRow(ch0, nx, line, col, row, part)
    BY <1>4
  <2>2. /\ line = TOP_LINES + row /\ ch0.remaining = From(part) + RowPart(part).words - col
        /\ col >= From(part)
    BY <2>1 DEF AtRow
  <2>3. line - TOP_LINES = row /\ InRow(line) /\ row \in Int
    BY <1>1, <2>2, Sizes DEF InRow, Rows
  <2>4. Segment(ch0.segment) = RowPart(part) /\ RowOf(ch0.segment) = row
    BY <2>1, RowSegment DEF AtRow
  <2>5. /\ front[row] = [x \in Columns |-> OfLook(l, row, x)]
        /\ borders[row] = <<OfLook(l, row, 0), OfLook(l, row, WIDTH - 1)>>
    BY <2>3 DEF RowIs
  <2>6. WordOf(ch0) = OfLook(l, row, Within(col))
    <3>1. CASE part = 0
      <4>1. Segment(ch0.segment).source = "Left" /\ Within(col) = 0
        BY <1>1, <2>2, <2>4, <3>1, PartsAre, Sizes DEF Within
      <4>2. WordOf(ch0) = borders[row][1]
        BY <2>4, <4>1, Zenon DEF WordOf
      <4> QED
        BY <2>5, <4>1, <4>2
    <3>2. CASE part = 1
      <4>1. Segment(ch0.segment).source = "Pixels" /\ Within(col) = WIDTH - ch0.remaining
            /\ WIDTH - ch0.remaining \in Columns
        BY <1>1, <2>2, <2>4, <3>2, PartsAre, Sizes DEF Within, Columns
      <4>2. WordOf(ch0) = front[row][WIDTH - ch0.remaining]
        BY <2>4, <4>1, Zenon DEF WordOf
      <4> QED
        BY <2>5, <4>1, <4>2
    <3>3. CASE part = 2
      <4>1. Segment(ch0.segment).source = "Right" /\ Within(col) = WIDTH - 1
        BY <1>1, <2>2, <2>4, <3>3, PartsAre, Sizes DEF Within
      <4>2. WordOf(ch0) = borders[row][2]
        BY <2>4, <4>1, Zenon DEF WordOf, RightWord
      <4> QED
        BY <2>5, <4>1, <4>2
    <3> QED
      BY <3>1, <3>2, <3>3
  <2> QED
    BY <2>3, <2>6 DEF IsOf
<1>5. CASE AtBottom(ch0, nx, line, col)
  <2>1. line >= TOP_LINES + HEIGHT
    BY <1>5 DEF AtBottom
  <2>2. ~InRow(line) /\ Segment(ch0.segment).source = "Black"
    BY <1>5, <2>1, <1>1, SegmentsAre, Sizes DEF AtBottom, InRow
  <2> QED
    BY <1>2, <2>2
<1>6. CASE AtEnd(ch0, nx, line, col)
  BY <1>6, SegmentsAre DEF AtEnd
<1> QED
  BY <1>3, <1>4, <1>5, <1>6, SendsCases

(* Where CH0 is in the blank lines at the top, and where its frame ends.   *)
LEMMA WhereItIs ==
  ASSUME NEW c \in [segment : Nat, remaining : Nat], NEW nx, NEW line \in Lines, NEW col \in Cols,
         SendsOf(c, nx, line, col)
  PROVE  /\ c.segment = 0 => line <= TOP_LINES
         /\ nx = 1 <=> c.segment = 0
         /\ c.segment = 0 => c.remaining = (TOP_LINES - line) * LINE_WORDS - col
         /\ c.segment \notin {0, RELOAD_INDEX} => line >= TOP_LINES \/ (line = 0 /\ col = 0)
         /\ c.segment = RELOAD_INDEX => line = 0 /\ col = 0
         /\ c.segment # 0 => c.remaining <= MARGIN * LINE_WORDS
<1>1. line \in Int /\ col \in Int /\ line < FRAME_LINES /\ col < LINE_WORDS /\ line >= 0 /\ col >= 0
  BY Sizes DEF Lines, Cols
<1>2. MARGIN * LINE_WORDS \in Int /\ MARGIN * LINE_WORDS >= LINE_WORDS
  BY Blank, ReserveAssumption, Sizes
<1>3. CASE AtTop(c, nx, line, col)
  BY <1>1, <1>3, SegmentsAre, Sizes DEF AtTop
<1>4. CASE \E row \in Rows, part \in 0 .. 2 : AtRow(c, nx, line, col, row, part)
  <2>1. PICK row \in Rows, part \in 0 .. 2 : AtRow(c, nx, line, col, row, part)
    BY <1>4
  <2>2. c.segment \in 1 .. BOTTOM_INDEX - 1 /\ nx = c.segment + 1
    BY <2>1, RowSegment DEF AtRow
  <2>3. c.remaining <= LINE_WORDS
    BY <1>1, <2>1, PartsAre, Sizes DEF AtRow
  <2>4. line >= TOP_LINES
    BY <2>1, Sizes DEF AtRow, Rows
  <2>5. c.segment # 0 /\ c.segment # RELOAD_INDEX /\ nx # 1
    BY <2>2, SegmentsAre, Sizes
  <2>6. c.remaining <= MARGIN * LINE_WORDS
    BY <1>2, <2>3, Sizes
  <2> QED
    BY <2>4, <2>5, <2>6
<1>5. CASE AtBottom(c, nx, line, col)
  <2>1. c.segment = BOTTOM_INDEX /\ nx = RELOAD_INDEX /\ c.segment # 0 /\ c.segment # RELOAD_INDEX /\ nx # 1
    BY <1>5, SegmentsAre, Sizes DEF AtBottom
  <2>2. line >= TOP_LINES \/ (line = 0 /\ col = 0)
    BY <1>1, <1>5, Sizes DEF AtBottom
  <2>3. c.remaining <= MARGIN * LINE_WORDS
    <3>1. CASE line >= TOP_LINES + HEIGHT /\ c.remaining = (FRAME_LINES - line) * LINE_WORDS - col
      <4>1. (FRAME_LINES - line) * LINE_WORDS + (MARGIN - (FRAME_LINES - line)) * LINE_WORDS = MARGIN * LINE_WORDS
        BY <1>1, Sizes, ReserveAssumption
      <4>2. (MARGIN - (FRAME_LINES - line)) * LINE_WORDS >= 0 /\ (MARGIN - (FRAME_LINES - line)) * LINE_WORDS \in Int
        BY <1>1, <3>1, Blank, Sizes, ReserveAssumption
      <4>3. (FRAME_LINES - line) * LINE_WORDS \in Int
        BY <1>1, Sizes
      <4> QED
        BY <1>1, <1>2, <3>1, <4>1, <4>2, <4>3
    <3>2. CASE c.remaining = 0
      BY <1>2, <3>2, Sizes
    <3> QED
      BY <1>5, <3>1, <3>2 DEF AtBottom
  <2> QED
    BY <2>1, <2>2, <2>3
<1>6. CASE AtEnd(c, nx, line, col)
  <2>1. c.remaining <= MARGIN * LINE_WORDS
    BY <1>2, <1>6, Sizes DEF AtEnd
  <2>2. c.segment = RELOAD_INDEX /\ c.segment # 0 /\ nx # 1 /\ line = 0 /\ col = 0
    BY <1>6, SegmentsAre, Sizes DEF AtEnd
  <2> QED
    BY <2>1, <2>2
<1> QED
  BY <1>3, <1>4, <1>5, <1>6, SendsCases

(* Only in the blank lines at the top, with more of them to come than the  *)
(* reserve, is CH0 found in time, though its registers are read one after  *)
(* the other.                                                              *)
LEMMA InTimeIs ==
  ASSUME NEW c \in [segment : Nat, remaining : Nat], NEW nx, NEW line \in Lines, NEW col \in Cols,
         SendsOf(c, nx, line, col), NEW read \in Nat, InTime(CurrentLine(read, c.remaining))
  PROVE  c.segment = 0 /\ line < TOP_LINES - MARGIN
<1>1. line \in Int /\ col \in Int /\ line < FRAME_LINES /\ col < LINE_WORDS /\ line >= 0 /\ col >= 0
  BY Sizes DEF Lines, Cols
<1>2. PRESENT_DEADLINE_LINE = TOP_LINES - MARGIN /\ MARGIN \in Nat /\ MARGIN >= 2 /\ MARGIN <= TOP_LINES
  BY ReserveAssumption, Sizes DEF PRESENT_DEADLINE_LINE
<1>3. read = 1
  <2>1. CASE read \in 2 .. BOTTOM_INDEX
    <3>1. (read - 2) \div 3 >= 0 /\ (read - 2) \div 3 \in Int
      BY <2>1, SegmentsAre, Sizes
    <3>2. CurrentLine(read, c.remaining) = TOP_LINES + (read - 2) \div 3
      BY <2>1 DEF CurrentLine
    <3> QED
      BY <1>2, <3>1, <3>2, Sizes DEF InTime
  <2>2. CASE read # 1 /\ read \notin 2 .. BOTTOM_INDEX
    <3>1. CurrentLine(read, c.remaining) = FRAME_LINES - 1
      BY <2>2 DEF CurrentLine
    <3> QED
      BY <1>2, <3>1, Sizes DEF InTime
  <2> QED
    BY <2>1, <2>2
<1> DEFINE left == TOP_LINES * LINE_WORDS - c.remaining
<1>4. left \div LINE_WORDS < TOP_LINES - MARGIN
  BY <1>2, <1>3 DEF CurrentLine, InTime
<1>5. TOP_LINES * LINE_WORDS \in Int /\ left \in Int
  BY Sizes
<1>6. left < (TOP_LINES - MARGIN) * LINE_WORDS
  <2> DEFINE q == left \div LINE_WORDS
             more == TOP_LINES - MARGIN - (q + 1)
  <2>1. q \in Int /\ left < LINE_WORDS * q + LINE_WORDS
    <3>1. LINE_WORDS \in Nat \ {0}
      BY Sizes
    <3> HIDE DEF left
    <3> QED
      BY <1>5, <3>1, SMTT(30)
  <2>2. q + 1 <= TOP_LINES - MARGIN
    <3> HIDE DEF left
    <3> QED
      BY <1>2, <1>4, <2>1, Sizes
  <2> HIDE DEF q
  <2>3. more \in Int /\ more >= 0 /\ TOP_LINES - MARGIN = (q + 1) + more
    BY <1>2, <2>1, <2>2, Sizes
  <2> HIDE DEF more
  <2>4. more * LINE_WORDS >= 0 /\ more * LINE_WORDS \in Int
    BY <2>3, Blank
  <2>5. (TOP_LINES - MARGIN) * LINE_WORDS = (LINE_WORDS * q + LINE_WORDS) + more * LINE_WORDS
        /\ LINE_WORDS * q \in Int
    BY <2>1, <2>3, Sizes
  <2> HIDE DEF left
  <2> QED
    BY <1>5, <2>1, <2>4, <2>5, Sizes
<1>7. c.remaining > MARGIN * LINE_WORDS
  <2>1. TOP_LINES * LINE_WORDS = (TOP_LINES - MARGIN) * LINE_WORDS + MARGIN * LINE_WORDS
    BY <1>2, Sizes
  <2> QED
    BY <1>2, <1>6, <2>1, Sizes
<1>8. c.segment = 0 /\ c.remaining = (TOP_LINES - line) * LINE_WORDS - col
  BY <1>2, <1>7, WhereItIs, Sizes
<1>9. ASSUME line >= TOP_LINES - MARGIN PROVE FALSE
  <2>1. (MARGIN - (TOP_LINES - line)) * LINE_WORDS >= 0
    BY <1>1, <1>2, <1>9, Blank, Sizes
  <2>2. MARGIN * LINE_WORDS = (MARGIN - (TOP_LINES - line)) * LINE_WORDS + (TOP_LINES - line) * LINE_WORDS
    BY <1>1, <1>2, Sizes
  <2> QED
    BY <1>1, <1>2, <1>7, <1>8, <2>1, <2>2, Sizes
<1> QED
  BY <1>1, <1>2, <1>8, <1>9, Sizes

-----------------------------------------------------------------------------
(* The scan: its types, and that everything is in step.                    *)
InStepNow == Types /\ Counter(sm1) /\ NotYet /\ Scans

LEMMA NextIs ==
  ASSUME NEW c \in [segment : Nat, remaining : Nat], NEW nx, NEW line, NEW col,
         SendsOf(c, nx, line, col)
  PROVE  nx \in 0 .. SEGMENT_COUNT /\ c.segment \in 0 .. RELOAD_INDEX
<1>1. CASE \E row \in Rows, part \in 0 .. 2 : AtRow(c, nx, line, col, row, part)
  <2>1. PICK row \in Rows, part \in 0 .. 2 : AtRow(c, nx, line, col, row, part)
    BY <1>1
  <2>2. c.segment \in 1 .. BOTTOM_INDEX - 1 /\ nx = c.segment + 1
    BY <2>1, RowSegment DEF AtRow
  <2> QED
    BY <2>2, SegmentsAre, Sizes
<1>2. CASE AtTop(c, nx, line, col) \/ AtBottom(c, nx, line, col) \/ AtEnd(c, nx, line, col)
  BY <1>2, SegmentsAre, Sizes DEF AtTop, AtBottom, AtEnd
<1> QED
  BY <1>1, <1>2, SendsCases

LEMMA ScansKept ==
  ASSUME Scans, UNCHANGED <<power, ch0, next, pixels, ch1, counts, sm1>>,
         power = "on" => task'.pc # "trigger",
         power = "on" /\ GlassOf(glass, sm1) => GlassOf(glass', sm1)
  PROVE  Scans'
<1>1. ASSUME power' = "on"
      PROVE  /\ CountsOf(sm1', ch1', counts') /\ Position(ch0', next', sm1', Len(pixels'))
             /\ GlassOf(glass', sm1') /\ FifoOf(pixels', sm1') /\ task'.pc # "trigger"
  <2>1. power = "on" /\ ch0' = ch0 /\ next' = next /\ pixels' = pixels /\ ch1' = ch1
        /\ counts' = counts /\ sm1' = sm1
    BY <1>1
  <2>2. CountsOf(sm1, ch1, counts) /\ Position(ch0, next, sm1, Len(pixels))
        /\ GlassOf(glass, sm1) /\ FifoOf(pixels, sm1)
    BY <2>1, Zenon DEF Scans
  <2>3. GlassOf(glass', sm1) /\ task'.pc # "trigger"
    BY <2>1, <2>2
  <2> QED
    BY <2>1, <2>2, <2>3, Zenon
<1> QED
  BY <1>1, Zenon DEF Scans

LEMMA NotYetIsOn ==
  ASSUME NotYet, Types, power # "on"
  PROVE  task.pc \in {"draw", "present", "trigger"} /\ ~irq
BY DEF NotYet

LEMMA FrameIrqInStep == InStepNow /\ FrameIrq => InStepNow'
<1> SUFFICES ASSUME InStepNow, FrameIrq PROVE InStepNow'
  OBVIOUS
<1>1. Types /\ Counter(sm1) /\ NotYet /\ Scans
  BY DEF InStepNow
<1>2. UNCHANGED <<power, ch0, next, pixels, ch1, counts, sm1, glass, front, borders, back>>
      /\ irq' = FALSE /\ task' = [task EXCEPT !.due = (task.pc = "wait")] /\ irq
  BY DEF FrameIrq, hardware
<1>3. task \in TaskType /\ power = "on"
  BY <1>1, <1>2, NotYetIsOn DEF Types
<1>4. task' \in TaskType /\ task'.pc = task.pc /\ task'.row = task.row /\ task'.late = task.late
      /\ (task'.due => task.pc = "wait")
  BY <1>2, <1>3 DEF TaskType
<1>5. Types'
  BY <1>1, <1>2, <1>4 DEF Types
<1>6. Counter(sm1)' /\ NotYet'
  BY <1>1, <1>2, <1>3 DEF NotYet
<1>7. Scans'
  <2>1. task.pc # "trigger"
    BY <1>1, <1>3 DEF Scans
  <2> QED
    BY <1>1, <1>2, <1>4, <2>1, ScansKept
<1> QED
  BY <1>5, <1>6, <1>7 DEF InStepNow

LEMMA TaskInStep ==
  InStepNow /\ (Draw \/ WaitFrame \/ Woken \/ ReadNext) => InStepNow'
<1> SUFFICES ASSUME InStepNow, Draw \/ WaitFrame \/ Woken \/ ReadNext PROVE InStepNow'
  OBVIOUS
<1>1. Types /\ Counter(sm1) /\ NotYet /\ Scans
  BY DEF InStepNow
<1>2. UNCHANGED <<power, ch0, next, pixels, ch1, counts, sm1, glass, front, borders, irq>>
  BY DEF Draw, WaitFrame, Woken, ReadNext, hardware
<1>3. task \in TaskType /\ next \in Nat
  BY <1>1 DEF Types
<1>4. ASSUME task.pc \in {"read", "wait"} PROVE power = "on" /\ next \in 0 .. SEGMENT_COUNT
  <2>1. power = "on"
    BY <1>1, <1>4 DEF NotYet, Types
  <2>2. ch0 \in [segment : Nat, remaining : Nat] /\ Position(ch0, next, sm1, Len(pixels))
    BY <1>1, <2>1 DEF Scans, Types
  <2> QED
    BY <2>1, <2>2, NextIs DEF Position
<1>5. /\ task' \in TaskType /\ (task'.due => task'.pc = "wait") /\ (task'.late => task'.pc = "copy")
      /\ (task'.pc # "copy" => task'.row = 0) /\ task'.pc # "trigger"
      /\ power # "on" => task'.pc = "present" /\ task.pc = "draw"
  <2>1. (task.due => task.pc = "wait") /\ (task.late => task.pc = "copy") /\ (task.pc # "copy" => task.row = 0)
    BY <1>1 DEF Types
  <2>2. CASE Draw
    BY <1>3, <2>1, <2>2 DEF Draw, TaskType
  <2>3. CASE WaitFrame
    <3>1. /\ task' = [task EXCEPT !.pc = "wait", !.misses = 0, !.due = FALSE] /\ power = "on"
          /\ task.pc = "present" /\ 0 \in 0 .. PRESENT_MAX_MISSES
      BY <2>3, ReserveAssumption DEF WaitFrame, FirstMisses
    <3>2. task' \in TaskType
      BY <1>3, <3>1 DEF TaskType
    <3>3. task'.pc = "wait" /\ task'.row = task.row /\ task'.late = task.late /\ ~task'.due
      BY <1>3, <3>1 DEF TaskType
    <3> QED
      BY <2>1, <3>1, <3>2, <3>3
  <2>4. CASE Woken
    <3>1. task' = [task EXCEPT !.pc = "read", !.due = FALSE] /\ task.pc = "wait" /\ power = "on"
      BY <2>4, <1>4 DEF Woken
    <3>2. task' \in TaskType
      BY <1>3, <3>1 DEF TaskType
    <3>3. task'.pc = "read" /\ task'.row = task.row /\ task'.late = task.late /\ ~task'.due
      BY <1>3, <3>1 DEF TaskType
    <3> QED
      BY <2>1, <3>1, <3>2, <3>3
  <2>5. CASE ReadNext
    <3>1. /\ task' = [task EXCEPT !.pc = "count", !.read = next] /\ task.pc = "read" /\ power = "on"
          /\ next \in 0 .. SEGMENT_COUNT
      BY <2>5, <1>4 DEF ReadNext
    <3>2. task' \in TaskType
      BY <1>3, <3>1 DEF TaskType
    <3>3. task'.pc = "count" /\ task'.row = task.row /\ task'.late = task.late /\ task'.due = task.due
      BY <1>3, <3>1 DEF TaskType
    <3> QED
      BY <2>1, <3>1, <3>2, <3>3
  <2> QED
    BY <2>2, <2>3, <2>4, <2>5
<1>6. back' \in [picture : Pictures, rotated : BOOLEAN]
  <2>1. back \in [picture : Pictures, rotated : BOOLEAN]
    BY <1>1 DEF Types
  <2>2. CASE Draw
    <3>1. PICK rotated \in BOOLEAN :
            back' = [picture |-> (back.picture + 1) % Cardinality(Pictures), rotated |-> rotated]
      BY <2>2 DEF Draw
    <3>2. (back.picture + 1) % Cardinality(Pictures) \in Pictures
      <4>1. back.picture + 1 \in Int
        BY <2>1, GeometryAssumption
      <4> DEFINE n == Cardinality(Pictures)
      <4>2. n \in Nat \ {0} /\ Pictures = 0 .. n - 1
        BY GeometryAssumption
      <4> HIDE DEF n
      <4>3. (back.picture + 1) % n \in 0 .. n - 1
        BY <4>1, <4>2
      <4> QED
        BY <4>2, <4>3 DEF n
    <3> QED
      BY <3>1, <3>2
  <2>3. CASE back' = back
    BY <2>1, <2>3
  <2> QED
    BY <2>2, <2>3 DEF WaitFrame, Woken, ReadNext
<1>7. Types'
  BY <1>1, <1>2, <1>5, <1>6 DEF Types
<1>8. Counter(sm1)' /\ NotYet'
  <2>1. power # "on" => power = "off" /\ task'.pc = "present"
    BY <1>1, <1>5 DEF NotYet, Types
  <2> QED
    BY <1>1, <1>2, <2>1 DEF NotYet
<1>9. Scans'
  BY <1>1, <1>2, <1>5, ScansKept
<1> QED
  BY <1>7, <1>8, <1>9 DEF InStepNow

LEMMA DecideInStep == InStepNow /\ Decide => InStepNow'
<1> SUFFICES ASSUME InStepNow, Decide PROVE InStepNow'
  OBVIOUS
<1>1. Types /\ Counter(sm1) /\ NotYet /\ Scans
  BY DEF InStepNow
<1>2. UNCHANGED <<power, ch0, next, pixels, ch1, counts, sm1, front, borders, irq, back>>
      /\ task.pc = "count"
  BY DEF Decide
<1>3. task \in TaskType /\ power = "on"
  BY <1>1, <1>2 DEF Types, NotYet
<1>4. /\ task' \in TaskType /\ (task'.due => task'.pc = "wait") /\ (task'.late => task'.pc = "copy")
      /\ (task'.pc # "copy" => task'.row = 0) /\ task'.pc # "trigger"
  <2>1. (task.due => task.pc = "wait") /\ (task.late => task.pc = "copy") /\ (task.pc # "copy" => task.row = 0)
    BY <1>1 DEF Types
  <2>2. CASE task' = [task EXCEPT !.pc = "copy", !.row = 0, !.read = 0, !.moved = TRUE, !.late = GivesUp]
    <3>1. 0 \in Rows /\ 0 \in 0 .. SEGMENT_COUNT /\ GivesUp \in BOOLEAN
      BY Sizes, SegmentsAre DEF Rows, GivesUp
    <3> QED
      BY <1>2, <1>3, <2>1, <2>2, <3>1 DEF TaskType
  <2>3. CASE task' = [task EXCEPT !.pc = "wait", !.misses = Missed(@), !.read = 0] /\ ~GivesUp
    <3>1. Missed(task.misses) \in 0 .. PRESENT_MAX_MISSES
      BY <1>3, <2>3, ReserveAssumption DEF Missed, GivesUp, TaskType
    <3>2. 0 \in 0 .. SEGMENT_COUNT
      BY Sizes, SegmentsAre
    <3> QED
      BY <1>2, <1>3, <2>1, <2>3, <3>1, <3>2 DEF TaskType
  <2> QED
    BY <2>2, <2>3 DEF Decide
<1>5. glass' = glass \/ glass' = [glass EXCEPT !.excused = @ \/ GivesUp]
  BY DEF Decide
<1>6. /\ glass' \in [x : Nat, y : Int, hsync : 0 .. 1, word : Words, fits : SUBSET Looks,
                     excused : BOOLEAN, torn : BOOLEAN]
      /\ glass'.x = glass.x /\ glass'.y = glass.y /\ glass'.hsync = glass.hsync /\ glass'.word = glass.word
      /\ glass'.fits = glass.fits /\ glass'.torn = glass.torn
  <2>1. glass \in [x : Nat, y : Int, hsync : 0 .. 1, word : Words, fits : SUBSET Looks,
                   excused : BOOLEAN, torn : BOOLEAN]
    BY <1>1 DEF Types
  <2>2. (glass.excused \/ GivesUp) \in BOOLEAN
    BY <2>1 DEF GivesUp
  <2> QED
    BY <1>5, <2>1, <2>2
<1>7. Types'
  BY <1>1, <1>2, <1>4, <1>6 DEF Types
<1>8. Counter(sm1)' /\ NotYet'
  BY <1>1, <1>2, <1>3 DEF NotYet
<1>9. GlassOf(glass, sm1) => GlassOf(glass', sm1)
  BY <1>6, Zenon DEF GlassOf
<1>10. Scans'
  BY <1>1, <1>2, <1>4, <1>9, ScansKept
<1> QED
  BY <1>7, <1>8, <1>10 DEF InStepNow

-----------------------------------------------------------------------------
(* A copied row is that of the back buffer.                                *)
LEMMA CopiedIs ==
  ASSUME back \in [picture : Pictures, rotated : BOOLEAN], NEW row \in Rows
  PROVE  /\ Cur \in Looks
         /\ CopiedRow(row) = [x \in Columns |-> OfLook(Cur, row, x)]
         /\ CopiedRow(row) \in [Columns -> Words]
         /\ CopiedRow(row)[0] = OfLook(Cur, row, 0) /\ CopiedRow(row)[0] \in Words
         /\ CopiedRow(row)[WIDTH - 1] = OfLook(Cur, row, WIDTH - 1) /\ CopiedRow(row)[WIDTH - 1] \in Words
<1>1. Cur \in Looks /\ Cur[1] = back.picture /\ Cur[2] = back.rotated
  BY DEF Cur, Looks
<1>2. CopiedRow(row) = [x \in Columns |-> OfLook(Cur, row, x)]
  BY <1>1 DEF CopiedRow, OfLook
<1>3. \A x \in Columns : OfLook(Cur, row, x) \in Words
  BY <1>1, OfLookIs
<1>4. 0 \in Columns /\ WIDTH - 1 \in Columns
  BY Sizes DEF Columns
<1> HIDE DEF Cur
<1> QED
  BY <1>1, <1>2, <1>3, <1>4

LEMMA CopyAllFills ==
  ASSUME CopyAll, back \in [picture : Pictures, rotated : BOOLEAN], back' = back
  PROVE  /\ front' \in [Rows -> [Columns -> Words]] /\ borders' \in [Rows -> Words \X Words]
         /\ Cur' \in Looks /\ Whole(Cur)'
<1>1. \A row \in Rows :
        /\ Cur \in Looks
        /\ CopiedRow(row) = [x \in Columns |-> OfLook(Cur, row, x)]
        /\ CopiedRow(row) \in [Columns -> Words]
        /\ CopiedRow(row)[0] = OfLook(Cur, row, 0) /\ CopiedRow(row)[0] \in Words
        /\ CopiedRow(row)[WIDTH - 1] = OfLook(Cur, row, WIDTH - 1) /\ CopiedRow(row)[WIDTH - 1] \in Words
  BY CopiedIs
<1>2. /\ front' = [y \in Rows |-> CopiedRow(y)]
      /\ borders' = [y \in Rows |-> <<CopiedRow(y)[0], CopiedRow(y)[WIDTH - 1]>>]
  BY DEF CopyAll
<1>3. front' \in [Rows -> [Columns -> Words]] /\ borders' \in [Rows -> Words \X Words]
  BY <1>1, <1>2
<1>4. Cur' = Cur
  BY DEF Cur
<1>5. ASSUME NEW row \in Rows PROVE RowIs(row, Cur)'
  BY <1>1, <1>2, <1>4 DEF RowIs
<1>6. 0 \in Rows
  BY Sizes DEF Rows
<1> QED
  BY <1>1, <1>3, <1>4, <1>5, <1>6 DEF Whole

LEMMA CopyRowFills ==
  ASSUME CopyRow, Types, NEW row, row = task.row
  PROVE  /\ front' \in [Rows -> [Columns -> Words]] /\ borders' \in [Rows -> Words \X Words]
         /\ row \in Rows /\ Cur \in Looks /\ Cur' = Cur
         /\ RowIs(row, Cur)'
         /\ \A r \in Rows \ {row}, l \in Looks : RowIs(r, l)' <=> RowIs(r, l)
<1>1. /\ front' = [front EXCEPT ![row] = CopiedRow(row)]
      /\ borders' = [borders EXCEPT ![row] = <<front'[row][0], front'[row][WIDTH - 1]>>]
      /\ back' = back
  BY DEF CopyRow
<1>2. /\ front \in [Rows -> [Columns -> Words]] /\ borders \in [Rows -> Words \X Words]
      /\ back \in [picture : Pictures, rotated : BOOLEAN] /\ task \in TaskType
  BY DEF Types
<1>3. row \in Rows
  BY <1>2 DEF TaskType
<1> DEFINE words == CopiedRow(row)
<1>4. /\ Cur \in Looks /\ words = [x \in Columns |-> OfLook(Cur, row, x)] /\ words \in [Columns -> Words]
      /\ words[0] = OfLook(Cur, row, 0) /\ words[0] \in Words
      /\ words[WIDTH - 1] = OfLook(Cur, row, WIDTH - 1) /\ words[WIDTH - 1] \in Words
  BY <1>2, <1>3, CopiedIs
<1>5. Cur' = Cur
  BY <1>1 DEF Cur
<1>6. front' = [front EXCEPT ![row] = words]
  BY <1>1
<1> HIDE DEF words
<1>7. front'[row] = words /\ \A r \in Rows \ {row} : front'[r] = front[r]
  BY <1>2, <1>3, <1>6
<1>8. borders' = [borders EXCEPT ![row] = <<words[0], words[WIDTH - 1]>>]
  BY <1>1, <1>7
<1>9. borders'[row] = <<words[0], words[WIDTH - 1]>> /\ \A r \in Rows \ {row} : borders'[r] = borders[r]
  BY <1>2, <1>3, <1>8
<1>10. front' \in [Rows -> [Columns -> Words]] /\ borders' \in [Rows -> Words \X Words]
  BY <1>2, <1>3, <1>4, <1>6, <1>8
<1>11. RowIs(row, Cur)'
  BY <1>4, <1>5, <1>7, <1>9 DEF RowIs
<1>12. ASSUME NEW r \in Rows \ {row}, NEW l \in Looks PROVE RowIs(r, l)' <=> RowIs(r, l)
  BY <1>7, <1>9 DEF RowIs
<1> QED
  BY <1>3, <1>4, <1>5, <1>10, <1>11, <1>12

LEMMA CopyRowInStep == InStepNow /\ CopyRow => InStepNow'
<1> SUFFICES ASSUME InStepNow, CopyRow PROVE InStepNow'
  OBVIOUS
<1>1. Types /\ Counter(sm1) /\ NotYet /\ Scans
  BY DEF InStepNow
<1>2. UNCHANGED <<power, ch0, next, pixels, ch1, counts, sm1, glass, irq, back>> /\ task.pc = "copy"
  BY DEF CopyRow, hardware
<1>3. task \in TaskType /\ power = "on"
  BY <1>1, <1>2 DEF Types, NotYet
<1>4. /\ front' \in [Rows -> [Columns -> Words]] /\ borders' \in [Rows -> Words \X Words]
      /\ task.row \in Rows
  BY <1>1, CopyRowFills
<1>5. /\ task' \in TaskType /\ (task'.due => task'.pc = "wait") /\ (task'.late => task'.pc = "copy")
      /\ (task'.pc # "copy" => task'.row = 0) /\ task'.pc # "trigger"
  <2>1. CASE task.row = HEIGHT - 1
    <3>1. task' = Asleep /\ 0 \in Rows /\ 0 \in 0 .. PRESENT_MAX_MISSES /\ 0 \in 0 .. SEGMENT_COUNT
      BY <2>1, Sizes, SegmentsAre, ReserveAssumption DEF CopyRow, Rows
    <3> QED
      BY <3>1 DEF Asleep, TaskType
  <2>2. CASE task.row # HEIGHT - 1
    <3>1. task' = [task EXCEPT !.row = task.row + 1, !.moved = TRUE]
      BY <2>2 DEF CopyRow
    <3>2. task.row + 1 \in Rows
      BY <1>4, <2>2, Sizes DEF Rows
    <3>3. task' \in TaskType
      BY <1>3, <3>1, <3>2 DEF TaskType
    <3>4. task'.pc = "copy" /\ task'.due = task.due
      BY <1>2, <1>3, <3>1 DEF TaskType
    <3>5. ~task.due
      BY <1>1, <1>2 DEF Types
    <3> QED
      BY <3>3, <3>4, <3>5
  <2> QED
    BY <2>1, <2>2
<1>6. Types'
  BY <1>1, <1>2, <1>4, <1>5 DEF Types
<1>7. Counter(sm1)' /\ NotYet'
  BY <1>1, <1>2, <1>3 DEF NotYet
<1>8. Scans'
  BY <1>1, <1>2, <1>5, ScansKept
<1> QED
  BY <1>6, <1>7, <1>8 DEF InStepNow

(* Before the scan nothing is in step yet.                                 *)
LEMMA FirstInStep == InStepNow /\ (PresentAtOnce \/ Start) => InStepNow'
<1> SUFFICES ASSUME InStepNow, PresentAtOnce \/ Start PROVE InStepNow'
  OBVIOUS
<1>1. Types /\ Counter(sm1) /\ NotYet /\ Scans
  BY DEF InStepNow
<1>2. UNCHANGED <<ch0, next, pixels, ch1, counts, sm1, glass, irq, back>> /\ task.pc = "present"
      /\ power = "off" /\ CopyAll
  BY DEF PresentAtOnce, Start, hardware
<1>3. back \in [picture : Pictures, rotated : BOOLEAN] /\ task \in TaskType
  BY <1>1 DEF Types
<1>4. front' \in [Rows -> [Columns -> Words]] /\ borders' \in [Rows -> Words \X Words]
  BY <1>2, <1>3, CopyAllFills
<1>5. \/ power' = "off" /\ task' = [task EXCEPT !.pc = "draw"]
      \/ power' = "enabled" /\ task' = [task EXCEPT !.pc = "trigger"]
  BY <1>2 DEF PresentAtOnce, Start, hardware
<1>6. task' \in TaskType /\ task'.due = task.due /\ task'.late = task.late /\ task'.row = task.row
      /\ task'.pc # "copy"
  BY <1>3, <1>5 DEF TaskType
<1>7. ~task.due /\ ~task.late /\ task.row = 0
  BY <1>1, <1>2 DEF Types
<1>8. Types'
  BY <1>1, <1>2, <1>4, <1>5, <1>6, <1>7 DEF Types
<1>9. NotYet'
  <2>1. /\ ch0 = [segment |-> 0, remaining |-> TOP_LINES * LINE_WORDS] /\ next = 1
        /\ ch1 = 1 /\ pixels = <<>> /\ counts = <<>> /\ glass = Unsynced /\ ~irq
        /\ sm1.pc = 1
    BY <1>1, <1>2 DEF NotYet
  <2>2. \/ power' = "off" /\ task'.pc = "draw"
        \/ power' = "enabled" /\ task'.pc = "trigger"
    BY <1>3, <1>5 DEF TaskType
  <2> QED
    BY <1>2, <2>1, <2>2 DEF NotYet
<1>10. Counter(sm1)' /\ Scans'
  BY <1>1, <1>2, <1>5 DEF Scans
<1> QED
  BY <1>8, <1>9, <1>10 DEF InStepNow

(* The channels are started when SM1 waits for its first count.            *)
LEMMA LookExists == <<0, FALSE>> \in Looks
<1>1. 0 \in Pictures
  BY GeometryAssumption
<1> QED
  BY <1>1 DEF Looks

LEMMA TriggerInStep == InStepNow /\ Trigger => InStepNow'
<1> SUFFICES ASSUME InStepNow, Trigger PROVE InStepNow'
  OBVIOUS
<1>1. Types /\ Counter(sm1) /\ NotYet /\ Scans
  BY DEF InStepNow
<1>2. UNCHANGED <<ch0, next, pixels, ch1, counts, sm1, glass, irq, front, borders, back>>
      /\ task.pc = "trigger" /\ ~Runs /\ power' = "on" /\ task' = [task EXCEPT !.pc = "draw"]
  BY DEF Trigger
<1>3. power = "enabled" /\ task \in TaskType
  BY <1>1, <1>2 DEF NotYet, Scans, Types
<1>4. /\ ch0 = [segment |-> 0, remaining |-> TOP_LINES * LINE_WORDS] /\ next = 1
      /\ ch1 = 1 /\ pixels = <<>> /\ counts = <<>> /\ glass = Unsynced /\ sm1.pc \in {1, 2, 3}
  BY <1>1, <1>3 DEF NotYet
<1>5. sm1.pc = 3
  <2>1. Here.op = "pull"
    BY <1>2 DEF Runs
  <2>2. (sm1.pc = 1 => Here = Op("set", 3)) /\ (sm1.pc = 2 => Here = Op("set", 2))
    BY InstructionIs DEF Here
  <2> QED
    BY <1>4, <2>1, <2>2 DEF Op
<1>6. AtX(sm1) = 0 /\ AtY(sm1) = 0 /\ Pulls(sm1) = 1 /\ sm1.pins = 2
  BY <1>1, <1>5 DEF AtX, AtY, Pulls, Counter
<1>7. /\ task' \in TaskType /\ task'.due = task.due /\ task'.late = task.late /\ task'.row = task.row
      /\ task'.pc = "draw"
  BY <1>2, <1>3 DEF TaskType
<1>8. ~task.due /\ ~task.late /\ task.row = 0
  BY <1>1, <1>2 DEF Types
<1>9. Types'
  BY <1>1, <1>2, <1>7, <1>8 DEF Types
<1>10. CountsOf(sm1, ch1, counts)
  <2>1. OnCount(1, 0) = 1
    BY Sizes DEF OnCount, Counts
  <2> QED
    BY <1>4, <1>6, <2>1 DEF CountsOf
<1>11. Position(ch0, next, sm1, Len(pixels))
  <2>1. Len(pixels) = 0 /\ OnY(0, 0, 0) = 0 /\ OnX(0, 0) = 0
    BY <1>4, Sizes DEF OnX, OnY
  <2>2. AtTop(ch0, next, 0, 0)
    <3>1. ch0.segment = 0 /\ ch0.remaining = TOP_LINES * LINE_WORDS /\ TOP_LINES * LINE_WORDS \in Nat
      BY <1>4, Sizes
    <3>2. (TOP_LINES - 0) * LINE_WORDS - 0 = TOP_LINES * LINE_WORDS
      BY Sizes
    <3> QED
      BY <1>4, <3>1, <3>2, Sizes DEF AtTop
  <2>3. SendsOf(ch0, next, 0, 0)
    BY <2>2, SendsCases
  <2> QED
    BY <1>6, <2>1, <2>3 DEF Position
<1>12. GlassOf(glass, sm1)
  <2>1. Hsync(2) = 0
    BY DEF Hsync
  <2>2. OnY(LineBefore(0), 0, LINE_WORDS - 1) = FRAME_LINES - 1
    BY Sizes DEF OnY, LineBefore
  <2>3. IsRight(BLACK_WORD, FRAME_LINES - 1, OnX(0, LINE_WORDS - 1))
    <3>1. ~InRow(FRAME_LINES - 1)
      BY Sizes DEF InRow
    <3> QED
      BY <3>1, LookExists DEF IsRight, IsOf
  <2>4. /\ glass.x = 0 /\ glass.y = -1 /\ glass.hsync = 0 /\ glass.word = BLACK_WORD
        /\ glass.fits = Looks /\ glass.torn = FALSE
    BY <1>4 DEF Unsynced
  <2> QED
    BY <1>6, <2>1, <2>2, <2>3, <2>4 DEF GlassOf
<1>13. FifoOf(pixels, sm1)
  BY <1>4 DEF FifoOf
<1>14. Scans' /\ NotYet' /\ Counter(sm1)'
  BY <1>1, <1>2, <1>7, <1>10, <1>11, <1>12, <1>13 DEF Scans, NotYet
<1> QED
  BY <1>9, <1>14 DEF InStepNow

-----------------------------------------------------------------------------
(* The DMA channels keep in step.                                          *)
LEMMA PlaceIs ==
  ASSUME Types, Counter(sm1)
  PROVE  /\ AtX(sm1) \in Cols /\ AtY(sm1) \in Lines
         /\ Len(pixels) \in 0 .. LINE_WORDS
         /\ \A k \in 0 .. LINE_WORDS : OnX(AtX(sm1), k) \in Cols /\ OnY(AtY(sm1), AtX(sm1), k) \in Lines
<1>1. AtX(sm1) \in Cols /\ AtY(sm1) \in Lines
  BY SyncsAre DEF Cols, Lines
<1>2. Len(pixels) \in 0 .. LINE_WORDS
  BY LenProperties, Sizes DEF Types
<1> QED
  BY <1>1, <1>2, OnIs

LEMMA Ch0SendsInStep == InStepNow /\ Rowwise /\ Ch0Sends => InStepNow'
<1> SUFFICES ASSUME InStepNow, Rowwise, Ch0Sends PROVE InStepNow'
  OBVIOUS
<1>1. Types /\ Counter(sm1) /\ NotYet /\ Scans
  BY DEF InStepNow
<1>2. /\ UNCHANGED <<power, next, ch1, counts, sm1, glass, front, borders, back, task>>
      /\ power = "on" /\ ch0.remaining > 0 /\ Len(pixels) < FIFO_WORDS
      /\ Segment(ch0.segment).source # "Reload"
      /\ pixels' = Append(pixels, WordOf(ch0)) /\ ch0' = [ch0 EXCEPT !.remaining = @ - 1]
  BY DEF Ch0Sends, HasRoom
<1>3. irq' = irq
  BY <1>1, <1>2 DEF Ch0Sends, Quiet, Types
<1> DEFINE k == Len(pixels)
           line == OnY(AtY(sm1), AtX(sm1), k)
           col == OnX(AtX(sm1), k)
<1>4. k \in 0 .. LINE_WORDS - 1 /\ line \in Lines /\ col \in Cols
      /\ AtX(sm1) \in Cols /\ AtY(sm1) \in Lines
  <2>1. k \in Nat
    BY <1>1, PlaceIs
  <2>2. k < FIFO_WORDS
    BY <1>2
  <2> HIDE DEF k
  <2>3. k \in 0 .. LINE_WORDS - 1 /\ k \in 0 .. LINE_WORDS
    BY <2>1, <2>2, Sizes
  <2> QED
    BY <1>1, <2>3, PlaceIs
<1>5. SendsOf(ch0, next, line, col) /\ ch0 \in [segment : Nat, remaining : Nat] /\ next \in Nat
  BY <1>1, <1>2 DEF Scans, Position, Types
<1>6. ch0' \in [segment : Nat, remaining : Nat]
  BY <1>2, <1>5
<1>7. SendsOf(ch0', next', OnY(AtY(sm1), AtX(sm1), k + 1), OnX(AtX(sm1), k + 1))
  <2>1. SendsOf(ch0', next, OnY(line, col, 1), OnX(col, 1))
    <3> HIDE DEF line, col
    <3> QED
      BY <1>2, <1>4, <1>5, SendsNext
  <2>2. /\ OnX(AtX(sm1), k + 1) = OnX(col, 1)
        /\ OnY(AtY(sm1), AtX(sm1), k + 1) = OnY(line, col, 1)
    BY <1>4, OnNext
  <2> QED
    BY <1>2, <2>1, <2>2
<1>8. IsRight(WordOf(ch0), line, col)
  <2>1. PICK l \in Looks : InRow(line) => RowIs(line - TOP_LINES, l)
    <3>1. CASE InRow(line)
      <4>1. line - TOP_LINES \in Rows
        BY <1>4, <3>1, Sizes DEF InRow, Rows, Lines
      <4> QED
        BY <1>2, <4>1 DEF Rowwise
    <3>2. CASE ~InRow(line)
      BY <3>2, LookExists
    <3> QED
      BY <3>1, <3>2
  <2>2. IsOf(WordOf(ch0), l, line, col)
    <3> HIDE DEF line, col
    <3> QED
      BY <1>2, <1>4, <1>5, <2>1, WordIs
  <2> QED
    BY <2>2 DEF IsRight
<1> DEFINE word == WordOf(ch0)
<1>9. word \in Words
  <2> HIDE DEF line, col, word
  <2> QED
    BY <1>4, <1>8, RightIsWord DEF word
<1> HIDE DEF word
<1>10. /\ pixels' = Append(pixels, word) /\ pixels \in Seq(Words) /\ Len(pixels) <= FIFO_WORDS
       /\ k = Len(pixels)
  BY <1>1, <1>2 DEF word, Types
<1> HIDE DEF k
<1>11. /\ pixels' \in Seq(Words) /\ Len(pixels') = k + 1
       /\ \A i \in 1 .. k : pixels'[i] = pixels[i]
       /\ pixels'[k + 1] = word
  BY <1>9, <1>10, AppendProperties
<1>12. Types'
  <2>1. Len(pixels') <= FIFO_WORDS
    BY <1>2, <1>4, <1>10, <1>11, Sizes
  <2> QED
    BY <1>1, <1>2, <1>3, <1>6, <1>11, <2>1 DEF Types
<1>13. FifoOf(pixels', sm1)
  <2>1. ASSUME NEW i \in 1 .. Len(pixels')
        PROVE  IsRight(pixels'[i], OnY(AtY(sm1), AtX(sm1), i - 1), OnX(AtX(sm1), i - 1))
    <3>1. CASE i = k + 1
      <4>1. i - 1 = k
        BY <1>4, <3>1
      <4> QED
        BY <1>8, <1>11, <3>1, <4>1 DEF word
    <3>2. CASE i # k + 1
      <4>1. i \in 1 .. k /\ i \in 1 .. Len(pixels) /\ pixels'[i] = pixels[i]
        BY <1>4, <1>10, <1>11, <3>2
      <4> QED
        BY <1>1, <1>2, <4>1 DEF Scans, FifoOf
    <3> QED
      BY <3>1, <3>2
  <2> QED
    BY <2>1 DEF FifoOf
<1>14. Scans'
  BY <1>1, <1>2, <1>7, <1>11, <1>13 DEF Scans, Position
<1>15. Counter(sm1)' /\ NotYet'
  BY <1>1, <1>2 DEF NotYet
<1> QED
  BY <1>12, <1>14, <1>15 DEF InStepNow

LEMMA Ch2LoadsInStep == InStepNow /\ Ch2Loads => InStepNow'
<1> SUFFICES ASSUME InStepNow, Ch2Loads PROVE InStepNow'
  OBVIOUS
<1>1. Types /\ Counter(sm1) /\ NotYet /\ Scans
  BY DEF InStepNow
<1>2. /\ UNCHANGED <<power, pixels, ch1, counts, sm1, glass, irq, front, borders, back, task>>
      /\ power = "on" /\ ch0.remaining = 0
      /\ ch0' = [segment |-> next, remaining |-> Segment(next).words] /\ next' = next + 1
  BY DEF Ch2Loads
<1> DEFINE line == OnY(AtY(sm1), AtX(sm1), Len(pixels))
           col == OnX(AtX(sm1), Len(pixels))
<1>3. SendsOf(ch0, next, line, col) /\ ch0 \in [segment : Nat, remaining : Nat] /\ next \in Nat
      /\ line \in Lines /\ col \in Cols
  BY <1>1, <1>2, PlaceIs DEF Scans, Position, Types
<1>4. SendsOf(ch0', next', line, col) /\ ch0' \in [segment : Nat, remaining : Nat] /\ next' \in Nat
  <2> HIDE DEF line, col
  <2> QED
    BY <1>2, <1>3, SendsLoads
<1>5. Types'
  BY <1>1, <1>2, <1>4 DEF Types
<1>6. Scans'
  BY <1>1, <1>2, <1>4 DEF Scans, Position
<1> QED
  BY <1>1, <1>2, <1>5, <1>6 DEF InStepNow, NotYet

LEMMA Ch0RewindsInStep ==
  ASSUME InStepNow, Ch0Rewinds
  PROVE  /\ InStepNow'
         /\ ch0.segment = RELOAD_INDEX /\ ch0.remaining = 1
         /\ OnY(AtY(sm1), AtX(sm1), Len(pixels)) = 0 /\ OnX(AtX(sm1), Len(pixels)) = 0
<1>1. Types /\ Counter(sm1) /\ NotYet /\ Scans
  BY DEF InStepNow
<1>2. /\ UNCHANGED <<power, pixels, ch1, counts, sm1, glass, front, borders, back, task>>
      /\ power = "on" /\ ch0.remaining > 0 /\ Segment(ch0.segment).source = "Reload"
      /\ ch0' = [ch0 EXCEPT !.remaining = 0] /\ next' = 0 /\ irq' \in BOOLEAN
  BY DEF Ch0Rewinds
<1> DEFINE line == OnY(AtY(sm1), AtX(sm1), Len(pixels))
           col == OnX(AtX(sm1), Len(pixels))
<1>3. SendsOf(ch0, next, line, col) /\ ch0 \in [segment : Nat, remaining : Nat] /\ next \in Nat
  BY <1>1, <1>2 DEF Scans, Position, Types
<1>4. /\ SendsOf(ch0', next', line, col) /\ ch0' \in [segment : Nat, remaining : Nat] /\ next' \in Nat
      /\ ch0.segment = RELOAD_INDEX /\ ch0.remaining = 1 /\ line = 0 /\ col = 0
  <2> HIDE DEF line, col
  <2> QED
    BY <1>2, <1>3, SendsAnew
<1>5. Types'
  BY <1>1, <1>2, <1>4 DEF Types
<1>6. Scans'
  BY <1>1, <1>2, <1>4 DEF Scans, Position
<1> QED
  BY <1>1, <1>2, <1>4, <1>5, <1>6 DEF InStepNow, NotYet

LEMMA PullsIs ==
  ASSUME NEW s, Counter(s)
  PROVE  Pulls(s) \in 1 .. Counts
BY Sizes DEF Counter, Pulls, Counts

LEMMA OnCountNext ==
  ASSUME NEW q \in 1 .. Counts, NEW k \in 0 .. FRAME_LINES
  PROVE  /\ OnCount(q, k) \in 1 .. Counts
         /\ OnCount(q, k + 1) = IF OnCount(q, k) = Counts THEN 1 ELSE OnCount(q, k) + 1
         /\ OnCount(q, k + 1) = OnCount(OnCount(q, 1), k)
BY Sizes DEF OnCount, Counts

LEMMA Ch1SendsInStep == InStepNow /\ Ch1Sends => InStepNow'
<1> SUFFICES ASSUME InStepNow, Ch1Sends PROVE InStepNow'
  OBVIOUS
<1>1. Types /\ Counter(sm1) /\ NotYet /\ Scans
  BY DEF InStepNow
<1>2. /\ UNCHANGED <<power, ch0, next, pixels, sm1, glass, irq, front, borders, back, task>>
      /\ power = "on" /\ Len(counts) < FIFO_WORDS
      /\ counts' = Append(counts, Sm1FrameData[ch1])
      /\ ch1' = IF ch1 = Counts THEN 1 ELSE ch1 + 1
  BY CountsAre DEF Ch1Sends, HasRoom
<1> DEFINE k == Len(counts)  q == Pulls(sm1)  count == Sm1FrameData[ch1]
<1>3. counts \in Seq(Nat) /\ k \in 0 .. FRAME_LINES - 1 /\ q \in 1 .. Counts
  BY <1>1, <1>2, PullsIs, LenProperties, Sizes DEF Types
<1>4. /\ ch1 = OnCount(q, k)
      /\ \A i \in 1 .. k : counts[i] = Sm1FrameData[OnCount(q, i - 1)]
  BY <1>1, <1>2 DEF Scans, CountsOf
<1> HIDE DEF q
<1>5. ch1 \in 1 .. Counts /\ ch1' = OnCount(q, k + 1)
  <2>1. k \in 0 .. FRAME_LINES
    BY <1>3, Sizes
  <2> QED
    BY <1>2, <1>3, <1>4, <2>1, OnCountNext
<1>6. count \in Nat
  <2>1. ch1 \in 1 .. Len(Sm1FrameData) /\ Sm1FrameData \in Seq(Nat)
    BY <1>5, CountsAre
  <2> QED
    BY <2>1, ElementOfSeq
<1> HIDE DEF count
<1>7. counts' = Append(counts, count) /\ k = Len(counts)
  BY <1>2 DEF count
<1> HIDE DEF k
<1>8. /\ counts' \in Seq(Nat) /\ Len(counts') = k + 1
      /\ \A i \in 1 .. k : counts'[i] = counts[i]
      /\ counts'[k + 1] = count
  BY <1>3, <1>6, <1>7, AppendProperties
<1>9. CountsOf(sm1, ch1', counts')
  <2>1. ASSUME NEW i \in 1 .. Len(counts') PROVE counts'[i] = Sm1FrameData[OnCount(q, i - 1)]
    <3>1. CASE i = k + 1
      <4>1. i - 1 = k
        BY <1>3, <3>1
      <4> QED
        BY <1>4, <1>8, <3>1, <4>1 DEF count
    <3>2. CASE i # k + 1
      <4>1. i \in 1 .. k
        BY <1>3, <1>8, <3>2
      <4> QED
        BY <1>4, <1>8, <4>1
    <3> QED
      BY <3>1, <3>2
  <2> QED
    BY <1>5, <1>8, <2>1 DEF CountsOf, q
<1>10. Types'
  <2>1. Len(counts') <= FIFO_WORDS
    BY <1>2, <1>3, <1>7, <1>8, Sizes
  <2> QED
    BY <1>1, <1>2, <1>8, <2>1 DEF Types
<1>11. Scans'
  BY <1>1, <1>2, <1>9 DEF Scans
<1> QED
  BY <1>1, <1>2, <1>10, <1>11 DEF InStepNow, NotYet

-----------------------------------------------------------------------------
(* One pixel clock.                                                        *)
GlassType == [x : Nat, y : Int, hsync : 0 .. 1, word : Words, fits : SUBSET Looks,
              excused : BOOLEAN, torn : BOOLEAN]

LEMMA PlacedIs ==
  ASSUME glass \in GlassType, NEW word \in Words, NEW pins \in 0 .. 3, NEW g, g = Placed(word, pins)
  PROVE  /\ g \in GlassType
         /\ g.x = IF Falls(pins) THEN 0 ELSE Upto(glass.x + 1, LINE_WORDS)
         /\ g.y = IF ~Falls(pins) THEN glass.y ELSE IF Vsync(pins) = 1 THEN 0
                  ELSE IF glass.y = -1 THEN -1 ELSE Upto(glass.y + 1, FRAME_LINES)
         /\ g.hsync = Hsync(pins) /\ g.word = word
         /\ g.fits = glass.fits /\ g.excused = glass.excused /\ g.torn = glass.torn
<1> DEFINE x == IF Falls(pins) THEN 0 ELSE Upto(glass.x + 1, LINE_WORDS)
           y == IF ~Falls(pins) THEN glass.y ELSE IF Vsync(pins) = 1 THEN 0
                ELSE IF glass.y = -1 THEN -1 ELSE Upto(glass.y + 1, FRAME_LINES)
           h == Hsync(pins)
<1>1. x \in Nat /\ y \in Int /\ h \in 0 .. 1
  BY Sizes DEF Upto, Hsync, GlassType
<1>2. Placed(word, pins) = [glass EXCEPT !.x = x, !.y = y, !.hsync = h, !.word = word]
  BY DEF Placed
<1> HIDE DEF x, y, h
<1>3. g = [glass EXCEPT !.x = x, !.y = y, !.hsync = h, !.word = word]
  BY <1>2
<1>4. g \in GlassType
  BY <1>1, <1>3 DEF GlassType
<1>5. g.x = x /\ g.y = y /\ g.hsync = h /\ g.word = word
      /\ g.fits = glass.fits /\ g.excused = glass.excused /\ g.torn = glass.torn
  BY <1>1, <1>3 DEF GlassType
<1> QED
  BY <1>4, <1>5 DEF x, y, h

LEMMA SampledIs ==
  ASSUME glass \in GlassType, task.late \in BOOLEAN, NEW word \in Words, NEW pins \in 0 .. 3,
         NEW g, g = Placed(word, pins), NEW s, s = Sampled(word, pins)
  PROVE  /\ s \in GlassType /\ s.x = g.x /\ s.y = g.y /\ s.hsync = g.hsync /\ s.word = g.word
         /\ Falls(pins) /\ Vsync(pins) = 1
              => s.fits = Looks /\ s.excused = task.late /\ s.torn = (glass.fits = {})
         /\ ~(Falls(pins) /\ Vsync(pins) = 1)
              => s.fits = Fitting(g) /\ s.excused = glass.excused /\ s.torn = glass.torn
<1>1. /\ g \in GlassType /\ g.fits = glass.fits /\ g.excused = glass.excused /\ g.torn = glass.torn
  BY PlacedIs
<1>2. Fitting(g) \in SUBSET Looks
  BY <1>1 DEF Fitting, GlassType
<1>3. s = IF Falls(pins) /\ Vsync(pins) = 1
          THEN [g EXCEPT !.fits = Looks, !.excused = task.late, !.torn = (glass.fits = {})]
          ELSE [g EXCEPT !.fits = Fitting(g)]
  BY Zenon DEF Sampled
<1>4. CASE Falls(pins) /\ Vsync(pins) = 1
  <2> DEFINE torn == glass.fits = {}
  <2>1. torn \in BOOLEAN
    OBVIOUS
  <2>2. s = [g EXCEPT !.fits = Looks, !.excused = task.late, !.torn = torn]
    BY <1>3, <1>4
  <2> HIDE DEF torn
  <2>3. s \in GlassType
    BY <1>1, <2>1, <2>2 DEF GlassType
  <2>4. s.x = g.x /\ s.y = g.y /\ s.hsync = g.hsync /\ s.word = g.word
        /\ s.fits = Looks /\ s.excused = task.late /\ s.torn = torn
    BY <1>1, <2>1, <2>2 DEF GlassType
  <2> QED
    BY <1>4, <2>3, <2>4 DEF torn
<1>5. CASE ~(Falls(pins) /\ Vsync(pins) = 1)
  <2>1. s = [g EXCEPT !.fits = Fitting(g)]
    BY <1>3, <1>5
  <2>2. s \in GlassType
    BY <1>1, <1>2, <2>1 DEF GlassType
  <2>3. s.x = g.x /\ s.y = g.y /\ s.hsync = g.hsync /\ s.word = g.word
        /\ s.fits = Fitting(g) /\ s.excused = g.excused /\ s.torn = g.torn
    BY <1>1, <2>1 DEF GlassType
  <2> QED
    BY <1>1, <1>5, <2>2, <2>3
<1> QED
  BY <1>4, <1>5

LEMMA PlaceBefore ==
  ASSUME NEW y \in Lines, NEW x \in Cols
  PROVE  /\ OnY(LineBefore(OnY(y, x, 1)), OnX(x, 1), LINE_WORDS - 1) = y
         /\ OnX(OnX(x, 1), LINE_WORDS - 1) = x
         /\ OnX(x, 0) = x /\ OnY(y, x, 0) = y
BY Sizes DEF OnY, OnX, LineBefore, LineAfter, Lines, Cols

(* Both FIFOs are full while the scan runs: the clock moves SM1 on and     *)
(* takes a word out.                                                       *)
LEMMA ClockIs ==
  ASSUME InStepNow, Clock, power = "on"
  PROVE  /\ UNCHANGED <<power, ch0, next, ch1, irq, front, borders, back>>
         /\ sm1' = Sm1Steps /\ Counter(sm1')
         /\ AtX(sm1') = OnX(AtX(sm1), 1) /\ AtY(sm1') = OnY(AtY(sm1), AtX(sm1), 1)
         /\ Len(pixels) = FIFO_WORDS /\ pixels' = Tail(pixels)
         /\ counts' \in Seq(Nat) /\ Len(counts') <= FIFO_WORDS
         /\ CountsOf(sm1', ch1, counts')
         /\ glass' = Sampled(Head(pixels), sm1'.pins)
         /\ task' = IF Falls(sm1'.pins) THEN [task EXCEPT !.moved = task.pc # "copy"] ELSE task
         /\ Falls(sm1'.pins) => task.moved
<1>1. Types /\ Counter(sm1) /\ NotYet /\ Scans
  BY DEF InStepNow
<1>2. /\ UNCHANGED <<power, ch0, next, ch1, irq, front, borders, back>>
      /\ ~(Len(pixels) < FIFO_WORDS) /\ ~(Len(counts) < FIFO_WORDS)
  BY DEF Clock, DmaIsDone, HasRoom
<1>3. pixels \in Seq(Words) /\ counts \in Seq(Nat) /\ Len(pixels) = FIFO_WORDS /\ Len(counts) = FIFO_WORDS
  <2>1. pixels \in Seq(Words) /\ counts \in Seq(Nat) /\ Len(pixels) <= FIFO_WORDS /\ Len(counts) <= FIFO_WORDS
    BY <1>1 DEF Types
  <2> QED
    BY <1>2, <2>1, LenProperties, Sizes
<1>4. pixels # <<>> /\ counts # <<>>
  BY <1>3, Sizes
<1>5. Runs
  BY <1>4 DEF Runs
<1>6. /\ sm1' = Sm1Steps /\ counts' = IF Here.op = "pull" THEN Tail(counts) ELSE counts
      /\ Falls(sm1'.pins) => task.moved
      /\ pixels' = Tail(pixels) /\ glass' = Sampled(Head(pixels), sm1'.pins)
      /\ task' = IF Falls(sm1'.pins) THEN [task EXCEPT !.moved = task.pc # "copy"] ELSE task
  BY <1>4, <1>5, Zenon DEF Clock
<1>7. CountsOf(sm1, ch1, counts)
  BY <1>1 DEF Scans
<1>8. Pulls(sm1) \in 1 .. Counts
  BY <1>1, PullsIs
<1>9. Head(counts) = Sm1FrameData[Pulls(sm1)] /\ Head(counts) \in Nat
  <2>1. Head(counts) = counts[1] /\ 1 \in 1 .. Len(counts)
    BY <1>3, <1>4, HeadTailProperties, Sizes
  <2>2. counts[1] = Sm1FrameData[OnCount(Pulls(sm1), 1 - 1)]
    BY <1>7, <2>1, Zenon DEF CountsOf
  <2>3. OnCount(Pulls(sm1), 1 - 1) = Pulls(sm1)
    BY <1>8, Sizes DEF OnCount, Counts
  <2>4. counts[1] \in Nat
    BY <1>3, <2>1, ElementOfSeq
  <2> QED
    BY <2>1, <2>2, <2>3, <2>4
<1>10. sm1.pc \in 1 .. 13 /\ sm1.y \in Nat
  BY <1>1 DEF Counter
<1>11. /\ sm1.pc = 3 => Head(counts) = LINE_WORDS - 7
       /\ sm1.pc = 6 => Head(counts) = V_NORMAL_LINES - 1
       /\ sm1.pc = 10 => Head(counts) = LINE_WORDS - 6
  <2>1. sm1.pc = 3 => Pulls(sm1) = 1
    BY <1>10 DEF Pulls
  <2>2. sm1.pc = 6 => Pulls(sm1) = 2
    BY <1>10 DEF Pulls
  <2>3. sm1.pc = 10 => Pulls(sm1) \in 3 .. Counts
    BY <1>1, <1>10, Sizes DEF Pulls, Counts, Counter
  <2> QED
    BY <1>9, <2>1, <2>2, <2>3, CountsAre
<1>12. /\ Counter(sm1') /\ AtX(sm1') = OnX(AtX(sm1), 1) /\ AtY(sm1') = OnY(AtY(sm1), AtX(sm1), 1)
       /\ Pulls(sm1') = IF sm1.pc \in {3, 6, 10} THEN OnCount(Pulls(sm1), 1) ELSE Pulls(sm1)
  BY <1>1, <1>6, <1>11, CounterStep
<1>13. Here.op = "pull" <=> sm1.pc \in {3, 6, 10}
  <2>1. \/ sm1.pc \in {3, 6, 10} /\ Here.op = "pull"
        \/ sm1.pc \notin {3, 6, 10} /\ Here.op \in {"set", "mov x", "mov y", "jmp x", "jmp y"}
    <3>1. \/ sm1.pc \in {3, 6, 10} \/ sm1.pc \in {1, 2, 8, 9} \/ sm1.pc \in {4, 11}
          \/ sm1.pc = 7 \/ sm1.pc \in {5, 12} \/ sm1.pc = 13
      BY <1>10
    <3> QED
      BY <1>10, <3>1, HereIs
  <2> QED
    BY <2>1
<1>14. counts' \in Seq(Nat) /\ Len(counts') <= FIFO_WORDS /\ CountsOf(sm1', ch1, counts')
  <2>1. CASE sm1.pc \notin {3, 6, 10}
    <3>1. counts' = counts /\ Pulls(sm1') = Pulls(sm1)
      BY <1>6, <1>12, <1>13, <2>1
    <3>2. Len(counts') <= FIFO_WORDS
      BY <1>3, <3>1, Sizes
    <3> QED
      BY <1>3, <1>7, <3>1, <3>2 DEF CountsOf
  <2>2. CASE sm1.pc \in {3, 6, 10}
    <3> DEFINE q == Pulls(sm1)
    <3>1. counts' = Tail(counts) /\ Pulls(sm1') = OnCount(q, 1)
      BY <1>6, <1>12, <1>13, <2>2
    <3>2. counts' \in Seq(Nat) /\ Len(counts') = FIFO_WORDS - 1
          /\ \A i \in 1 .. FIFO_WORDS - 1 : counts'[i] = counts[i + 1]
      BY <1>3, <1>4, <3>1, HeadTailProperties, Sizes
    <3>3. ch1 = OnCount(q, FIFO_WORDS) /\ \A i \in 1 .. FIFO_WORDS : counts[i] = Sm1FrameData[OnCount(q, i - 1)]
      BY <1>3, <1>7 DEF CountsOf
    <3> HIDE DEF q
    <3>4. \A k \in 0 .. FRAME_LINES : OnCount(q, k + 1) = OnCount(OnCount(q, 1), k)
      BY <1>8, OnCountNext DEF q
    <3>5. ch1 = OnCount(OnCount(q, 1), FIFO_WORDS - 1)
      <4>1. FIFO_WORDS - 1 \in 0 .. FRAME_LINES /\ (FIFO_WORDS - 1) + 1 = FIFO_WORDS
        BY Sizes
      <4> QED
        BY <3>3, <3>4, <4>1
    <3>6. ASSUME NEW i \in 1 .. FIFO_WORDS - 1
          PROVE  counts'[i] = Sm1FrameData[OnCount(OnCount(q, 1), i - 1)]
      <4>1. i + 1 \in 1 .. FIFO_WORDS /\ i - 1 \in 0 .. FRAME_LINES /\ (i - 1) + 1 = i /\ (i + 1) - 1 = i
        BY Sizes
      <4>2. counts'[i] = Sm1FrameData[OnCount(q, i)]
        BY <3>2, <3>3, <4>1
      <4> QED
        BY <3>4, <4>1, <4>2
    <3> QED
      <4>1. Len(counts') <= FIFO_WORDS
        BY <3>2, Sizes
      <4> QED
        BY <3>1, <3>2, <3>5, <3>6, <4>1 DEF CountsOf
  <2> QED
    BY <2>1, <2>2
<1> QED
  BY <1>2, <1>3, <1>6, <1>12, <1>14

(* A line falls in when SM1 is at its first word, a frame in the first.    *)
LEMMA FallsIs ==
  ASSUME InStepNow, Clock, power = "on"
  PROVE  /\ Falls(sm1'.pins) <=> AtX(sm1') = 0
         /\ Falls(sm1'.pins) <=> AtX(sm1) = LINE_WORDS - 1
         /\ (Falls(sm1'.pins) /\ Vsync(sm1'.pins) = 1) <=> (AtX(sm1') = 0 /\ AtY(sm1') = 0)
<1>1. Counter(sm1) /\ Counter(sm1') /\ AtX(sm1') = OnX(AtX(sm1), 1) /\ GlassOf(glass, sm1)
  BY ClockIs DEF InStepNow, Scans
<1>2. AtX(sm1) \in Cols /\ AtX(sm1') \in Cols /\ AtY(sm1') \in Lines
  BY <1>1, SyncsAre DEF Cols, Lines
<1>3. glass.hsync = IF AtX(sm1) = LINE_WORDS - 1 THEN 1 ELSE 0
  BY <1>1, SyncsAre DEF GlassOf
<1>4. Hsync(sm1'.pins) = IF AtX(sm1') = LINE_WORDS - 1 THEN 1 ELSE 0
  BY <1>1, SyncsAre
<1>5. AtX(sm1') = 0 => Vsync(sm1'.pins) = IF AtY(sm1') = 0 THEN 1 ELSE 0
  BY <1>1, SyncsAre
<1>6. AtX(sm1') = 0 <=> AtX(sm1) = LINE_WORDS - 1
  BY <1>1, <1>2, Sizes DEF OnX, Cols
<1>7. Falls(sm1'.pins) <=> AtX(sm1') = 0
  BY <1>2, <1>3, <1>4, <1>6, Sizes DEF Falls
<1> QED
  BY <1>5, <1>6, <1>7

LEMMA ClockOnInStep ==
  ASSUME InStepNow, Clock, power = "on"
  PROVE  InStepNow'
<1>1. Types /\ Counter(sm1) /\ NotYet /\ Scans
  BY DEF InStepNow
<1>2. /\ UNCHANGED <<power, ch0, next, ch1, irq, front, borders, back>>
      /\ Counter(sm1') /\ AtX(sm1') = OnX(AtX(sm1), 1) /\ AtY(sm1') = OnY(AtY(sm1), AtX(sm1), 1)
      /\ Len(pixels) = FIFO_WORDS /\ pixels' = Tail(pixels)
      /\ counts' \in Seq(Nat) /\ Len(counts') <= FIFO_WORDS /\ CountsOf(sm1', ch1, counts')
      /\ glass' = Sampled(Head(pixels), sm1'.pins)
      /\ task' = IF Falls(sm1'.pins) THEN [task EXCEPT !.moved = task.pc # "copy"] ELSE task
  BY ClockIs
<1> DEFINE y == AtY(sm1)  x == AtX(sm1)  y1 == AtY(sm1')  x1 == AtX(sm1')
           pins == sm1'.pins  g == Placed(Head(pixels), pins)
<1>3. /\ y \in Lines /\ x \in Cols /\ y1 \in Lines /\ x1 \in Cols /\ pins \in 0 .. 3
      /\ x1 = OnX(x, 1) /\ y1 = OnY(y, x, 1)
  BY <1>1, <1>2, SyncsAre DEF Counter, Lines, Cols
<1>4. pixels \in Seq(Words) /\ pixels # <<>> /\ Head(pixels) = pixels[1] /\ 1 \in 1 .. Len(pixels)
      /\ Head(pixels) \in Words
  <2>1. pixels \in Seq(Words) /\ pixels # <<>> /\ 1 \in 1 .. Len(pixels)
    <3>1. pixels \in Seq(Words) /\ Len(pixels) = FIFO_WORDS
      BY <1>1, <1>2 DEF Types
    <3> QED
      BY <3>1, Sizes
  <2> QED
    BY <2>1, HeadTailProperties
<1>5. /\ pixels' \in Seq(Words) /\ Len(pixels') = FIFO_WORDS - 1
      /\ \A i \in 1 .. FIFO_WORDS - 1 : pixels'[i] = pixels[i + 1]
  BY <1>2, <1>4, HeadTailProperties, Sizes
<1>6. glass \in GlassType /\ task.late \in BOOLEAN /\ task \in TaskType
  BY <1>1 DEF Types, GlassType, TaskType
<1>7. /\ g.x = IF Falls(pins) THEN 0 ELSE Upto(glass.x + 1, LINE_WORDS)
      /\ g.y = IF ~Falls(pins) THEN glass.y ELSE IF Vsync(pins) = 1 THEN 0
               ELSE IF glass.y = -1 THEN -1 ELSE Upto(glass.y + 1, FRAME_LINES)
      /\ g.hsync = Hsync(pins) /\ g.word = Head(pixels) /\ g.fits = glass.fits
  BY <1>3, <1>4, <1>6, PlacedIs
<1>8. /\ glass' \in GlassType /\ glass'.x = g.x /\ glass'.y = g.y /\ glass'.hsync = g.hsync
      /\ glass'.word = g.word
      /\ ~(Falls(pins) /\ Vsync(pins) = 1)
           => glass'.fits = Fitting(g) /\ glass'.excused = glass.excused /\ glass'.torn = glass.torn
  BY <1>2, <1>3, <1>4, <1>6, SampledIs
<1> HIDE DEF g
<1>9. /\ Falls(pins) <=> x1 = 0
      /\ Falls(pins) <=> x = LINE_WORDS - 1
      /\ (Falls(pins) /\ Vsync(pins) = 1) <=> (x1 = 0 /\ y1 = 0)
  BY FallsIs
<1>10. GlassOf(glass, sm1) /\ FifoOf(pixels, sm1) /\ Position(ch0, next, sm1, FIFO_WORDS)
       /\ task.pc # "trigger"
  BY <1>1, <1>2 DEF Scans
<1>11. /\ glass.x = x /\ glass.y \in {-1, y}
       /\ glass.y = -1 => glass.fits = Looks /\ ~glass.torn
  BY <1>10 DEF GlassOf
<1>12. glass'.x = x1
  BY <1>3, <1>7, <1>8, <1>9, <1>11, Sizes DEF Upto, OnX, Cols
<1>13. glass'.y \in {-1, y1}
  <2>1. CASE ~Falls(pins)
    BY <1>3, <1>7, <1>8, <1>9, <1>11, <2>1, Sizes DEF OnY, Cols
  <2>2. CASE Falls(pins) /\ Vsync(pins) = 1
    BY <1>7, <1>8, <1>9, <2>2
  <2>3. CASE Falls(pins) /\ Vsync(pins) # 1
    <3>1. y1 = y + 1 /\ y + 1 <= FRAME_LINES
      BY <1>3, <1>9, <2>3, Sizes DEF OnY, LineAfter, Cols, Lines
    <3> QED
      BY <1>3, <1>7, <1>8, <1>11, <2>3, <3>1, Sizes DEF Upto, Lines
  <2> QED
    BY <2>1, <2>2, <2>3
<1>14. glass'.y = -1 => glass'.fits = Looks /\ ~glass'.torn
  <2>1. ASSUME glass'.y = -1 PROVE glass.y = -1 /\ ~(Falls(pins) /\ Vsync(pins) = 1)
    <3>1. y \in Int /\ y >= 0
      BY <1>3, Sizes DEF Lines
    <3> QED
      BY <1>7, <1>8, <1>11, <2>1, <3>1, Sizes DEF Upto
  <2>2. ASSUME glass'.y = -1 PROVE Fitting(g) = Looks
    BY <1>7, <1>8, <1>11, <2>1, <2>2 DEF Fitting, Visible
  <2> QED
    BY <1>8, <1>11, <2>1, <2>2
<1>15. IsRight(glass'.word, OnY(LineBefore(y1), x1, LINE_WORDS - 1), OnX(x1, LINE_WORDS - 1))
  <2>1. OnY(LineBefore(y1), x1, LINE_WORDS - 1) = y /\ OnX(x1, LINE_WORDS - 1) = x
        /\ OnX(x, 0) = x /\ OnY(y, x, 0) = y
    BY <1>3, PlaceBefore
  <2>2. IsRight(pixels[1], OnY(y, x, 1 - 1), OnX(x, 1 - 1))
    BY <1>4, <1>10, Zenon DEF FifoOf
  <2> HIDE DEF y, x, y1, x1
  <2> QED
    BY <1>4, <1>7, <1>8, <2>1, <2>2
<1>16. GlassOf(glass', sm1')
  BY <1>7, <1>8, <1>12, <1>13, <1>14, <1>15 DEF GlassOf
<1>17. /\ task' \in TaskType /\ task'.pc = task.pc /\ task'.due = task.due /\ task'.late = task.late
       /\ task'.row = task.row
  BY <1>2, <1>6 DEF TaskType
<1>18. Types'
  <2>1. Len(pixels') <= FIFO_WORDS
    BY <1>5, Sizes
  <2> QED
    BY <1>1, <1>2, <1>5, <1>8, <1>17, <2>1 DEF Types, GlassType
<1>19. NotYet'
  BY <1>1, <1>2 DEF NotYet
<1>20. \A k \in 0 .. LINE_WORDS - 1 :
         OnX(x, k + 1) = OnX(x1, k) /\ OnY(y, x, k + 1) = OnY(y1, x1, k)
  BY <1>3, OnNext
<1> HIDE DEF x, y, x1, y1
<1>21. Position(ch0', next', sm1', Len(pixels'))
  <2>1. FIFO_WORDS - 1 \in 0 .. LINE_WORDS - 1 /\ (FIFO_WORDS - 1) + 1 = FIFO_WORDS
    BY Sizes
  <2>2. OnX(x, FIFO_WORDS) = OnX(x1, FIFO_WORDS - 1) /\ OnY(y, x, FIFO_WORDS) = OnY(y1, x1, FIFO_WORDS - 1)
    BY <1>20, <2>1
  <2> QED
    BY <1>2, <1>5, <1>10, <2>2 DEF Position, x, y, x1, y1
<1>22. FifoOf(pixels', sm1')
  <2>1. ASSUME NEW i \in 1 .. FIFO_WORDS - 1
        PROVE  IsRight(pixels'[i], OnY(y1, x1, i - 1), OnX(x1, i - 1))
    <3>1. i + 1 \in 1 .. Len(pixels) /\ i - 1 \in 0 .. LINE_WORDS - 1 /\ (i - 1) + 1 = i /\ (i + 1) - 1 = i
      <4>1. Len(pixels) = FIFO_WORDS
        BY <1>2
      <4> QED
        BY <4>1, Sizes
    <3>2. IsRight(pixels[i + 1], OnY(y, x, (i + 1) - 1), OnX(x, (i + 1) - 1))
      BY <1>10, <3>1, Zenon DEF FifoOf, x, y
    <3>3. OnX(x, i) = OnX(x1, i - 1) /\ OnY(y, x, i) = OnY(y1, x1, i - 1)
      BY <1>20, <3>1
    <3> QED
      BY <1>5, <3>1, <3>2, <3>3
  <2> QED
    BY <1>5, <2>1 DEF FifoOf, x1, y1
<1>23. Scans'
  BY <1>2, <1>10, <1>16, <1>17, <1>21, <1>22 DEF Scans
<1> QED
  BY <1>2, <1>18, <1>19, <1>23 DEF InStepNow

(* Before that, SM1 comes as far as its first pull.                        *)
LEMMA ClockNotYetInStep ==
  ASSUME InStepNow, Clock, power # "on"
  PROVE  InStepNow'
<1>1. Types /\ Counter(sm1) /\ NotYet /\ Scans
  BY DEF InStepNow
<1>2. power = "enabled" /\ pixels = <<>> /\ counts = <<>> /\ sm1.pc \in {1, 2, 3}
  BY <1>1 DEF Clock, NotYet, Types
<1>3. Runs /\ sm1' = Sm1Steps /\ counts' = (IF Here.op = "pull" THEN Tail(counts) ELSE counts)
      /\ UNCHANGED <<power, ch0, next, ch1, irq, front, borders, back, pixels, glass, task>>
  BY <1>2 DEF Clock
<1>4. Here.op # "pull"
  BY <1>2, <1>3 DEF Runs
<1>5. sm1.pc \in {1, 2} /\ counts' = counts
  <2>1. sm1.pc = 3 => Here.op = "pull"
    BY <1>2, HereIs
  <2> QED
    BY <1>2, <1>3, <1>4, <2>1
<1>6. Counter(sm1')
  BY <1>1, <1>3, <1>5, CounterStep
<1>7. sm1'.pc \in {2, 3}
  BY <1>1, <1>3, <1>5, StepIs DEF Sm
<1>8. Types' /\ NotYet' /\ Scans'
  BY <1>1, <1>2, <1>3, <1>5, <1>7 DEF Types, NotYet, Scans
<1> QED
  BY <1>6, <1>8 DEF InStepNow

-----------------------------------------------------------------------------
(* At first nothing moves.                                                 *)
LEMMA InitInStep == DisplayInit => InStepNow
<1> SUFFICES ASSUME DisplayInit PROVE InStepNow
  OBVIOUS
<1>1. /\ power = "off" /\ next = 1 /\ ch1 = 1 /\ pixels = <<>> /\ counts = <<>>
      /\ sm1 = [pc |-> 1, osr |-> 0, x |-> 0, y |-> 0, pins |-> 0]
      /\ glass = Unsynced /\ irq = FALSE /\ task = Asleep
      /\ back = [picture |-> 0, rotated |-> FALSE]
      /\ front = [y \in Rows |-> [x \in Columns |-> BLACK_WORD]]
      /\ borders = [y \in Rows |-> <<BLACK_WORD, BLACK_WORD>>]
  BY DEF DisplayInit
<1>2. ch0 = [segment |-> 0, remaining |-> TOP_LINES * LINE_WORDS] /\ TOP_LINES * LINE_WORDS \in Nat
  BY SegmentsAre, Sizes DEF DisplayInit
<1>3. BLACK_WORD \in Words
  BY DEF Words
<1>4. /\ front \in [Rows -> [Columns -> Words]] /\ borders \in [Rows -> Words \X Words]
      /\ pixels \in Seq(Words) /\ counts \in Seq(Nat) /\ Len(pixels) = 0 /\ Len(counts) = 0
  BY <1>1, <1>3
<1>5. back \in [picture : Pictures, rotated : BOOLEAN]
  <2>1. 0 \in Pictures
    BY GeometryAssumption
  <2> QED
    BY <1>1, <2>1
<1>6. /\ task \in TaskType /\ ~task.due /\ ~task.late /\ task.row = 0 /\ task.pc = "draw"
  <2>1. 0 \in Rows /\ 0 \in 0 .. PRESENT_MAX_MISSES /\ 0 \in 0 .. SEGMENT_COUNT
    BY Sizes, SegmentsAre, ReserveAssumption DEF Rows
  <2> QED
    BY <1>1, <2>1 DEF Asleep, TaskType
<1>7. glass \in GlassType
  BY <1>1, <1>3 DEF Unsynced, GlassType
<1>8. Types
  <2>1. Len(pixels) <= FIFO_WORDS /\ Len(counts) <= FIFO_WORDS
    BY <1>4, Sizes
  <2>2. ch0 \in [segment : Nat, remaining : Nat] /\ next \in Nat
    BY <1>1, <1>2
  <2>3. power \in {"off", "enabled", "on"} /\ irq \in BOOLEAN
    BY <1>1
  <2> QED
    BY <1>4, <1>5, <1>6, <1>7, <2>1, <2>2, <2>3 DEF Types, GlassType
<1>9. Counter(sm1)
  BY <1>1, Sizes DEF Counter
<1>10. NotYet /\ Scans
  BY <1>1, <1>2, <1>6 DEF NotYet, Scans
<1> QED
  BY <1>8, <1>9, <1>10 DEF InStepNow

-----------------------------------------------------------------------------
(* The rows of the front buffer.                                           *)
LEMMA RowwiseKept ==
  ASSUME Rowwise, UNCHANGED <<front, borders>>, power' # "off" => power # "off",
         task.pc = "copy" => task'.pc = "copy",
         task'.pc = "copy" => task'.row = 0 \/ (task.pc = "copy" /\ task'.row = task.row /\ back' = back)
  PROVE  Rowwise'
<1>1. \A row, l : RowIs(row, l)' <=> RowIs(row, l)
  BY DEF RowIs
<1>2. \A l : Whole(l)' <=> Whole(l)
  BY <1>1 DEF Whole
<1> SUFFICES ASSUME power' # "off" 
             PROVE  /\ \A row \in Rows : \E l \in Looks : RowIs(row, l)'
                    /\ task'.pc # "copy" => \E l \in Looks : Whole(l)'
                    /\ task'.pc = "copy" => \A row \in 0 .. task'.row - 1 : RowIs(row, Cur)'
  BY Zenon DEF Rowwise
<1>3. /\ \A row \in Rows : \E l \in Looks : RowIs(row, l)
      /\ task.pc # "copy" => \E l \in Looks : Whole(l)
      /\ task.pc = "copy" => \A row \in 0 .. task.row - 1 : RowIs(row, Cur)
  BY Zenon DEF Rowwise
<1>4. \A row \in Rows : \E l \in Looks : RowIs(row, l)'
  BY <1>1, <1>3, Zenon
<1>5. ASSUME task'.pc # "copy" PROVE \E l \in Looks : Whole(l)'
  BY <1>2, <1>3, <1>5, Zenon
<1>6. ASSUME task'.pc = "copy", NEW row \in 0 .. task'.row - 1 PROVE RowIs(row, Cur)'
  <2>1. CASE task'.row = 0
    BY <1>6, <2>1
  <2>2. CASE task.pc = "copy" /\ task'.row = task.row /\ back' = back
    <3>1. RowIs(row, Cur) /\ Cur' = Cur
      BY <1>3, <1>6, <2>2 DEF Cur
    <3> QED
      BY <3>1 DEF RowIs
  <2> QED
    BY <1>6, <2>1, <2>2
<1> QED
  BY <1>4, <1>5, <1>6

LEMMA RowwiseCopies ==
  ASSUME Types, NotYet, Rowwise, CopyRow
  PROVE  Rowwise'
<1> DEFINE row == task.row
<1>1. task.pc = "copy" /\ power # "off" /\ row \in Rows /\ row \in Nat /\ power' = power
  <2>1. task.pc = "copy" /\ power' = power
    BY DEF CopyRow, hardware
  <2>2. row \in Rows
    BY DEF Types, TaskType
  <2> QED
    BY <2>1, <2>2, Sizes DEF NotYet, Rows
<1>2. /\ \A r \in Rows : \E l \in Looks : RowIs(r, l)
      /\ \A r \in 0 .. row - 1 : RowIs(r, Cur)
  BY <1>1 DEF Rowwise
<1>3. \A k : k = row =>
        /\ Cur \in Looks /\ Cur' = Cur /\ RowIs(k, Cur)'
        /\ \A r \in Rows \ {k}, l \in Looks : RowIs(r, l)' <=> RowIs(r, l)
  BY CopyRowFills
<1> HIDE DEF row
<1>4. PICK k : k = row
  OBVIOUS
<1>5. /\ Cur \in Looks /\ Cur' = Cur /\ RowIs(k, Cur)'
      /\ \A r \in Rows \ {k}, l \in Looks : RowIs(r, l)' <=> RowIs(r, l)
  BY <1>3, <1>4
<1>6. Cur' \in Looks
  BY <1>5
<1>7. ASSUME NEW r \in 0 .. k PROVE RowIs(r, Cur)'
  <2>1. CASE r = k
    BY <1>5, <2>1
  <2>2. CASE r # k
    <3>1. r \in Rows \ {k} /\ r \in 0 .. row - 1
      BY <1>1, <1>4, <2>2, Sizes DEF Rows
    <3>2. RowIs(r, Cur)
      BY <1>2, <3>1
    <3>3. \A l \in Looks : l = Cur => RowIs(r, l)'
      BY <1>5, <3>1, <3>2
    <3>4. \A l : l = Cur => (RowIs(r, l)' => RowIs(r, Cur)')
      BY <1>5 DEF RowIs
    <3> QED
      BY <1>5, <3>3, <3>4
  <2> QED
    BY <2>1, <2>2
<1>8. ASSUME NEW r \in Rows PROVE \E l \in Looks : RowIs(r, l)'
  <2>1. CASE r = k
    <3>1. \A l : l = Cur' => RowIs(k, l)'
      BY <1>5 DEF RowIs
    <3> QED
      BY <1>6, <2>1, <3>1
  <2>2. CASE r # k
    <3>1. PICK l \in Looks : RowIs(r, l)
      BY <1>2
    <3> QED
      BY <1>5, <2>2, <3>1
  <2> QED
    BY <2>1, <2>2
<1>9. CASE row = HEIGHT - 1
  <2>1. task'.pc # "copy"
    BY <1>9 DEF CopyRow, row, Asleep
  <2>2. \A r \in Rows : r \in 0 .. k
    BY <1>1, <1>4, <1>9, Sizes DEF Rows
  <2>3. \A l : l = Cur' => \A r \in Rows : RowIs(r, l)'
    BY <1>7, <2>2 DEF RowIs
  <2>4. \E l \in Looks : Whole(l)'
    BY <1>6, <2>3 DEF Whole
  <2> QED
    BY <1>8, <2>1, <2>4 DEF Rowwise
<1>10. CASE row # HEIGHT - 1
  <2>1. task' = [task EXCEPT !.row = row + 1, !.moved = TRUE] /\ task \in TaskType
    BY <1>10 DEF CopyRow, row, Types
  <2>2. task'.pc = "copy" /\ task'.row = row + 1
    BY <1>1, <2>1 DEF TaskType
  <2>3. \A r \in 0 .. task'.row - 1 : r \in 0 .. k
    BY <1>1, <1>4, <2>2
  <2>4. \A r \in 0 .. task'.row - 1 : RowIs(r, Cur)'
    BY <1>7, <2>3
  <2> QED
    BY <1>8, <2>2, <2>4 DEF Rowwise
<1> QED
  BY <1>9, <1>10

LEMMA RowwiseNext ==
  ASSUME InStepNow, Rowwise, [DisplayNext]_displayVars
  PROVE  Rowwise'
<1>1. Types /\ NotYet
  BY DEF InStepNow
<1>2. task \in TaskType
  BY <1>1 DEF Types
<1>3. CASE Dma \/ UNCHANGED displayVars
  BY <1>3, RowwiseKept DEF Dma, Ch0Sends, Ch2Loads, Ch0Rewinds, Ch1Sends, displayVars, hardware
<1>4. CASE Clock
  <2>1. UNCHANGED <<power, front, borders, back>>
    BY <1>4 DEF Clock
  <2>2. task' = task \/ task' = [task EXCEPT !.moved = task.pc # "copy"]
    BY <1>4 DEF Clock
  <2>3. task'.pc = task.pc /\ task'.row = task.row
    BY <1>2, <2>2 DEF TaskType
  <2> QED
    BY <2>1, <2>3, RowwiseKept
<1>5. CASE FrameIrq
  <2>1. UNCHANGED <<power, front, borders, back>> /\ task' = [task EXCEPT !.due = (task.pc = "wait")]
    BY <1>5 DEF FrameIrq, hardware
  <2>2. task'.pc = task.pc /\ task'.row = task.row
    BY <1>2, <2>1 DEF TaskType
  <2> QED
    BY <2>1, <2>2, RowwiseKept
<1>6. CASE Draw \/ Trigger \/ WaitFrame \/ Woken \/ ReadNext
  <2>1. UNCHANGED <<front, borders>> /\ (power' # "off" => power # "off") /\ task.pc # "copy"
    BY <1>1, <1>6 DEF Draw, Trigger, WaitFrame, Woken, ReadNext, hardware, NotYet
  <2>2. task'.pc # "copy"
    <3>1. \/ task' = [task EXCEPT !.pc = "present"]
          \/ task' = [task EXCEPT !.pc = "draw"]
          \/ task' = [task EXCEPT !.pc = "wait", !.misses = FirstMisses, !.due = FALSE]
          \/ task' = [task EXCEPT !.pc = "read", !.due = FALSE]
          \/ task' = [task EXCEPT !.pc = "count", !.read = next]
      BY <1>6 DEF Draw, Trigger, WaitFrame, Woken, ReadNext
    <3> QED
      BY <1>2, <3>1 DEF TaskType
  <2> QED
    BY <2>1, <2>2, RowwiseKept
<1>7. CASE Decide
  <2>1. UNCHANGED <<power, front, borders, back>> /\ task.pc = "count"
    BY <1>7 DEF Decide
  <2>2. task'.pc # "copy" \/ task'.row = 0
    BY <1>2, <1>7 DEF Decide, TaskType
  <2> QED
    BY <2>1, <2>2, RowwiseKept
<1>8. CASE CopyRow
  BY <1>1, <1>8, RowwiseCopies
<1>9. CASE PresentAtOnce
  BY <1>9 DEF PresentAtOnce, hardware, Rowwise
<1>10. CASE Start
  <2>1. /\ CopyAll /\ back' = back /\ back \in [picture : Pictures, rotated : BOOLEAN]
        /\ task' = [task EXCEPT !.pc = "trigger"]
    BY <1>1, <1>10 DEF Start, Types
  <2>2. Cur' \in Looks /\ Whole(Cur)'
    BY <2>1, CopyAllFills
  <2>3. task'.pc # "copy"
    BY <1>2, <2>1 DEF TaskType
  <2>4. \A l : l = Cur' => Whole(l)'
    BY <2>2 DEF Whole, RowIs
  <2>5. \E l \in Looks : Whole(l)'
    BY <2>2, <2>4
  <2>6. \A row \in Rows : \E l \in Looks : RowIs(row, l)'
    BY <2>5 DEF Whole
  <2> QED
    BY <2>3, <2>5, <2>6 DEF Rowwise
<1> QED
  BY <1>3, <1>4, <1>5, <1>6, <1>7, <1>8, <1>9, <1>10 DEF DisplayNext, Task

LEMMA LastRowFills ==
  ASSUME Types, NotYet, Rowwise, CopyRow, task.row = HEIGHT - 1
  PROVE  Whole(Cur)' /\ Cur' = Cur
<1> DEFINE row == HEIGHT - 1
<1>1. /\ row \in Rows /\ Cur \in Looks /\ Cur' = Cur /\ RowIs(row, Cur)'
      /\ \A r \in Rows \ {row}, l \in Looks : RowIs(r, l)' <=> RowIs(r, l)
  BY CopyRowFills
<1>2. \A r \in 0 .. row - 1 : RowIs(r, Cur)
  BY DEF Rowwise, CopyRow, NotYet
<1>3. ASSUME NEW r \in Rows PROVE RowIs(r, Cur)'
  <2>1. CASE r = row
    BY <1>1, <2>1
  <2>2. CASE r # row
    <3>1. r \in Rows \ {row} /\ r \in 0 .. row - 1
      BY <2>2, Sizes DEF Rows
    <3>2. \A l \in Looks : l = Cur => RowIs(r, l)'
      BY <1>1, <1>2, <3>1
    <3>3. \A l : l = Cur => (RowIs(r, l)' => RowIs(r, Cur)')
      BY <1>1 DEF RowIs
    <3> QED
      BY <1>1, <3>2, <3>3
  <2> QED
    BY <2>1, <2>2
<1> QED
  BY <1>1, <1>3 DEF Whole

-----------------------------------------------------------------------------
(* All of it together.                                                     *)
LEMMA InStepNext ==
  ASSUME InStepNow, Rowwise, [DisplayNext]_displayVars
  PROVE  InStepNow'
<1>1. CASE UNCHANGED displayVars
  <2>1. UNCHANGED <<power, ch0, next, pixels, ch1, counts, sm1, glass, irq, front, borders, back, task>>
    BY <1>1 DEF displayVars, hardware
  <2> QED
    BY <2>1 DEF InStepNow, Types, NotYet, Scans
<1>2. CASE Ch0Sends
  BY <1>2, Ch0SendsInStep
<1>3. CASE Ch2Loads
  BY <1>3, Ch2LoadsInStep
<1>4. CASE Ch0Rewinds
  BY <1>4, Ch0RewindsInStep
<1>5. CASE Ch1Sends
  BY <1>5, Ch1SendsInStep
<1>6. CASE Clock
  BY <1>6, ClockOnInStep, ClockNotYetInStep
<1>7. CASE FrameIrq
  BY <1>7, FrameIrqInStep
<1>8. CASE Draw \/ WaitFrame \/ Woken \/ ReadNext
  BY <1>8, TaskInStep
<1>9. CASE PresentAtOnce \/ Start
  BY <1>9, FirstInStep
<1>10. CASE Trigger
  BY <1>10, TriggerInStep
<1>11. CASE Decide
  BY <1>11, DecideInStep
<1>12. CASE CopyRow
  BY <1>12, CopyRowInStep
<1> QED
  BY <1>1, <1>2, <1>3, <1>4, <1>5, <1>6, <1>7, <1>8, <1>9, <1>10, <1>11, <1>12, Zenon
  DEF DisplayNext, Dma, Task

LEMMA FedNext ==
  ASSUME InStepNow, Fed, [DisplayNext]_displayVars
  PROVE  Fed'
<1>1. Types /\ NotYet /\ Counter(sm1)
  BY DEF InStepNow
<1>2. CASE UNCHANGED <<power, pixels, ch0>>
  BY <1>2 DEF Fed
<1>3. CASE Ch0Sends
  <2>1. pixels' = Append(pixels, WordOf(ch0)) /\ pixels \in Seq(Words)
    BY <1>1, <1>3 DEF Ch0Sends, Types
  <2>2. pixels' # <<>>
    <3>1. pixels \in Seq(Words \cup {WordOf(ch0)})
      BY <2>1
    <3> QED
      BY <2>1, <3>1, AppendProperties
  <2> QED
    BY <2>2 DEF Fed
<1>4. CASE Ch2Loads
  BY <1>4 DEF Ch2Loads, Fed
<1>5. CASE Ch0Rewinds
  <2>1. ch0.segment # 0
    BY <1>5, SegmentsAre DEF Ch0Rewinds
  <2> QED
    BY <1>5, <2>1 DEF Ch0Rewinds, Fed
<1>6. CASE Clock
  <2>1. CASE power = "on"
    <3>1. Len(pixels) = FIFO_WORDS /\ pixels' = Tail(pixels) /\ pixels \in Seq(Words)
      BY <1>1, <1>6, <2>1, ClockIs DEF Types
    <3>2. pixels # <<>> /\ Len(pixels) >= 2
      BY <3>1, Sizes
    <3>3. Len(Tail(pixels)) = Len(pixels) - 1
      BY <3>1, <3>2, HeadTailProperties
    <3>4. Len(pixels') = FIFO_WORDS - 1
      BY <3>1, <3>3
    <3>5. Len(pixels') # 0
      BY <3>1, <3>2, <3>4, Sizes
    <3> QED
      BY <3>5 DEF Fed
  <2>2. CASE power # "on"
    BY <1>6, <2>2 DEF Clock, Fed
  <2> QED
    BY <2>1, <2>2
<1>7. CASE Trigger
  <2>1. UNCHANGED <<pixels, ch0>> /\ task.pc = "trigger"
    BY <1>7 DEF Trigger
  <2>2. power # "on"
    BY <2>1 DEF InStepNow, Scans
  <2>3. ch0.segment = 0 /\ ch0.remaining = TOP_LINES * LINE_WORDS
    BY <1>1, <2>2 DEF NotYet
  <2>4. TOP_LINES * LINE_WORDS >= LINE_WORDS
    BY Blank, Sizes
  <2> QED
    BY <2>1, <2>3, <2>4, Sizes DEF Fed
<1>8. CASE PresentAtOnce \/ Start
  BY <1>8 DEF PresentAtOnce, Start, hardware, Fed
<1>9. UNCHANGED <<power, pixels, ch0>> \/ Ch0Sends \/ Ch2Loads \/ Ch0Rewinds \/ Clock \/ Trigger
      \/ PresentAtOnce \/ Start
  BY Zenon DEF DisplayNext, Dma, Task, displayVars, hardware, Ch1Sends, FrameIrq, Draw, WaitFrame, Woken, ReadNext,
         Decide, CopyRow
<1> QED
  BY <1>2, <1>3, <1>4, <1>5, <1>6, <1>7, <1>8, <1>9

-----------------------------------------------------------------------------
(* One picture to a frame.                                                 *)
LEMMA LevelIs ==
  ASSUME NEW t \in TaskType, NEW p \in BOOLEAN
  PROVE  /\ LevelOf(t, p) \in Nat
         /\ t.pc \notin {"wait", "read", "count"} /\ ~t.due => LevelOf(t, p) = IF p THEN 1 ELSE 0
         /\ t.pc = "wait" => LevelOf(t, p) = t.misses + (IF t.due THEN 1 ELSE 0) + (IF p THEN 1 ELSE 0)
         /\ t.pc \in {"read", "count"} => LevelOf(t, p) = t.misses + 1 + (IF p THEN 1 ELSE 0)
<1>1. t.misses \in Nat /\ t.due \in BOOLEAN
  BY ReserveAssumption DEF TaskType
<1> QED
  BY <1>1 DEF LevelOf

(* What a step leaves of it.                                               *)
LEMMA CleanKept ==
  ASSUME Clean, UNCHANGED pixels, UNCHANGED sm1, glass'.fits = glass.fits,
         \A l \in Looks : Keeps(l) => Keeps(l)'
  PROVE  Clean'
<1>1. PICK l \in Looks : l \in glass.fits /\ FifoIs(pixels, sm1, l) /\ Keeps(l)
  BY DEF Clean
<1>2. l \in glass'.fits /\ FifoIs(pixels', sm1', l) /\ Keeps(l)'
  BY <1>1
<1> QED
  BY <1>2 DEF Clean

LEMMA SeamlessKept ==
  ASSUME Seamless, Types, Types', UNCHANGED <<power, pixels, sm1>>,
         glass'.fits = glass.fits, glass'.torn = glass.torn, glass.excused => glass'.excused,
         Wrapped' <=> Wrapped, Level' <= Level,
         \A l \in Looks : Keeps(l) => Keeps(l)'
  PROVE  Seamless'
<1> SUFFICES ASSUME power = "on" PROVE Seamless'
  BY DEF Seamless
<1>1. Level \in Nat /\ Level' \in Nat
  <2>1. task \in TaskType /\ irq \in BOOLEAN /\ task' \in TaskType /\ irq' \in BOOLEAN
    BY DEF Types
  <2> QED
    BY <2>1, LevelIs DEF Level
<1>2. AtY(sm1') = AtY(sm1) /\ (Wrapped' <=> Wrapped)
  OBVIOUS
<1>3. CASE Wrapped
  <2>1. glass'.fits = {} => glass'.excused /\ ~glass'.torn /\ Level' <= 2
    BY <1>1, <1>3 DEF Seamless
  <2> QED
    BY <1>2, <1>3, <2>1, Zenon DEF Seamless
<1>4. CASE ~Wrapped
  <2>1. /\ AtY(sm1) < TOP_LINES => glass.fits = Looks
        /\ glass.torn => Level <= 2
        /\ Clean \/ (glass.excused /\ ~glass.torn /\ Level <= 1)
    BY <1>4, Zenon DEF Seamless
  <2>2. AtY(sm1') < TOP_LINES => glass'.fits = Looks
    BY <1>2, <2>1
  <2>3. glass'.torn => Level' <= 2
    BY <1>1, <2>1
  <2>4. Clean' \/ (glass'.excused /\ ~glass'.torn /\ Level' <= 1)
    BY <1>1, <2>1, CleanKept
  <2> QED
    BY <1>2, <1>4, <2>2, <2>3, <2>4, Zenon DEF Seamless
<1> QED
  BY <1>3, <1>4

LEMMA KeepsKept ==
  ASSUME UNCHANGED <<front, borders, sm1>>, (task.pc = "copy") <=> (task'.pc = "copy"),
         task'.pc = "copy" => back' = back /\ task'.row = task.row /\ task'.moved = task.moved
  PROVE  \A l \in Looks : Keeps(l) => Keeps(l)'
<1>1. \A l : Whole(l)' <=> Whole(l)
  BY DEF Whole, RowIs
<1>2. CASE task'.pc = "copy"
  <2>1. Cur' = Cur /\ Ahead' = Ahead
    BY <1>2 DEF Cur, Ahead
  <2> QED
    BY <1>2, <2>1 DEF Keeps
<1>3. CASE task'.pc # "copy"
  BY <1>1, <1>3 DEF Keeps
<1> QED
  BY <1>2, <1>3

(* The task on its way, and the interrupt: no frame is missed by them.     *)
LEMMA TaskSeamless ==
  ASSUME InStepNow, InStepNow', Seamless, 
         FrameIrq \/ Draw \/ WaitFrame \/ Woken \/ ReadNext \/ Ch1Sends \/ UNCHANGED displayVars
  PROVE  Seamless'
<1>1. Types /\ NotYet /\ Types'
  BY DEF InStepNow
<1>2. UNCHANGED <<power, ch0, pixels, sm1, glass, front, borders>>
  BY DEF FrameIrq, Draw, WaitFrame, Woken, ReadNext, Ch1Sends, displayVars, hardware
<1>3. task \in TaskType /\ irq \in BOOLEAN /\ task' \in TaskType /\ irq' \in BOOLEAN
      /\ (task.due => task.pc = "wait") /\ (task'.due => task'.pc = "wait")
  BY <1>1 DEF Types
<1>4. Level' <= Level /\ (task.pc = "copy" <=> task'.pc = "copy")
      /\ (task'.pc = "copy" => back' = back /\ task'.row = task.row /\ task'.moved = task.moved)
  <2>1. CASE task' = task /\ irq' = irq /\ back' = back
    <3>1. Level' = Level /\ Level \in Nat
      BY <1>3, <2>1, LevelIs DEF Level
    <3> QED
      BY <2>1, <3>1
  <2>2. CASE FrameIrq
    <3>1. irq /\ ~irq' /\ back' = back /\ task' = [task EXCEPT !.due = (task.pc = "wait")]
      BY <2>2 DEF FrameIrq
    <3>2. /\ task'.pc = task.pc /\ task'.row = task.row /\ task'.moved = task.moved
          /\ task'.misses = task.misses /\ task'.due = (task.pc = "wait")
      BY <1>3, <3>1 DEF TaskType
    <3>3. task.misses \in Nat /\ task.due \in BOOLEAN
      BY <1>3, ReserveAssumption DEF TaskType
    <3>4. Level' <= Level
      BY <1>3, <3>1, <3>2, <3>3 DEF Level, LevelOf
    <3> QED
      BY <3>1, <3>2, <3>4
  <2>3. CASE Draw
    <3>1. task.pc = "draw" /\ task' = [task EXCEPT !.pc = "present"] /\ irq' = irq
      BY <2>3 DEF Draw
    <3>2. task'.pc = "present" /\ ~task'.due /\ ~task.due
      BY <1>3, <3>1 DEF TaskType
    <3>3. Level' = Level /\ Level \in Nat
      BY <1>3, <3>1, <3>2, LevelIs DEF Level
    <3> QED
      BY <3>1, <3>2, <3>3
  <2>4. CASE WaitFrame
    <3>1. task.pc = "present" /\ task' = [task EXCEPT !.pc = "wait", !.misses = 0, !.due = FALSE]
          /\ irq' = irq
      BY <2>4 DEF WaitFrame, FirstMisses, hardware
    <3>2. task'.pc = "wait" /\ task'.misses = 0 /\ task'.due = FALSE /\ ~task.due
      BY <1>3, <3>1 DEF TaskType
    <3>3. Level' = Level /\ Level \in Nat
      <4>1. LevelOf(task, irq) = (IF irq THEN 1 ELSE 0)
        BY <1>3, <3>1, <3>2, LevelIs
      <4>2. LevelOf(task', irq') = 0 + 0 + (IF irq THEN 1 ELSE 0)
        BY <1>3, <3>1, <3>2, LevelIs
      <4> QED
        BY <4>1, <4>2 DEF Level
    <3> QED
      BY <3>1, <3>2, <3>3
  <2>5. CASE Woken
    <3>1. task.pc = "wait" /\ task.due /\ task' = [task EXCEPT !.pc = "read", !.due = FALSE]
          /\ irq' = irq
      BY <2>5 DEF Woken
    <3>2. task'.pc = "read" /\ task'.misses = task.misses
      BY <1>3, <3>1 DEF TaskType
    <3>3. Level' = Level /\ Level \in Nat
      <4>1. LevelOf(task, irq) = task.misses + 1 + (IF irq THEN 1 ELSE 0) /\ LevelOf(task, irq) \in Nat
        BY <1>3, <3>1, LevelIs
      <4>2. LevelOf(task', irq') = task.misses + 1 + (IF irq THEN 1 ELSE 0)
        BY <1>3, <3>1, <3>2, LevelIs
      <4> QED
        BY <4>1, <4>2 DEF Level
    <3> QED
      BY <3>1, <3>2, <3>3
  <2>6. CASE ReadNext
    <3>1. task.pc = "read" /\ task' = [task EXCEPT !.pc = "count", !.read = next] /\ irq' = irq
      BY <2>6 DEF ReadNext
    <3>2. task'.pc = "count" /\ task'.misses = task.misses
      BY <1>3, <3>1 DEF TaskType
    <3>3. Level' = Level /\ Level \in Nat
      <4>1. LevelOf(task, irq) = task.misses + 1 + (IF irq THEN 1 ELSE 0) /\ LevelOf(task, irq) \in Nat
        BY <1>3, <3>1, LevelIs
      <4>2. LevelOf(task', irq') = task.misses + 1 + (IF irq THEN 1 ELSE 0)
        BY <1>3, <3>1, <3>2, LevelIs
      <4> QED
        BY <4>1, <4>2 DEF Level
    <3> QED
      BY <3>1, <3>2, <3>3
  <2>7. (task' = task /\ irq' = irq /\ back' = back) \/ FrameIrq \/ Draw \/ WaitFrame \/ Woken \/ ReadNext
    BY Zenon DEF Ch1Sends, displayVars
  <2> QED
    BY <2>1, <2>2, <2>3, <2>4, <2>5, <2>6, <2>7
<1>5. \A l \in Looks : Keeps(l) => Keeps(l)'
  BY <1>2, <1>4, KeepsKept
<1>6. Wrapped' <=> Wrapped
  BY <1>2 DEF Wrapped
<1>7. glass'.fits = glass.fits /\ glass'.torn = glass.torn /\ (glass.excused => glass'.excused)
  BY <1>2
<1> QED
  BY <1>1, <1>2, <1>4, <1>5, <1>6, <1>7, SeamlessKept

(* The words on their way above the picture are black, of whatever look.   *)
LEMMA BlackIsAny ==
  ASSUME FifoOf(pixels, sm1), NEW l \in Looks,
         \A i \in 1 .. Len(pixels) : ~InRow(OnY(AtY(sm1), AtX(sm1), i - 1))
  PROVE  FifoIs(pixels, sm1, l)
BY Zenon DEF FifoOf, FifoIs, IsRight, IsOf

(* Where CH0 is, by where the panel is.                                    *)
LEMMA LastLine ==
  ASSUME NEW c \in [segment : Nat, remaining : Nat], NEW nx, NEW k \in 0 .. LINE_WORDS,
         Counter(sm1), Position(c, nx, sm1, k), AtY(sm1) = FRAME_LINES - 1
  PROVE  c.segment = 0 => c.remaining > 0
<1> DEFINE line == OnY(AtY(sm1), AtX(sm1), k)
           col == OnX(AtX(sm1), k)
<1>1. AtX(sm1) \in Cols /\ AtY(sm1) \in Lines
  BY SyncsAre DEF Cols, Lines
<1>2. line \in Lines /\ col \in Cols
  BY <1>1, OnIs
<1>3. line \in {0, FRAME_LINES - 1}
  BY <1>1, Sizes DEF OnY, LineAfter
<1>4. SendsOf(c, nx, line, col)
  BY DEF Position
<1> HIDE DEF line, col
<1> SUFFICES ASSUME c.segment = 0 PROVE c.remaining > 0
  OBVIOUS
<1>5. line <= TOP_LINES /\ c.remaining = (TOP_LINES - line) * LINE_WORDS - col
  BY <1>2, <1>4, WhereItIs
<1>6. line = 0
  BY <1>3, <1>5, Sizes
<1>7. TOP_LINES * LINE_WORDS >= LINE_WORDS + LINE_WORDS /\ TOP_LINES * LINE_WORDS \in Int
  <2>1. (TOP_LINES - 1) * LINE_WORDS >= LINE_WORDS /\ (TOP_LINES - 1) * LINE_WORDS \in Int
    BY Blank, Sizes
  <2>2. TOP_LINES * LINE_WORDS = (TOP_LINES - 1) * LINE_WORDS + LINE_WORDS
    BY Sizes
  <2> QED
    BY <2>1, <2>2, Sizes
<1>8. c.remaining = TOP_LINES * LINE_WORDS - col
  BY <1>5, <1>6, Sizes
<1> QED
  BY <1>2, <1>7, <1>8, Sizes DEF Cols

LEMMA LoadsSeamless ==
  ASSUME InStepNow, InStepNow', Seamless, Ch2Loads
  PROVE  Seamless'
<1>1. Types /\ NotYet /\ Types' /\ Counter(sm1) /\ Scans
  BY DEF InStepNow
<1>2. /\ UNCHANGED <<power, pixels, sm1, glass, front, borders, back, task, irq>>
      /\ power = "on" /\ ch0.remaining = 0
      /\ ch0' = [segment |-> next, remaining |-> Segment(next).words]
  BY DEF Ch2Loads
<1>3. ch0 \in [segment : Nat, remaining : Nat] /\ Position(ch0, next, sm1, Len(pixels))
      /\ Len(pixels) \in 0 .. LINE_WORDS
  BY <1>1, <1>2, PlaceIs DEF Types, Scans
<1>4. ASSUME AtY(sm1) = FRAME_LINES - 1
      PROVE  (ch0'.segment = 0 \/ (ch0'.segment = RELOAD_INDEX /\ ch0'.remaining = 0))
             <=> (ch0.segment = 0 \/ (ch0.segment = RELOAD_INDEX /\ ch0.remaining = 0))
  <2> DEFINE line == OnY(AtY(sm1), AtX(sm1), Len(pixels))
             col == OnX(AtX(sm1), Len(pixels))
  <2>1. ch0.segment # 0
    BY <1>1, <1>2, <1>3, <1>4, LastLine
  <2>2. SendsOf(ch0, next, line, col)
    BY <1>3 DEF Position
  <2> HIDE DEF line, col
  <2>3. ch0'.segment = next /\ ch0'.remaining = Segment(next).words
    BY <1>2
  <2>4. CASE AtTop(ch0, next, line, col)
    BY <2>1, <2>4 DEF AtTop
  <2>5. CASE \E row \in Rows, part \in 0 .. 2 : AtRow(ch0, next, line, col, row, part)
    <3>1. PICK row \in Rows, part \in 0 .. 2 : AtRow(ch0, next, line, col, row, part)
      BY <2>5
    <3>2. ch0.segment \in 1 .. BOTTOM_INDEX - 1 /\ next = ch0.segment + 1
      BY <3>1, RowSegment DEF AtRow
    <3>3. next # 0 /\ next # RELOAD_INDEX /\ ch0.segment # RELOAD_INDEX
      BY <3>2, SegmentsAre, Sizes
    <3> QED
      BY <2>1, <2>3, <3>3
  <2>6. CASE AtBottom(ch0, next, line, col)
    <3>1. ch0.segment # RELOAD_INDEX /\ next = RELOAD_INDEX /\ RELOAD_INDEX # 0
      BY <2>6, SegmentsAre, Sizes DEF AtBottom
    <3>2. ch0'.remaining = 1
      BY <2>3, <3>1, SegmentsAre
    <3> QED
      BY <2>1, <2>3, <3>1, <3>2
  <2>7. CASE AtEnd(ch0, next, line, col)
    BY <1>2, <2>3, <2>7 DEF AtEnd
  <2> QED
    BY <2>2, <2>4, <2>5, <2>6, <2>7, SendsCases
<1>5. Wrapped' <=> Wrapped
  BY <1>2, <1>4 DEF Wrapped, WrappedOf
<1>6. Level' = Level /\ Level \in Nat
  BY <1>1, <1>2, LevelIs DEF Level, Types
<1>7. \A l \in Looks : Keeps(l) => Keeps(l)'
  BY <1>2, KeepsKept
<1>8. glass'.fits = glass.fits /\ glass'.torn = glass.torn /\ (glass.excused => glass'.excused) /\ Level' <= Level
  BY <1>2, <1>6
<1> QED
  BY <1>1, <1>2, <1>5, <1>7, <1>8, SeamlessKept

(* CH0 sends on: the rows it reads are of the picture that the frame has.  *)
LEMMA SendsSeamless ==
  ASSUME InStepNow, InStepNow', Rowwise, Seamless, Ch0Sends
  PROVE  Seamless'
<1>1. Types /\ NotYet /\ Types' /\ Counter(sm1) /\ Scans
  BY DEF InStepNow
<1>2. /\ UNCHANGED <<power, sm1, glass, front, borders, back, task>>
      /\ power = "on" /\ ch0.remaining > 0 /\ Len(pixels) < FIFO_WORDS
      /\ Segment(ch0.segment).source # "Reload"
      /\ pixels' = Append(pixels, WordOf(ch0)) /\ ch0' = [ch0 EXCEPT !.remaining = @ - 1]
  BY DEF Ch0Sends, HasRoom
<1>3. ch0 \in [segment : Nat, remaining : Nat] /\ Position(ch0, next, sm1, Len(pixels))
      /\ Len(pixels) \in 0 .. LINE_WORDS /\ Len(pixels) \in 0 .. LINE_WORDS - 1
      /\ irq \in BOOLEAN /\ task \in TaskType
  <2>1. ch0 \in [segment : Nat, remaining : Nat] /\ Position(ch0, next, sm1, Len(pixels))
        /\ Len(pixels) \in 0 .. LINE_WORDS /\ irq \in BOOLEAN /\ task \in TaskType
    BY <1>1, <1>2, PlaceIs DEF Types, Scans
  <2>2. Len(pixels) < FIFO_WORDS
    BY <1>2
  <2> QED
    BY <2>1, <2>2, Sizes
<1>4. irq' = irq
  BY <1>2, <1>3 DEF Ch0Sends, Quiet
<1>5. Level' = Level /\ Level \in Nat
  BY <1>2, <1>3, <1>4, LevelIs DEF Level
<1>6. ch0.segment # RELOAD_INDEX /\ ch0'.segment = ch0.segment
  BY <1>2, <1>3, SegmentsAre
<1>7. Wrapped' <=> Wrapped
  BY <1>2, <1>6 DEF Wrapped, WrappedOf
<1>8. CASE Wrapped
  <2>1. glass'.fits = {} => glass'.excused /\ ~glass'.torn /\ Level' <= 2
    BY <1>2, <1>5, <1>8 DEF Seamless
  <2> QED
    BY <1>7, <1>8, <2>1, Zenon DEF Seamless
<1>9. CASE ~Wrapped
  <2>1. /\ AtY(sm1) < TOP_LINES => glass.fits = Looks
        /\ glass.torn => Level <= 2
        /\ Clean \/ (glass.excused /\ ~glass.torn /\ Level <= 1)
    BY <1>2, <1>9, Zenon DEF Seamless
  <2>2. Clean => Clean'
    <3> SUFFICES ASSUME Clean PROVE Clean'
      OBVIOUS
    <3> DEFINE k == Len(pixels)
               line == OnY(AtY(sm1), AtX(sm1), k)
               col == OnX(AtX(sm1), k)
               word == WordOf(ch0)
    <3>1. PICK l \in Looks : l \in glass.fits /\ FifoIs(pixels, sm1, l) /\ Keeps(l)
      BY DEF Clean
    <3>2. line \in Lines /\ col \in Cols /\ AtX(sm1) \in Cols /\ AtY(sm1) \in Lines
          /\ SendsOf(ch0, next, line, col)
      BY <1>1, <1>3, PlaceIs DEF Position
    <3>3. ASSUME InRow(line) PROVE RowIs(line - TOP_LINES, l)
      <4>1. line - TOP_LINES \in Rows
        BY <3>2, <3>3, Sizes DEF InRow, Rows, Lines
      <4>2. CASE task.pc # "copy"
        BY <3>1, <4>1, <4>2 DEF Keeps, Whole
      <4>3. CASE task.pc = "copy"
        <5>1. l = Cur /\ Ahead
          BY <3>1, <4>3 DEF Keeps
        <5>2. task.row \in Nat
          BY <1>3, Sizes DEF TaskType, Rows
        <5>3. line \in {AtY(sm1), AtY(sm1) + 1}
          BY <1>3, <3>2, <3>3, Sizes DEF OnY, LineAfter, InRow, Lines, Cols
        <5>4. AtY(sm1) <= TOP_LINES - MARGIN + task.row /\ MARGIN \in Nat /\ MARGIN >= 2
          BY <3>2, <5>1, <5>2, ReserveAssumption, Sizes DEF Ahead, Lines
        <5>5. line - TOP_LINES \in 0 .. task.row - 1
          <6> HIDE DEF line, col
          <6> QED
            BY <3>2, <4>1, <5>2, <5>3, <5>4, Sizes DEF Rows, Lines
        <5>6. RowIs(line - TOP_LINES, Cur)
          <6> HIDE DEF line, col
          <6> QED
            BY <1>2, <4>3, <5>5 DEF Rowwise
        <5> QED
          BY <5>1, <5>6
      <4> QED
        BY <4>2, <4>3
    <3>4. IsOf(word, l, line, col)
      <4> HIDE DEF line, col
      <4> QED
        BY <1>2, <1>3, <3>2, <3>3, WordIs
    <3>5. pixels \in Seq(Words) /\ pixels' \in Seq(Words)
      BY <1>1 DEF Types
    <3>6. Len(pixels') = k + 1 /\ (\A i \in 1 .. k : pixels'[i] = pixels[i]) /\ pixels'[k + 1] = word
      <4>1. pixels \in Seq(Words \cup {word})
        BY <3>5
      <4> HIDE DEF word, line, col
      <4>2. pixels' = Append(pixels, word)
        BY <1>2 DEF word
      <4> QED
        BY <4>1, <4>2, AppendProperties
    <3> HIDE DEF word
    <3>7. FifoIs(pixels', sm1', l)
      <4>1. ASSUME NEW i \in 1 .. Len(pixels')
            PROVE  IsOf(pixels'[i], l, OnY(AtY(sm1), AtX(sm1), i - 1), OnX(AtX(sm1), i - 1))
        <5>1. CASE i = k + 1
          <6>1. i - 1 = k
            BY <1>3, <5>1
          <6> QED
            BY <3>4, <3>6, <5>1, <6>1
        <5>2. CASE i # k + 1
          <6>1. i \in 1 .. k
            BY <1>3, <3>6, <5>2
          <6> QED
            BY <3>1, <3>6, <6>1 DEF FifoIs
        <5> QED
          BY <5>1, <5>2
      <4> QED
        BY <1>2, <4>1 DEF FifoIs
    <3>8. Keeps(l)'
      BY <1>2, <3>1, KeepsKept
    <3>9. l \in glass'.fits
      BY <1>2, <3>1
    <3> QED
      BY <3>7, <3>8, <3>9 DEF Clean
  <2>3. /\ AtY(sm1') < TOP_LINES => glass'.fits = Looks
        /\ glass'.torn => Level' <= 2
        /\ Clean' \/ (glass'.excused /\ ~glass'.torn /\ Level' <= 1)
    BY <1>2, <1>5, <2>1, <2>2
  <2> QED
    BY <1>7, <1>9, <2>3, Zenon DEF Seamless
<1> QED
  BY <1>8, <1>9

(* CH0 begins the next frame, and the interrupt with it.                   *)
LEMMA RewindsSeamless ==
  ASSUME InStepNow, InStepNow', Fed, Seamless, Ch0Rewinds
  PROVE  Seamless' /\ AtY(sm1) = FRAME_LINES - 1 /\ OnX(AtX(sm1), Len(pixels)) = 0
<1>1. Types /\ NotYet /\ Types' /\ Counter(sm1) /\ Scans
  BY DEF InStepNow
<1>2. /\ UNCHANGED <<power, pixels, sm1, glass, front, borders, back, task>>
      /\ power = "on" /\ ch0' = [ch0 EXCEPT !.remaining = 0] /\ irq' \in BOOLEAN
  BY DEF Ch0Rewinds
<1>3. ch0.segment = RELOAD_INDEX /\ ch0.remaining = 1
      /\ OnY(AtY(sm1), AtX(sm1), Len(pixels)) = 0 /\ OnX(AtX(sm1), Len(pixels)) = 0
  BY Ch0RewindsInStep
<1>4. AtX(sm1) \in Cols /\ AtY(sm1) \in Lines /\ Len(pixels) \in 0 .. LINE_WORDS
      /\ ch0 \in [segment : Nat, remaining : Nat] /\ task \in TaskType /\ irq \in BOOLEAN
  BY <1>1, PlaceIs DEF Types
<1>5. pixels # <<>>
  BY <1>2, <1>3, SegmentsAre DEF Fed
<1>6. Len(pixels) >= 1
  <2>1. pixels \in Seq(Words)
    BY <1>1 DEF Types
  <2> QED
    BY <1>4, <1>5, <2>1
<1>7. AtY(sm1) = FRAME_LINES - 1
  BY <1>3, <1>4, <1>6, Sizes DEF OnY, OnX, LineAfter, Lines, Cols
<1>8. ~Wrapped
  BY <1>3, SegmentsAre, Sizes DEF Wrapped, WrappedOf
<1>9. Wrapped'
  BY <1>2, <1>3, <1>4, <1>7 DEF Wrapped, WrappedOf
<1>10. Clean \/ (glass.excused /\ ~glass.torn /\ Level <= 1)
  BY <1>2, <1>8, Zenon DEF Seamless
<1>11. Level \in Nat /\ Level' \in Nat /\ Level' <= Level + 1
  <2>1. LevelOf(task, irq) \in Nat /\ LevelOf(task, irq') \in Nat
        /\ LevelOf(task, irq') <= LevelOf(task, irq) + 1
    <3>1. task.misses \in Nat /\ irq \in BOOLEAN /\ irq' \in BOOLEAN
      BY <1>2, <1>4, ReserveAssumption DEF TaskType
    <3> QED
      BY <3>1 DEF LevelOf
  <2> QED
    BY <1>2, <2>1 DEF Level
<1>12. glass'.fits = {} => glass'.excused /\ ~glass'.torn /\ Level' <= 2
  <2>1. Clean => glass.fits # {}
    BY DEF Clean
  <2> QED
    BY <1>2, <1>10, <1>11, <2>1
<1> QED
  BY <1>3, <1>7, <1>9, <1>12, Zenon DEF Seamless

(* A row copied: the copy stays ahead of the scan.                         *)
LEMMA CopySeamless ==
  ASSUME InStepNow, InStepNow', Rowwise, Seamless, CopyRow
  PROVE  Seamless'
<1>1. Types /\ NotYet /\ Types' /\ Counter(sm1) /\ Scans
  BY DEF InStepNow
<1>2. UNCHANGED <<power, ch0, pixels, sm1, glass, irq, back>> /\ task.pc = "copy" /\ power = "on"
  BY <1>1 DEF CopyRow, hardware, NotYet, Types
<1>3. task \in TaskType /\ irq \in BOOLEAN /\ task' \in TaskType /\ ~task.due /\ task.row \in Nat
      /\ AtY(sm1) \in Lines
  BY <1>1, <1>2, PlaceIs, Sizes DEF Types, TaskType, Rows
<1>4. task' = (IF task.row = HEIGHT - 1 THEN Asleep ELSE [task EXCEPT !.row = task.row + 1, !.moved = TRUE])
  BY DEF CopyRow
<1>5. /\ task'.pc \in {"copy", "draw"} /\ ~task'.due
      /\ task.row = HEIGHT - 1 => task'.pc = "draw"
      /\ task.row # HEIGHT - 1 => task'.pc = "copy" /\ task'.row = task.row + 1 /\ task'.moved = TRUE
  BY <1>2, <1>3, <1>4 DEF Asleep, TaskType
<1>6. Level' = Level /\ Level \in Nat
  <2>1. LevelOf(task, irq) = (IF irq THEN 1 ELSE 0) /\ LevelOf(task', irq) = (IF irq THEN 1 ELSE 0)
    BY <1>2, <1>3, <1>5, LevelIs
  <2> QED
    BY <1>2, <2>1 DEF Level
<1>7. ASSUME NEW l \in Looks, Keeps(l) PROVE Keeps(l)'
  <2>1. l = Cur /\ Ahead
    BY <1>2, <1>7 DEF Keeps
  <2>2. CASE task.row = HEIGHT - 1
    <3>1. Whole(Cur)' /\ Cur' = Cur
      BY <1>1, <2>2, LastRowFills
    <3>2. \A m : m = Cur' => Whole(m)'
      BY <3>1 DEF Whole, RowIs
    <3> QED
      BY <1>5, <2>1, <2>2, <3>1, <3>2 DEF Keeps
  <2>3. CASE task.row # HEIGHT - 1
    <3>1. Cur' = Cur
      BY <1>2 DEF Cur
    <3>2. Ahead'
      <4>1. AtY(sm1) <= TOP_LINES - MARGIN - 1 + task.row + (IF task.moved THEN 0 ELSE 1)
        BY <2>1 DEF Ahead
      <4>2. task'.row = task.row + 1 /\ task'.moved = TRUE
        BY <1>5, <2>3
      <4>3. AtY(sm1) <= TOP_LINES - MARGIN - 1 + task'.row
        <5>1. TOP_LINES - MARGIN \in Int /\ AtY(sm1) \in Int
          BY <1>3, ReserveAssumption, Sizes DEF Lines
        <5> QED
          BY <1>3, <4>1, <4>2, <5>1
      <4>4. AtY(sm1') = AtY(sm1)
        BY <1>2
      <4>5. TOP_LINES - MARGIN - 1 + task'.row + 0 = TOP_LINES - MARGIN - 1 + task'.row
        <5>1. TOP_LINES - MARGIN \in Int /\ task'.row \in Int
          BY <1>3, <4>2, ReserveAssumption, Sizes
        <5> QED
          BY <5>1
      <4> QED
        BY <4>2, <4>3, <4>4, <4>5 DEF Ahead
    <3> QED
      BY <1>5, <2>1, <2>3, <3>1, <3>2 DEF Keeps
  <2> QED
    BY <2>2, <2>3
<1>8. Wrapped' <=> Wrapped
  BY <1>2 DEF Wrapped
<1>9. glass'.fits = glass.fits /\ glass'.torn = glass.torn /\ (glass.excused => glass'.excused) /\ Level' <= Level
  BY <1>2, <1>6
<1> QED
  BY <1>1, <1>2, <1>7, <1>8, <1>9, SeamlessKept

(* The task copies in the blank lines at the top, long before the scan     *)
(* comes, or in the middle of a frame, of which it has missed so many that *)
(* the frame before was whole.                                             *)
LEMMA DecideSeamless ==
  ASSUME InStepNow, InStepNow', Seamless, Decide
  PROVE  Seamless'
<1>1. Types /\ NotYet /\ Types' /\ Counter(sm1) /\ Scans
  BY DEF InStepNow
<1>2. UNCHANGED <<power, ch0, next, pixels, sm1, irq, front, borders, back>> /\ task.pc = "count" /\ power = "on"
  BY <1>1 DEF Decide, NotYet, Types
<1>3. task \in TaskType /\ irq \in BOOLEAN /\ task' \in TaskType /\ ~task.due /\ task.misses \in Nat
      /\ AtY(sm1) \in Lines /\ AtX(sm1) \in Cols
  BY <1>1, <1>2, PlaceIs, ReserveAssumption DEF Types, TaskType
<1>4. Level = task.misses + 1 + (IF irq THEN 1 ELSE 0)
  BY <1>2, <1>3, LevelIs DEF Level
<1>5. Wrapped' <=> Wrapped
  BY <1>2 DEF Wrapped
<1>6. CASE InTime(CurrentLine(task.read, ch0.remaining)) \/ GivesUp
  <2>1. /\ task' = [task EXCEPT !.pc = "copy", !.row = 0, !.read = 0, !.moved = TRUE, !.late = GivesUp]
        /\ glass' = [glass EXCEPT !.excused = @ \/ GivesUp]
    BY <1>6 DEF Decide
  <2>2. task'.pc = "copy" /\ task'.row = 0 /\ task'.moved = TRUE /\ ~task'.due
    BY <1>3, <2>1 DEF TaskType
  <2>3. /\ glass'.fits = glass.fits /\ glass'.torn = glass.torn /\ (glass.excused => glass'.excused)
        /\ (GivesUp => glass'.excused)
    <3>1. glass \in GlassType /\ GivesUp \in BOOLEAN
      BY <1>1 DEF Types, GlassType, GivesUp
    <3> QED
      BY <2>1, <3>1 DEF GlassType
  <2>4. Level' = (IF irq THEN 1 ELSE 0) /\ Level' <= Level /\ Level' <= 1
    <3>1. LevelOf(task', irq) = (IF irq THEN 1 ELSE 0)
      BY <1>3, <2>2, LevelIs
    <3>2. Level' = (IF irq THEN 1 ELSE 0)
      BY <1>2, <3>1 DEF Level
    <3> QED
      BY <1>3, <1>4, <3>2
  <2>5. CASE Wrapped
    <3>1. glass'.fits = {} => glass'.excused /\ ~glass'.torn /\ Level' <= 2
      BY <1>2, <2>3, <2>4, <2>5 DEF Seamless
    <3> QED
      BY <1>5, <2>5, <3>1, Zenon DEF Seamless
  <2>6. CASE ~Wrapped
    <3>1. /\ AtY(sm1) < TOP_LINES => glass.fits = Looks
          /\ glass.torn => Level <= 2
      BY <1>2, <2>6, Zenon DEF Seamless
    <3>2. CASE InTime(CurrentLine(task.read, ch0.remaining))
      <4> DEFINE line == OnY(AtY(sm1), AtX(sm1), Len(pixels))
                 col == OnX(AtX(sm1), Len(pixels))
      <4>1. /\ line \in Lines /\ col \in Cols /\ SendsOf(ch0, next, line, col)
            /\ ch0 \in [segment : Nat, remaining : Nat] /\ task.read \in Nat
            /\ Len(pixels) \in 0 .. LINE_WORDS
        BY SMTT(30), <1>1, <1>2, <1>3, PlaceIs, SegmentsAre, Sizes DEF Types, Scans, Position, TaskType
      <4>2. ch0.segment = 0 /\ line < TOP_LINES - MARGIN
        <5> HIDE DEF line, col
        <5> QED
          BY <3>2, <4>1, InTimeIs
      <4>3. AtY(sm1) # FRAME_LINES - 1
        BY <2>6, <4>2 DEF Wrapped, WrappedOf
      <4>4. AtY(sm1) <= line /\ AtY(sm1) < TOP_LINES - MARGIN
        BY <1>3, <4>1, <4>2, <4>3, ReserveAssumption, Sizes DEF OnY, LineAfter, Lines
      <4>5. \A i \in 1 .. Len(pixels) : ~InRow(OnY(AtY(sm1), AtX(sm1), i - 1))
        <5>1. ASSUME NEW i \in 1 .. Len(pixels) PROVE OnY(AtY(sm1), AtX(sm1), i - 1) <= line
          BY <1>3, <4>1, <4>3, Sizes DEF OnY, LineAfter, Lines, Cols
        <5> HIDE DEF line
        <5>2. ASSUME NEW i \in 1 .. Len(pixels) PROVE ~InRow(OnY(AtY(sm1), AtX(sm1), i - 1))
          <6>1. OnY(AtY(sm1), AtX(sm1), i - 1) \in Int
            <7>1. OnY(AtY(sm1), AtX(sm1), i - 1) \in Lines
              <8>1. i - 1 \in 0 .. LINE_WORDS
                BY <4>1, Sizes
              <8> QED
                BY <1>1, <8>1, PlaceIs
            <7> QED
              BY <7>1, Sizes DEF Lines
          <6> QED
            BY <4>1, <4>2, <5>1, <6>1, ReserveAssumption, Sizes DEF InRow, Lines
        <5> QED
          BY <5>2
      <4>6. FifoOf(pixels, sm1)
        BY <1>1, <1>2 DEF Scans
      <4>7. Cur \in Looks /\ Cur' = Cur
        BY <1>1, <1>2 DEF Cur, Looks, Types
      <4>8. glass'.fits = Looks
        BY <1>3, <2>3, <3>1, <4>4, ReserveAssumption, Sizes DEF Lines
      <4>9. FifoIs(pixels, sm1, Cur)
        BY <4>5, <4>6, <4>7, BlackIsAny
      <4>10. Ahead'
        <5>1. AtY(sm1) <= TOP_LINES - MARGIN - 1 + 0 + 0
          BY <1>3, <4>4, ReserveAssumption, Sizes DEF Lines
        <5> QED
          BY <1>2, <2>2, <5>1 DEF Ahead
      <4>11. ASSUME NEW l, l = Cur PROVE l \in Looks /\ l \in glass'.fits /\ FifoIs(pixels', sm1', l) /\ Keeps(l)'
        <5>1. Keeps(l)'
          BY <2>2, <4>7, <4>10, <4>11 DEF Keeps
        <5> QED
          BY <1>2, <4>7, <4>8, <4>9, <4>11, <5>1
      <4>12. Clean'
        BY <4>11 DEF Clean
      <4>13. AtY(sm1') < TOP_LINES => glass'.fits = Looks
        BY <4>8
      <4>14. glass'.torn => Level' <= 2
        BY <1>3, <1>4, <2>3, <2>4, <3>1
      <4> QED
        BY <1>5, <2>6, <4>12, <4>13, <4>14, Zenon DEF Seamless
    <3>3. CASE ~InTime(CurrentLine(task.read, ch0.remaining))
      <4>1. GivesUp
        BY <1>6, <3>3
      <4>2. Level >= 3
        BY <1>3, <1>4, <4>1, ReserveAssumption DEF GivesUp
      <4>3. ~glass.torn
        BY <1>3, <1>4, <3>1, <4>2
      <4>4. glass'.excused /\ ~glass'.torn /\ Level' <= 1
        BY <2>3, <2>4, <4>1, <4>3
      <4>5. AtY(sm1') < TOP_LINES => glass'.fits = Looks
        BY <1>2, <2>3, <3>1
      <4> QED
        BY <1>5, <2>6, <4>4, <4>5, Zenon DEF Seamless
    <3> QED
      BY <3>2, <3>3
  <2> QED
    BY <2>5, <2>6
<1>7. CASE ~(InTime(CurrentLine(task.read, ch0.remaining)) \/ GivesUp)
  <2>1. task' = [task EXCEPT !.pc = "wait", !.misses = Missed(@), !.read = 0] /\ glass' = glass
    BY <1>7 DEF Decide
  <2>2. task'.pc = "wait" /\ task'.misses = task.misses + 1 /\ task'.due = task.due
    BY <1>3, <2>1 DEF TaskType, Missed
  <2>3. Level' = Level
    <3>1. LevelOf(task', irq) = task.misses + 1 + 0 + (IF irq THEN 1 ELSE 0)
      BY <1>3, <2>2, LevelIs
    <3> QED
      BY <1>2, <1>3, <1>4, <3>1 DEF Level
  <2>4. \A l \in Looks : Keeps(l) => Keeps(l)'
    BY <1>2, <2>2, KeepsKept
  <2>5. glass'.fits = glass.fits /\ glass'.torn = glass.torn /\ (glass.excused => glass'.excused) /\ Level' <= Level
    BY <1>3, <1>4, <2>1, <2>3
  <2> QED
    BY <1>1, <1>2, <1>5, <2>4, <2>5, SeamlessKept
<1> QED
  BY <1>6, <1>7

(* The scan starts with a whole picture.                                   *)
LEMMA TriggerSeamless ==
  ASSUME InStepNow, InStepNow', Rowwise, Trigger
  PROVE  Seamless'
<1>1. Types /\ NotYet /\ Types' /\ Counter(sm1) /\ Scans /\ Scans'
  BY DEF InStepNow
<1>2. /\ UNCHANGED <<ch0, next, pixels, sm1, glass, irq, front, borders, back>>
      /\ task.pc = "trigger" /\ power' = "on" /\ task' = [task EXCEPT !.pc = "draw"] /\ ~Runs
  BY DEF Trigger
<1>3. power = "enabled" /\ task \in TaskType
  BY <1>1, <1>2 DEF NotYet, Scans, Types
<1>4. pixels = <<>> /\ glass = Unsynced /\ ~irq /\ sm1.pc \in {1, 2, 3}
  BY <1>1, <1>3 DEF NotYet
<1>5. sm1.pc = 3
  <2>1. Here.op = "pull"
    BY <1>2 DEF Runs
  <2>2. sm1.pc \in {1, 2} => Here.op = "set"
    <3>1. sm1.pc \in 1 .. 13
      BY <1>4
    <3> QED
      BY <3>1, HereIs
  <2> QED
    BY <1>4, <2>1, <2>2
<1>6. AtY(sm1') = 0 /\ AtY(sm1') # FRAME_LINES - 1
  BY <1>2, <1>5, Sizes DEF AtY
<1>7. ~Wrapped'
  BY <1>6 DEF Wrapped, WrappedOf
<1>8. glass'.fits = Looks /\ ~glass'.torn
  BY <1>2, <1>4 DEF Unsynced
<1>9. task'.pc = "draw"
  BY <1>2, <1>3 DEF TaskType
<1>10. PICK l \in Looks : Whole(l)
  BY <1>2, <1>3 DEF Rowwise
<1>11. Keeps(l)'
  BY <1>2, <1>9, <1>10 DEF Keeps, Whole, RowIs
<1>12. FifoIs(pixels', sm1', l)
  BY <1>2, <1>4 DEF FifoIs
<1>13. Clean'
  BY <1>8, <1>11, <1>12 DEF Clean
<1> QED
  BY <1>7, <1>8, <1>13, Zenon DEF Seamless

-----------------------------------------------------------------------------
(* The clock.  Up to the last word of a frame the glass sees one picture.  *)
LEMMA ClockFrame ==
  ASSUME InStepNow, InStepNow', Rowwise, Seamless, Clock, power = "on",
         AtX(sm1') = 0, AtY(sm1') = 0
  PROVE  Seamless'
<1>1. Types /\ Types' /\ Counter(sm1) /\ Counter(sm1') /\ Scans /\ Scans'
  BY DEF InStepNow
<1>2. /\ UNCHANGED <<power, ch0, next, irq, front, borders, back>>
      /\ AtX(sm1') = OnX(AtX(sm1), 1) /\ AtY(sm1') = OnY(AtY(sm1), AtX(sm1), 1)
      /\ Len(pixels) = FIFO_WORDS /\ pixels' = Tail(pixels)
      /\ glass' = Sampled(Head(pixels), sm1'.pins)
      /\ task' = IF Falls(sm1'.pins) THEN [task EXCEPT !.moved = task.pc # "copy"] ELSE task
  BY ClockIs
<1>3. Falls(sm1'.pins) /\ Vsync(sm1'.pins) = 1
  BY FallsIs
<1>4. /\ AtX(sm1) \in Cols /\ AtY(sm1) \in Lines /\ task \in TaskType /\ irq \in BOOLEAN
      /\ ch0 \in [segment : Nat, remaining : Nat] /\ glass \in GlassType
      /\ pixels \in Seq(Words) /\ sm1'.pins \in 0 .. 3
  BY <1>1, PlaceIs DEF Types, GlassType, Counter
<1>5. AtX(sm1) = LINE_WORDS - 1 /\ AtY(sm1) = FRAME_LINES - 1
  <2>1. OnX(AtX(sm1), 1) = 0 /\ OnY(AtY(sm1), AtX(sm1), 1) = 0
    BY <1>2
  <2> QED
    BY <1>4, <2>1, Sizes DEF OnX, OnY, LineAfter, Cols, Lines
<1>6. Wrapped
  <2>1. SendsOf(ch0, next, OnY(AtY(sm1), AtX(sm1), FIFO_WORDS), OnX(AtX(sm1), FIFO_WORDS))
    BY <1>1, <1>2 DEF Scans, Position
  <2>2. OnY(AtY(sm1), AtX(sm1), FIFO_WORDS) = 0 /\ OnX(AtX(sm1), FIFO_WORDS) = FIFO_WORDS - 1
        /\ FIFO_WORDS - 1 # 0
    BY <1>5, Sizes DEF OnX, OnY, LineAfter
  <2>3. 0 \in Lines /\ FIFO_WORDS - 1 \in Cols
    BY Sizes DEF Lines, Cols
  <2>4. ch0.segment = 0
    <3>1. SendsOf(ch0, next, 0, FIFO_WORDS - 1)
      BY <2>1, <2>2
    <3>2. ch0.segment \notin {0, RELOAD_INDEX} => 0 >= TOP_LINES \/ (0 = 0 /\ FIFO_WORDS - 1 = 0)
      BY <1>4, <2>3, <3>1, WhereItIs
    <3>3. ch0.segment = RELOAD_INDEX => FIFO_WORDS - 1 = 0
      BY <1>4, <2>3, <3>1, WhereItIs
    <3> QED
      BY <2>2, <3>2, <3>3, Sizes
  <2> QED
    BY <1>5, <2>4 DEF Wrapped, WrappedOf
<1>7. glass.fits = {} => Level <= 2
  BY <1>6 DEF Seamless
<1>8. Head(pixels) \in Words
  <2>1. pixels # <<>>
    BY <1>2, <1>4, Sizes
  <2> QED
    BY <1>4, <2>1, HeadTailProperties
<1>9. glass'.fits = Looks /\ glass'.torn = (glass.fits = {})
  <2>1. task.late \in BOOLEAN
    BY <1>4 DEF TaskType
  <2> QED
    BY <1>2, <1>3, <1>4, <1>8, <2>1, SampledIs
<1>10. /\ task'.pc = task.pc /\ task'.row = task.row /\ task'.due = task.due /\ task'.misses = task.misses
       /\ task.pc = "copy" => task'.moved = FALSE
  <2>1. task' = [task EXCEPT !.moved = task.pc # "copy"]
    BY <1>2, <1>3
  <2> QED
    BY <1>4, <2>1 DEF TaskType
<1>11. Level' = Level
  BY <1>2, <1>10 DEF Level, LevelOf
<1>12. ~Wrapped'
  BY Sizes DEF Wrapped, WrappedOf
<1>13. Len(pixels') = FIFO_WORDS - 1
  <2>1. pixels # <<>>
    BY <1>2, <1>4, Sizes
  <2> QED
    BY <1>2, <1>4, <2>1, HeadTailProperties
<1>14. \A i \in 1 .. Len(pixels') : ~InRow(OnY(AtY(sm1'), AtX(sm1'), i - 1))
  BY <1>13, Sizes DEF OnY, InRow
<1>15. \A l \in Looks : FifoIs(pixels', sm1', l)
  <2>1. FifoOf(pixels', sm1')
    BY <1>1, <1>2 DEF Scans
  <2> QED
    BY <1>14, <2>1, Zenon DEF FifoOf, FifoIs, IsRight, IsOf
<1>16. \E l \in Looks : Keeps(l)'
  <2>1. CASE task.pc = "copy"
    <3>1. Cur' = Cur /\ Cur \in Looks
      BY <1>1, <1>2 DEF Cur, Looks, Types
    <3>2. Ahead'
      <4>1. task.row \in Nat
        BY <1>4, Sizes DEF TaskType, Rows
      <4>2. 0 <= TOP_LINES - MARGIN - 1 + task.row + 1
        BY <4>1, ReserveAssumption, Sizes
      <4> QED
        BY <1>10, <2>1, <4>2 DEF Ahead
    <3>3. \A l : l = Cur => Keeps(l)'
      BY <1>10, <2>1, <3>1, <3>2 DEF Keeps
    <3> QED
      BY <3>1, <3>3
  <2>2. CASE task.pc # "copy"
    <3>1. PICK l \in Looks : Whole(l)
      BY <2>2 DEF Rowwise
    <3>2. Keeps(l)'
      BY <1>2, <1>10, <2>2, <3>1 DEF Keeps, Whole, RowIs
    <3> QED
      BY <3>2
  <2> QED
    BY <2>1, <2>2
<1>17. Clean'
  BY <1>9, <1>15, <1>16 DEF Clean
<1>18. glass'.torn => Level' <= 2
  BY <1>7, <1>9, <1>11
<1> QED
  BY <1>9, <1>12, <1>17, <1>18, Zenon DEF Seamless

(* What the panel shows is the word of a place of the frame.               *)
LEMMA ShownIs ==
  ASSUME NEW g, NEW s, Counter(s), g.x = AtX(s), g.y \in {-1, AtY(s)}, Visible(g)
  PROVE  \E y \in Lines, x \in Cols :
           /\ y = OnY(LineBefore(AtY(s)), AtX(s), LINE_WORDS - 1) /\ x = OnX(AtX(s), LINE_WORDS - 1)
           /\ InRow(y) /\ y - TOP_LINES = Row(g) /\ Within(x) = Column(g)
           /\ Row(g) \in Rows /\ Column(g) \in Columns /\ y = AtY(s) /\ x = AtX(s) - 1
<1> DEFINE y == AtY(s)  x == AtX(s) - 1
<1>1. AtX(s) \in Cols /\ AtY(s) \in Lines
  BY SyncsAre DEF Cols, Lines
<1>2. g.y = AtY(s) /\ Row(g) = AtY(s) - TOP_LINES /\ Row(g) \in Rows
      /\ Column(g) = AtX(s) - (LEFT_WORDS + 1) /\ Column(g) \in Columns
  BY PanelAssumption DEF Visible, Row, Column
<1>3. x \in Cols /\ x >= LEFT_WORDS /\ x < LEFT_WORDS + WIDTH
  BY <1>1, <1>2, Sizes DEF Columns, Cols
<1>4. y = OnY(LineBefore(AtY(s)), AtX(s), LINE_WORDS - 1) /\ x = OnX(AtX(s), LINE_WORDS - 1)
  BY <1>1, <1>3, Sizes DEF OnX, OnY, LineBefore, LineAfter, Cols, Lines
<1>5. Within(x) = Column(g)
  BY <1>1, <1>2, <1>3, Sizes DEF Within, Cols
<1>6. InRow(y)
  BY <1>1, <1>2, Sizes DEF InRow, Rows, Lines
<1> HIDE DEF x, y
<1>7. y \in Lines /\ y - TOP_LINES = Row(g)
  BY <1>1, <1>2 DEF y
<1> QED
  BY <1>2, <1>3, <1>4, <1>5, <1>6, <1>7 DEF y, x

LEMMA ClockLine ==
  ASSUME InStepNow, InStepNow', Seamless, Clock, power = "on",
         ~(AtX(sm1') = 0 /\ AtY(sm1') = 0)
  PROVE  Seamless'
<1>1. Types /\ Types' /\ Counter(sm1) /\ Counter(sm1') /\ Scans
  BY DEF InStepNow
<1>2. /\ UNCHANGED <<power, ch0, next, irq, front, borders, back>>
      /\ Len(pixels) = FIFO_WORDS /\ pixels' = Tail(pixels)
      /\ glass' = Sampled(Head(pixels), sm1'.pins)
      /\ task' = IF Falls(sm1'.pins) THEN [task EXCEPT !.moved = task.pc # "copy"] ELSE task
      /\ Falls(sm1'.pins) => task.moved
  BY ClockIs
<1> DEFINE y == AtY(sm1)  x == AtX(sm1)  y1 == AtY(sm1')  x1 == AtX(sm1')
           pins == sm1'.pins  g == Placed(Head(pixels), pins)
<1>3. /\ y \in Lines /\ x \in Cols /\ y1 \in Lines /\ x1 \in Cols /\ pins \in 0 .. 3
      /\ x1 = OnX(x, 1) /\ y1 = OnY(y, x, 1) /\ ~(x1 = 0 /\ y1 = 0)
  <2>1. x1 = OnX(x, 1) /\ y1 = OnY(y, x, 1)
    BY ClockIs
  <2>2. y \in Lines /\ x \in Cols /\ y1 \in Lines /\ x1 \in Cols
    BY <1>1, SyncsAre DEF Lines, Cols
  <2> QED
    BY <1>1, <2>1, <2>2 DEF Counter
<1>4. /\ Falls(pins) <=> x1 = 0
      /\ ~(Falls(pins) /\ Vsync(pins) = 1)
  BY FallsIs
<1>5. /\ task \in TaskType /\ irq \in BOOLEAN /\ ch0 \in [segment : Nat, remaining : Nat]
      /\ glass \in GlassType /\ pixels \in Seq(Words)
  BY <1>1 DEF Types, GlassType
<1>6. pixels # <<>> /\ Head(pixels) = pixels[1] /\ 1 \in 1 .. Len(pixels) /\ Head(pixels) \in Words
      /\ Len(pixels') = FIFO_WORDS - 1 /\ \A i \in 1 .. FIFO_WORDS - 1 : pixels'[i] = pixels[i + 1]
  <2>1. pixels # <<>> /\ 1 \in 1 .. Len(pixels)
    <3>1. Len(pixels) = FIFO_WORDS
      BY <1>2
    <3> QED
      BY <1>5, <3>1, Sizes
  <2>2. Len(pixels) = FIFO_WORDS /\ pixels' = Tail(pixels)
    BY <1>2
  <2> QED
    BY <1>5, <2>1, <2>2, HeadTailProperties, Sizes
<1>7. task.late \in BOOLEAN
  BY <1>5 DEF TaskType
<1>8. g.word = Head(pixels) /\ g.fits = glass.fits
  BY <1>3, <1>5, <1>6, PlacedIs
<1>9. glass'.fits = Fitting(g) /\ glass'.excused = glass.excused /\ glass'.torn = glass.torn
      /\ glass'.x = g.x /\ glass'.y = g.y
  BY <1>2, <1>3, <1>4, <1>5, <1>6, <1>7, SampledIs
<1>10. glass'.x = AtX(sm1') /\ glass'.y \in {-1, AtY(sm1')}
  BY <1>2 DEF InStepNow, Scans, GlassOf
<1> HIDE DEF g
<1>11. ASSUME Visible(g)
       PROVE  /\ InRow(y) /\ y - TOP_LINES = Row(g) /\ Within(x) = Column(g) /\ y1 = y
              /\ y - TOP_LINES \in Rows
  <2>1. g.x = AtX(sm1') /\ g.y \in {-1, AtY(sm1')}
    BY <1>9, <1>10
  <2>2. /\ InRow(OnY(LineBefore(y1), x1, LINE_WORDS - 1)) /\ OnY(LineBefore(y1), x1, LINE_WORDS - 1) = y1
        /\ OnY(LineBefore(y1), x1, LINE_WORDS - 1) - TOP_LINES = Row(g) /\ Row(g) \in Rows
        /\ Within(OnX(x1, LINE_WORDS - 1)) = Column(g)
    BY <1>1, <1>11, <2>1, ShownIs
  <2>3. OnY(LineBefore(y1), x1, LINE_WORDS - 1) = y /\ OnX(x1, LINE_WORDS - 1) = x
    <3> HIDE DEF y, x, y1, x1
    <3> QED
      BY <1>3, PlaceBefore
  <2> HIDE DEF y, x, y1, x1
  <2> QED
    BY <2>2, <2>3
<1>12. /\ task'.pc = task.pc /\ task'.row = task.row /\ task'.due = task.due /\ task'.misses = task.misses
       /\ Falls(pins) => task'.moved = (task.pc # "copy")
       /\ ~Falls(pins) => task'.moved = task.moved
  BY <1>2, <1>5 DEF TaskType
<1>13. Level' = Level
  BY <1>2, <1>12 DEF Level, LevelOf
<1>14. CASE Wrapped
  <2>1. y = FRAME_LINES - 1
    BY <1>14 DEF Wrapped, WrappedOf
  <2>2. y1 = FRAME_LINES - 1
    BY <1>3, <2>1, Sizes DEF OnX, OnY, LineAfter, Cols
  <2>3. Wrapped'
    BY <1>2, <1>14, <2>2 DEF Wrapped, WrappedOf
  <2>4. ~Visible(g)
    <3>1. y - TOP_LINES \notin Rows
      BY <2>1, Sizes DEF Rows
    <3> QED
      BY <1>11, <3>1
  <2>5. glass'.fits = glass.fits
    BY <1>8, <1>9, <2>4 DEF Fitting
  <2>6. glass'.fits = {} => glass'.excused /\ ~glass'.torn /\ Level' <= 2
    BY <1>2, <1>9, <1>13, <1>14, <2>5 DEF Seamless
  <2> QED
    BY <2>3, <2>6, Zenon DEF Seamless
<1>15. CASE ~Wrapped
  <2>1. /\ y < TOP_LINES => glass.fits = Looks
        /\ glass.torn => Level <= 2
        /\ Clean \/ (glass.excused /\ ~glass.torn /\ Level <= 1)
    BY <1>15, Zenon DEF Seamless
  <2>2. y1 \in {y, y + 1} /\ (y1 = y + 1 => Falls(pins) /\ x = LINE_WORDS - 1) /\ (Falls(pins) => y1 = y + 1)
    BY <1>3, <1>4, Sizes DEF OnX, OnY, LineAfter, Cols, Lines
  <2>3. ~Wrapped'
    <3> SUFFICES ASSUME Wrapped' PROVE FALSE
      OBVIOUS
    <3>1. y1 = FRAME_LINES - 1 /\ (ch0.segment = 0 \/ (ch0.segment = RELOAD_INDEX /\ ch0.remaining = 0))
      BY <1>2 DEF Wrapped, WrappedOf
    <3>2. y # FRAME_LINES - 1
      BY <1>15, <3>1 DEF Wrapped, WrappedOf
    <3>3. y = FRAME_LINES - 2 /\ x = LINE_WORDS - 1
      BY <1>3, <2>2, <3>1, <3>2, Sizes DEF Lines
    <3>4. OnY(y, x, FIFO_WORDS) = FRAME_LINES - 1 /\ OnX(x, FIFO_WORDS) \in Cols
      BY <3>3, Sizes DEF OnX, OnY, LineAfter, Cols
    <3>5. SendsOf(ch0, next, FRAME_LINES - 1, OnX(x, FIFO_WORDS))
      BY <1>1, <1>2, <3>4 DEF Scans, Position
    <3>6. FRAME_LINES - 1 \in Lines /\ FRAME_LINES - 1 > TOP_LINES
      BY Sizes DEF Lines
    <3> HIDE DEF x
    <3>7. /\ ch0.segment = 0 => FRAME_LINES - 1 <= TOP_LINES
          /\ ch0.segment = RELOAD_INDEX => FRAME_LINES - 1 = 0
      BY <1>5, <3>4, <3>5, <3>6, WhereItIs
    <3> QED
      BY <3>1, <3>6, <3>7, Sizes
  <2>4. y1 < TOP_LINES => glass'.fits = Looks
    <3> SUFFICES ASSUME y1 < TOP_LINES PROVE glass'.fits = Looks
      OBVIOUS
    <3>1. y < TOP_LINES
      BY <1>3, <2>2, Sizes DEF Lines
    <3>2. ~Visible(g)
      <4>1. ~InRow(y)
        BY <1>3, <3>1, Sizes DEF InRow, Lines
      <4> QED
        BY <1>11, <4>1
    <3> QED
      BY <1>8, <1>9, <2>1, <3>1, <3>2 DEF Fitting
  <2>5. glass'.torn => Level' <= 2
    BY <1>9, <1>13, <2>1
  <2>6. Clean => Clean'
    <3> SUFFICES ASSUME Clean PROVE Clean'
      OBVIOUS
    <3>1. PICK l \in Looks : l \in glass.fits /\ FifoIs(pixels, sm1, l) /\ Keeps(l)
      BY DEF Clean
    <3>2. l \in glass'.fits
      <4>1. CASE ~Visible(g)
        BY <1>8, <1>9, <3>1, <4>1 DEF Fitting
      <4>2. CASE Visible(g)
        <5>1. IsOf(pixels[1], l, OnY(y, x, 1 - 1), OnX(x, 1 - 1))
          BY <1>6, <3>1, Zenon DEF FifoIs
        <5>2. OnX(x, 0) = x /\ OnY(y, x, 0) = y
          <6> HIDE DEF x, y
          <6> QED
            BY <1>3, PlaceBefore
        <5>3. IsOf(g.word, l, y, x)
          BY <1>6, <1>8, <5>1, <5>2
        <5>4. InRow(y) /\ y - TOP_LINES = Row(g) /\ Within(x) = Column(g)
          BY <1>11, <4>2
        <5>5. g.word = <<l[1], SourceRow(Row(g), l[2]), SourceColumn(Column(g), l[2])>>
          <6> HIDE DEF x, y
          <6> QED
            BY <5>3, <5>4 DEF IsOf, OfLook
        <5> QED
          BY <1>8, <1>9, <3>1, <4>2, <5>5 DEF Fitting
      <4> QED
        BY <4>1, <4>2
    <3>3. FifoIs(pixels', sm1', l)
      <4>1. \A k \in 0 .. LINE_WORDS - 1 :
              OnX(x, k + 1) = OnX(x1, k) /\ OnY(y, x, k + 1) = OnY(y1, x1, k)
        BY <1>3, OnNext
      <4> HIDE DEF x, y, x1, y1
      <4>2. ASSUME NEW i \in 1 .. FIFO_WORDS - 1
            PROVE  IsOf(pixels'[i], l, OnY(y1, x1, i - 1), OnX(x1, i - 1))
        <5>1. i + 1 \in 1 .. FIFO_WORDS /\ i - 1 \in 0 .. LINE_WORDS - 1 /\ (i - 1) + 1 = i /\ (i + 1) - 1 = i
          BY Sizes
        <5>2. i + 1 \in 1 .. Len(pixels)
          BY <1>2, <5>1
        <5>3. IsOf(pixels[i + 1], l, OnY(y, x, (i + 1) - 1), OnX(x, (i + 1) - 1))
          BY <3>1, <5>2, Zenon DEF FifoIs, x, y
        <5>4. OnX(x, i) = OnX(x1, i - 1) /\ OnY(y, x, i) = OnY(y1, x1, i - 1)
          BY <4>1, <5>1
        <5> QED
          BY <1>6, <5>1, <5>3, <5>4
      <4> QED
        BY <1>6, <4>2 DEF FifoIs, x1, y1
    <3>4. Keeps(l)'
      <4>1. CASE task.pc = "copy"
        <5>1. l = Cur /\ Ahead
          BY <3>1, <4>1 DEF Keeps
        <5>2. Cur' = Cur
          BY <1>2 DEF Cur
        <5>3. Ahead'
          <6>1. CASE Falls(pins)
            <7>1. task.moved /\ task'.moved = FALSE /\ y1 = y + 1
              BY <1>2, <1>12, <2>2, <4>1, <6>1
            <7>2. y <= TOP_LINES - MARGIN - 1 + task.row + 0
              BY <5>1, <7>1 DEF Ahead
            <7>3. task.row \in Nat
              BY <1>5, Sizes DEF TaskType, Rows
            <7>4. y1 <= TOP_LINES - MARGIN - 1 + task.row + 1
              <8> HIDE DEF y, y1
              <8> QED
                BY <1>3, <7>1, <7>2, <7>3, ReserveAssumption, Sizes DEF Lines
            <7> QED
              BY <1>12, <7>1, <7>4 DEF Ahead
          <6>2. CASE ~Falls(pins)
            <7>1. y1 = y /\ task'.moved = task.moved
              BY <1>12, <2>2, <6>2
            <7> QED
              BY <1>12, <5>1, <7>1 DEF Ahead
          <6> QED
            BY <6>1, <6>2
        <5> QED
          BY <1>12, <4>1, <5>1, <5>2, <5>3 DEF Keeps
      <4>2. CASE task.pc # "copy"
        BY <1>2, <1>12, <3>1, <4>2 DEF Keeps, Whole, RowIs
      <4> QED
        BY <4>1, <4>2
    <3> QED
      BY <3>2, <3>3, <3>4 DEF Clean
  <2>7. Clean' \/ (glass'.excused /\ ~glass'.torn /\ Level' <= 1)
    BY <1>9, <1>13, <2>1, <2>6
  <2> QED
    BY <2>3, <2>4, <2>5, <2>7, Zenon DEF Seamless
<1> QED
  BY <1>14, <1>15

-----------------------------------------------------------------------------
LEMMA SeamlessNext ==
  ASSUME InStepNow, InStepNow', Fed, Rowwise, Seamless, [DisplayNext]_displayVars
  PROVE  Seamless'
<1>1. CASE FrameIrq \/ Draw \/ WaitFrame \/ Woken \/ ReadNext \/ Ch1Sends \/ UNCHANGED displayVars
  BY <1>1, TaskSeamless
<1>2. CASE Ch0Sends
  BY <1>2, SendsSeamless
<1>3. CASE Ch2Loads
  BY <1>3, LoadsSeamless
<1>4. CASE Ch0Rewinds
  BY <1>4, RewindsSeamless
<1>5. CASE Clock
  <2>1. CASE power = "on"
    BY <1>5, <2>1, ClockFrame, ClockLine
  <2>2. CASE power # "on"
    BY <1>5, <2>2 DEF Clock, Seamless
  <2> QED
    BY <2>1, <2>2
<1>6. CASE PresentAtOnce \/ Start
  BY <1>6 DEF PresentAtOnce, Start, hardware, Seamless
<1>7. CASE Trigger
  BY <1>7, TriggerSeamless
<1>8. CASE Decide
  BY <1>8, DecideSeamless
<1>9. CASE CopyRow
  BY <1>9, CopySeamless
<1> QED
  BY <1>1, <1>2, <1>3, <1>4, <1>5, <1>6, <1>7, <1>8, <1>9, Zenon DEF DisplayNext, Dma, Task

(* The scan-out keeps all of it.                                           *)
THEOREM DisplayInvHolds == DisplaySpec => []DisplayInv
<1>1. DisplayInit => DisplayInv
  BY InitInStep DEF DisplayInit, InStepNow, DisplayInv, Fed, Rowwise, Seamless
<1>2. DisplayInv /\ [DisplayNext]_displayVars => DisplayInv'
  <2> SUFFICES ASSUME DisplayInv, [DisplayNext]_displayVars PROVE DisplayInv'
    OBVIOUS
  <2>1. InStepNow /\ Fed /\ Rowwise /\ Seamless
    BY DEF DisplayInv, InStepNow
  <2>2. InStepNow'
    BY <2>1, InStepNext
  <2>3. Fed' /\ Rowwise' /\ Seamless'
    BY <2>1, <2>2, FedNext, RowwiseNext, SeamlessNext
  <2> QED
    BY <2>2, <2>3 DEF DisplayInv, InStepNow
<1> QED
  BY <1>1, <1>2, PTL DEF DisplaySpec

-----------------------------------------------------------------------------
(* What the panel shows.                                                   *)
LEMMA TypesAre ==
  ASSUME DisplayInv
  PROVE  DisplayTypeOK
<1>1. Types /\ Counter(sm1) /\ NotYet /\ Scans
  BY DEF DisplayInv
<1>2. ch0 \in [segment : Nat, remaining : Nat] /\ glass \in GlassType /\ pixels \in Seq(Words) /\ counts \in Seq(Nat)
  BY <1>1 DEF Types, GlassType
<1>3. TOP_LINES * LINE_WORDS \in Nat /\ MARGIN * LINE_WORDS <= TOP_LINES * LINE_WORDS
      /\ MARGIN * LINE_WORDS \in Int
  <2>1. (TOP_LINES - MARGIN) * LINE_WORDS >= 0 /\ (TOP_LINES - MARGIN) * LINE_WORDS \in Int
    BY Blank, ReserveAssumption, Sizes
  <2>2. TOP_LINES * LINE_WORDS = (TOP_LINES - MARGIN) * LINE_WORDS + MARGIN * LINE_WORDS
        /\ TOP_LINES * LINE_WORDS \in Nat /\ MARGIN * LINE_WORDS \in Int
    BY ReserveAssumption, Sizes
  <2> QED
    BY <2>1, <2>2
<1>4. /\ ch0.segment \in 0 .. RELOAD_INDEX /\ ch0.remaining \in 0 .. TOP_LINES * LINE_WORDS
      /\ next \in 0 .. SEGMENT_COUNT /\ ch1 \in 1 .. Counts
      /\ glass.x \in 0 .. LINE_WORDS - 1 /\ glass.y \in -1 .. FRAME_LINES - 1
  <2>1. CASE power = "on"
    <3> DEFINE line == OnY(AtY(sm1), AtX(sm1), Len(pixels))
               col == OnX(AtX(sm1), Len(pixels))
    <3>1. SendsOf(ch0, next, line, col) /\ line \in Lines /\ col \in Cols
      BY <1>1, <2>1, PlaceIs DEF Scans, Position
    <3> HIDE DEF line, col
    <3>2. next \in 0 .. SEGMENT_COUNT /\ ch0.segment \in 0 .. RELOAD_INDEX
      BY <1>2, <3>1, NextIs
    <3>3. ch0.remaining <= TOP_LINES * LINE_WORDS
      <4>1. CASE ch0.segment = 0
        <5>1. ch0.remaining = (TOP_LINES - line) * LINE_WORDS - col
          BY <1>2, <3>1, <4>1, WhereItIs
        <5>2. line * LINE_WORDS >= 0 /\ line * LINE_WORDS \in Int /\ line \in Int /\ col >= 0 /\ col \in Int
          BY <3>1, Blank, Sizes DEF Lines, Cols
        <5>3. TOP_LINES * LINE_WORDS = (TOP_LINES - line) * LINE_WORDS + line * LINE_WORDS
              /\ (TOP_LINES - line) * LINE_WORDS \in Int
          BY <5>2, Sizes
        <5> QED
          BY <1>3, <5>1, <5>2, <5>3
      <4>2. CASE ch0.segment # 0
        <5>1. ch0.remaining <= MARGIN * LINE_WORDS
          BY <1>2, <3>1, <4>2, WhereItIs
        <5> QED
          BY <1>2, <1>3, <5>1
      <4> QED
        BY <4>1, <4>2
    <3>4. ch1 \in 1 .. Counts
      <4>1. ch1 = OnCount(Pulls(sm1), Len(counts)) /\ Pulls(sm1) \in 1 .. Counts
        BY <1>1, <2>1, PullsIs DEF Scans, CountsOf
      <4>2. Len(counts) \in 0 .. FRAME_LINES
        <5>1. Len(counts) <= FIFO_WORDS
          BY <1>1 DEF Types
        <5> QED
          BY <1>2, <5>1, LenProperties, Sizes
      <4> QED
        BY <4>1, <4>2, OnCountNext
    <3>5. glass.x = AtX(sm1) /\ glass.y \in {-1, AtY(sm1)}
      BY <1>1, <2>1 DEF Scans, GlassOf
    <3>6. AtX(sm1) \in 0 .. LINE_WORDS - 1 /\ AtY(sm1) \in 0 .. FRAME_LINES - 1
      BY <1>1, SyncsAre
    <3>7. ch0.remaining \in 0 .. TOP_LINES * LINE_WORDS
      BY <1>2, <1>3, <3>3
    <3>8. glass.x \in 0 .. LINE_WORDS - 1 /\ glass.y \in -1 .. FRAME_LINES - 1
      BY <3>5, <3>6, Sizes
    <3> QED
      BY <3>2, <3>4, <3>7, <3>8
  <2>2. CASE power # "on"
    <3>1. /\ ch0 = [segment |-> 0, remaining |-> TOP_LINES * LINE_WORDS] /\ next = 1
          /\ ch1 = 1 /\ glass = Unsynced
      BY <1>1, <2>2 DEF NotYet
    <3>2. ch0.segment = 0 /\ ch0.remaining = TOP_LINES * LINE_WORDS /\ glass.x = 0 /\ glass.y = -1
      BY <3>1 DEF Unsynced
    <3> QED
      BY <1>3, <3>1, <3>2, SegmentsAre, Sizes DEF Counts
  <2> QED
    BY <2>1, <2>2
<1>5. /\ Len(pixels) <= FIFO_WORDS /\ \A i \in 1 .. Len(pixels) : pixels[i] \in Words
      /\ Len(counts) <= FIFO_WORDS /\ \A i \in 1 .. Len(counts) : counts[i] \in Nat
  BY <1>1, <1>2, ElementOfSeq DEF Types
<1>6. sm1.pc \in 1 .. Len(Timing) /\ sm1.pins \in 0 .. 3
  BY <1>1, InstructionIs DEF Counter
<1>7. ch0 \in [segment : 0 .. RELOAD_INDEX, remaining : 0 .. TOP_LINES * LINE_WORDS]
  BY <1>2, <1>4
<1>8. glass.fits \subseteq Looks /\ glass.word \in Words
  BY <1>2 DEF GlassType
<1>9. /\ power \in {"off", "enabled", "on"} /\ front \in [Rows -> [Columns -> Words]]
      /\ borders \in [Rows -> Words \X Words] /\ back \in [picture : Pictures, rotated : BOOLEAN]
      /\ task \in TaskType
  BY <1>1 DEF Types
<1>10. ch1 \in 1 .. Len(Sm1FrameData)
  BY <1>4, CountsAre
<1> QED
  BY <1>4, <1>5, <1>6, <1>7, <1>8, <1>9, <1>10 DEF DisplayTypeOK

LEMMA PlacesAreRight ==
  ASSUME DisplayInv
  PROVE  OnGlass /\ AsFullFrame
<1>1. Types /\ Counter(sm1) /\ NotYet /\ Scans
  BY DEF DisplayInv
<1>2. ASSUME glass.y # -1 PROVE power = "on"
  BY <1>1, <1>2 DEF NotYet, Unsynced
<1>3. ASSUME NEW word, NEW y \in Lines, NEW x \in Cols, IsRight(word, y, x), InRow(y)
      PROVE  \E rotated \in BOOLEAN :
               /\ word # BLACK_WORD
               /\ word[2] = SourceRow(y - TOP_LINES, rotated)
               /\ word[3] = SourceColumn(Within(x), rotated)
  <2>1. PICK l \in Looks : word = OfLook(l, y - TOP_LINES, Within(x))
    BY <1>3 DEF IsRight, IsOf
  <2>2. y - TOP_LINES \in Rows /\ Within(x) \in Columns
    BY <1>3, WithinIs, Sizes DEF InRow, Rows, Lines
  <2>3. l[2] \in BOOLEAN
    BY LooksAre
  <2> QED
    BY <2>1, <2>2, <2>3, OfLookIs
<1>4. OnGlass
  <2> SUFFICES ASSUME Visible(glass)
               PROVE  \E rotated \in BOOLEAN :
                        /\ glass.word[2] = SourceRow(Row(glass), rotated)
                        /\ glass.word[3] = SourceColumn(Column(glass), rotated)
                        /\ glass.word # BLACK_WORD
    BY DEF OnGlass
  <2>1. power = "on"
    BY <1>2 DEF Visible
  <2>2. glass.x = AtX(sm1) /\ glass.y \in {-1, AtY(sm1)}
        /\ IsRight(glass.word, OnY(LineBefore(AtY(sm1)), AtX(sm1), LINE_WORDS - 1), OnX(AtX(sm1), LINE_WORDS - 1))
    BY <1>1, <2>1 DEF Scans, GlassOf
  <2>3. PICK y \in Lines, x \in Cols :
          /\ y = OnY(LineBefore(AtY(sm1)), AtX(sm1), LINE_WORDS - 1) /\ x = OnX(AtX(sm1), LINE_WORDS - 1)
          /\ InRow(y) /\ y - TOP_LINES = Row(glass) /\ Within(x) = Column(glass)
    BY <1>1, <2>2, ShownIs
  <2>4. IsRight(glass.word, y, x)
    BY <2>2, <2>3
  <2> QED
    BY <1>3, <2>3, <2>4
<1>5. AsFullFrame
  <2> SUFFICES ASSUME glass.y # -1, glass.x + glass.y # 0
               PROVE  IF FrameRow \notin Rows THEN glass.word = BLACK_WORD
                      ELSE \E rotated \in BOOLEAN :
                        LET x == FrameX - LEFT_WORDS
                            column == IF x < 0 THEN 0 ELSE IF x >= WIDTH THEN WIDTH - 1 ELSE x
                        IN  /\ glass.word # BLACK_WORD
                            /\ glass.word[2] = SourceRow(FrameRow, rotated)
                            /\ glass.word[3] = SourceColumn(column, rotated)
    BY Zenon DEF AsFullFrame
  <2>1. glass.x = AtX(sm1) /\ glass.y = AtY(sm1)
        /\ IsRight(glass.word, OnY(LineBefore(AtY(sm1)), AtX(sm1), LINE_WORDS - 1), OnX(AtX(sm1), LINE_WORDS - 1))
    BY <1>1, <1>2 DEF Scans, GlassOf
  <2>2. AtX(sm1) \in Cols /\ AtY(sm1) \in Lines
    BY <1>1, PlaceIs
  <2> DEFINE y == OnY(LineBefore(AtY(sm1)), AtX(sm1), LINE_WORDS - 1)
             x == OnX(AtX(sm1), LINE_WORDS - 1)
  <2>3. y \in Lines /\ x \in Cols
    BY <2>2, Sizes DEF OnY, OnX, LineBefore, LineAfter, Lines, Cols
  <2>4. FrameX = x
    <3>1. (glass.x + LINE_WORDS - 1) % LINE_WORDS = (IF glass.x = 0 THEN LINE_WORDS - 1 ELSE glass.x - 1)
      <4> DEFINE n == LINE_WORDS
      <4>1. n \in Nat \ {0} /\ glass.x \in 0 .. n - 1
        BY <2>1, <2>2, Sizes DEF Cols
      <4> HIDE DEF n
      <4> QED
        BY <4>1, SMTT(30) DEF n
    <3> QED
      BY <2>1, <2>2, <3>1, Sizes DEF FrameX, OnX, Cols
  <2>5. FrameRow = y - TOP_LINES
    BY <2>1, <2>2, Sizes DEF FrameRow, OnY, LineBefore, LineAfter, Lines, Cols
  <2>6. Within(x) = (IF x - LEFT_WORDS < 0 THEN 0 ELSE IF x - LEFT_WORDS >= WIDTH THEN WIDTH - 1 ELSE x - LEFT_WORDS)
    <3> HIDE DEF x, y
    <3> QED
      BY <2>3, Sizes DEF Within, Cols
  <2>7. FrameRow \in Rows <=> InRow(y)
    <3> HIDE DEF x, y
    <3> QED
      BY <2>3, <2>5, Sizes DEF InRow, Rows, Lines
  <2> HIDE DEF x, y
  <2>8. IsRight(glass.word, y, x)
    BY <2>1 DEF x, y
  <2>9. CASE ~InRow(y)
    <3>1. glass.word = BLACK_WORD
      BY <2>8, <2>9 DEF IsRight, IsOf
    <3> QED
      BY <2>7, <2>9, <3>1
  <2>10. CASE InRow(y)
    <3>1. PICK rotated \in BOOLEAN :
            /\ glass.word # BLACK_WORD
            /\ glass.word[2] = SourceRow(y - TOP_LINES, rotated)
            /\ glass.word[3] = SourceColumn(Within(x), rotated)
      BY <1>3, <2>3, <2>8, <2>10
    <3> QED
      BY <2>4, <2>5, <2>6, <2>7, <2>10, <3>1
  <2> QED
    BY <2>9, <2>10
<1> QED
  BY <1>4, <1>5

LEMMA FramesAreWhole ==
  ASSUME DisplayInv
  PROVE  NoTear /\ OneFrameIsTorn
<1>1. NotYet /\ Seamless
  BY DEF DisplayInv
<1>2. CASE power # "on"
  BY <1>1, <1>2, LookExists DEF NotYet, Unsynced, NoTear, OneFrameIsTorn
<1>3. CASE power = "on"
  <2>1. Clean => glass.fits # {}
    BY DEF Clean
  <2>2. glass.fits = {} => glass.excused /\ ~glass.torn
    BY <1>1, <1>3, <2>1, Zenon DEF Seamless
  <2> QED
    BY <2>2 DEF NoTear, OneFrameIsTorn
<1> QED
  BY <1>2, <1>3

(* The panel shows the right word at every place of the frame, and in each *)
(* frame the words of one picture, unless present() gave up waiting: then  *)
(* a single frame is of two (the scan-out of display.rs and scan.rs).      *)
THEOREM FrameIsSoundHolds == DisplaySpec => []FrameIsSound
<1>1. DisplayInv => FrameIsSound
  BY TypesAre, PlacesAreRight, FramesAreWhole DEF FrameIsSound
<1> QED
  BY <1>1, DisplayInvHolds, PTL

(* The frame interrupt comes when the panel is within a FIFO of the end of *)
(* its frame (the comment at FRAME_START_CHANNEL_BIT).                     *)
THEOREM IrqAtFrameEndHolds == DisplaySpec => IrqAtFrameEnd
<1> DEFINE AtEndOfFrame ==
             (irq' /\ ~irq /\ glass.y # -1) =>
                /\ glass.y = FRAME_LINES - 1
                /\ FrameX >= LINE_WORDS - 2 - FIFO_WORDS
<1>1. DisplayInv /\ [DisplayNext]_displayVars => AtEndOfFrame
  <2> SUFFICES ASSUME DisplayInv, [DisplayNext]_displayVars, irq', ~irq, glass.y # -1
               PROVE  glass.y = FRAME_LINES - 1 /\ FrameX >= LINE_WORDS - 2 - FIFO_WORDS
    OBVIOUS
  <2>1. InStepNow /\ InStepNow' /\ Fed /\ Rowwise /\ Seamless /\ Types /\ Counter(sm1) /\ Scans
    BY InStepNext DEF DisplayInv, InStepNow
  <2>2. Ch0Rewinds
    <3>1. ~Ch0Sends
      BY DEF Ch0Sends, Quiet
    <3> QED
      BY <3>1 DEF DisplayNext, Dma, Task, displayVars, Ch2Loads, Ch1Sends, Clock, FrameIrq, Draw, PresentAtOnce, Start,
                  Trigger, WaitFrame, Woken, ReadNext, Decide, CopyRow, hardware
  <2>3. AtY(sm1) = FRAME_LINES - 1 /\ OnX(AtX(sm1), Len(pixels)) = 0
    BY <2>1, <2>2, RewindsSeamless
  <2>4. glass.x = AtX(sm1) /\ glass.y = AtY(sm1) /\ AtX(sm1) \in Cols
    BY <2>1, <2>2, PlaceIs DEF Ch0Rewinds, Scans, GlassOf
  <2>5. Len(pixels) <= FIFO_WORDS /\ Len(pixels) \in 0 .. LINE_WORDS
    BY <2>1, PlaceIs DEF Types
  <2>6. glass.x = 0 \/ glass.x >= LINE_WORDS - FIFO_WORDS
    BY <2>3, <2>4, <2>5, Sizes DEF OnX, Cols
  <2>7. FrameX = (IF glass.x = 0 THEN LINE_WORDS - 1 ELSE glass.x - 1)
    <3> DEFINE n == LINE_WORDS
    <3>1. n \in Nat \ {0} /\ glass.x \in 0 .. n - 1
      BY <2>4, Sizes DEF Cols
    <3> HIDE DEF n
    <3>2. (glass.x + n - 1) % n = (IF glass.x = 0 THEN n - 1 ELSE glass.x - 1)
      BY <3>1, SMTT(30)
    <3> QED
      BY <3>2 DEF FrameX, n
  <2> QED
    BY <2>3, <2>4, <2>6, <2>7, Sizes DEF Cols
<1>2. DisplaySpec => [][AtEndOfFrame]_displayVars
  BY <1>1, DisplayInvHolds, PTL DEF DisplaySpec
<1> QED
  BY <1>2 DEF IrqAtFrameEnd
=============================================================================
