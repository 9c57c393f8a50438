----------------------------- MODULE MCDisplay -----------------------------
(***************************************************************************)
(* The display of the ticker and those of the layers it grew from: a       *)
(* behaviour is one of the display (module Display), of the state machines *)
(* of a layer (Layers) or of the hand-over of pictures in a layer (Swap).  *)
(*                                                                         *)
(* Display: a panel of 3 x 2 pixels with frames of 8 x 7 words: a line is  *)
(* one word longer than SM1's shortest, so that its loops count; three     *)
(* successive pictures, of which each may be upright or turned.  Layers:   *)
(* lines of 13 clocks, 5 lines a frame, FIFOs of 5 words.  Swap: 6 rows.   *)
(***************************************************************************)
EXTENDS Display, Layers, Swap, TLC

VARIABLE subject

ThreePictures == 0 .. 2

PanelInit == DisplayInit /\ LayersInit /\ SwapInit /\ subject \in {"display", "layer", "swap"}
             /\ (subject # "layer" => layer = "layer7")
             /\ (subject # "swap" => way = "single")
PanelNext ==
    \/ subject = "display" /\ DisplayNext /\ UNCHANGED <<layerVars, swapVars, subject>>
    \/ subject = "layer" /\ LayersNext /\ UNCHANGED <<displayVars, swapVars, subject>>
    \/ subject = "swap" /\ SwapNext /\ UNCHANGED <<displayVars, layerVars, subject>>
PanelSpec == PanelInit /\ [][PanelNext]_<<displayVars, layerVars, swapVars, subject>> /\ Fairness

(* What a panel shows is right, driven by the ticker or by a layer.        *)
PanelIsSound == FrameIsSound /\ LayersInStep /\ SwapIsSound
=============================================================================
