------------------------------ MODULE MCPower -------------------------------
(***************************************************************************)
(* The power meter and the screen it is shown on: a behaviour is one of    *)
(* the meter's task and graph (module Power) or of the places of all texts *)
(* (Screen).                                                               *)
(*                                                                         *)
(* Power: rings of three buckets, of one tick and of two, a graph of three *)
(* columns, and a clock that wraps within the run.  Screen: the widest     *)
(* temperature, readings of 2, 10 and 17 digits, the shortest and longest  *)
(* weather, and places of five half characters (the room of Dock and       *)
(* Classic), of eight (the room of Glass) and of all that place= takes.    *)
(***************************************************************************)
EXTENDS Power, Screen

Readings == {-3}

WidestDegrees == {[digits |-> 3, points |-> 1, dashes |-> 1]}
SomePowers == [digits : {2}, points : {1}, dashes : {0}] \cup [digits : {10, 17}, points : {1}, dashes : {1}]
SomeEnds == {0, -99999, -9999999, 10000000}

VARIABLE subject

LcdInit ==
    /\ subject \in {"meter", "places"} /\ PowerInit /\ ScreenInit
    /\ subject = "meter" => /\ view.layout = "Glass" /\ view.display = "Normal"
                            /\ view.place = 5 /\ view.meter.status = "Disabled"
    /\ subject = "places" => ~start /\ ~ready
LcdNext ==
    \/ subject = "meter" /\ PowerNext /\ UNCHANGED <<subject, view>>
    \/ subject = "places" /\ ScreenNext /\ UNCHANGED <<subject, powerVars>>
LcdSpec == LcdInit /\ [][LcdNext]_<<subject, powerVars, view>>

(* The meter and the screen it is shown on: no stale reading is fresh, no  *)
(* silence too long; every text is whole, in its place and by itself, but  *)
(* for the row of a place longer than the layout has room for.             *)
LcdIsSound ==
    IF subject = "meter" THEN MeterIsSound
    ELSE FitsItsPlace /\ RunsWhereItIsDrawn /\ MiddleIsFree
=============================================================================
