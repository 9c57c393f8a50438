------------------------------ MODULE MCTicker ------------------------------
(***************************************************************************)
(* Two sources, of which one may change its text, one local text, two IP   *)
(* addresses; one text fills the line, so that it is cut when the settings *)
(* are in it, and one is empty.                                            *)
(***************************************************************************)
EXTENDS Ticker, TLC

ServedTexts(source) == IF source = "a" THEN {"short", "long"} ELSE {""}
Chars(text) == CASE text = "" -> 0 [] text = "short" -> 1 [] text = "long" -> 6 [] text = "own" -> 2
=============================================================================
