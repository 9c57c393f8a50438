----------------------------- MODULE MCTickerTxt -----------------------------
(***************************************************************************)
(* Two keys the page changes, one that it does not know, and comments.     *)
(* The card comes without a file, with an empty one, with a key on two     *)
(* lines of which the second counts, with a message that a later line      *)
(* switches off, with a text that has room for one more line, or with one  *)
(* that is too long.                                                       *)
(***************************************************************************)
EXTENDS TickerTxt

ThreeKeys == <<"images", "message", "debug_crash">>
TheirValid ==
    {<<"images", "x">>, <<"images", "y">>, <<"message", "x">>, <<"debug_crash", "x">>}

L(k, v) == [key |-> k, value |-> v, note |-> ""]
N(k, v) == [key |-> k, value |-> v, note |-> "# why"]
TheirTexts ==
    {Missing, <<>>,
     <<L("images", "x"), L("comment", "x"), N("images", "y"), L("debug_crash", "x")>>,
     <<L("message", "x"), N("debug_crash", "bad"), L("message", "bad")>>,
     <<N("debug_crash", "x"), L("comment", "x"), L("comment", "x"), L("comment", "x")>>,
     <<N("images", "x"), L("comment", "x"), L("comment", "x"), N("images", "y"),
       L("debug_crash", "x")>>}
=============================================================================
