----------------------------- MODULE MCWebServer -----------------------------
(***************************************************************************)
(* Requests of every way through the server; two names for photos, of      *)
(* which one may be there; locks after two wrong codes.                    *)
(***************************************************************************)
EXTENDS WebServer, TLC

Get(r) == [route |-> r, from |-> "page", code |-> "none", size |-> 0,
           close |-> FALSE, sound |-> TRUE]
Post(r, c, n) == [Get(r) EXCEPT !.code = c, !.size = n]

AllKinds ==
    {Get("page"), Get("image"), Get("missing"),
     [Get("page") EXCEPT !.from = "host"], [Get("options") EXCEPT !.size = 1],
     Post("show", "none", 1),
     [Post("images", "none", 0) EXCEPT !.close = TRUE],
     Post("auth", "wrong", 0), Post("auth", "right", 0), Post("save", "right", 1),
     Post("delete", "right", 1), Post("delete", "wrong", 1),
     [Post("delete", "right", 1) EXCEPT !.from = "origin"],
     Post("reboot", "right", 0), Post("check", "right", 0), Post("upload", "right", 2),
     [Post("upload", "right", 2) EXCEPT !.sound = FALSE]}
TwoNames == <<"A", "A~2">>
=============================================================================
