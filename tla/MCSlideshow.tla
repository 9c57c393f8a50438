----------------------------- MODULE MCSlideshow -----------------------------
(***************************************************************************)
(* Two photos, one of them broken; the page deletes and adds the other one *)
(* and saves one of the values of LIVE.                                    *)
(***************************************************************************)
EXTENDS Slideshow, TLC

Photos == {1, 2}
Layouts == {"glass", "classic"}
OneBroken == {1 :> "ok" @@ 2 :> "bad"}
AllClocks == {"good", "slow", "flaky"}
AllOrNamed ==
    {[interval |-> 30, images |-> <<>>, layout |-> "glass"],
     [interval |-> 30, images |-> <<2, 1>>, layout |-> "classic"]}
OnOrOff ==
    {[interval |-> i, images |-> <<>>, layout |-> "glass"] : i \in {0, 30}}
=============================================================================
