------------------------------ MODULE MCBoard ------------------------------
(***************************************************************************)
(* Three releases, 0.4.2, 0.4.3 and 1.0.0, as their version words.         *)
(***************************************************************************)
EXTENDS Board, TLC

V042 == 402
V043 == 403
V100 == 65536
Releases == {V042, V043, V100}

Everywhere == [v \in Releases |-> Phases]
Nowhere == [v \in Releases |-> {}]
(* 0.4.2 may crash in normal mode. 0.4.3 passes its trial and then works   *)
(* neither in normal nor in recovery mode. 1.0.0 is sound.                 *)
Broken043 == V042 :> {"normal"} @@ V043 :> {"trial", "normal", "recovery"} @@ V100 :> {}
Dead043 == V042 :> {} @@ V043 :> {"normal", "recovery"} @@ V100 :> {}

Either == {TRUE, FALSE}
Yes == {TRUE}
=============================================================================
