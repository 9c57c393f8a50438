------------------------------ MODULE AbUpdate ------------------------------
(***************************************************************************)
(* What the two-slot update promises to whoever publishes releases: there  *)
(* is always one confirmed version, the one an ordinary boot runs.  It is  *)
(* replaced by a newer version only after a trial of that version, or by   *)
(* an older one that had been confirmed before, when it gives itself up.   *)
(* A trial that is not committed leaves the confirmed version as it was.   *)
(***************************************************************************)
EXTENDS Naturals

CONSTANT Version

NoTrial == 0

VARIABLES confirmed,    \* the version an ordinary boot runs
          trial,        \* the version on trial, or NoTrial
          proven        \* every version that was ever confirmed

vars == <<confirmed, trial, proven>>

Init == /\ confirmed \in Version
        /\ trial = NoTrial
        /\ proven = {confirmed}

StartTrial(v) ==
    /\ trial = NoTrial
    /\ v > confirmed
    /\ trial' = v
    /\ UNCHANGED <<confirmed, proven>>

Commit ==
    /\ trial # NoTrial
    /\ confirmed' = trial
    /\ trial' = NoTrial
    /\ proven' = proven \cup {trial}

Abort ==
    /\ trial # NoTrial
    /\ trial' = NoTrial
    /\ UNCHANGED <<confirmed, proven>>

FallBack(v) ==
    /\ trial = NoTrial
    /\ v \in proven /\ v < confirmed
    /\ confirmed' = v
    /\ UNCHANGED <<trial, proven>>

Next == \/ \E v \in Version : StartTrial(v) \/ FallBack(v)
        \/ Commit
        \/ Abort

Spec == Init /\ [][Next]_vars
=============================================================================
