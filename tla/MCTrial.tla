------------------------------- MODULE MCTrial -------------------------------
(***************************************************************************)
(* A boot under supervision, and the record it leaves: a behaviour is one  *)
(* of the supervised tasks of one boot (module Trial), or one of the       *)
(* record that run after run keeps (BootTrace), which tells more of how a  *)
(* run ends and nothing of its time.                                       *)
(*                                                                         *)
(* One task that beats in every loop (main), one with a short limit (the   *)
(* renderer), one that is supervised only while it serves (the settings    *)
(* page).  The durations keep the order RENDER_FRESH < limit of the        *)
(* renderer < limit of main, limit < BUY_SETTLE + limit < BUY_DEADLINE;    *)
(* the clock wraps after the deadline and after HEALTHY_CLEAR, as in the   *)
(* program (49.7 days, 180 s, 600 s).                                      *)
(***************************************************************************)
EXTENDS Trial, BootTrace

VARIABLE subject

MCWho == {"main", "render", "web"}
MCStartsParked == {"web"}
MCLimit == [who \in MCWho |-> IF who = "main" THEN 2 ELSE 1]

V042 == 402
V100 == 65536
SomeStages == {"SdInit", "Joining", "OtaProved"}
TwoDetails == {1, 2}

BootInit ==
    /\ TrialInit /\ TraceInit /\ subject \in {"tasks", "record"}
    /\ subject = "record" => mode = "recovery" /\ link = ScanOnly
BootNext ==
    \/ subject = "tasks" /\ TrialNext /\ UNCHANGED <<traceVars, subject>>
    \/ subject = "record" /\ TraceNext /\ UNCHANGED <<trialVars, subject>>
BootSpec == BootInit /\ [][BootNext]_<<trialVars, traceVars, subject>>
=============================================================================
