----------------------------- MODULE SlotWrite -----------------------------
(***************************************************************************)
(* What a download does to the slot that is not running, seen from the     *)
(* boot ROM: the image there goes away before anything of the new one is   *)
(* there, and the new one is there all at once or not at all.  The board   *)
(* is restarted into the slot only while it holds a whole image that has   *)
(* been examined.                                                          *)
(***************************************************************************)
CONSTANT Images         \* what a release may ask the clock to install

NoImage == "none"

VARIABLES slot,         \* the whole image in the slot, or NoImage
          reboot        \* a FLASH_UPDATE into the slot is on its way

vars == <<slot, reboot>>

Init == slot \in Images \cup {NoImage} /\ reboot = FALSE

Clear == slot' = NoImage /\ reboot' = FALSE
Fill(i) == slot = NoImage /\ slot' = i /\ reboot' = FALSE
Reboot == slot # NoImage /\ reboot' = TRUE /\ slot' = slot
Restart == reboot' = FALSE /\ slot' = slot

Next == Clear \/ (\E i \in Images : Fill(i)) \/ Reboot \/ Restart

Spec == Init /\ [][Next]_vars
=============================================================================
