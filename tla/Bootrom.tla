------------------------------ MODULE Bootrom ------------------------------
(***************************************************************************)
(* What the RP2350 boot ROM does with the two firmware slots.  The ROM is  *)
(* not part of the repository: these operators follow the way the firmware *)
(* uses it (src/src/ab_boot.rs) and the way the repository's own simulator *)
(* of it picks a slot (src/tools/ticker-tests/src/boot_sim.rs).            *)
(*                                                                         *)
(* A slot holds either no bootable image or an image with a version word   *)
(* and a TBYB ("try before you buy") flag.  An image whose flag is set is  *)
(* booted only by reboot(FLASH_UPDATE) and is not chosen by any later boot *)
(* unless explicit_buy has cleared the flag in the meantime.               *)
(***************************************************************************)
EXTENDS Naturals

CONSTANT Version    \* the version words of the releases, IMAGE_DEF's form

ASSUME VersionAssumption == Version \subseteq Nat \ {0}

Slots == {"A", "B"}
Other(s) == IF s = "A" THEN "B" ELSE "A"

NoImage == [ver |-> 0, tbyb |-> FALSE]
Image   == [ver : Version, tbyb : BOOLEAN]
Flash   == [Slots -> Image \cup {NoImage}]

Valid(f, s)  == f[s].ver # 0
Bought(f, s) == Valid(f, s) /\ ~f[s].tbyb

(* The slots an ordinary boot may choose: the newest image that has been   *)
(* bought.                                                                 *)
NormalPick(f) ==
    {s \in Slots : /\ Bought(f, s)
                   /\ \A t \in Slots : Bought(f, t) => f[t].ver <= f[s].ver}

OtherNewer(f, s) == Valid(f, Other(s)) /\ f[Other(s)].ver > f[s].ver

(* reboot(FLASH_UPDATE) into slot s: the image found there is started      *)
(* whatever its version.  If the other slot is newer, the other slot is    *)
(* given up: at once when the image is bought, at the buy when it is not.  *)
FlashUpdateErases(f, s) == OtherNewer(f, s) /\ ~f[s].tbyb
AfterUpdateBoot(f, s) ==
    IF FlashUpdateErases(f, s) THEN [f EXCEPT ![Other(s)] = NoImage] ELSE f
EraseAtBuy(f, s) == OtherNewer(f, s) /\ f[s].tbyb

(* explicit_buy rewrites the first sector of the running image with the    *)
(* TBYB flag cleared (erase, then program), then gives up the other slot   *)
(* if this boot was marked so.                                             *)
BuyErased(f, s) == [f EXCEPT ![s] = NoImage]
BuyDoneFlash(f, s, v, eraseOther) ==
    [t \in Slots |-> IF t = s THEN [ver |-> v, tbyb |-> FALSE]
                     ELSE IF eraseOther THEN NoImage ELSE f[t]]
=============================================================================
