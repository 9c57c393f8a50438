------------------------------ MODULE OtaCheck ------------------------------
(***************************************************************************)
(* One check for an update, run_ota_check in src/src/ota/app.rs, with the  *)
(* requests of src/src/ota/http.rs, the examination of what came (ImageDef *)
(* and the digest) and the writer of the slot (SlotWriter).  What the      *)
(* manifest decides before there is anything to write is the subject of    *)
(* Board and OtaTask; here it is a choice.                                 *)
(***************************************************************************)
EXTENDS SlotWriter, ImageDef

CONSTANTS
    MAX_REDIRECTS,
    Version,      \* Version[i]: <<major, minor, patch>> in the manifest of i
    FirstSector   \* FirstSector[i]: what the first sector of release i may hold

Sound == {i \in Releases : \E s \in FirstSector[i] : Checked(s, Version[i])}

ASSUME OtaCheckAssumption ==
    /\ MAX_REDIRECTS \in Nat
    /\ DOMAIN Version = Releases /\ DOMAIN FirstSector = Releases
    /\ \A i \in Releases : i # "none" /\ \A s \in FirstSector[i] : IsSector(s)

VARIABLES
    what,         \* the file that is fetched: "manifest" or "asset"
    redirects,
    result,       \* of the last check: a phase, a class of errors, or "none"
    parsed,       \* manifest_parsed
    sector,       \* the first sector, while it counts
    answered      \* history: the answer to the request for the manifest is complete

check == <<what, redirects, result, parsed, sector, answered>>
all == <<vars, check>>

CheckInit ==
    /\ what = "manifest" /\ redirects = 0
    /\ result = "none" /\ parsed = FALSE /\ sector = <<>> /\ answered = FALSE
Init == WriterInit /\ CheckInit

(* CheckFailure.                                                           *)
Failures == {"FinalStatus", "BadResponse", "Transport", "Local"}
Phases == {"NoRelease", "UpToDate", "NewerAvailable", "Blocked", "Rejected", "Rebooting"}

Ends(r) == result' = r /\ GoTo("idle")
(* A failed request: an asset that was begun is invalidated.               *)
Fails(r) == result' = r /\ GoTo(IF what = "asset" THEN "invalidate" ELSE "idle")

-----------------------------------------------------------------------------
(* http::fetch.                                                            *)

CheckBegins ==
    /\ pc = "idle"
    /\ what' = "manifest" /\ redirects' = 0
    /\ result' = "none" /\ parsed' = FALSE /\ answered' = FALSE
    /\ GoTo("ask")
    /\ UNCHANGED <<flash, stream, writer, faults, sector>>

(* Name, connection, TLS, time limit; a head that is too long or not HTTP, *)
(* a redirection without a place one can go to.                            *)
AskFails ==
    /\ pc = "ask"
    /\ \E r \in {"Transport", "BadResponse"} : Fails(r)
    /\ UNCHANGED <<flash, stream, writer, faults, what, redirects, parsed, sector, answered>>

Redirected ==
    /\ pc = "ask"
    /\ IF redirects >= MAX_REDIRECTS
       THEN Fails("BadResponse") /\ UNCHANGED redirects
       ELSE redirects' = redirects + 1 /\ UNCHANGED <<pc, result>>
    /\ UNCHANGED <<flash, stream, writer, faults, what, parsed, sector, answered>>

(* Any other status than 200: 404 says that there is no release yet.       *)
Refused(status) ==
    /\ pc = "ask"
    /\ IF status = 404 /\ what = "manifest" THEN Ends("NoRelease") ELSE Fails("FinalStatus")
    /\ answered' = TRUE
    /\ UNCHANGED <<flash, stream, writer, faults, what, redirects, parsed, sector>>

(* 200.  The asset is the latest release's at that time.                   *)
Accepted200(i) ==
    /\ pc = "ask"
    /\ IF what = "manifest"
       THEN GoTo("manifest") /\ UNCHANGED stream
       ELSE /\ GoTo("stream")
            /\ body' = i /\ sent' = 0 /\ chunk' = <<>> /\ UNCHANGED want
    /\ redirects' = 0
    /\ UNCHANGED <<flash, writer, faults, what, result, parsed, sector, answered>>

(* The body of the manifest breaks off, is too long or is not a manifest.  *)
ManifestFails ==
    /\ pc = "manifest"
    /\ \E r \in {"Transport", "BadResponse"} : Fails(r)
    /\ UNCHANGED <<flash, stream, writer, faults, what, redirects, parsed, sector, answered>>

(* It is complete: there is nothing to do, the slot holds this very image  *)
(* (it was tried before and is tried again later), or it is to be written. *)
Manifest(i) ==
    /\ pc = "manifest"
    /\ parsed' = TRUE /\ answered' = TRUE
    /\ \/ /\ \E r \in {"UpToDate", "Blocked", "NewerAvailable", "Local"} : Ends(r)
          /\ UNCHANGED <<want, what>>
       \/ /\ want' = i
          /\ IF ~(Size[i] > 0 /\ Size[i] <= Capacity)
             THEN Ends("Local") /\ UNCHANGED what
             ELSE IF hash_storage(flash, Size[i]) = Image(i)
             THEN result' = "Rejected" /\ GoTo("reboot") /\ UNCHANGED what
             ELSE GoTo("begin") /\ what' = "asset" /\ UNCHANGED result
    /\ UNCHANGED <<flash, body, sent, chunk, writer, faults, redirects, sector>>

(* A lost connection or the time limit; the server has nothing more.       *)
BetweenChunks == pc = "stream" /\ chunk = <<>> /\ Len(buf) < Pages
StreamFails ==
    /\ Fault /\ BetweenChunks
    /\ Fails("Transport")
    /\ UNCHANGED <<flash, stream, writer, what, redirects, parsed, sector, answered>>

EndOfBody ==
    /\ BetweenChunks /\ sent = Size[body]
    /\ GoTo("finish")
    /\ UNCHANGED <<flash, stream, writer, faults, check>>

-----------------------------------------------------------------------------
(* The examination.                                                        *)

DigestMatches == hash = Image(want)

(* finish, the digest, and image::check of the sector kept in RAM.         *)
Verify ==
    /\ pc = "finish" /\ buf = <<>>
    /\ IF DigestMatches
       THEN \E s \in FirstSector[want] :
              IF Checked(s, Version[want])
              THEN GoTo("commit") /\ sector' = s /\ UNCHANGED result
              ELSE Fails("Local") /\ UNCHANGED sector
       ELSE Fails("Local") /\ UNCHANGED sector
    /\ UNCHANGED <<flash, stream, writer, faults, what, redirects, parsed, answered>>

ReadsBackUnread == TRUE                                  \* mutant
ReadsBack == hash_storage(flash, Size[want]) = Image(want)

Readback ==
    /\ pc = "readback"
    /\ IF ReadsBack THEN result' = "Rebooting" /\ GoTo("reboot") ELSE Fails("Local")
    /\ UNCHANGED <<flash, stream, writer, faults, what, redirects, parsed, sector, answered>>

(* The version was tried and not bought; the other slot runs again.        *)
RolledBack ==
    /\ pc = "reboot"
    /\ GoTo("idle")
    /\ result' = "none" /\ parsed' = FALSE
    /\ UNCHANGED <<flash, stream, writer, faults, what, redirects, sector, answered>>

(* The steps of the writer.  An error of its own ends the check; one while *)
(* the slot is invalidated is passed over.                                 *)
WriterSteps ==
    \/ /\ Begin \/ Fill \/ FlushFirst \/ FlushSector \/ CommitProgram \/ Invalidate \/ BadPages
       /\ UNCHANGED check
    \/ CommitErase /\ sector' = <<>> /\ UNCHANGED <<what, redirects, result, parsed, answered>>
    \/ /\ \E n \in 1 .. Capacity + Pages : Push(n)
       /\ result' = IF pc' = "invalidate" THEN "Local" ELSE result
       /\ UNCHANGED <<what, redirects, parsed, sector, answered>>
    \/ /\ FlashError
       /\ result' = IF pc = "invalidate" THEN result ELSE "Local"
       /\ sector' = <<>>
       /\ UNCHANGED <<what, redirects, parsed, answered>>
    \/ /\ PowerCut
       /\ result' = "none" /\ parsed' = FALSE /\ sector' = <<>>
       /\ UNCHANGED <<what, redirects, answered>>

Next ==
    \/ CheckBegins \/ AskFails \/ Redirected
    \/ \E status \in {404, 500} : Refused(status)
    \/ \E i \in Releases : Accepted200(i) \/ Manifest(i)
    \/ ManifestFails \/ StreamFails \/ EndOfBody
    \/ Verify \/ Readback \/ RolledBack
    \/ WriterSteps

Spec == Init /\ [][Next]_all

-----------------------------------------------------------------------------
(* What the end of the check proves, for the purchase of a trial: check_   *)
(* failure, classify_check.                                                *)
AnyAnswer(has, r) ==                                               \* mutant
    r \notin Failures \/ has \/ r \in {"FinalStatus", "BadResponse"}
Proved(has, r) == r \notin Failures \/ has \/ r = "FinalStatus"

(* Properties.                                                             *)

(* The type invariant.                                                     *)
TypeOK ==
    /\ WriterTypeOK
    /\ what \in {"manifest", "asset"} /\ redirects \in 0 .. MAX_REDIRECTS
    /\ result \in Failures \cup Phases \cup {"none"}
    /\ parsed \in BOOLEAN /\ answered \in BOOLEAN
    /\ sector = <<>> \/ sector \in FirstSector[want]

(* Whatever the server sends, a download never reaches the flash beyond    *)
(* the slot: the first sector behind it may be that of the running image.  *)
NeighbourIntact == \A o \in Offsets : o >= Capacity => flash[o] = Own

(* A slot whose sector 0 could be booted holds an image that has been      *)
(* examined and no page of any other, at every instant of a download, an   *)
(* error or a power cut (slot.rs, the order of writing).                   *)
Bootable(i) == flash[0] = <<i, 1>>
FirstSectorLast ==
    \A i \in Releases : Bootable(i) =>
        i \in Sound /\ \A o \in Pages .. Size[i] - 1 : flash[o] \in {<<i, o + 1>>, Garbage}

(* Of an image that is about to be made bootable the boot ROM can think    *)
(* nothing else than that it is to be tried before it is bought, and that  *)
(* it is of the version of the manifest (image.rs, parse).                 *)
OnlyOnTrial == sector # <<>> => RomMay(sector) = {<<"tbyb", Folded(Version[want])>>}

(* A check that counts as a proof of this version's path to the server has *)
(* got the server's last answer, whole, to the request for the manifest    *)
(* (boot_policy.rs, CheckOutcome::Proved).                                 *)
ProvedByAnswer == pc = "idle" /\ result # "none" /\ Proved(parsed, result) => answered

(* A write keeps to its slot and makes it bootable with its last step,     *)
(* and only what is to be tried.                                           *)
SlotIsSafe == TypeOK /\ NeighbourIntact /\ FirstSectorLast /\ OnlyOnTrial
CheckIsSound == SlotIsSafe /\ ProvedByAnswer

(* A reboot into the slot finds a whole image there, and between two whole *)
(* images the slot is empty.                                               *)
Whole(i) == Size[i] \in 1 .. Capacity /\ hash_storage(flash, Size[i]) = Image(i)
SlotImage == IF \E i \in Releases : Whole(i)
               THEN CHOOSE i \in Releases : Whole(i) ELSE "none"
Atomic == INSTANCE SlotWrite WITH
    Images <- Sound, slot <- SlotImage, reboot <- pc = "reboot"
ImplementsSlotWrite == Atomic!Spec
=============================================================================
