------------------------------ MODULE TickerTxt ------------------------------
(***************************************************************************)
(* The settings file on the SD card: how the settings page rewrites it     *)
(* (save_ticker_txt in src/src/web/server.rs) and how the next boot reads  *)
(* it (src/src/bin/ticker.rs).  FAT has no rename here, so the new text    *)
(* goes to TICKER.NEW, the old one to TICKER.BAK, and TICKER.TXT is        *)
(* rewritten in place.                                                     *)
(*                                                                         *)
(* What a text says and how it is changed is TickerConfig.  From lock_sd   *)
(* to the answer nothing else runs, so the steps are those a power cut or  *)
(* a reset can fall between.                                               *)
(***************************************************************************)
EXTENDS TickerConfig

CONSTANTS
    Texts,        \* what TICKER.TXT may hold when it is put into the clock
    Faults,       \* what may go wrong: "open", "read", "write", "bad", "cut"
    MaxFaults     \* bound on that

MaybeText(c) == c = Missing \/ IsText(c)

ASSUME TickerTxtAssumption ==
    /\ \A c \in Texts : MaybeText(c)
    /\ Faults \subseteq {"open", "read", "write", "bad", "cut"}
    /\ MaxFaults \in Nat

Files == {"TXT", "NEW", "BAK"}

VARIABLES
    file,         \* the card
    pc,           \* "off", "idle", or the next step of save_ticker_txt
    update,       \* the request: the keys to change, each with its value or Missing
    old, new,     \* the buffers of save_ticker_txt
    config,       \* the settings in force
    answer,       \* of the last save: "none", "ok", "error", "left in NEW"
    faults,
    before,       \* history: what TICKER.TXT held when the last save read it
    promised      \* history: what the last save answered with ok has stored

vars == <<file, pc, update, old, new, config, answer, faults, before, promised>>
buffers == <<update, old, new>>
history == <<before, promised>>

Blank(c) == c \in {Missing, <<>>}

Init ==
    /\ \E c \in Texts :
         /\ file = [f \in Files |-> IF f = "TXT" THEN c ELSE Missing]
    /\ pc = "off"
    /\ update = <<>> /\ old = Missing /\ new = <<>>
    /\ config = Parsed(<<>>) /\ answer = "none"
    /\ faults = 0
    /\ before = Missing /\ promised = Missing

-----------------------------------------------------------------------------
(* Boot.                                                                   *)

Fault(k) == k \in Faults /\ faults < MaxFaults /\ faults' = faults + 1

AlwaysNew(c) == file["NEW"] # Missing                           \* mutant
UseNew(c) == Blank(c) /\ ~Blank(file["NEW"])

(* What a boot makes of it when it has read c as TICKER.TXT.               *)
Loaded(c) ==
    Parsed(IF UseNew(c) THEN Read(file["NEW"]) ELSE IF c = Missing THEN <<>> ELSE Read(c))

(* The answer of the last save is gone with the power.                     *)
Boot ==
    /\ pc = "off"
    /\ \/ config' = Loaded(file["TXT"]) /\ UNCHANGED faults
       \/ Fault("open") /\ config' = Loaded(Missing)
       \/ Fault("read") /\ config' = Parsed(<<>>)
    /\ pc' = "idle" /\ answer' = "none"
    /\ UNCHANGED <<file, buffers, history>>

-----------------------------------------------------------------------------
(* save_ticker_txt.                                                        *)

(* The text a file that is not there starts from: one comment.             *)
HeaderValue == CHOOSE v \in Values : TRUE
Header == <<[key |-> Comment, value |-> HeaderValue, note |-> ""]>>

Answer(a) == answer' = a /\ pc' = "idle"

Request(u) ==
    /\ pc = "idle"
    /\ IF ValidUpdate(u) THEN pc' = "read" /\ answer' = "none" /\ update' = u
                         ELSE Answer("error") /\ UNCHANGED update
    /\ UNCHANGED <<file, old, new, config, faults, history>>

(* read_root_file takes every error of opening the file for "not found";   *)
(* a text that fills the buffer is refused, and a new text over it.        *)
TooLong(c) == c # Missing /\ Units(c) >= CONFIG_MAX
ReadOld ==
    /\ pc = "read"
    /\ before' = file["TXT"]
    /\ \/ /\ \/ old' = file["TXT"] /\ UNCHANGED faults
             \/ Fault("open") /\ old' = Missing
          /\ LET text == Rewrite(IF old' = Missing THEN Header ELSE old', update)
             IN  IF ~TooLong(old') /\ Units(text) <= CONFIG_MAX
                 THEN new' = text /\ pc' = "write NEW" /\ UNCHANGED answer
                 ELSE Answer("error") /\ UNCHANGED new
       \/ Fault("read") /\ Answer("error") /\ UNCHANGED <<old, new>>
    /\ UNCHANGED <<file, update, config, promised>>

(* write_file for each of the three files: its data, and what comes next.  *)
Data(f) == IF f = "BAK" THEN old ELSE new
WritePc(f) == CASE f = "NEW" -> "write NEW" [] f = "BAK" -> "write BAK" [] OTHER -> "write TXT"
ReadbackPc(f) == CASE f = "NEW" -> "check NEW" [] f = "BAK" -> "check BAK" [] OTHER -> "check TXT"
AfterFile(f) ==
    CASE f = "NEW" -> IF old = Missing THEN "write TXT" ELSE "write BAK"
      [] f = "BAK" -> "write TXT"
      [] OTHER     -> "delete"

Fails(f) == Answer(IF f = "TXT" THEN "left in NEW" ELSE "error")

(* An old text that is promised is given up here, and nowhere before.      *)
GivenUp(f) == promised' = IF f = "TXT" THEN Missing ELSE promised

Write(f) ==
    /\ pc = WritePc(f)
    /\ \/ /\ file' = [file EXCEPT ![f] = Data(f)]
          /\ pc' = ReadbackPc(f)
          /\ UNCHANGED <<answer, faults>>
       \/ /\ Fault("bad")
          /\ \E c \in Begins(Data(f)) : file' = [file EXCEPT ![f] = c]
          /\ pc' = ReadbackPc(f)
          /\ UNCHANGED answer
       \/ /\ Fault("write")
          /\ \E c \in {file[f]} \cup Begins(Data(f)) : file' = [file EXCEPT ![f] = c]
          /\ Fails(f)
    /\ GivenUp(f)
    /\ UNCHANGED <<buffers, config, before>>

WrittenUnread(f) == TRUE                                        \* mutant
Written(f) == file[f] = Data(f)

Readback(f) ==
    /\ pc = ReadbackPc(f)
    /\ \/ /\ Written(f)
          /\ pc' = AfterFile(f)
          /\ UNCHANGED <<answer, faults>>
       \/ ~Written(f) /\ Fails(f) /\ UNCHANGED faults
       \/ Fault("read") /\ Fails(f)
    /\ UNCHANGED <<file, buffers, config, history>>

(* TICKER.NEW goes, whether or not that works; then the settings apply.    *)
DeleteAndApply ==
    /\ pc = "delete"
    /\ \/ file' = [file EXCEPT !["NEW"] = Missing] /\ UNCHANGED faults
       \/ Fault("write") /\ UNCHANGED file
    /\ config' = Parsed(new)
    /\ promised' = new
    /\ Answer("ok")
    /\ UNCHANGED <<buffers, before>>

(* A power cut or a watchdog reset.  A file that is being written is empty *)
(* until it is closed.                                                     *)
CutLeaves ==
    {file} \cup UNION {{[file EXCEPT ![f] = <<>>], [file EXCEPT ![f] = Data(f)]} :
                       f \in {g \in Files : pc = WritePc(g)}}

PowerCut ==
    /\ Fault("cut")
    /\ pc # "off"
    /\ file' \in CutLeaves
    /\ pc' = "off"
    /\ promised' = IF pc = "write TXT" THEN Missing ELSE promised
    /\ UNCHANGED <<buffers, config, answer, before>>

Next ==
    \/ Boot
    \/ \E u \in Updates : Request(u)
    \/ ReadOld
    \/ \E f \in Files : Write(f) \/ Readback(f)
    \/ DeleteAndApply
    \/ PowerCut

Spec == Init /\ [][Next]_vars

-----------------------------------------------------------------------------
(* Properties.                                                             *)

PCs == {"off", "idle", "read", "delete"} \cup
       {WritePc(f) : f \in Files} \cup {ReadbackPc(f) : f \in Files}

(* The type invariant.                                                     *)
TypeOK ==
    /\ DOMAIN file = Files /\ \A f \in Files : MaybeText(file[f])
    /\ pc \in PCs
    /\ update \in Updates \cup {<<>>}
    /\ MaybeText(old) /\ IsText(new)
    /\ config \in [KnownKeys -> Values \cup {Default}]
    /\ answer \in {"none", "ok", "error", "left in NEW"}
    /\ faults \in 0 .. MaxFaults
    /\ MaybeText(before) /\ MaybeText(promised)

(* Whatever fails and wherever the power goes, a save that found a text in *)
(* TICKER.TXT leaves a file with the whole of that text or with the whole  *)
(* of the new one (the order NEW, BAK, TXT and the three readings back).   *)
OneComplete ==
    ~Blank(before) => \E f \in Files : file[f] \in {before, new}

(* What the page was told is saved is what a boot that can read the card   *)
(* loads, from then on and until a later save comes to rewrite TICKER.TXT: *)
(* no TICKER.NEW that a failed save or delete left behind gets in its way. *)
SavedIsLoaded ==
    [][pc = "off" /\ pc' = "idle" /\ faults' = faults /\ ~Blank(promised)
         => config' = Parsed(promised)]_vars

(* When the page says the new settings are left in TICKER.NEW, they are,   *)
(* all of them.                                                            *)
LeftInNew ==
    answer = "left in NEW" => file["NEW"] = new

(* A save the page answers with ok puts what was asked into force, also    *)
(* where a key has several lines, and changes no other setting; every line *)
(* of another key is in the new text, in its order.                        *)
Others(c) == Keep(c, {line \in Lines : line.key \notin DOMAIN update})
AsAsked ==
    answer = "ok" =>
        /\ \A key \in DOMAIN update :
              config[key] = IF update[key] = Missing THEN Default ELSE update[key]
        /\ old # Missing =>
              /\ \A key \in KnownKeys \ DOMAIN update : config[key] = Parsed(old)[key]
              /\ Others(new) = Others(old)

(* Whatever fails, the old or the new text is on the card, and the new one *)
(* is where the page says it is and says what was asked.                   *)
TextsAreSafe == TypeOK /\ OneComplete /\ LeftInNew /\ AsAsked
=============================================================================
