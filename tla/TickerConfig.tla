---------------------------- MODULE TickerConfig ----------------------------
(***************************************************************************)
(* The text of the settings file: what the program reads in it and how the *)
(* page changes it (src/src/ticker/config.rs).                             *)
(*                                                                         *)
(* A text is a sequence of lines, a line a key, a value and what follows   *)
(* the value from a # on.  An empty line, a comment and a line without an  *)
(* equals sign are lines of the key Comment.  The value of message goes to *)
(* the end of its line.  Case, indentation, ends of lines and the encoding *)
(* are left out; which values a key takes is the constant Valid.           *)
(***************************************************************************)
EXTENDS Naturals, Sequences, FiniteSetsExt

CONSTANTS
    Keys,         \* every key the program knows, as a sequence
    Comment,      \* the key of the lines that have none
    PageKeys,     \* SETTING_KEYS: the keys the settings page changes
    Removable,    \* those whose line goes when they are left empty
    Values, Notes,
    Valid,        \* the pairs of a key and a value that parse accepts
    Default,      \* the value of a key without a valid line
    Missing,      \* no value: the line is to go; also a file that is not there
    CONFIG_MAX    \* units a text may have: a line has one, and one more with a note

KnownKeys == {Keys[i] : i \in DOMAIN Keys}
Lines == [key : KnownKeys \cup {Comment}, value : Values, note : Notes]
IsText(c) == c \in Seq(Lines)

ASSUME TickerConfigAssumption ==
    /\ Keys \in Seq(KnownKeys) /\ Values # {}
    /\ PageKeys \subseteq KnownKeys /\ Removable \subseteq PageKeys
    /\ Comment \notin KnownKeys /\ Default \notin Values /\ Missing \notin Values
    /\ "" \in Notes /\ Valid \subseteq KnownKeys \X Values
    /\ CONFIG_MAX \in Nat \ {0}

Length(line) == IF line.note = "" THEN 1 ELSE 2
Units(text) == MapThenSumSet(LAMBDA i : Length(text[i]), DOMAIN text)
Begin(text, n) == SubSeq(text, 1, n)
Begins(text) == {Begin(text, n) : n \in 0 .. Len(text)}
(* What a reader with a buffer of CONFIG_MAX sees of a text.               *)
Read(text) ==
    Begin(text, Max({n \in 0 .. Len(text) : Units(Begin(text, n)) <= CONFIG_MAX}))

(* The elements of a sequence that are in a set, in their order.           *)
Keep(s, set) ==
    LET kept[n \in 0 .. Len(s)] ==
          IF n = 0 THEN <<>>
          ELSE IF s[n] \in set THEN Append(kept[n - 1], s[n]) ELSE kept[n - 1]
    IN  kept[Len(s)]

-----------------------------------------------------------------------------
(* TickerConfig::parse: the last valid line of a key counts; of message    *)
(* the last line, which may switch the local message off again             *)
(* (message_text reads it by the same rule).                               *)
At(text, key) == {i \in DOMAIN text : text[i].key = key}
Accepted(line) == <<line.key, line.value>> \in Valid

Parsed(text) ==
    [key \in KnownKeys |->
        LET counts == IF key = "message" THEN At(text, key)
                      ELSE {i \in At(text, key) : Accepted(text[i])}
        IN  IF counts # {} /\ Accepted(text[Max(counts)])
            THEN text[Max(counts)].value ELSE Default]

(* What save_form makes of a form and valid_value of its values: each key  *)
(* once, and an empty value (Missing here) for Removable keys only.        *)
Updates ==
    UNION {[ks -> Values \cup {Missing}] : ks \in (SUBSET PageKeys) \ {{}}}
ValidUpdate(u) ==
    \A key \in DOMAIN u :
        IF u[key] = Missing THEN key \in Removable ELSE <<key, u[key]>> \in Valid

(* rewrite: every line of a key that changes, for the last one counts; the *)
(* keys that have none are added at the end; a line left with Missing is   *)
(* none of Lines and goes.                                                 *)
FirstOnly(text, u) ==                                              \* mutant
    {i \in DOMAIN text : /\ text[i].key \in DOMAIN u
                         /\ \A j \in At(text, text[i].key) : i <= j}
Hits(text, u) == {i \in DOMAIN text : text[i].key \in DOMAIN u}

Added(text, u) ==
    LET keys == Keep(Keys, {key \in DOMAIN u : At(text, key) = {}})
    IN  [i \in DOMAIN keys |-> [key |-> keys[i], value |-> u[keys[i]], note |-> ""]]
Rewrite(text, u) ==
    LET hits == Hits(text, u)
        changed == [i \in DOMAIN text |->
                      IF i \in hits THEN [text[i] EXCEPT !.value = u[text[i].key]] ELSE text[i]]
    IN  Keep(changed \o Added(text, u), Lines)
=============================================================================
