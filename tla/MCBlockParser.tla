---------------------------- MODULE MCBlockParser ---------------------------
(***************************************************************************)
(* BlockParser over every text of up to MaxLines lines and separators: a   *)
(* line of every kind, two names so that one can overwrite the other, a    *)
(* list label with nothing behind it.                                      *)
(***************************************************************************)
EXTENDS BlockParser

CONSTANTS MaxLines, a, b

L(label, value) == [label |-> label, value |-> value, marks |-> {}]

Lines == { L("bare", "feat"), L("type", "reaction"), L("type", "unclassified"),
           L("name", a), L("name", b), L("traits", a), L("traits", Empty),
           [label |-> "effect", value |-> a, marks |-> {b}],
           L("references", a), L("references", Empty), L("other", Empty) }

MCText == UNION { [1 .. n -> Lines \cup {Separator}] : n \in 0 .. MaxLines }
=============================================================================
