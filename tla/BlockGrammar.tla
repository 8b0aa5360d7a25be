---------------------------- MODULE BlockGrammar ----------------------------
(***************************************************************************)
(* The grammar of a candidate block, as the parser's documentation and the *)
(* arms of its match give it: the labels, the fields, and what a set B of  *)
(* lines of a text t means, without reading it in order.                   *)
(***************************************************************************)
EXTENDS Integers, Sequences

CONSTANTS
    Empty,        \* a value of nothing
    Absent        \* None

RecognisedType == {"action", "reaction", "free-action", "feat", "condition"}
RuleType == RecognisedType \cup {"unclassified"}

ListField == {"traits", "requirements", "prerequisites"}
Field == {"name", "trigger", "effect"} \cup ListField
Label == {"bare", "type", "references", "other"} \cup Field

\* Confidence in hundredths.
BASE_CONFIDENCE == 90
UNCLASSIFIED_CONFIDENCE == 20
MISSING_TYPE_PENALTY == 20
LEFTOVER_PENALTY == 15

NoFields == [f \in Field |-> IF f \in ListField THEN Empty ELSE Absent]

Marks(t, B) == UNION { t[i].marks : i \in B }

---------------------------------------------------------------------------
(* What a block of lines means, from the description of the grammar and    *)
(* the arms of the match, without reading it in order.                     *)

IsLatest(S, i) == i \in S /\ \A j \in S : j <= i
Latest(S) == CHOOSE i \in S : IsLatest(S, i)

TypedLines(t, B) ==
    { i \in B : \/ t[i].label = "type"
                \/ t[i].label = "bare" /\ \A j \in B : i <= j }

Labelled(t, l, B) == { i \in B : t[i].label = l }

FieldOf(t, f, B) ==
    IF Labelled(t, f, B) = {} THEN NoFields[f] ELSE t[Latest(Labelled(t, f, B))].value

TypeOf(t, B) ==
    IF TypedLines(t, B) = {} THEN Absent ELSE t[Latest(TypedLines(t, B))].value

ReferencesOf(t, B) == { t[i].value : i \in Labelled(t, "references", B) } \ {Empty}

LeftoverOf(t, B) == (Labelled(t, "bare", B) \cup Labelled(t, "other", B)) \ TypedLines(t, B)
=============================================================================
