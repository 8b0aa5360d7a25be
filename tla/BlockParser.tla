----------------------------- MODULE BlockParser ----------------------------
(***************************************************************************)
(* parse_candidates: one source text, cut into blocks, each block read     *)
(* line by line into one Candidate.  The loop over the lines is a state    *)
(* machine here, because its order matters (a later line overwrites an     *)
(* earlier one, the first line is special); BlockGrammar says what a block *)
(* means without any loop, and the two are shown to agree.                 *)
(*                                                                         *)
(* A line is what detect_bare_type and split_label make of it: a bare type *)
(* word, a labelled value, or anything else.  A line's marks are the       *)
(* [[names]] in it.  A value is a member of Value; Empty stands for the    *)
(* value of a label with nothing but blanks (or commas, for a list) after  *)
(* it.  Blank lines are dropped by the code before it looks at anything,   *)
(* so there are none.                                                      *)
(***************************************************************************)
EXTENDS BlockGrammar

CONSTANTS
    Value,        \* what may stand behind a label
    Separator,    \* BLOCK_SEPARATOR; within a line it cuts the line in two
    Text          \* the texts to parse

\* A line.  A bare line's value is the type it names; a type line's value is
\* the type RuleType::parse finds in it, "unclassified" for any other word.
Line == [label : Label, value : Value \cup {Empty} \cup RuleType, marks : SUBSET Value]

ASSUME ParserAssumption ==
    /\ Empty \notin Value \cup RuleType
    /\ Absent \notin Value \cup {Empty} \cup RuleType
    /\ Separator \notin Line
    /\ Text \subseteq Seq(Line \cup {Separator})
    /\ \A t \in Text : \A i \in DOMAIN t : t[i] \in Line =>
          /\ t[i].label = "bare" => t[i].value \in RecognisedType
          /\ t[i].label = "type" => t[i].value \in RuleType
          /\ t[i].label \in Field \cup {"references"} => t[i].value \in Value \cup {Empty}

VARIABLES
    text,         \* source_text
    at,           \* the next position of text to read
    block,        \* the positions of the lines read in the current block
    type,         \* rule_type, Absent for None
    fields,       \* the normalized fields
    references,   \* what reference lines named
    leftover,     \* the positions of the lines no arm of the match took
    emitted       \* the candidates of the finished blocks

blockVars == <<block, type, fields, references, leftover>>
parserVars == <<text, at, blockVars, emitted>>

\* Mutant: the fields outlive their block.
NewBlockKeepingFields ==
    /\ block' = {}
    /\ type' = Absent
    /\ fields' = fields
    /\ references' = {}
    /\ leftover' = {}

NewBlock ==
    /\ block' = {}
    /\ type' = Absent
    /\ fields' = NoFields
    /\ references' = {}
    /\ leftover' = {}

ParserInit ==
    /\ text \in Text
    /\ at = 1
    /\ block = {} /\ type = Absent /\ fields = NoFields
    /\ references = {} /\ leftover = {}
    /\ emitted = <<>>

---------------------------------------------------------------------------
(* The loop over the lines of a block: one action per arm of its match.    *)

AtLine == at <= Len(text) /\ text[at] # Separator

ReadLine ==
    /\ AtLine
    /\ at' = at + 1
    /\ block' = block \cup {at}
    /\ UNCHANGED <<text, emitted>>

\* detect_bare_type is asked about the first line only.
NamesType(i, earlier) == text[i].label = "bare" /\ earlier = {}

BareType ==
    /\ ReadLine
    /\ NamesType(at, block)
    /\ type' = text[at].value
    /\ UNCHANGED <<fields, references, leftover>>

TypeLine ==
    /\ ReadLine
    /\ text[at].label = "type"
    /\ type' = text[at].value
    /\ UNCHANGED <<fields, references, leftover>>

\* Mutant: the first line of a label wins.
FieldLineKeepingFirst ==
    /\ ReadLine
    /\ text[at].label \in Field
    /\ fields' = IF fields[text[at].label] # NoFields[text[at].label] THEN fields
                 ELSE [fields EXCEPT ![text[at].label] = text[at].value]
    /\ UNCHANGED <<type, references, leftover>>

FieldLine ==
    /\ ReadLine
    /\ text[at].label \in Field
    /\ fields' = [fields EXCEPT ![text[at].label] = text[at].value]
    /\ UNCHANGED <<type, references, leftover>>

\* Mutant: empty items are not filtered out of the list.
ReferenceLineUnfiltered ==
    /\ ReadLine
    /\ text[at].label = "references"
    /\ references' = references \cup {text[at].value}
    /\ UNCHANGED <<type, fields, leftover>>

\* References add up, unlike every other label.
ReferenceLine ==
    /\ ReadLine
    /\ text[at].label = "references"
    /\ references' = references \cup ({text[at].value} \ {Empty})
    /\ UNCHANGED <<type, fields, leftover>>

LeftoverLine ==
    /\ ReadLine
    /\ text[at].label \in {"bare", "other"}
    /\ ~NamesType(at, block)
    /\ leftover' = leftover \cup {at}
    /\ UNCHANGED <<type, fields, references>>

---------------------------------------------------------------------------
(* The end of a block. *)

\* Nothing in the block was recognised.
Unrecognised ==
    /\ fields = NoFields
    /\ type \in {Absent, "unclassified"}

\* Mutant: lines that went unread cost nothing.
ConfidenceIgnoringLeftover ==
    IF Unrecognised THEN UNCLASSIFIED_CONFIDENCE
    ELSE BASE_CONFIDENCE - (IF type = Absent THEN MISSING_TYPE_PENALTY ELSE 0)

Confidence ==
    IF Unrecognised THEN UNCLASSIFIED_CONFIDENCE
    ELSE BASE_CONFIDENCE
         - (IF type = Absent THEN MISSING_TYPE_PENALTY ELSE 0)
         - (IF leftover # {} THEN LEFTOVER_PENALTY ELSE 0)

Candidate ==
    [ rule_type |-> IF type = Absent THEN "unclassified" ELSE type,
      fields |-> fields,
      references |-> references \cup Marks(text, block),
      source_text |-> block,
      inferences |-> IF Unrecognised THEN {} ELSE leftover,
      confidence |-> Confidence ]

\* Mutant: only a separator finishes a candidate.
EndBlockAtSeparator ==
    /\ at = Len(text) + 1 \/ (at <= Len(text) /\ text[at] = Separator)
    /\ at' = at + 1
    /\ emitted' = IF block = {} \/ at > Len(text) THEN emitted
                  ELSE Append(emitted, Candidate)
    /\ NewBlock
    /\ UNCHANGED text

\* A block ends at the separator, wherever in a line it stands, and with the
\* text.  Blocks of nothing but blanks are filtered out.
EndBlock ==
    /\ at = Len(text) + 1 \/ (at <= Len(text) /\ text[at] = Separator)
    /\ at' = at + 1
    /\ emitted' = IF block = {} THEN emitted ELSE Append(emitted, Candidate)
    /\ NewBlock
    /\ UNCHANGED text

Parsed == at = Len(text) + 2

\* The parser returns; the caller has its Vec<Candidate>.
Done == Parsed /\ UNCHANGED parserVars

ParserNext ==
    \/ BareType \/ TypeLine \/ FieldLine \/ ReferenceLine \/ LeftoverLine
    \/ EndBlock \/ Done

ParserSpec == ParserInit /\ [][ParserNext]_parserVars

---------------------------------------------------------------------------
(* Properties. *)

CandidateRecord ==
    [ rule_type : RuleType,
      fields : [Field -> Value \cup {Empty, Absent}],
      references : SUBSET Value,
      source_text : SUBSET Nat,
      inferences : SUBSET Nat,
      confidence : 0 .. BASE_CONFIDENCE ]

Emitted == { emitted[i] : i \in DOMAIN emitted }

LinesBefore(t, n) == { i \in 1 .. n : i <= Len(t) /\ t[i] # Separator }

ParserTypeOK ==
    /\ text \in Text
    /\ at \in 1 .. Len(text) + 2
    /\ block \subseteq LinesBefore(text, at - 1)
    /\ type \in RuleType \cup {Absent}
    /\ fields \in [Field -> Value \cup {Empty, Absent}]
    /\ references \subseteq Value
    /\ leftover \subseteq block
    /\ emitted \in Seq(CandidateRecord)

\* The module's promise for the normalized fields: each is taken from a line
\* of the candidate's own block that carries its label, the last one, and
\* from nothing else; so are the type, the references and the notes.
FieldsComeFromLabels ==
    \A c \in Emitted :
        LET B == c.source_text IN
        /\ \A f \in Field : c.fields[f] = FieldOf(text, f, B)
        /\ c.rule_type = IF TypeOf(text, B) = Absent THEN "unclassified" ELSE TypeOf(text, B)
        /\ c.references = ReferencesOf(text, B) \cup Marks(text, B)
        /\ c.inferences \subseteq LeftoverOf(text, B)

\* Every line of the text is the source_text of exactly one candidate, and
\* candidates come in the order of their lines.
NoLineIsLost ==
    /\ block \cup UNION { c.source_text : c \in Emitted } = LinesBefore(text, at - 1)
    /\ \A m, n \in DOMAIN emitted : m < n =>
          \A i \in emitted[m].source_text, j \in emitted[n].source_text : i < j
    /\ \A c \in Emitted : \A i \in c.source_text, j \in block : i < j

\* The block names a type, by a word that is none the parser knows.
UnknownTypeWord(t, B) == TypeOf(t, B) = "unclassified"

\* What the code asks for confidence.  Full confidence takes a block in which no
\* line went unread and which names a type: one the parser knows, or, contrary
\* to "lower whenever the source's structure was incomplete or unrecognized"
\* (parser.rs 18-19), any other word behind `Type:`.  Anything above the floor
\* takes a known type or a labelled field, so that no block is both without a
\* type and without a field and yet believed.
ConfidenceIsEarned ==
    \A c \in Emitted :
        LET B == c.source_text IN
        /\ c.confidence = BASE_CONFIDENCE =>
              /\ LeftoverOf(text, B) = {}
              /\ TypeOf(text, B) \in RecognisedType \/ UnknownTypeWord(text, B)
        /\ c.confidence > UNCLASSIFIED_CONFIDENCE =>
              c.rule_type \in RecognisedType \/ \E f \in Field : Labelled(text, f, B) # {}

\* The inductive invariant: the loop has read the lines of the block so far
\* as the reference reads them.
ReadSoFar ==
    /\ type = TypeOf(text, block)
    /\ fields = [f \in Field |-> FieldOf(text, f, block)]
    /\ references = ReferencesOf(text, block)
    /\ leftover = LeftoverOf(text, block)
=============================================================================
