------------------------- MODULE BlockParser_proofs -------------------------
(***************************************************************************)
(* Theorems about BlockParser for every text: the loop over the lines      *)
(* computes what the reference definitions say of a block, no line is      *)
(* lost, and what it takes to have full confidence.                        *)
(***************************************************************************)
EXTENDS BlockParser, TLAPS

---------------------------------------------------------------------------
(* The reference definitions, one more line at a time: what a block means  *)
(* is what it meant before, and what its last line adds.                   *)

LEMMA LatestIsLast ==
    ASSUME NEW S, NEW n \in Int, S \subseteq Int, \A i \in S : i < n
    PROVE  Latest(S \cup {n}) = n
<1>1. IsLatest(S \cup {n}, n)
  BY DEF IsLatest
<1>2. \A i : IsLatest(S \cup {n}, i) => i = n
  <2> SUFFICES ASSUME NEW i, IsLatest(S \cup {n}, i) PROVE i = n
    OBVIOUS
  <2>1. i \in S \cup {n} /\ n <= i
    BY DEF IsLatest
  <2> QED BY <2>1
<1> QED BY <1>1, <1>2 DEF Latest

LEMMA TypedLinesGrow ==
    ASSUME NEW t, NEW n \in Int, NEW B, B \subseteq Int, \A i \in B : i < n
    PROVE  IF t[n].label = "type" \/ (t[n].label = "bare" /\ B = {})
           THEN TypedLines(t, B \cup {n}) = TypedLines(t, B) \cup {n}
           ELSE TypedLines(t, B \cup {n}) = TypedLines(t, B)
<1>1. \A i \in B : (\A j \in B \cup {n} : i <= j) <=> (\A j \in B : i <= j)
  OBVIOUS
<1>2. (\A j \in B \cup {n} : n <= j) <=> B = {}
  OBVIOUS
<1> QED BY <1>1, <1>2 DEF TypedLines

LEMMA FieldOfLastLine ==
    ASSUME NEW t, NEW n \in Int, NEW B, B \subseteq Int, \A i \in B : i < n
    PROVE  \A f : FieldOf(t, f, B \cup {n}) =
             IF t[n].label = f THEN t[n].value ELSE FieldOf(t, f, B)
<1> TAKE f
<1>1. CASE t[n].label = f
  <2>1. Labelled(t, f, B \cup {n}) = Labelled(t, f, B) \cup {n}
    BY <1>1 DEF Labelled
  <2>2. Labelled(t, f, B) \subseteq B
    BY DEF Labelled
  <2>3. Latest(Labelled(t, f, B) \cup {n}) = n
    BY <2>2, LatestIsLast
  <2> QED BY <1>1, <2>1, <2>3 DEF FieldOf
<1>2. CASE t[n].label # f
  <2>1. Labelled(t, f, B \cup {n}) = Labelled(t, f, B)
    BY <1>2 DEF Labelled
  <2> QED BY <1>2, <2>1 DEF FieldOf
<1> QED BY <1>1, <1>2

LEMMA TypeOfLastLine ==
    ASSUME NEW t, NEW n \in Int, NEW B, B \subseteq Int, \A i \in B : i < n
    PROVE  TypeOf(t, B \cup {n}) =
             IF t[n].label = "type" \/ (t[n].label = "bare" /\ B = {})
             THEN t[n].value ELSE TypeOf(t, B)
<1> DEFINE names == t[n].label = "type" \/ (t[n].label = "bare" /\ B = {})
<1>1. CASE names
  <2>1. TypedLines(t, B \cup {n}) = TypedLines(t, B) \cup {n}
    BY <1>1, TypedLinesGrow
  <2>2. TypedLines(t, B) \subseteq B
    BY DEF TypedLines
  <2>3. Latest(TypedLines(t, B) \cup {n}) = n
    BY <2>2, LatestIsLast
  <2> QED BY <1>1, <2>1, <2>3 DEF TypeOf
<1>2. CASE ~names
  <2>1. TypedLines(t, B \cup {n}) = TypedLines(t, B)
    BY <1>2, TypedLinesGrow
  <2> QED BY <1>2, <2>1 DEF TypeOf
<1> QED BY <1>1, <1>2

LEMMA ReferencesOfLastLine ==
    ASSUME NEW t, NEW n, NEW B
    PROVE  IF t[n].label = "references"
           THEN ReferencesOf(t, B \cup {n}) = ReferencesOf(t, B) \cup ({t[n].value} \ {Empty})
           ELSE ReferencesOf(t, B \cup {n}) = ReferencesOf(t, B)
<1>1. CASE t[n].label = "references"
  <2>1. Labelled(t, "references", B \cup {n}) = Labelled(t, "references", B) \cup {n}
    BY <1>1 DEF Labelled
  <2> QED BY <1>1, <2>1 DEF ReferencesOf
<1>2. CASE t[n].label # "references"
  <2>1. Labelled(t, "references", B \cup {n}) = Labelled(t, "references", B)
    BY <1>2 DEF Labelled
  <2> QED BY <1>2, <2>1 DEF ReferencesOf
<1> QED BY <1>1, <1>2

LEMMA LeftoverOfLastLine ==
    ASSUME NEW t, NEW n \in Int, NEW B, B \subseteq Int, \A i \in B : i < n
    PROVE  IF t[n].label = "other" \/ (t[n].label = "bare" /\ B # {})
           THEN LeftoverOf(t, B \cup {n}) = LeftoverOf(t, B) \cup {n}
           ELSE LeftoverOf(t, B \cup {n}) = LeftoverOf(t, B)
<1>1. /\ Labelled(t, "bare", B) \subseteq B
      /\ Labelled(t, "other", B) \subseteq B
      /\ TypedLines(t, B) \subseteq B
      /\ n \notin B
  BY DEF Labelled, TypedLines
<1>2. CASE t[n].label = "other"
  <2>1. /\ TypedLines(t, B \cup {n}) = TypedLines(t, B)
        /\ Labelled(t, "bare", B \cup {n}) = Labelled(t, "bare", B)
        /\ Labelled(t, "other", B \cup {n}) = Labelled(t, "other", B) \cup {n}
    BY <1>2, TypedLinesGrow DEF Labelled
  <2> QED BY <1>1, <1>2, <2>1 DEF LeftoverOf
<1>3. CASE t[n].label = "bare" /\ B # {}
  <2>1. TypedLines(t, B \cup {n}) = TypedLines(t, B)
    BY <1>3, TypedLinesGrow
  <2>2. /\ Labelled(t, "bare", B \cup {n}) = Labelled(t, "bare", B) \cup {n}
        /\ Labelled(t, "other", B \cup {n}) = Labelled(t, "other", B)
    BY <1>3 DEF Labelled
  <2> QED BY <1>1, <1>3, <2>1, <2>2 DEF LeftoverOf
<1>4. CASE t[n].label = "bare" /\ B = {}
  <2>1. /\ TypedLines(t, B \cup {n}) = TypedLines(t, B) \cup {n}
        /\ Labelled(t, "bare", B \cup {n}) = Labelled(t, "bare", B) \cup {n}
        /\ Labelled(t, "other", B \cup {n}) = Labelled(t, "other", B)
    BY <1>4, TypedLinesGrow DEF Labelled
  <2> QED BY <1>1, <1>4, <2>1 DEF LeftoverOf
<1>5. CASE t[n].label \notin {"other", "bare"}
  <2>1. /\ TypedLines(t, B \cup {n}) \subseteq TypedLines(t, B) \cup {n}
        /\ TypedLines(t, B) \subseteq TypedLines(t, B \cup {n})
        /\ Labelled(t, "bare", B \cup {n}) = Labelled(t, "bare", B)
        /\ Labelled(t, "other", B \cup {n}) = Labelled(t, "other", B)
    BY <1>5, TypedLinesGrow DEF Labelled
  <2> QED BY <1>1, <1>5, <2>1 DEF LeftoverOf
<1> QED BY <1>2, <1>3, <1>4, <1>5

\* A block of no lines means nothing.
LEMMA EmptyBlock ==
    ASSUME NEW t
    PROVE  /\ TypeOf(t, {}) = Absent
           /\ \A f : FieldOf(t, f, {}) = NoFields[f]
           /\ ReferencesOf(t, {}) = {}
           /\ LeftoverOf(t, {}) = {}
BY DEF TypeOf, TypedLines, FieldOf, Labelled, ReferencesOf, LeftoverOf

\* The elements of a sequence with one more element.
LEMMA ElementsOfAppend ==
    ASSUME NEW X, NEW s \in Seq(X), NEW x \in X
    PROVE  { Append(s, x)[i] : i \in DOMAIN Append(s, x) } = { s[i] : i \in DOMAIN s } \cup {x}
<1>1. DOMAIN Append(s, x) = DOMAIN s \cup {Len(s) + 1}
  OBVIOUS
<1>2. Append(s, x)[Len(s) + 1] = x /\ \A i \in DOMAIN s : Append(s, x)[i] = s[i]
  OBVIOUS
<1> QED BY <1>1, <1>2

---------------------------------------------------------------------------
(* Type correctness. *)

\* What the current line may be.
LEMMA CurrentLine ==
    ASSUME ParserTypeOK, AtLine
    PROVE  /\ at \in Nat /\ at \in DOMAIN text
           /\ text[at].label \in Label /\ text[at].marks \subseteq Value
           /\ text[at].label \in {"bare", "type"} => text[at].value \in RuleType
           /\ text[at].label \in Field \cup {"references"} => text[at].value \in Value \cup {Empty}
<1>1. text \in Text /\ text \in Seq(Line \cup {Separator})
  BY ParserAssumption DEF ParserAssumption, ParserTypeOK
<1>2. at \in Nat /\ at \in DOMAIN text
  BY <1>1 DEF ParserTypeOK, AtLine
<1>3. text[at] \in Line
  <2>1. text[at] \in Line \cup {Separator}
    BY <1>1, <1>2
  <2> QED BY <2>1 DEF AtLine
<1>4. text[at].label \in Label /\ text[at].marks \subseteq Value
  BY <1>3 DEF Line
<1>5. /\ text[at].label = "bare" => text[at].value \in RecognisedType
      /\ text[at].label = "type" => text[at].value \in RuleType
      /\ text[at].label \in Field \cup {"references"} => text[at].value \in Value \cup {Empty}
  BY <1>1, <1>2, <1>3, ParserAssumption DEF ParserAssumption
<1> QED BY <1>2, <1>4, <1>5 DEF RuleType

\* The lines before a position, one position further.
LEMMA OneLineFurther ==
    ASSUME NEW t, NEW n \in Nat, n >= 1, NEW k \in Nat, k = Len(t)
    PROVE  /\ n <= k /\ t[n] # Separator => LinesBefore(t, n) = LinesBefore(t, n - 1) \cup {n}
           /\ ~(n <= k /\ t[n] # Separator) => LinesBefore(t, n) = LinesBefore(t, n - 1)
BY DEF LinesBefore

\* The block so far lies before the current position.
LEMMA BlockIsBefore ==
    ASSUME ParserTypeOK
    PROVE  /\ text \in Seq(Line \cup {Separator}) /\ Len(text) \in Nat
           /\ at \in Nat /\ at >= 1 /\ at <= Len(text) + 2
           /\ block \subseteq Nat /\ block \subseteq DOMAIN text
           /\ \A i \in block : i < at /\ text[i] \in Line
<1>1. text \in Seq(Line \cup {Separator})
  BY ParserAssumption DEF ParserAssumption, ParserTypeOK
<1>2. Len(text) \in Nat /\ DOMAIN text = 1 .. Len(text)
  BY <1>1
<1>3. at \in Nat /\ at >= 1 /\ at <= Len(text) + 2
  BY <1>2 DEF ParserTypeOK
<1>4. \A i \in block : i \in 1 .. at - 1 /\ i <= Len(text) /\ text[i] # Separator
  BY DEF ParserTypeOK, LinesBefore
<1>5. \A i \in block : i \in Nat /\ i < at /\ i \in DOMAIN text
  BY <1>2, <1>3, <1>4
<1>6. \A i \in block : text[i] \in Line
  <2> SUFFICES ASSUME NEW i \in block PROVE text[i] \in Line
    OBVIOUS
  <2>1. text[i] \in Line \cup {Separator}
    BY <1>1, <1>5
  <2> QED BY <1>4, <2>1
<1> QED BY <1>1, <1>2, <1>3, <1>5, <1>6

LEMMA ConfidenceInRange == Confidence \in 0 .. BASE_CONFIDENCE
BY DEF Confidence, BASE_CONFIDENCE, UNCLASSIFIED_CONFIDENCE, MISSING_TYPE_PENALTY,
       LEFTOVER_PENALTY

LEMMA CandidateType ==
    ASSUME ParserTypeOK
    PROVE  Candidate \in CandidateRecord
<1>1. (IF type = Absent THEN "unclassified" ELSE type) \in RuleType
  BY DEF ParserTypeOK, RuleType
<1>2. references \cup Marks(text, block) \subseteq Value
  <2>1. \A i \in block : text[i].marks \subseteq Value
    BY BlockIsBefore DEF Line
  <2> QED BY <2>1 DEF Marks, ParserTypeOK
<1>3. block \in SUBSET Nat
  BY BlockIsBefore
<1>4. (IF Unrecognised THEN {} ELSE leftover) \in SUBSET Nat
  BY <1>3 DEF ParserTypeOK
<1>5. fields \in [Field -> Value \cup {Empty, Absent}]
  BY DEF ParserTypeOK
<1> QED BY <1>1, <1>2, <1>3, <1>4, <1>5, ConfidenceInRange DEF Candidate, CandidateRecord

\* Whatever the line, reading it keeps the positions in their ranges.
LEMMA ReadLineTypes ==
    ASSUME ParserTypeOK, ReadLine
    PROVE  /\ text' \in Text
           /\ at' \in 1 .. Len(text') + 2
           /\ block' \subseteq LinesBefore(text', at' - 1)
           /\ emitted' \in Seq(CandidateRecord)
<1>1. text' = text /\ at' = at + 1 /\ block' = block \cup {at} /\ emitted' = emitted
  BY DEF ReadLine
<1>2. at <= Len(text) /\ text[at] # Separator
  BY DEF ReadLine, AtLine
<1>3. Len(text) \in Nat /\ at \in Nat /\ at >= 1
  BY BlockIsBefore
<1>4. LinesBefore(text, at) = LinesBefore(text, at - 1) \cup {at}
  BY <1>2, <1>3, OneLineFurther
<1>5. at' \in 1 .. Len(text') + 2 /\ at' - 1 = at
  BY <1>1, <1>2, <1>3
<1> QED BY <1>1, <1>4, <1>5 DEF ParserTypeOK

LEMMA NoFieldsType == NoFields \in [Field -> Value \cup {Empty, Absent}]
BY DEF NoFields

\* Type correctness of the parser, the candidates it returns included: names,
\* lists and references hold values and never an empty item, and confidence
\* stays within its range (parser.rs clamps it, and never has to).
THEOREM ParserTypes == ParserSpec => []ParserTypeOK
<1>1. ParserInit => ParserTypeOK
  <2> SUFFICES ASSUME ParserInit PROVE ParserTypeOK
    OBVIOUS
  <2>1. text \in Seq(Line \cup {Separator})
    BY ParserAssumption DEF ParserAssumption, ParserInit
  <2>2. Len(text) \in Nat
    BY <2>1
  <2>3. at \in 1 .. Len(text) + 2
    BY <2>2 DEF ParserInit
  <2> QED BY <2>3, NoFieldsType DEF ParserInit, ParserTypeOK
<1>2. ParserTypeOK /\ [ParserNext]_parserVars => ParserTypeOK'
  <2> SUFFICES ASSUME ParserTypeOK, [ParserNext]_parserVars
               PROVE  ParserTypeOK'
    OBVIOUS
  <2>1. CASE BareType
    <3>1. ReadLine /\ text[at].label = "bare"
      BY <2>1 DEF BareType, NamesType
    <3>2. type' \in RuleType
      BY <2>1, <3>1, CurrentLine DEF BareType, ReadLine
    <3>3. leftover' \subseteq block'
      BY <2>1 DEF BareType, ReadLine, ParserTypeOK
    <3> QED BY <2>1, <3>1, <3>2, <3>3, ReadLineTypes DEF BareType, ParserTypeOK
  <2>2. CASE TypeLine
    <3>1. type' \in RuleType
      BY <2>2, CurrentLine DEF TypeLine, ReadLine
    <3>2. leftover' \subseteq block'
      BY <2>2 DEF TypeLine, ReadLine, ParserTypeOK
    <3> QED BY <2>2, <3>1, <3>2, ReadLineTypes DEF TypeLine, ParserTypeOK
  <2>3. CASE FieldLine
    <3>1. text[at].label \in Field /\ text[at].value \in Value \cup {Empty, Absent}
      BY <2>3, CurrentLine DEF FieldLine, ReadLine
    <3>2. fields' \in [Field -> Value \cup {Empty, Absent}]
      BY <2>3, <3>1 DEF FieldLine, ParserTypeOK
    <3>3. leftover' \subseteq block'
      BY <2>3 DEF FieldLine, ReadLine, ParserTypeOK
    <3> QED BY <2>3, <3>2, <3>3, ReadLineTypes DEF FieldLine, ParserTypeOK
  <2>4. CASE ReferenceLine
    <3>1. text[at].value \in Value \cup {Empty}
      BY <2>4, CurrentLine DEF ReferenceLine, ReadLine
    <3>2. references' \subseteq Value
      BY <2>4, <3>1 DEF ReferenceLine, ParserTypeOK
    <3>3. leftover' \subseteq block'
      BY <2>4 DEF ReferenceLine, ReadLine, ParserTypeOK
    <3> QED BY <2>4, <3>2, <3>3, ReadLineTypes DEF ReferenceLine, ParserTypeOK
  <2>5. CASE LeftoverLine
    <3>1. leftover' \subseteq block'
      BY <2>5 DEF LeftoverLine, ReadLine, ParserTypeOK
    <3> QED BY <2>5, <3>1, ReadLineTypes DEF LeftoverLine, ParserTypeOK
  <2>6. CASE EndBlock
    <3>1. at' \in 1 .. Len(text) + 2
      BY <2>6, BlockIsBefore DEF EndBlock
    <3>2. emitted' \in Seq(CandidateRecord)
      BY <2>6, CandidateType DEF EndBlock, ParserTypeOK
    <3> QED BY <2>6, <3>1, <3>2, NoFieldsType DEF EndBlock, NewBlock, ParserTypeOK
  <2>7. CASE UNCHANGED parserVars
    BY <2>7 DEF parserVars, blockVars, ParserTypeOK
  <2> QED
    BY <2>1, <2>2, <2>3, <2>4, <2>5, <2>6, <2>7 DEF ParserNext, Done
<1> QED BY <1>1, <1>2, PTL DEF ParserSpec

---------------------------------------------------------------------------
(* The loop reads a block as the reference does. *)

\* What one line adds to the meaning of the block.
LEMMA LineMeans ==
    ASSUME ParserTypeOK, ReadLine
    PROVE  /\ TypeOf(text', block') =
                IF text[at].label = "type" \/ NamesType(at, block)
                THEN text[at].value ELSE TypeOf(text, block)
           /\ \A f : FieldOf(text', f, block') =
                IF text[at].label = f THEN text[at].value ELSE FieldOf(text, f, block)
           /\ IF text[at].label = "references"
              THEN ReferencesOf(text', block') =
                     ReferencesOf(text, block) \cup ({text[at].value} \ {Empty})
              ELSE ReferencesOf(text', block') = ReferencesOf(text, block)
           /\ IF text[at].label = "other" \/ (text[at].label = "bare" /\ block # {})
              THEN LeftoverOf(text', block') = LeftoverOf(text, block) \cup {at}
              ELSE LeftoverOf(text', block') = LeftoverOf(text, block)
<1>1. text' = text /\ block' = block \cup {at}
  BY DEF ReadLine
<1>2. at \in Int /\ block \subseteq Int /\ \A i \in block : i < at
  BY BlockIsBefore
<1>3. TypeOf(text, block \cup {at}) =
        IF text[at].label = "type" \/ (text[at].label = "bare" /\ block = {})
        THEN text[at].value ELSE TypeOf(text, block)
  BY <1>2, TypeOfLastLine
<1>4. \A f : FieldOf(text, f, block \cup {at}) =
        IF text[at].label = f THEN text[at].value ELSE FieldOf(text, f, block)
  BY <1>2, FieldOfLastLine
<1>5. IF text[at].label = "references"
      THEN ReferencesOf(text, block \cup {at}) =
             ReferencesOf(text, block) \cup ({text[at].value} \ {Empty})
      ELSE ReferencesOf(text, block \cup {at}) = ReferencesOf(text, block)
  BY ReferencesOfLastLine
<1>6. IF text[at].label = "other" \/ (text[at].label = "bare" /\ block # {})
      THEN LeftoverOf(text, block \cup {at}) = LeftoverOf(text, block) \cup {at}
      ELSE LeftoverOf(text, block \cup {at}) = LeftoverOf(text, block)
  BY <1>2, LeftoverOfLastLine
<1> QED BY <1>1, <1>3, <1>4, <1>5, <1>6 DEF NamesType

LEMMA LabelsAreDistinct ==
    /\ "bare" \notin Field /\ "type" \notin Field /\ "other" \notin Field
    /\ "references" \notin Field
    /\ Label = Field \cup {"bare", "type", "other", "references"}
BY DEF Field, ListField, Label

\* At every line the loop knows of the lines it has read in this block what
\* the reference says of them, so what a candidate holds depends on nothing
\* but its block (parse_block, parser.rs 65-97).
THEOREM LoopReadsTheBlock == ParserSpec => []ReadSoFar
<1>1. ParserInit => ReadSoFar
  BY EmptyBlock DEF ParserInit, ReadSoFar, NoFields
<1>2. ParserTypeOK /\ ReadSoFar /\ [ParserNext]_parserVars => ReadSoFar'
  <2> SUFFICES ASSUME ParserTypeOK, ReadSoFar, [ParserNext]_parserVars
               PROVE  ReadSoFar'
    OBVIOUS
  <2>1. CASE BareType
    <3>1. ReadLine /\ NamesType(at, block) /\ text[at].label = "bare" /\ block = {}
      BY <2>1 DEF BareType, NamesType
    <3>2. type' = TypeOf(text', block')
      BY <2>1, <3>1, LineMeans DEF BareType
    <3>3. \A f \in Field : FieldOf(text', f, block') = FieldOf(text, f, block)
      BY <3>1, LineMeans, LabelsAreDistinct
    <3>4. /\ references' = ReferencesOf(text', block')
          /\ leftover' = LeftoverOf(text', block')
      BY <2>1, <3>1, LineMeans DEF BareType, ReadSoFar
    <3> QED BY <2>1, <3>2, <3>3, <3>4 DEF BareType, ReadSoFar
  <2>2. CASE TypeLine
    <3>1. ReadLine /\ text[at].label = "type"
      BY <2>2 DEF TypeLine
    <3>2. type' = TypeOf(text', block')
      BY <2>2, <3>1, LineMeans DEF TypeLine
    <3>3. \A f \in Field : FieldOf(text', f, block') = FieldOf(text, f, block)
      BY <3>1, LineMeans, LabelsAreDistinct
    <3>4. /\ references' = ReferencesOf(text', block')
          /\ leftover' = LeftoverOf(text', block')
      BY <2>2, <3>1, LineMeans DEF TypeLine, ReadSoFar
    <3> QED BY <2>2, <3>2, <3>3, <3>4 DEF TypeLine, ReadSoFar
  <2>3. CASE FieldLine
    <3>1. /\ ReadLine /\ text[at].label \in Field /\ text[at].label # "type"
          /\ text[at].label \notin {"bare", "other", "references"}
      BY <2>3, LabelsAreDistinct DEF FieldLine
    <3>2. type' = TypeOf(text', block')
      BY <2>3, <3>1, LineMeans DEF FieldLine, ReadSoFar, NamesType
    <3>3. fields' = [f \in Field |-> FieldOf(text', f, block')]
      BY <2>3, <3>1, LineMeans DEF FieldLine, ReadSoFar
    <3>4. /\ references' = ReferencesOf(text', block')
          /\ leftover' = LeftoverOf(text', block')
      BY <2>3, <3>1, LineMeans DEF FieldLine, ReadSoFar
    <3> QED BY <3>2, <3>3, <3>4 DEF ReadSoFar
  <2>4. CASE ReferenceLine
    <3>1. ReadLine /\ text[at].label = "references"
      BY <2>4 DEF ReferenceLine
    <3>2. type' = TypeOf(text', block')
      BY <2>4, <3>1, LineMeans DEF ReferenceLine, ReadSoFar, NamesType
    <3>3. \A f \in Field : FieldOf(text', f, block') = FieldOf(text, f, block)
      BY <3>1, LineMeans, LabelsAreDistinct
    <3>4. /\ references' = ReferencesOf(text', block')
          /\ leftover' = LeftoverOf(text', block')
      BY <2>4, <3>1, LineMeans DEF ReferenceLine, ReadSoFar
    <3> QED BY <2>4, <3>2, <3>3, <3>4 DEF ReferenceLine, ReadSoFar
  <2>5. CASE LeftoverLine
    <3>1. /\ ReadLine /\ ~NamesType(at, block)
          /\ text[at].label \in {"bare", "other"}
          /\ text[at].label = "other" \/ (text[at].label = "bare" /\ block # {})
      BY <2>5 DEF LeftoverLine, NamesType
    <3>2. type' = TypeOf(text', block')
      BY <2>5, <3>1, LineMeans DEF LeftoverLine, ReadSoFar
    <3>3. \A f \in Field : FieldOf(text', f, block') = FieldOf(text, f, block)
      BY <3>1, LineMeans, LabelsAreDistinct
    <3>4. /\ references' = ReferencesOf(text', block')
          /\ leftover' = LeftoverOf(text', block')
      BY <2>5, <3>1, LineMeans DEF LeftoverLine, ReadSoFar
    <3> QED BY <2>5, <3>2, <3>3, <3>4 DEF LeftoverLine, ReadSoFar
  <2>6. CASE EndBlock
    BY <2>6, EmptyBlock DEF EndBlock, NewBlock, NoFields, ReadSoFar
  <2>7. CASE UNCHANGED parserVars
    BY <2>7 DEF parserVars, blockVars, ReadSoFar
  <2> QED
    BY <2>1, <2>2, <2>3, <2>4, <2>5, <2>6, <2>7 DEF ParserNext, Done
<1> QED BY <1>1, <1>2, ParserTypes, PTL DEF ParserSpec

---------------------------------------------------------------------------
(* The candidates. *)

\* The candidates after a step: those before, and at the end of a block that
\* holds a line the one that block makes.
LEMMA EmittedGrows ==
    ASSUME ParserTypeOK, [ParserNext]_parserVars
    PROVE  /\ text' = text
           /\ \/ emitted' = emitted /\ Emitted' = Emitted
              \/ /\ EndBlock /\ block # {}
                 /\ emitted' = Append(emitted, Candidate)
                 /\ Emitted' = Emitted \cup {Candidate}
<1>1. CASE EndBlock
  <2>1. CASE block = {}
    <3>1. text' = text /\ emitted' = emitted
      BY <1>1, <2>1 DEF EndBlock
    <3> QED BY <3>1 DEF Emitted
  <2>2. CASE block # {}
    <3>1. text' = text /\ emitted' = Append(emitted, Candidate)
      BY <1>1, <2>2 DEF EndBlock
    <3>2. Emitted' = Emitted \cup {Candidate}
      BY <3>1, CandidateType, ElementsOfAppend DEF ParserTypeOK, Emitted
    <3> QED BY <1>1, <2>2, <3>1, <3>2
  <2> QED BY <2>1, <2>2
<1>2. CASE ~EndBlock
  <2>1. text' = text /\ emitted' = emitted
    BY <1>2 DEF ParserNext, BareType, TypeLine, FieldLine, ReferenceLine, LeftoverLine,
                ReadLine, Done, parserVars, blockVars
  <2> QED BY <2>1 DEF Emitted
<1> QED BY <1>1, <1>2

\* One candidate against the reference: the body of FieldsComeFromLabels.
TrueToItsLines(c) ==
    /\ \A f \in Field : c.fields[f] = FieldOf(text, f, c.source_text)
    /\ c.rule_type = IF TypeOf(text, c.source_text) = Absent THEN "unclassified"
                     ELSE TypeOf(text, c.source_text)
    /\ c.references = ReferencesOf(text, c.source_text) \cup Marks(text, c.source_text)
    /\ c.inferences \subseteq LeftoverOf(text, c.source_text)

LEMMA CandidateIsTrue ==
    ASSUME ParserTypeOK, ReadSoFar
    PROVE  TrueToItsLines(Candidate)
<1>1. /\ Candidate.source_text = block /\ Candidate.fields = fields
      /\ Candidate.rule_type = (IF type = Absent THEN "unclassified" ELSE type)
      /\ Candidate.references = references \cup Marks(text, block)
      /\ Candidate.inferences \subseteq leftover
  BY DEF Candidate
<1>2. \A f \in Field : fields[f] = FieldOf(text, f, block)
  BY DEF ReadSoFar
<1> QED BY <1>1, <1>2 DEF TrueToItsLines, ReadSoFar

\* Every candidate's fields, type, references and notes are those its own
\* lines carry under their labels, and nothing of another block's
\* (parser.rs 8-19: "populated only from an explicitly labeled line").
THEOREM FieldsAlwaysComeFromLabels == ParserSpec => []FieldsComeFromLabels
<1>1. ParserInit => FieldsComeFromLabels
  BY DEF ParserInit, FieldsComeFromLabels, Emitted
<1>2. ParserTypeOK /\ ReadSoFar /\ FieldsComeFromLabels /\ [ParserNext]_parserVars
        => FieldsComeFromLabels'
  <2> SUFFICES ASSUME ParserTypeOK, ReadSoFar, FieldsComeFromLabels,
                      [ParserNext]_parserVars
               PROVE  FieldsComeFromLabels'
    OBVIOUS
  <2>1. text' = text /\ \A c \in Emitted' : c \in Emitted \/ c = Candidate
    BY EmittedGrows
  <2>2. \A c \in Emitted : TrueToItsLines(c)
    BY DEF FieldsComeFromLabels, TrueToItsLines
  <2>3. \A c \in Emitted' : TrueToItsLines(c)
    BY <2>1, <2>2, CandidateIsTrue
  <2> QED BY <2>1, <2>3 DEF FieldsComeFromLabels, TrueToItsLines
<1> QED BY <1>1, <1>2, ParserTypes, LoopReadsTheBlock, PTL DEF ParserSpec

\* The body of ConfidenceIsEarned.
EarnedBy(c) ==
    /\ c.confidence = BASE_CONFIDENCE =>
          /\ LeftoverOf(text, c.source_text) = {}
          /\ \/ TypeOf(text, c.source_text) \in RecognisedType
             \/ UnknownTypeWord(text, c.source_text)
    /\ c.confidence > UNCLASSIFIED_CONFIDENCE =>
          \/ c.rule_type \in RecognisedType
          \/ \E f \in Field : Labelled(text, f, c.source_text) # {}

LEMMA CandidateIsEarned ==
    ASSUME ParserTypeOK, ReadSoFar
    PROVE  EarnedBy(Candidate)
<1>1. /\ Candidate.source_text = block /\ Candidate.confidence = Confidence
      /\ type # Absent => Candidate.rule_type = type
  BY DEF Candidate
<1>2. /\ type = TypeOf(text, block)
      /\ type # Absent => type \in RecognisedType \/ UnknownTypeWord(text, block)
  BY DEF ReadSoFar, ParserTypeOK, RuleType, UnknownTypeWord
<1>3. Confidence = BASE_CONFIDENCE => type # Absent /\ leftover = {}
  BY DEF Confidence, BASE_CONFIDENCE, UNCLASSIFIED_CONFIDENCE, MISSING_TYPE_PENALTY,
         LEFTOVER_PENALTY
<1>4. Confidence > UNCLASSIFIED_CONFIDENCE => ~Unrecognised
  BY DEF Confidence, UNCLASSIFIED_CONFIDENCE
<1>5. ~Unrecognised =>
        \/ type # Absent /\ type \in RecognisedType
        \/ \E f \in Field : Labelled(text, f, block) # {}
  <2> SUFFICES ASSUME ~Unrecognised, ~(type # Absent /\ type \in RecognisedType)
               PROVE  \E f \in Field : Labelled(text, f, block) # {}
    OBVIOUS
  <2>1. fields # NoFields
    BY DEF Unrecognised, ParserTypeOK, RuleType
  <2>2. PICK f \in Field : fields[f] # NoFields[f]
    BY <2>1 DEF ReadSoFar, NoFields
  <2>3. Labelled(text, f, block) # {}
    BY <2>2 DEF ReadSoFar, FieldOf
  <2> QED BY <2>3
<1> QED BY <1>1, <1>2, <1>3, <1>4, <1>5 DEF EarnedBy, ReadSoFar

\* Full confidence takes a block without an unread line that names a type, a
\* known one or any other word (parser.rs 104-118; lines 18-19 ask for more), and
\* anything above the floor takes a known type or a labelled field.
THEOREM ConfidenceIsAlwaysEarned == ParserSpec => []ConfidenceIsEarned
<1>1. ParserInit => ConfidenceIsEarned
  BY DEF ParserInit, ConfidenceIsEarned, Emitted
<1>2. ParserTypeOK /\ ReadSoFar /\ ConfidenceIsEarned /\ [ParserNext]_parserVars
        => ConfidenceIsEarned'
  <2> SUFFICES ASSUME ParserTypeOK, ReadSoFar, ConfidenceIsEarned,
                      [ParserNext]_parserVars
               PROVE  ConfidenceIsEarned'
    OBVIOUS
  <2>1. text' = text /\ \A c \in Emitted' : c \in Emitted \/ c = Candidate
    BY EmittedGrows
  <2>2. \A c \in Emitted : EarnedBy(c)
    BY DEF ConfidenceIsEarned, EarnedBy
  <2>3. \A c \in Emitted' : EarnedBy(c)
    BY <2>1, <2>2, CandidateIsEarned
  <2> QED BY <2>1, <2>3 DEF ConfidenceIsEarned, EarnedBy
<1> QED BY <1>1, <1>2, ParserTypes, LoopReadsTheBlock, PTL DEF ParserSpec

\* Every line of the text read so far is a line of exactly one candidate or
\* of the block being read, and candidates come in the order of their lines
\* (parse_candidates, parser.rs 49-56).
THEOREM NoLineIsEverLost == ParserSpec => []NoLineIsLost
<1>1. ParserInit => NoLineIsLost
  <2> SUFFICES ASSUME ParserInit PROVE NoLineIsLost
    OBVIOUS
  <2>1. Emitted = {} /\ DOMAIN emitted = {} /\ block = {} /\ at = 1
    BY DEF ParserInit, Emitted
  <2>2. LinesBefore(text, at - 1) = {}
    BY <2>1 DEF LinesBefore
  <2> QED BY <2>1, <2>2 DEF NoLineIsLost
<1>2. ParserTypeOK /\ NoLineIsLost /\ [ParserNext]_parserVars => NoLineIsLost'
  <2> SUFFICES ASSUME ParserTypeOK, NoLineIsLost, [ParserNext]_parserVars
               PROVE  NoLineIsLost'
    OBVIOUS
  <2>1. /\ Len(text) \in Nat /\ at \in Nat /\ at >= 1
    BY BlockIsBefore
  <2>2. CASE ReadLine
    <3>1. /\ text' = text /\ at' = at + 1 /\ block' = block \cup {at}
          /\ emitted' = emitted /\ Emitted' = Emitted
      BY <2>2 DEF ReadLine, Emitted
    <3>2. at <= Len(text) /\ text[at] # Separator
      BY <2>2 DEF ReadLine, AtLine
    <3>3. LinesBefore(text', at' - 1) = LinesBefore(text, at - 1) \cup {at}
      <4>1. at' - 1 = at
        BY <2>1, <3>1
      <4> QED BY <2>1, <3>1, <3>2, <4>1, OneLineFurther
    <3>4. \A c \in Emitted : \A i \in c.source_text : i < at
      <4>1. \A i \in LinesBefore(text, at - 1) : i < at
        BY <2>1 DEF LinesBefore
      <4>2. \A c \in Emitted : c.source_text \subseteq LinesBefore(text, at - 1)
        BY DEF NoLineIsLost
      <4> QED BY <4>1, <4>2
    <3>5. (block \cup UNION { c.source_text : c \in Emitted } = LinesBefore(text, at - 1))'
      BY <3>1, <3>3 DEF NoLineIsLost
    <3>6. \A c \in Emitted' : \A i \in c.source_text, j \in block' : i < j
      BY <3>1, <3>4 DEF NoLineIsLost
    <3> QED BY <3>1, <3>5, <3>6 DEF NoLineIsLost
  <2>3. CASE EndBlock
    <3>1. /\ text' = text /\ at' = at + 1 /\ block' = {}
          /\ ~(at <= Len(text) /\ text[at] # Separator)
      BY <2>1, <2>3 DEF EndBlock, NewBlock
    <3>2. LinesBefore(text', at' - 1) = LinesBefore(text, at - 1)
      <4>1. at' - 1 = at
        BY <2>1, <3>1
      <4> QED BY <2>1, <3>1, <4>1, OneLineFurther
    <3>3. CASE emitted' = emitted
      <4>1. block = {}
        BY <2>3, <3>3, CandidateType DEF EndBlock, ParserTypeOK
      <4>2. Emitted' = Emitted
        BY <3>3 DEF Emitted
      <4> QED BY <3>1, <3>2, <3>3, <4>1, <4>2 DEF NoLineIsLost
    <3>4. CASE emitted' # emitted
      <4>1. emitted' = Append(emitted, Candidate) /\ Emitted' = Emitted \cup {Candidate}
        BY <3>4, EmittedGrows
      <4>2. Candidate.source_text = block
        BY DEF Candidate
      <4>3. (block \cup UNION { c.source_text : c \in Emitted } = LinesBefore(text, at - 1))'
        BY <3>1, <3>2, <4>1, <4>2 DEF NoLineIsLost
      <4>4. \A m, n \in DOMAIN emitted' : m < n =>
               \A i \in emitted'[m].source_text, j \in emitted'[n].source_text : i < j
        <5> SUFFICES ASSUME NEW m \in DOMAIN emitted', NEW n \in DOMAIN emitted', m < n,
                            NEW i \in emitted'[m].source_text,
                            NEW j \in emitted'[n].source_text
                     PROVE  i < j
          OBVIOUS
        <5>1. emitted \in Seq(CandidateRecord) /\ Len(emitted) \in Nat
          BY DEF ParserTypeOK
        <5>2. /\ m \in DOMAIN emitted /\ emitted'[m] = emitted[m]
              /\ \/ n \in DOMAIN emitted /\ emitted'[n] = emitted[n]
                 \/ emitted'[n] = Candidate
          BY <4>1, <5>1
        <5>3. CASE n \in DOMAIN emitted /\ emitted'[n] = emitted[n]
          BY <5>2, <5>3 DEF NoLineIsLost
        <5>4. CASE emitted'[n] = Candidate
          <6>1. emitted[m] \in Emitted /\ j \in block /\ i \in emitted[m].source_text
            BY <4>2, <5>2, <5>4 DEF Emitted
          <6> QED BY <6>1 DEF NoLineIsLost
        <5> QED BY <5>2, <5>3, <5>4
      <4> QED BY <3>1, <4>3, <4>4 DEF NoLineIsLost
    <3> QED BY <3>3, <3>4
  <2>4. CASE UNCHANGED parserVars
    BY <2>4 DEF parserVars, blockVars, NoLineIsLost, Emitted
  <2> QED
    BY <2>2, <2>3, <2>4
       DEF ParserNext, BareType, TypeLine, FieldLine, ReferenceLine, LeftoverLine, Done
<1> QED BY <1>1, <1>2, ParserTypes, PTL DEF ParserSpec
=============================================================================
