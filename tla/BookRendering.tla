---------------------------- MODULE BookRendering ---------------------------
(***************************************************************************)
(* How the converters render the entries they find as blocks, and what     *)
(* parse_candidates then reads in the page they return.                    *)
(***************************************************************************)
EXTENDS BookAdapter, SequencesExt

CONSTANT Separator    \* BLOCK_SEPARATOR, in the text for the parser

\* A line of a rendered block.
TextLine ==
    [label : Label, value : RecognisedType \cup {Empty} \cup SUBSET Nat, marks : {{}}]

PageLength == { Len(p) : p \in UNION { Page[l] : l \in Layout } }

ASSUME RenderingAssumption ==
    /\ Separator \notin TextLine
    /\ Absent \notin RecognisedType
    /\ \A n \in PageLength : \A S \in SUBSET (1 .. n) : S \notin {Empty, Absent}

---------------------------------------------------------------------------
(* Rendering an entry. *)

\* The longest parts of S with no member of D between two of theirs.
Runs(S, D) ==
    { { j \in S : \A d \in D : (i < d <=> j < d) } : i \in S }

\* group_paragraphs: a paragraph is a run of body lines with no blank one
\* among them.
Paragraphs(p, body) ==
    LET blanks == { i \in body : Is(p, i, "blank") } IN Runs(body \ blanks, blanks)

\* A label on a line and in a paragraph of its own has nothing after it.
Opens(p, par, label) ==
    /\ Is(p, Min(par), label)
    /\ p[Min(par)].words > 1 \/ Cardinality(par) > 1

\* extract_book_label: the value ends with the first sentence.
Clause(p, par) == { i \in par : \A j \in par : j < i => ~p[j].stop }

\* The first paragraph is the trait when it is in capitals and at most two
\* words long.
IsTraitParagraph(p, body, par) ==
    /\ \A i \in body : Is(p, i, "blank") \/ Min(par) <= i
    /\ \A i \in par : IsShouty(p, i) \/ p[i].kind \in {"number", "dashes"}
    /\ \E i \in par : IsShouty(p, i)
    /\ MapThenSumSet(LAMBDA i : p[i].words, par) <= 2

TraitParagraphs(p, body) ==
    { par \in Paragraphs(p, body) : IsTraitParagraph(p, body, par) }

Opening(p, body, label) ==
    { par \in Paragraphs(p, body) \ TraitParagraphs(p, body) : Opens(p, par, label) }

\* requirements = Some(value): the last paragraph of a label wins.
ClauseOf(p, body, label) ==
    UNION { Clause(p, par) : par \in { q \in Opening(p, body, label) :
                \A r \in Opening(p, body, label) : Min(r) <= Min(q) } }

LabelledParagraphs(p, body) ==
    Opening(p, body, "requirements") \cup Opening(p, body, "trigger")

\* Mutant: what follows the clause in its paragraph is dropped.
EffectWithoutLeftover(p, body) ==
    UNION (Paragraphs(p, body) \ (TraitParagraphs(p, body) \cup LabelledParagraphs(p, body)))

\* Whole paragraphs, and what follows a clause in its own.
Effect(p, body) ==
    (UNION (Paragraphs(p, body) \ (TraitParagraphs(p, body) \cup LabelledParagraphs(p, body))))
        \cup (UNION { par \ Clause(p, par) : par \in LabelledParagraphs(p, body) })

LabelLine(label, value) == [label |-> label, value |-> value, marks |-> {}]

Dashes(p, S) == { i \in S : Is(p, i, "dashes") }

\* The lines of S behind line d, up to the next separator.
After(p, S, d) ==
    { i \in S \ Dashes(p, S) : d < i /\ ~\E e \in Dashes(p, S) : d < e /\ e < i }

\* What follows the separator d is a line with no label in the next block.
Rest(p, S, d) ==
    <<Separator>> \o
        (IF After(p, S, d) = {} THEN <<>> ELSE <<LabelLine("other", After(p, S, d))>>)

\* A field, as the parser sees it: a separator in its value ends the block.
FieldText(p, label, S) ==
    IF S = {} THEN <<>>
    ELSE <<LabelLine(label, IF After(p, S, 0) = {} THEN Empty ELSE After(p, S, 0))>>
           \o FlattenSeq([ i \in 1 .. Len(p) |->
                             IF i \in Dashes(p, S) THEN Rest(p, S, i) ELSE <<>> ])

Heading(e) == <<LabelLine("bare", e.type), LabelLine("name", {e.name})>>

\* render_block
RenderBlock(p, e) ==
    Heading(e)
        \o FieldText(p, "traits", UNION TraitParagraphs(p, e.body))
        \o FieldText(p, "trigger", ClauseOf(p, e.body, "trigger"))
        \o FieldText(p, "requirements", ClauseOf(p, e.body, "requirements"))
        \o FieldText(p, "effect", Effect(p, e.body))

\* render_feat_block, and render_condition_block, which has no traits.
RenderProse(p, e) ==
    Heading(e) \o FieldText(p, "traits", e.traits) \o FieldText(p, "effect", e.body)

Render(p, l, e) == IF l = "actions" THEN RenderBlock(p, e) ELSE RenderProse(p, e)

\* Mutant: the blocks are joined by a blank line.
OutputUnseparated(p, l, es) ==
    FlattenSeq([ n \in 1 .. Len(es) |-> Render(p, l, es[n]) ])

\* The blocks, joined by separators.
Output(p, l, es) ==
    FlattenSeq([ n \in 1 .. Len(es) |->
        (IF n = 1 THEN <<>> ELSE <<Separator>>) \o Render(p, l, es[n]) ])

\* The blocks parse_candidates cuts t into.
BlocksOf(t) ==
    LET cuts == { i \in DOMAIN t : t[i] = Separator } IN Runs(DOMAIN t \ cuts, cuts)

---------------------------------------------------------------------------
(* Properties. *)

\* In the end the parser finds one candidate with a type and a name for each
\* entry, and beyond these not more than one fragment, without either, for
\* each separator the page has in the text of its entries.
OneCandidatePerEntry ==
    Converted =>
        LET t == Output(page, layout, entries)
            typed == { B \in BlocksOf(t) : TypeOf(t, B) # Absent }
            fragments == BlocksOf(t) \ typed
            dashes == { i \in UNION { e.body : e \in AllEntries } : Is(page, i, "dashes") }
        IN  /\ Cardinality(typed) = Len(entries)
            /\ \A e \in AllEntries : \E B \in typed :
                  TypeOf(t, B) = e.type /\ FieldOf(t, "name", B) = {e.name}
            /\ \A B \in fragments : FieldOf(t, "name", B) = Absent
            /\ Cardinality(fragments) <= Cardinality(dashes)

\* In the end the parser reads every line of the body of every entry into
\* exactly one field of one candidate, or leaves it over in a fragment; what
\* is missing stood behind a label that a later paragraph of the entry
\* repeats.
BlocksParseBack ==
    Converted =>
        LET t == Output(page, layout, entries)
            TextOf(B, f) ==
                LET value == FieldOf(t, f, B) IN IF value \in {Empty, Absent} THEN {} ELSE value
            Place == [block : BlocksOf(t), field : {"traits", "trigger", "requirements", "effect", "none"}]
            At(s) == IF s.field # "none" THEN TextOf(s.block, s.field)
                     ELSE UNION { t[i].value : i \in LeftoverOf(t, s.block) }
            Lost(e) == { i \in e.body : page[i].kind \notin {"blank", "dashes"} }
                           \ UNION { At(s) : s \in Place }
        IN  /\ \A r, s \in Place : r # s => At(r) \cap At(s) = {}
            /\ \A B \in BlocksOf(t) : TypeOf(t, B) # Absent => LeftoverOf(t, B) = {}
            /\ \A e \in AllEntries : \A i \in Lost(e) : \E label \in {"requirements", "trigger"} :
                  \E q, r \in Opening(page, e.body, label) : i \in Clause(page, q) /\ Min(q) < Min(r)
=============================================================================
