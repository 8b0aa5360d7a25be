----------------------------- MODULE BookAdapter ----------------------------
(***************************************************************************)
(* The three converters that cut a page of the book into entries:          *)
(* convert_page (actions), convert_feat_page and convert_condition_page.   *)
(* They are one loop over the lines of a page, with a scan inside it for   *)
(* the headings of feats.  BookRendering has what they make of an entry.   *)
(*                                                                         *)
(* A line is what the converters' predicates tell apart, and text is the   *)
(* set of the positions of its lines: joining lines with blanks keeps      *)
(* their order.  A sentence ends, if at all, at the end of a line, and the *)
(* parser's separator is a line of its own; for lines that are joined      *)
(* again this is no restriction.  What follows it opens with no label and  *)
(* is no type's name.                                                      *)
(***************************************************************************)
EXTENDS BlockGrammar, FiniteSets, FiniteSetsExt

CONSTANTS
    Word,                      \* the text of a line in capitals, lowercased
    None,                      \* no entry, no scan
    Page,                      \* Page[l]: the pages given to the converter l
    MAX_HEADING_BLOCK_LINES

Layout == {"actions", "feats", "conditions"}

\* cost: capitals and a bracketed action cost; shouty: other capitals;
\* marker: FEAT and a level; requirements, trigger: prose that opens with the
\* label; title: one or two words in strict title case; anchor: List of
\* Conditions; number: digits; dashes: the separator.
Kind == {"blank", "cost", "shouty", "marker", "requirements", "trigger",
         "title", "anchor", "number", "dashes", "prose"}

\* cost is the rule type the bracket stands for, stop a full stop at the end.
PageLine == [kind : Kind, words : Nat, word : Word, cost : RecognisedType, stop : BOOLEAN]

\* An entry as split_entries keeps it: lines by their positions.
EntryRecord ==
    [type : RecognisedType, name : Nat, traits : SUBSET Nat, body : SUBSET Nat]

ASSUME AdapterAssumption ==
    /\ None \notin EntryRecord
    /\ Page \in [Layout -> SUBSET Seq(PageLine)]
    /\ MAX_HEADING_BLOCK_LINES \in Nat
    /\ \A l \in Layout : \A p \in Page[l] : \A i \in DOMAIN p :
          p[i].kind \in {"requirements", "trigger"} /\ p[i].stop => p[i].words > 1

VARIABLES
    layout, page,   \* which converter, and its text
    index,          \* the next line to look at
    pastAnchor,     \* past_anchor, of the conditions
    scan,           \* the locals of try_read_heading_block while it runs
    current,        \* the entry being read
    entries         \* the finished ones

adapterVars == <<layout, page, index, pastAnchor, scan, current, entries>>

AdapterInit ==
    /\ layout \in Layout
    /\ page \in Page[layout]
    /\ index = 1
    /\ pastAnchor = FALSE
    /\ scan = None /\ current = None /\ entries = <<>>

---------------------------------------------------------------------------
(* What the predicates see in line i of p. *)

Is(p, i, kind) == p[i].kind = kind

\* is_shouty: letters, and all of them capitals.  A level marker is shouty.
IsShouty(p, i) == p[i].kind \in {"shouty", "marker"}

\* is_condition_heading: a label of its own is a word in title case too.
IsConditionHeading(p, i) ==
    \/ Is(p, i, "title")
    \/ p[i].kind \in {"requirements", "trigger"} /\ p[i].words = 1

---------------------------------------------------------------------------
(* The loop. *)

Reading(l) == layout = l /\ scan = None /\ index <= Len(page)

\* entries.extend(current.take())
Taken == IF current = None THEN entries ELSE Append(entries, current)

Entry(type, name, traits) ==
    [type |-> type, name |-> name, traits |-> traits, body |-> {}]

StartEntry(type, name, traits) ==
    /\ entries' = Taken
    /\ current' = Entry(type, name, traits)

\* Lines before the first entry are dropped.
Push ==
    /\ index' = index + 1
    /\ current' = IF current = None THEN None
                  ELSE [current EXCEPT !.body = @ \cup {index}]
    /\ UNCHANGED entries

Drop == index' = index + 1 /\ UNCHANGED <<current, entries>>

ActionHeading ==
    /\ Reading("actions")
    /\ Is(page, index, "cost")
    /\ StartEntry(page[index].cost, index, {})
    /\ index' = index + 1
    /\ UNCHANGED <<layout, page, pastAnchor, scan>>

\* Blank lines stay: they delimit paragraphs.
ActionLine ==
    /\ Reading("actions")
    /\ ~Is(page, index, "cost")
    /\ Push
    /\ UNCHANGED <<layout, page, pastAnchor, scan>>

FeatBlank ==
    /\ Reading("feats")
    /\ Is(page, index, "blank")
    /\ Drop
    /\ UNCHANGED <<layout, page, pastAnchor, scan>>

\* Mutant: a level marker starts a scan of its own.
MayOpenAnyShouty(p, i) == IsShouty(p, i)

\* A level marker is shouty and yet never starts a scan.
MayOpen(p, i) == IsShouty(p, i) /\ ~Is(p, i, "marker")

FeatLine ==
    /\ Reading("feats")
    /\ ~Is(page, index, "blank")
    /\ ~MayOpen(page, index)
    /\ Push
    /\ UNCHANGED <<layout, page, pastAnchor, scan>>

BeginScan ==
    /\ Reading("feats")
    /\ MayOpen(page, index)
    /\ scan' = [at |-> index, shouty |-> {}, marked |-> FALSE]
    /\ UNCHANGED <<layout, page, index, pastAnchor, current, entries>>

\* Mutant: the safety bound is forgotten.
ScanUnbounded == scan # None /\ scan.at <= Len(page)

ScanContinues ==
    /\ scan # None
    /\ scan.at <= Len(page)
    /\ Cardinality(scan.shouty) <= MAX_HEADING_BLOCK_LINES

ScanBlank ==
    /\ ScanContinues
    /\ Is(page, scan.at, "blank")
    /\ scan' = [scan EXCEPT !.at = @ + 1]
    /\ UNCHANGED <<layout, page, index, pastAnchor, current, entries>>

ScanMarker ==
    /\ ScanContinues
    /\ Is(page, scan.at, "marker")
    /\ scan' = [scan EXCEPT !.at = @ + 1, !.marked = TRUE]
    /\ UNCHANGED <<layout, page, index, pastAnchor, current, entries>>

ScanShouty ==
    /\ ScanContinues
    /\ Is(page, scan.at, "shouty")
    /\ scan' = [scan EXCEPT !.at = @ + 1, !.shouty = @ \cup {scan.at}]
    /\ UNCHANGED <<layout, page, index, pastAnchor, current, entries>>

\* Any other line, the end of the page, or the safety bound.
ScanStops ==
    /\ scan # None
    /\ ScanContinues => ~Is(page, scan.at, "blank") /\ ~IsShouty(page, scan.at)

\* A run without a marker, or without a name, is no heading.
FoundHeading == scan.marked /\ scan.shouty # {}

\* Every word once, where it first stands.
Distinct(p, S) == { i \in S : \A j \in S : j < i => p[j].word # p[i].word }

FeatHeading ==
    /\ ScanStops
    /\ FoundHeading
    /\ LET name == Min(scan.shouty) IN
          StartEntry("feat", name, Distinct(page, scan.shouty \ {name}))
    /\ index' = scan.at
    /\ scan' = None
    /\ UNCHANGED <<layout, page, pastAnchor>>

\* Mutant: the line is dropped with the scan it started.
NoHeadingDropped ==
    /\ ScanStops
    /\ ~FoundHeading
    /\ Drop
    /\ scan' = None
    /\ UNCHANGED <<layout, page, pastAnchor>>

\* Not a heading: its first line is an ordinary one, and the next line is
\* looked at afresh.
NoHeading ==
    /\ ScanStops
    /\ ~FoundHeading
    /\ Push
    /\ scan' = None
    /\ UNCHANGED <<layout, page, pastAnchor>>

BeforeAnchor ==
    /\ Reading("conditions")
    /\ ~pastAnchor
    /\ pastAnchor' = Is(page, index, "anchor")
    /\ Drop
    /\ UNCHANGED <<layout, page, scan>>

ConditionDropped ==
    /\ Reading("conditions")
    /\ pastAnchor
    /\ page[index].kind \in {"blank", "number"}
    /\ Drop
    /\ UNCHANGED <<layout, page, pastAnchor, scan>>

ConditionHeading ==
    /\ Reading("conditions")
    /\ pastAnchor
    /\ IsConditionHeading(page, index)
    /\ StartEntry("condition", index, {})
    /\ index' = index + 1
    /\ UNCHANGED <<layout, page, pastAnchor, scan>>

ConditionLine ==
    /\ Reading("conditions")
    /\ pastAnchor
    /\ page[index].kind \notin {"blank", "number"}
    /\ ~IsConditionHeading(page, index)
    /\ Push
    /\ UNCHANGED <<layout, page, pastAnchor, scan>>

EndPage ==
    /\ scan = None
    /\ index = Len(page) + 1
    /\ entries' = Taken
    /\ current' = None
    /\ index' = index + 1
    /\ UNCHANGED <<layout, page, pastAnchor, scan>>

\* The converter returns its text.
Converted == index = Len(page) + 2
Done == Converted /\ UNCHANGED adapterVars

AdapterNext ==
    \/ ActionHeading \/ ActionLine
    \/ FeatBlank \/ FeatLine \/ BeginScan
    \/ ScanBlank \/ ScanMarker \/ ScanShouty \/ FeatHeading \/ NoHeading
    \/ BeforeAnchor \/ ConditionDropped \/ ConditionHeading \/ ConditionLine
    \/ EndPage \/ Done

AdapterSpec == AdapterInit /\ [][AdapterNext]_adapterVars

---------------------------------------------------------------------------
(* Which lines are headings, and which belong to an entry, without the     *)
(* loop and the scan.                                                      *)

Prose(p, i) == ~IsShouty(p, i) /\ ~Is(p, i, "blank")

Capitals(p, i, j) == { k \in i .. j : Is(p, k, "shouty") }

\* Lines i to j are one run of capitals and markers short enough to be read
\* at one go.
OneRun(p, i, j) ==
    /\ \A k \in i .. j : ~Prose(p, k)
    /\ Cardinality(Capitals(p, i, j - 1)) <= MAX_HEADING_BLOCK_LINES

OpensFeat(p, i) ==
    /\ Is(p, i, "shouty")
    /\ \E m \in i + 1 .. Len(p) : Is(p, m, "marker") /\ OneRun(p, i, m)

\* The lines a heading takes up.
HeadingLines(p, l, i) ==
    IF l = "feats" THEN { j \in i .. Len(p) : OneRun(p, i, j) } ELSE {i}

AfterAnchor(p, i) == \E k \in 1 .. i - 1 : Is(p, k, "anchor")

OpensEntry(p, l, i) ==
    CASE l = "actions" -> Is(p, i, "cost")
      [] l = "feats" -> OpensFeat(p, i)
      [] l = "conditions" -> AfterAnchor(p, i) /\ IsConditionHeading(p, i)

Ignored(p, l, i) ==
    \/ l = "feats" /\ Is(p, i, "blank")
    \/ l = "conditions" /\ p[i].kind \in {"blank", "number"}

---------------------------------------------------------------------------
(* Properties. *)

AllEntries == { Taken[n] : n \in DOMAIN Taken }
Names == { e.name : e \in AllEntries }

AdapterTypeOK ==
    /\ layout \in Layout /\ page \in Seq(PageLine)
    /\ index \in 1 .. Len(page) + 2
    /\ pastAnchor \in BOOLEAN
    /\ scan # None =>
          /\ layout = "feats"
          /\ scan \in [at : Nat, shouty : SUBSET Nat, marked : BOOLEAN]
          /\ scan.at \in index .. Len(page) + 1
          /\ scan.shouty \in SUBSET (index .. scan.at - 1)
          /\ Cardinality(scan.shouty) <= MAX_HEADING_BLOCK_LINES + 1
    /\ entries \in Seq(EntryRecord)
    /\ current \in EntryRecord \cup {None}

\* "The first shouty line in that run is the name": a line names an entry
\* exactly if it opens one and no earlier heading has taken it, and entries
\* come in the order of their names.  A run is what try_read_heading_block
\* reads, not all that its comments call one: it may begin with a trait that a
\* skipped name left behind (OrphansAreAbsorbed), and only its capitals are
\* bounded, its markers are not.
HeadingsAreFound ==
    /\ \A i \in 1 .. index - 1 : i <= Len(page) =>
          (i \in Names <=> OpensEntry(page, layout, i)
                           /\ \A n \in Names : n < i => i \notin HeadingLines(page, layout, n))
    /\ \A m, n \in DOMAIN Taken : m < n => Taken[m].name < Taken[n].name

\* The traits behind the name of a feat that is an action too: the name carries
\* a cost and is read as prose, so the marker and the traits are left alone.
Orphaned(p, j) == \E i \in 1 .. j - 1 : Is(p, i, "cost") /\ \A k \in i + 1 .. j : ~Prose(p, k)

\* "Silently absorbed into whatever entry precedes it, rather than producing a
\* candidate of their own": on a page whose feats all have a text, no entry is
\* named after an orphaned trait.
OrphansAreAbsorbed ==
    layout = "feats" => \A n \in Names : ~Orphaned(page, n)

\* An entry's body is every line from its heading to the next entry's name
\* that is not one of the lines the converter ignores, and the traits of a
\* feat are the words of its heading, each once.
EntriesAreWhole ==
    \A e \in AllEntries :
        LET own == { i \in e.name .. index - 1 : i <= Len(page) /\ \A n \in Names : n <= i => n <= e.name }
            heading == HeadingLines(page, layout, e.name)
            others == { i \in heading : i # e.name /\ Is(page, i, "shouty") }
        IN  /\ e.body = { i \in own \ heading : ~Ignored(page, layout, i) }
            /\ layout = "feats" =>
                  /\ { page[i].word : i \in e.traits } = { page[i].word : i \in others }
                  /\ \A i, j \in e.traits : page[i].word = page[j].word => i = j

---------------------------------------------------------------------------
(* The inductive invariant behind them. *)

\* The scan has read one run of capitals and markers, and has them all.
ScanReadsOneRun ==
    scan # None =>
        /\ index <= Len(page) /\ MayOpen(page, index)
        /\ scan.at > index => OneRun(page, index, scan.at - 1)
        /\ scan.shouty = Capitals(page, index, scan.at - 1)
        /\ scan.marked <=> \E k \in index .. scan.at - 1 : Is(page, k, "marker")

\* The flag says that the anchor is behind.
AnchorIsRemembered ==
    layout = "conditions" /\ index <= Len(page) + 1 =>
        (pastAnchor <=> AfterAnchor(page, index))

\* Once there is an entry, one is being read until the page ends.
OneIsRead ==
    /\ index <= Len(page) + 1 =>
          /\ current = None => entries = <<>>
          /\ layout = "conditions" /\ ~pastAnchor => current = None
    /\ Converted => current = None

\* A name is a line of the page, and the traits are other lines of its heading.
EntriesAreOnThePage ==
    \A e \in AllEntries :
        /\ e.name \in 1 .. Len(page)
        /\ \A i \in e.traits : i \in HeadingLines(page, layout, e.name) /\ Is(page, i, "shouty")

\* The next line is behind every heading found so far.
HeadingsAreBehind ==
    \A n \in Names : n < index /\ \A j \in HeadingLines(page, layout, n) : j < index

AdapterInvariant ==
    /\ AdapterTypeOK
    /\ ScanReadsOneRun
    /\ AnchorIsRemembered
    /\ OneIsRead
    /\ EntriesAreOnThePage
    /\ HeadingsAreBehind
    /\ HeadingsAreFound
    /\ EntriesAreWhole
=============================================================================
