-------------------------- MODULE BookAdapter_proofs -------------------------
(***************************************************************************)
(* Theorems about BookAdapter and BookRendering for every page, every      *)
(* vocabulary and every bound on a heading.  First the conversion: the     *)
(* loop and its scan find exactly the headings that a loop-free reading of *)
(* the page finds, and every line reaches the entry it belongs to.  Then   *)
(* the text it is rendered as, from the value of a field up to the page:   *)
(* which lines it has, and the shape that lets the block parser read the   *)
(* entries back.                                                           *)
(***************************************************************************)
EXTENDS BookRendering, FiniteSetTheorems, SequenceTheorems, WellFoundedInduction, TLAPS

---------------------------------------------------------------------------
(* Sets of lines. *)

\* A set of naturals has a least member.
LEMMA LeastLine ==
    ASSUME NEW T, T \subseteq Nat, T # {}
    PROVE  \E x \in T : \A y \in T : x <= y
<1> DEFINE R == {ss \in Nat \X Nat : ss[1] < ss[2]}
<1>1. IsWellFoundedOn(R, Nat)
  BY NatLessThanWellFounded DEF OpToRel
<1>2. PICK x \in T : \A y \in T : ~(<<y, x>> \in R)
  <2> HIDE DEF R
  <2> QED
    BY <1>1, WFMin
<1>3. ASSUME NEW y \in T PROVE x <= y
  <2>1. x \in Nat /\ y \in Nat
    OBVIOUS
  <2>2. <<y, x>> \in Nat \X Nat /\ <<y, x>>[1] = y /\ <<y, x>>[2] = x
    BY <2>1
  <2>3. ~(y < x)
    BY <1>2, <2>2
  <2> QED
    BY <2>1, <2>3
<1> QED
  BY <1>3

LEMMA MinIsLeast ==
    ASSUME NEW S, S \subseteq Nat, NEW x \in S, \A y \in S : x <= y
    PROVE  Min(S) = x
<1>1. \A z \in S : (\A y \in S : z <= y) => z = x
  OBVIOUS
<1> QED
  BY <1>1 DEF Min

\* Dropping the repeated words of some lines drops no word.
LEMMA DistinctKeepsWords ==
    ASSUME NEW p, NEW S, S \subseteq Nat
    PROVE  /\ Distinct(p, S) \subseteq S
           /\ { p[i].word : i \in Distinct(p, S) } = { p[i].word : i \in S }
           /\ \A i, j \in Distinct(p, S) : p[i].word = p[j].word => i = j
<1>1. Distinct(p, S) \subseteq S
  BY DEF Distinct
<1>2. ASSUME NEW i \in S PROVE \E k \in Distinct(p, S) : p[k].word = p[i].word
  <2> DEFINE T == { j \in S : p[j].word = p[i].word }
  <2>1. PICK k \in T : \A j \in T : k <= j
    BY LeastLine
  <2>2. k \in S /\ p[k].word = p[i].word /\ k \in Nat
    OBVIOUS
  <2>3. \A j \in S : j < k => p[j].word # p[k].word
    BY <2>1, <2>2
  <2> QED
    BY <2>2, <2>3 DEF Distinct
<1>3. ASSUME NEW i \in Distinct(p, S), NEW j \in Distinct(p, S), p[i].word = p[j].word
      PROVE  i = j
  <2>1. i \in Nat /\ j \in Nat /\ ~(i < j) /\ ~(j < i)
    BY <1>1, <1>3 DEF Distinct
  <2> QED
    BY <2>1
<1>4. \A i \in S : p[i].word \in { p[k].word : k \in Distinct(p, S) }
  BY <1>2
<1>5. { p[i].word : i \in Distinct(p, S) } = { p[i].word : i \in S }
  BY <1>1, <1>4
<1> QED
  BY <1>1, <1>3, <1>5

LEMMA CapitalsAreCounted ==
    ASSUME NEW p, NEW i \in Nat, NEW j \in Int
    PROVE  /\ Capitals(p, i, j) \subseteq i .. j
           /\ Capitals(p, i, j) \subseteq Nat
           /\ IsFiniteSet(Capitals(p, i, j))
           /\ Cardinality(Capitals(p, i, j)) \in Nat
<1>1. Capitals(p, i, j) \in SUBSET (i .. j)
  BY DEF Capitals
<1>2. IsFiniteSet(i .. j)
  BY FS_Interval
<1>3. IsFiniteSet(Capitals(p, i, j))
  BY <1>1, <1>2, FS_Subset
<1> QED
  BY <1>1, <1>3, FS_CardinalityType

\* The beginning of one run is one run.
LEMMA OneRunBegins ==
    ASSUME NEW p, NEW i \in Nat, NEW j \in Nat, NEW k \in Nat, k <= j, OneRun(p, i, j)
    PROVE  OneRun(p, i, k)
<1>1. \A n \in i .. k : n \in i .. j
  OBVIOUS
<1>2. Capitals(p, i, k - 1) \in SUBSET Capitals(p, i, j - 1)
  <2>1. \A n \in i .. k - 1 : n \in i .. j - 1
    OBVIOUS
  <2> QED
    BY <2>1 DEF Capitals
<1>3. /\ IsFiniteSet(Capitals(p, i, j - 1))
      /\ Cardinality(Capitals(p, i, j - 1)) \in Nat
      /\ Cardinality(Capitals(p, i, k - 1)) \in Nat
  BY CapitalsAreCounted
<1>4. Cardinality(Capitals(p, i, k - 1)) <= Cardinality(Capitals(p, i, j - 1))
  BY <1>2, <1>3, FS_Subset
<1>5. MAX_HEADING_BLOCK_LINES \in Nat
  BY AdapterAssumption
<1> QED
  BY <1>1, <1>3, <1>4, <1>5 DEF OneRun

---------------------------------------------------------------------------
(* The scan. *)

LEMMA PageFacts ==
    ASSUME AdapterTypeOK
    PROVE  /\ Len(page) \in Nat /\ DOMAIN page = 1 .. Len(page)
           /\ index \in Nat /\ index >= 1 /\ index <= Len(page) + 2
           /\ MAX_HEADING_BLOCK_LINES \in Nat
           /\ \A i \in 1 .. Len(page) : page[i] \in PageLine
BY AdapterAssumption DEF AdapterTypeOK

\* A scan that stops has read at least its first line, and the line it stops
\* at belongs to the run no more.
LEMMA ScanStopsBehindRun ==
    ASSUME AdapterTypeOK, ScanReadsOneRun, ScanStops
    PROVE  /\ scan.at > index
           /\ OneRun(page, index, scan.at - 1)
           /\ scan.at <= Len(page) => ~OneRun(page, index, scan.at)
<1>1. /\ Len(page) \in Nat /\ index \in Nat /\ index >= 1
      /\ MAX_HEADING_BLOCK_LINES \in Nat
  BY PageFacts
<1>2. /\ scan # None /\ scan.at \in index .. Len(page) + 1
      /\ index <= Len(page) /\ MayOpen(page, index)
      /\ scan.shouty = Capitals(page, index, scan.at - 1)
  BY DEF ScanStops, ScanReadsOneRun, AdapterTypeOK
<1>3. scan.at > index
  <2>1. SUFFICES ASSUME scan.at = index PROVE FALSE
    BY <1>1, <1>2
  <2>2. scan.shouty = {}
    BY <1>1, <1>2, <2>1 DEF Capitals
  <2>3. Cardinality(scan.shouty) = 0
    BY <2>2, FS_EmptySet
  <2>4. ScanContinues
    BY <1>1, <1>2, <2>1, <2>3 DEF ScanContinues
  <2> QED
    BY <1>2, <2>1, <2>4 DEF ScanStops, MayOpen
<1>4. OneRun(page, index, scan.at - 1)
  BY <1>3 , <1>2 DEF ScanReadsOneRun
<1>5. ASSUME scan.at <= Len(page), OneRun(page, index, scan.at) PROVE FALSE
  <2>1. Cardinality(scan.shouty) <= MAX_HEADING_BLOCK_LINES
    BY <1>2, <1>5 DEF OneRun
  <2>2. ScanContinues
    BY <1>2, <1>5, <2>1 DEF ScanContinues
  <2>3. Prose(page, scan.at)
    BY <2>2 DEF ScanStops, Prose
  <2>4. scan.at \in index .. scan.at
    BY <1>1, <1>2
  <2> QED
    BY <1>5, <2>3, <2>4 DEF OneRun
<1> QED
  BY <1>3, <1>4, <1>5

\* One that found a heading stands behind exactly the heading's lines.
LEMMA FoundIsHeading ==
    ASSUME AdapterTypeOK, ScanReadsOneRun, ScanStops, FoundHeading
    PROVE  /\ OpensFeat(page, index)
           /\ HeadingLines(page, "feats", index) = index .. scan.at - 1
           /\ Min(scan.shouty) = index
           /\ scan.shouty = Capitals(page, index, scan.at - 1)
           /\ index \in scan.shouty
<1>1. /\ Len(page) \in Nat /\ index \in Nat /\ index >= 1
  BY PageFacts
<1>2. /\ scan # None /\ scan.at \in index .. Len(page) + 1
      /\ index <= Len(page) /\ MayOpen(page, index)
      /\ scan.shouty = Capitals(page, index, scan.at - 1)
      /\ scan.marked
      /\ scan.marked <=> \E k \in index .. scan.at - 1 : Is(page, k, "marker")
  BY DEF ScanStops, ScanReadsOneRun, AdapterTypeOK, FoundHeading
<1>3. /\ scan.at > index
      /\ OneRun(page, index, scan.at - 1)
      /\ scan.at <= Len(page) => ~OneRun(page, index, scan.at)
  BY ScanStopsBehindRun
<1>4. Is(page, index, "shouty") /\ ~Is(page, index, "marker")
  BY <1>2 DEF MayOpen, IsShouty, Is
<1>5. scan.at - 1 \in Nat /\ scan.at \in Nat
  BY <1>1, <1>2, <1>3
<1>6. OpensFeat(page, index)
  <2>1. PICK m \in index .. scan.at - 1 : Is(page, m, "marker")
    BY <1>2
  <2>2. m # index /\ m \in index + 1 .. Len(page) /\ m <= scan.at - 1 /\ m \in Nat
    BY <1>1, <1>2, <1>4, <2>1
  <2>3. OneRun(page, index, m)
    BY <1>1, <1>3, <1>5, <2>2, OneRunBegins
  <2> QED
    BY <1>4, <2>1, <2>2, <2>3 DEF OpensFeat
<1>7. ASSUME NEW j \in index .. Len(page) PROVE OneRun(page, index, j) <=> j <= scan.at - 1
  <2>1. CASE j <= scan.at - 1
    BY <1>1, <1>3, <1>5, <2>1, OneRunBegins
  <2>2. CASE j >= scan.at
    <3>1. scan.at <= Len(page) /\ j \in Nat
      BY <1>1, <1>2, <2>2
    <3>2. ~OneRun(page, index, j)
      BY <1>1, <1>3, <1>5, <2>2, <3>1, OneRunBegins
    <3> QED
      BY <1>5, <2>2, <3>2
  <2> QED
    BY <1>1, <1>5, <2>1, <2>2
<1>8. HeadingLines(page, "feats", index) = index .. scan.at - 1
  <2>1. \A j : j \in index .. scan.at - 1 => j \in index .. Len(page)
    BY <1>1, <1>2
  <2> QED
    BY <1>1, <1>5, <1>7, <2>1 DEF HeadingLines
<1>9. index \in scan.shouty
  BY <1>1, <1>2, <1>3, <1>4 DEF Capitals
<1>10. Min(scan.shouty) = index
  <2>1. scan.shouty \subseteq Nat /\ \A y \in scan.shouty : index <= y
    BY <1>1, <1>2, <1>5 DEF Capitals
  <2> QED
    BY <1>9, <2>1, MinIsLeast
<1> QED
  BY <1>2, <1>6, <1>8, <1>9, <1>10

\* One that found none started where no heading does.
LEMMA NotFoundIsNone ==
    ASSUME AdapterTypeOK, ScanReadsOneRun, ScanStops, ~FoundHeading
    PROVE  ~OpensFeat(page, index)
<1>1. /\ Len(page) \in Nat /\ index \in Nat /\ index >= 1
  BY PageFacts
<1>2. /\ scan # None /\ scan.at \in index .. Len(page) + 1
      /\ index <= Len(page) /\ MayOpen(page, index)
      /\ scan.shouty = Capitals(page, index, scan.at - 1)
      /\ scan.marked <=> \E k \in index .. scan.at - 1 : Is(page, k, "marker")
  BY DEF ScanStops, ScanReadsOneRun, AdapterTypeOK
<1>3. /\ scan.at > index
      /\ scan.at <= Len(page) => ~OneRun(page, index, scan.at)
  BY ScanStopsBehindRun
<1>4. Is(page, index, "shouty")
  BY <1>2 DEF MayOpen, IsShouty, Is
<1>5. index \in scan.shouty
  BY <1>1, <1>2, <1>3, <1>4 DEF Capitals
<1>6. \A k \in index .. scan.at - 1 : ~Is(page, k, "marker")
  BY <1>2, <1>5 DEF FoundHeading
<1>7. SUFFICES ASSUME NEW m \in index + 1 .. Len(page), Is(page, m, "marker"), OneRun(page, index, m)
               PROVE  FALSE
  BY DEF OpensFeat
<1>8. m >= scan.at /\ m \in Nat /\ scan.at \in Nat /\ scan.at <= Len(page)
  BY <1>1, <1>2, <1>6, <1>7
<1>9. OneRun(page, index, scan.at)
  BY <1>1, <1>7, <1>8, OneRunBegins
<1> QED
  BY <1>3, <1>8, <1>9
---------------------------------------------------------------------------
(* The properties of the entries, for a page p of the converter l, the     *)
(* entries T taken from it and the next line k.                            *)

NamesOf(T) == { T[n].name : n \in DOMAIN T }

Behind(p, l, T, k) ==
    \A n \in NamesOf(T) : n < k /\ \A j \in HeadingLines(p, l, n) : j < k

Ordered(T) == \A m, n \in DOMAIN T : m < n => T[m].name < T[n].name

\* Line i names an entry, or not, as the loop-free reading has it.
Named(p, l, T, i) ==
    i \in NamesOf(T) <=> /\ OpensEntry(p, l, i)
                         /\ \A n \in NamesOf(T) : n < i => i \notin HeadingLines(p, l, n)

Found(p, l, T, k) ==
    /\ \A i \in 1 .. k - 1 : i <= Len(p) => Named(p, l, T, i)
    /\ Ordered(T)

Own(p, T, name, k) ==
    { i \in name .. k - 1 : i <= Len(p) /\ \A m \in NamesOf(T) : m <= i => m <= name }

TraitsOnce(p, l, e) ==
    LET others == { i \in HeadingLines(p, l, e.name) : i # e.name /\ Is(p, i, "shouty") }
    IN  l = "feats" =>
          /\ { p[i].word : i \in e.traits } = { p[i].word : i \in others }
          /\ \A i, j \in e.traits : p[i].word = p[j].word => i = j

WholeBody(p, l, T, e, k) ==
    e.body = { i \in Own(p, T, e.name, k) \ HeadingLines(p, l, e.name) : ~Ignored(p, l, i) }

Whole(p, l, T, k) ==
    \A n \in DOMAIN T : WholeBody(p, l, T, T[n], k) /\ TraitsOnce(p, l, T[n])

Good(p, l, T, k) == Behind(p, l, T, k) /\ Found(p, l, T, k) /\ Whole(p, l, T, k)

LEMMA NamesAreNamesOf ==
    Names = NamesOf(Taken) /\ Names' = NamesOf(Taken')
<1>1. Names = NamesOf(Taken)
  BY DEF Names, AllEntries, NamesOf
<1>2. Names' = NamesOf(Taken')
  BY DEF Names, AllEntries, NamesOf
<1> QED
  BY <1>1, <1>2

\* The invariant's parts say this of the state.
LEMMA PropertiesOfEntries ==
    /\ HeadingsAreBehind /\ HeadingsAreFound /\ EntriesAreWhole
         <=> Good(page, layout, Taken, index)
    /\ HeadingsAreBehind' /\ HeadingsAreFound' /\ EntriesAreWhole'
         <=> Good(page', layout', Taken', index')
<1>1. HeadingsAreBehind <=> Behind(page, layout, Taken, index)
  BY NamesAreNamesOf DEF HeadingsAreBehind, Behind
<1>2. HeadingsAreBehind' <=> Behind(page', layout', Taken', index')
  BY NamesAreNamesOf DEF HeadingsAreBehind, Behind
<1>3. HeadingsAreFound <=> Found(page, layout, Taken, index)
  BY NamesAreNamesOf DEF HeadingsAreFound, Found, Named, Ordered
<1>4. HeadingsAreFound' <=> Found(page', layout', Taken', index')
  BY NamesAreNamesOf DEF HeadingsAreFound, Found, Named, Ordered
<1>5. EntriesAreWhole <=> Whole(page, layout, Taken, index)
  <2>1. EntriesAreWhole <=>
          \A e \in AllEntries : WholeBody(page, layout, Taken, e, index) /\ TraitsOnce(page, layout, e)
    BY NamesAreNamesOf, Zenon DEF EntriesAreWhole, WholeBody, TraitsOnce, Own
  <2> QED
    BY <2>1, Zenon DEF Whole, AllEntries
<1>6. EntriesAreWhole' <=> Whole(page', layout', Taken', index')
  <2>1. EntriesAreWhole' <=>
          \A e \in AllEntries' : WholeBody(page', layout', Taken', e, index') /\ TraitsOnce(page', layout', e)
    BY NamesAreNamesOf, Zenon DEF EntriesAreWhole, WholeBody, TraitsOnce, Own
  <2> QED
    BY <2>1, Zenon DEF Whole, AllEntries
<1> QED
  BY <1>1, <1>2, <1>3, <1>4, <1>5, <1>6 DEF Good

LEMMA EntriesAreNumbered ==
    ASSUME NEW T \in Seq(EntryRecord)
    PROVE  /\ Len(T) \in Nat /\ DOMAIN T = 1 .. Len(T)
           /\ \A n \in DOMAIN T : T[n].name \in Nat
           /\ NamesOf(T) \subseteq Nat
<1>1. \A n \in DOMAIN T : T[n] \in EntryRecord
  OBVIOUS
<1>2. \A e \in EntryRecord : e.name \in Nat
  BY DEF EntryRecord
<1>3. Len(T) \in Nat /\ DOMAIN T = 1 .. Len(T)
  OBVIOUS
<1> QED
  BY <1>1, <1>2, <1>3 DEF NamesOf

\* They are kept while no line of the page is passed.
LEMMA NoLinePassed ==
    ASSUME NEW p, NEW l, Len(p) \in Nat, NEW T \in Seq(EntryRecord), NEW k \in Nat,
           Good(p, l, T, k), k > Len(p)
    PROVE  Good(p, l, T, k + 1)
<1>1. NamesOf(T) \subseteq Nat
  BY EntriesAreNumbered
<1>2. Behind(p, l, T, k + 1)
  <2>1. ASSUME NEW n \in NamesOf(T), NEW j \in HeadingLines(p, l, n) PROVE j \in Nat
    BY <1>1 DEF HeadingLines
  <2>2. Behind(p, l, T, k)
    BY DEF Good
  <2> QED
    BY <1>1, <2>1, <2>2 DEF Behind
<1>3. Found(p, l, T, k + 1)
  <2>1. \A i \in 1 .. (k + 1) - 1 : i <= Len(p) => i \in 1 .. k - 1
    OBVIOUS
  <2> QED
    BY <2>1 DEF Good, Found
<1>4. Whole(p, l, T, k + 1)
  <2>1. ASSUME NEW n \in DOMAIN T PROVE Own(p, T, T[n].name, k + 1) = Own(p, T, T[n].name, k)
    <3>1. T[n].name \in Nat
      BY EntriesAreNumbered
    <3>2. \A i : i \in T[n].name .. (k + 1) - 1 /\ i <= Len(p) <=> i \in T[n].name .. k - 1 /\ i <= Len(p)
      BY <3>1
    <3> QED
      BY <3>2 DEF Own
  <2> QED
    BY <2>1 DEF Good, Whole, WholeBody
<1> QED
  BY <1>2, <1>3, <1>4 DEF Good

\* A line that opens no entry and is not to be kept may be skipped.
LEMMA LineSkipped ==
    ASSUME NEW p, NEW l, Len(p) \in Nat, NEW T \in Seq(EntryRecord), NEW k \in Nat,
           Good(p, l, T, k), k <= Len(p),
           ~OpensEntry(p, l, k), Ignored(p, l, k) \/ T = <<>>
    PROVE  Good(p, l, T, k + 1)
<1>1. NamesOf(T) \subseteq Nat
  BY EntriesAreNumbered
<1>2. Behind(p, l, T, k)
  BY DEF Good
<1>3. Behind(p, l, T, k + 1)
  <2>1. ASSUME NEW n \in NamesOf(T), NEW j \in HeadingLines(p, l, n) PROVE j \in Nat
    BY <1>1 DEF HeadingLines
  <2> QED
    BY <1>1, <1>2, <2>1 DEF Behind
<1>4. Found(p, l, T, k + 1)
  <2>1. k \notin NamesOf(T)
    BY <1>2 DEF Behind
  <2>2. Named(p, l, T, k)
    BY <2>1 DEF Named
  <2>3. \A i \in 1 .. (k + 1) - 1 : i \in 1 .. k - 1 \/ i = k
    OBVIOUS
  <2> QED
    BY <2>2, <2>3 DEF Good, Found
<1>5. Whole(p, l, T, k + 1)
  <2>1. CASE T = <<>>
    BY <2>1 DEF Whole
  <2>2. ASSUME Ignored(p, l, k), NEW n \in DOMAIN T PROVE WholeBody(p, l, T, T[n], k + 1)
    <3>1. T[n].name \in Nat /\ T[n].name \in NamesOf(T)
      BY EntriesAreNumbered DEF NamesOf
    <3>2. \A i : i # k => (i \in T[n].name .. (k + 1) - 1 <=> i \in T[n].name .. k - 1)
      BY <3>1
    <3>3. \A i : i # k => (i \in Own(p, T, T[n].name, k + 1) <=> i \in Own(p, T, T[n].name, k))
      BY <3>2 DEF Own
    <3>4. k \notin Own(p, T, T[n].name, k)
      BY <3>1 DEF Own
    <3>5. WholeBody(p, l, T, T[n], k)
      BY DEF Good, Whole
    <3> QED
      BY <2>2, <3>3, <3>4, <3>5 DEF WholeBody
  <2> QED
    BY <2>1, <2>2 DEF Good, Whole
<1> QED
  BY <1>3, <1>4, <1>5 DEF Good
\* A line that opens no entry and is to be kept goes to the last entry.
LEMMA LineKept ==
    ASSUME NEW p, NEW l, Len(p) \in Nat,
           NEW S \in Seq(EntryRecord), NEW e \in EntryRecord, NEW k \in Nat,
           Good(p, l, Append(S, e), k), k <= Len(p),
           ~OpensEntry(p, l, k), ~Ignored(p, l, k)
    PROVE  Good(p, l, Append(S, [e EXCEPT !.body = @ \cup {k}]), k + 1)
<1> DEFINE f == [e EXCEPT !.body = @ \cup {k}]
           T == Append(S, e)
           U == Append(S, f)
<1>1. /\ f \in EntryRecord /\ f.name = e.name /\ f.traits = e.traits
      /\ f.body = e.body \cup {k} /\ e.name \in Nat
  BY DEF EntryRecord
<1>2. /\ Len(S) \in Nat
      /\ DOMAIN T = 1 .. Len(S) + 1 /\ DOMAIN U = 1 .. Len(S) + 1
      /\ \A n \in 1 .. Len(S) : T[n] = S[n] /\ U[n] = S[n]
      /\ T[Len(S) + 1] = e /\ U[Len(S) + 1] = f
      /\ T \in Seq(EntryRecord) /\ U \in Seq(EntryRecord)
  BY <1>1
<1> HIDE DEF f, T, U
<1>3. \A n \in 1 .. Len(S) + 1 : U[n].name = T[n].name /\ U[n].traits = T[n].traits
  <2>1. \A n \in 1 .. Len(S) + 1 : n \in 1 .. Len(S) \/ n = Len(S) + 1
    BY <1>2
  <2> QED
    BY <1>1, <1>2, <2>1
<1>4. NamesOf(U) = NamesOf(T)
  BY <1>2, <1>3 DEF NamesOf
<1>5. NamesOf(T) \subseteq Nat
  BY <1>2, EntriesAreNumbered
<1>6. Behind(p, l, T, k) /\ Found(p, l, T, k) /\ Whole(p, l, T, k)
  BY DEF Good, T
<1>7. Behind(p, l, U, k + 1)
  <2>1. ASSUME NEW n \in NamesOf(T), NEW j \in HeadingLines(p, l, n) PROVE j \in Nat
    BY <1>5 DEF HeadingLines
  <2> QED
    BY <1>4, <1>5, <1>6, <2>1 DEF Behind
<1>8. Found(p, l, U, k + 1)
  <2>1. k \notin NamesOf(T)
    BY <1>6 DEF Behind
  <2>2. Named(p, l, U, k)
    BY <1>4, <2>1 DEF Named
  <2>3. \A i \in 1 .. (k + 1) - 1 : i \in 1 .. k - 1 \/ i = k
    OBVIOUS
  <2>4. \A i \in 1 .. k - 1 : i <= Len(p) => Named(p, l, U, i)
    BY <1>4, <1>6 DEF Found, Named
  <2>5. Ordered(U)
    BY <1>2, <1>3, <1>6 DEF Found, Ordered
  <2> QED
    BY <2>2, <2>3, <2>4, <2>5 DEF Found
<1>9. ASSUME NEW n \in 1 .. Len(S) + 1
      PROVE  WholeBody(p, l, U, U[n], k + 1) /\ TraitsOnce(p, l, U[n])
  <2> DEFINE name == T[n].name
  <2>1. name \in Nat /\ name \in NamesOf(T) /\ U[n].name = name /\ name < k
    BY <1>2, <1>3, <1>5, <1>6 DEF NamesOf, Behind
  <2>2. WholeBody(p, l, T, T[n], k) /\ TraitsOnce(p, l, T[n])
    BY <1>2, <1>6 DEF Whole
  <2>3. TraitsOnce(p, l, U[n])
    BY <1>3, <2>2 DEF TraitsOnce
  <2> HIDE DEF name
  <2>4. \A i : i # k => (i \in Own(p, U, name, k + 1) <=> i \in Own(p, T, name, k))
    <3>1. \A i : i # k => (i \in name .. (k + 1) - 1 <=> i \in name .. k - 1)
      BY <2>1
    <3> QED
      BY <1>4, <3>1 DEF Own
  <2>5. k \notin Own(p, T, name, k)
    BY <2>1 DEF Own
  <2>6. k \notin HeadingLines(p, l, name)
    BY <1>6, <2>1 DEF Behind
  <2>7. CASE n = Len(S) + 1
    <3>1. \A m \in NamesOf(T) : m <= name
      <4>1. ASSUME NEW x \in 1 .. Len(S) + 1 PROVE T[x].name <= name
        <5>1. x = n \/ x < n
          BY <1>2, <2>7
        <5>2. x < n => T[x].name < name
          BY <1>2, <1>6 DEF Found, Ordered, name
        <5>3. T[x].name \in Nat
          BY <1>2, <1>5 DEF NamesOf
        <5> QED
          BY <2>1, <5>1, <5>2, <5>3 DEF name
      <4> QED
        BY <1>2, <4>1 DEF NamesOf
    <3>2. k \in Own(p, U, name, k + 1)
      BY <1>4, <2>1, <3>1 DEF Own
    <3>3. U[n].body = T[n].body \cup {k}
      BY <1>1, <1>2, <2>7
    <3>4. WholeBody(p, l, U, U[n], k + 1)
      BY <2>1, <2>2, <2>4, <2>5, <2>6, <3>2, <3>3 DEF WholeBody, name
    <3> QED
      BY <2>3, <3>4
  <2>8. CASE n \in 1 .. Len(S)
    <3>1. e.name \in NamesOf(T) /\ name < e.name /\ e.name < k
      <4>1. e.name \in NamesOf(T)
        BY <1>2 DEF NamesOf
      <4>2. n < Len(S) + 1 /\ Len(S) + 1 \in DOMAIN T /\ n \in DOMAIN T
        BY <1>2, <2>8
      <4>3. name < e.name
        BY <1>2, <1>6, <4>2 DEF Found, Ordered, name
      <4> QED
        BY <1>6, <4>1, <4>3 DEF Behind
    <3>2. k \notin Own(p, U, name, k + 1)
      BY <1>1, <1>4, <2>1, <3>1 DEF Own
    <3>3. U[n].body = T[n].body
      BY <1>2, <2>8
    <3>4. WholeBody(p, l, U, U[n], k + 1)
      BY <2>1, <2>2, <2>4, <2>5, <3>2, <3>3 DEF WholeBody, name
    <3> QED
      BY <2>3, <3>4
  <2> QED
    BY <1>2, <2>7, <2>8
<1>10. Whole(p, l, U, k + 1)
  BY <1>2, <1>9 DEF Whole
<1> QED
  BY <1>7, <1>8, <1>10 DEF Good, U, f

\* A heading of the lines k to h - 1 opens the next entry.
LEMMA EntryOpened ==
    ASSUME NEW p, NEW l, Len(p) \in Nat,
           NEW T \in Seq(EntryRecord), NEW e \in EntryRecord, NEW k \in Nat, NEW h \in Nat,
           Good(p, l, T, k), k <= Len(p), k < h, h <= Len(p) + 1, k >= 1,
           OpensEntry(p, l, k), HeadingLines(p, l, k) = k .. h - 1,
           e.name = k, e.body = {}, TraitsOnce(p, l, e)
    PROVE  Good(p, l, Append(T, e), h)
<1> DEFINE U == Append(T, e)
<1>1. /\ Len(T) \in Nat
      /\ DOMAIN T = 1 .. Len(T) /\ DOMAIN U = 1 .. Len(T) + 1
      /\ \A n \in 1 .. Len(T) : U[n] = T[n]
      /\ U[Len(T) + 1] = e
      /\ U \in Seq(EntryRecord)
  OBVIOUS
<1> HIDE DEF U
<1>2. \A n \in 1 .. Len(T) + 1 : n \in 1 .. Len(T) \/ n = Len(T) + 1
  BY <1>1
<1>3. NamesOf(U) = NamesOf(T) \cup {k}
  BY <1>1, <1>2 DEF NamesOf
<1>4. NamesOf(T) \subseteq Nat
  BY EntriesAreNumbered
<1>5. Behind(p, l, T, k) /\ Found(p, l, T, k) /\ Whole(p, l, T, k)
  BY DEF Good
<1>6. \A n \in NamesOf(T) : n < k /\ k \notin HeadingLines(p, l, n)
  BY <1>5 DEF Behind
<1>7. Behind(p, l, U, h)
  <2>1. ASSUME NEW n \in NamesOf(T), NEW j \in HeadingLines(p, l, n) PROVE j \in Nat
    BY <1>4 DEF HeadingLines
  <2>2. \A j \in HeadingLines(p, l, k) : j < h
    OBVIOUS
  <2>3. \A n \in NamesOf(T) : n < h /\ \A j \in HeadingLines(p, l, n) : j < h
    BY <1>4, <1>5, <2>1 DEF Behind
  <2> QED
    BY <1>3, <2>2, <2>3 DEF Behind
<1>8. Found(p, l, U, h)
  <2>1. ASSUME NEW i \in 1 .. k - 1, i <= Len(p) PROVE Named(p, l, U, i)
    <3>1. Named(p, l, T, i) /\ i # k /\ ~(k < i)
      BY <1>5, <2>1 DEF Found
    <3> QED
      BY <1>3, <3>1 DEF Named
  <2>2. Named(p, l, U, k)
    BY <1>3, <1>6 DEF Named
  <2>3. ASSUME NEW i \in k + 1 .. h - 1 PROVE Named(p, l, U, i)
    <3>1. i \in HeadingLines(p, l, k) /\ k < i
      BY <2>3
    <3>2. i \notin NamesOf(U)
      BY <1>3, <1>6, <3>1
    <3> QED
      BY <1>3, <3>1, <3>2 DEF Named
  <2>4. \A i \in 1 .. h - 1 : i \in 1 .. k - 1 \/ i = k \/ i \in k + 1 .. h - 1
    OBVIOUS
  <2>5. Ordered(U)
    <3>1. ASSUME NEW m \in 1 .. Len(T) + 1, NEW n \in 1 .. Len(T) + 1, m < n
          PROVE  U[m].name < U[n].name
      <4>1. m \in 1 .. Len(T) /\ T[m].name \in NamesOf(T)
        BY <1>1, <3>1 DEF NamesOf
      <4>2. CASE n = Len(T) + 1
        BY <1>1, <1>6, <4>1, <4>2
      <4>3. CASE n \in 1 .. Len(T)
        BY <1>1, <1>5, <3>1, <4>1, <4>3 DEF Found, Ordered
      <4> QED
        BY <1>2, <4>2, <4>3
    <3> QED
      BY <1>1, <3>1 DEF Ordered
  <2> QED
    BY <2>1, <2>2, <2>3, <2>4, <2>5 DEF Found
<1>9. ASSUME NEW n \in 1 .. Len(T) + 1
      PROVE  WholeBody(p, l, U, U[n], h) /\ TraitsOnce(p, l, U[n])
  <2>1. CASE n = Len(T) + 1
    <3>1. U[n] = e
      BY <1>1, <2>1
    <3>2. Own(p, U, k, h) \subseteq HeadingLines(p, l, k)
      BY DEF Own
    <3>3. WholeBody(p, l, U, e, h)
      BY <3>2 DEF WholeBody
    <3> QED
      BY <3>1, <3>3
  <2>2. CASE n \in 1 .. Len(T)
    <3>1. U[n] = T[n] /\ WholeBody(p, l, T, T[n], k) /\ TraitsOnce(p, l, T[n])
      BY <1>1, <1>5, <2>2 DEF Whole
    <3>2. T[n].name \in NamesOf(T) /\ T[n].name \in Nat /\ T[n].name < k
      BY <1>1, <1>4, <1>6, <2>2 DEF NamesOf
    <3>3. Own(p, U, T[n].name, h) = Own(p, T, T[n].name, k)
      <4>1. ASSUME NEW i \in T[n].name .. h - 1, ~(i < k) PROVE i \notin Own(p, U, T[n].name, h)
        <5>1. k \in NamesOf(U) /\ k <= i /\ ~(k <= T[n].name)
          BY <1>3, <3>2, <4>1
        <5> QED
          BY <5>1 DEF Own
      <4>2. ASSUME NEW i \in T[n].name .. k - 1
            PROVE  i \in Own(p, U, T[n].name, h) <=> i \in Own(p, T, T[n].name, k)
        <5>1. i \in T[n].name .. h - 1 /\ ~(k <= i)
          BY <3>2
        <5> QED
          BY <1>3, <5>1 DEF Own
      <4>3. \A i \in T[n].name .. h - 1 : i < k => i \in T[n].name .. k - 1
        BY <3>2
      <4>4. /\ Own(p, U, T[n].name, h) \subseteq T[n].name .. h - 1
            /\ Own(p, T, T[n].name, k) \subseteq T[n].name .. k - 1
        BY DEF Own
      <4> QED
        BY <4>1, <4>2, <4>3, <4>4
    <3> QED
      BY <3>1, <3>3 DEF WholeBody
  <2> QED
    BY <1>2, <2>1, <2>2
<1>10. Whole(p, l, U, h)
  BY <1>1, <1>9 DEF Whole
<1> QED
  BY <1>7, <1>8, <1>10 DEF Good, U
---------------------------------------------------------------------------
(* The steps. *)

LEMMA StartedEntry ==
    ASSUME AdapterTypeOK, NEW type \in RecognisedType, NEW name \in Nat,
           NEW traits \in SUBSET Nat, StartEntry(type, name, traits)
    PROVE  /\ Taken \in Seq(EntryRecord)
           /\ Entry(type, name, traits) \in EntryRecord
           /\ Taken' = Append(Taken, Entry(type, name, traits))
           /\ entries' \in Seq(EntryRecord) /\ current' \in EntryRecord /\ current' # None
<1>1. Entry(type, name, traits) \in EntryRecord
  BY DEF Entry, EntryRecord
<1>2. Entry(type, name, traits) # None
  BY <1>1, AdapterAssumption
<1>3. Taken' = Append(Taken, Entry(type, name, traits))
  BY <1>2 DEF StartEntry, Taken
<1>4. Taken \in Seq(EntryRecord)
  BY DEF AdapterTypeOK, Taken
<1> QED
  BY <1>1, <1>2, <1>3, <1>4 DEF StartEntry

LEMMA PushedLine ==
    ASSUME AdapterTypeOK, Push
    PROVE  /\ index' = index + 1 /\ entries' = entries
           /\ current = None => current' = None
           /\ current # None => /\ current \in EntryRecord
                                /\ current' = [current EXCEPT !.body = @ \cup {index}]
                                /\ current' \in EntryRecord /\ current' # None
<1>1. index \in Nat
  BY PageFacts
<1>2. ASSUME current # None
      PROVE  /\ current \in EntryRecord
             /\ current' = [current EXCEPT !.body = @ \cup {index}]
             /\ current' \in EntryRecord
  <2>1. current \in EntryRecord
    BY <1>2 DEF AdapterTypeOK
  <2>2. current' = [current EXCEPT !.body = @ \cup {index}]
    BY <1>2 DEF Push
  <2> QED
    BY <1>1, <2>1, <2>2 DEF EntryRecord
<1>3. None \notin EntryRecord
  BY AdapterAssumption
<1> QED
  BY <1>2, <1>3 DEF Push

\* What a heading of feats starts.
LEMMA FeatStarted ==
    ASSUME AdapterTypeOK, ScanReadsOneRun, FeatHeading
    PROVE  LET traits == Distinct(page, scan.shouty \ {index}) IN
           /\ traits \in SUBSET Nat
           /\ StartEntry("feat", index, traits)
           /\ TraitsOnce(page, "feats", Entry("feat", index, traits))
           /\ OpensEntry(page, "feats", index)
           /\ HeadingLines(page, "feats", index) = index .. scan.at - 1
           /\ scan.at \in Nat /\ index < scan.at /\ scan.at <= Len(page) + 1 /\ index <= Len(page)
<1> DEFINE traits == Distinct(page, scan.shouty \ {index})
<1>1. ScanStops /\ FoundHeading
  BY DEF FeatHeading
<1>2. /\ OpensFeat(page, index)
      /\ HeadingLines(page, "feats", index) = index .. scan.at - 1
      /\ Min(scan.shouty) = index
      /\ scan.shouty = Capitals(page, index, scan.at - 1)
  BY <1>1, FoundIsHeading
<1>3. /\ scan # None /\ scan.at \in index .. Len(page) + 1 /\ scan.shouty \in SUBSET Nat
      /\ index <= Len(page) /\ index \in Nat /\ Len(page) \in Nat
  BY <1>1, PageFacts DEF ScanStops, AdapterTypeOK, ScanReadsOneRun
<1>4. scan.at > index
  BY <1>1, ScanStopsBehindRun
<1>5. /\ traits \subseteq scan.shouty \ {index}
      /\ { page[i].word : i \in traits } = { page[i].word : i \in scan.shouty \ {index} }
      /\ \A i, j \in traits : page[i].word = page[j].word => i = j
  BY <1>3, DistinctKeepsWords
<1>6. StartEntry("feat", index, traits)
  BY <1>2 DEF FeatHeading
<1> HIDE DEF traits
<1>7. TraitsOnce(page, "feats", Entry("feat", index, traits))
  <2> DEFINE others == { i \in HeadingLines(page, "feats", index) : i # index /\ Is(page, i, "shouty") }
  <2>1. others = scan.shouty \ {index}
    BY <1>2 DEF Capitals
  <2>2. { page[i].word : i \in traits } = { page[i].word : i \in others }
    BY <1>5, <2>1
  <2>3. Entry("feat", index, traits).name = index /\ Entry("feat", index, traits).traits = traits
    BY DEF Entry
  <2> QED
    BY <1>5, <2>2, <2>3 DEF TraitsOnce
<1>8. OpensEntry(page, "feats", index)
  BY <1>2 DEF OpensEntry
<1>9. traits \in SUBSET Nat
  BY <1>3, <1>5
<1>10. scan.at \in Nat /\ scan.at <= Len(page) + 1
  BY <1>3
<1> QED
  BY <1>2, <1>3, <1>4, <1>6, <1>7, <1>8, <1>9, <1>10, Zenon DEF traits

\* A line on its own is all there is of the heading of an action or a condition.
LEMMA LineHeading ==
    ASSUME AdapterTypeOK, NEW l \in {"actions", "conditions"},
           NEW type \in RecognisedType, StartEntry(type, index, {})
    PROVE  /\ TraitsOnce(page, l, Entry(type, index, {}))
           /\ HeadingLines(page, l, index) = index .. (index + 1) - 1
<1>1. index \in Nat
  BY PageFacts
<1> QED
  BY <1>1 DEF TraitsOnce, HeadingLines

\* The type invariant.
LEMMA TypesAreKept ==
    ASSUME AdapterTypeOK, ScanReadsOneRun, [AdapterNext]_adapterVars
    PROVE  AdapterTypeOK'
<1>1. /\ Len(page) \in Nat /\ DOMAIN page = 1 .. Len(page)
      /\ index \in Nat /\ index >= 1 /\ index <= Len(page) + 2
      /\ MAX_HEADING_BLOCK_LINES \in Nat
      /\ \A i \in 1 .. Len(page) : page[i] \in PageLine
  BY PageFacts
<1>2. CASE ActionHeading
  <2>1. index \in 1 .. Len(page) /\ scan = None
    BY <1>1, <1>2 DEF ActionHeading, Reading
  <2>2. page[index].cost \in RecognisedType
    BY <1>1, <2>1 DEF PageLine
  <2>3. entries' \in Seq(EntryRecord) /\ current' \in EntryRecord
    BY <1>1, <1>2, <2>2, StartedEntry DEF ActionHeading
  <2> QED
    BY <1>1, <1>2, <2>1, <2>3 DEF ActionHeading, AdapterTypeOK
<1>3. CASE ConditionHeading
  <2>1. index \in 1 .. Len(page) /\ scan = None
    BY <1>1, <1>3 DEF ConditionHeading, Reading
  <2>2. "condition" \in RecognisedType
    BY DEF RecognisedType
  <2>3. entries' \in Seq(EntryRecord) /\ current' \in EntryRecord
    BY <1>1, <1>3, <2>2, StartedEntry DEF ConditionHeading
  <2> QED
    BY <1>1, <1>3, <2>1, <2>3 DEF ConditionHeading, AdapterTypeOK
<1>4. CASE ActionLine \/ FeatLine \/ ConditionLine
  <2>1. index <= Len(page) /\ scan = None /\ Push /\ UNCHANGED <<layout, page, pastAnchor, scan>>
    BY <1>4 DEF ActionLine, FeatLine, ConditionLine, Reading
  <2> QED
    BY <1>1, <2>1, PushedLine DEF AdapterTypeOK
<1>5. CASE FeatBlank \/ BeforeAnchor \/ ConditionDropped
  <2>1. /\ index <= Len(page) /\ scan = None /\ Drop /\ pastAnchor' \in BOOLEAN
        /\ UNCHANGED <<layout, page, scan>>
    BY <1>5 DEF FeatBlank, BeforeAnchor, ConditionDropped, Reading, Is, AdapterTypeOK
  <2> QED
    BY <1>1, <2>1 DEF AdapterTypeOK, Drop
<1>6. CASE BeginScan
  <2>1. Cardinality({}) = 0
    BY FS_EmptySet
  <2>2. /\ layout = "feats" /\ index <= Len(page)
        /\ scan' = [at |-> index, shouty |-> {}, marked |-> FALSE]
        /\ UNCHANGED <<layout, page, index, pastAnchor, current, entries>>
    BY <1>6 DEF BeginScan, Reading
  <2>3. /\ scan' \in [at : Nat, shouty : SUBSET Nat, marked : BOOLEAN]
        /\ scan'.at = index /\ scan'.shouty = {}
    BY <1>1, <2>2
  <2> QED
    BY <1>1, <2>1, <2>2, <2>3 DEF AdapterTypeOK
<1>7. CASE ScanBlank \/ ScanMarker \/ ScanShouty
  <2>1. /\ scan # None /\ scan.at <= Len(page) /\ layout = "feats"
        /\ Cardinality(scan.shouty) <= MAX_HEADING_BLOCK_LINES
        /\ UNCHANGED <<layout, page, index, pastAnchor, current, entries>>
    BY <1>7 DEF ScanBlank, ScanMarker, ScanShouty, ScanContinues, AdapterTypeOK
  <2>2. /\ scan \in [at : Nat, shouty : SUBSET Nat, marked : BOOLEAN]
        /\ scan.at \in index .. Len(page) + 1
        /\ scan.shouty \in SUBSET (index .. scan.at - 1)
    BY <2>1 DEF AdapterTypeOK
  <2>3. /\ scan' \in [at : Nat, shouty : SUBSET Nat, marked : BOOLEAN]
        /\ scan'.at = scan.at + 1
        /\ scan'.shouty = scan.shouty \/ scan'.shouty = scan.shouty \cup {scan.at}
    <3>1. scan.at + 1 \in Nat /\ scan.at \in Nat
      BY <2>2
    <3>2. CASE ScanBlank
      <4>1. scan' = [scan EXCEPT !.at = scan.at + 1]
        BY <3>2 DEF ScanBlank
      <4> QED
        BY <2>2, <3>1, <4>1
    <3>3. CASE ScanMarker
      <4>1. scan' = [scan EXCEPT !.at = scan.at + 1, !.marked = TRUE]
        BY <3>3 DEF ScanMarker
      <4> QED
        BY <2>2, <3>1, <4>1
    <3>4. CASE ScanShouty
      <4>1. scan' = [scan EXCEPT !.at = scan.at + 1, !.shouty = scan.shouty \cup {scan.at}]
        BY <3>4 DEF ScanShouty
      <4>2. scan.shouty \cup {scan.at} \in SUBSET Nat
        BY <2>2, <3>1
      <4> QED
        BY <2>2, <3>1, <4>1, <4>2
    <3> QED
      BY <1>7, <3>2, <3>3, <3>4
  <2>4. Cardinality(scan'.shouty) <= MAX_HEADING_BLOCK_LINES + 1
    <3>1. IsFiniteSet(scan.shouty)
      <4>1. IsFiniteSet(index .. scan.at - 1)
        BY <1>1, <2>2, FS_Interval
      <4>2. scan.shouty \in SUBSET (index .. scan.at - 1)
        BY <2>2
      <4> QED
        BY <4>1, <4>2, FS_Subset
    <3>2. Cardinality(scan.shouty) \in Nat
      BY <3>1, FS_CardinalityType
    <3>3. \/ Cardinality(scan.shouty \cup {scan.at}) = Cardinality(scan.shouty)
          \/ Cardinality(scan.shouty \cup {scan.at}) = Cardinality(scan.shouty) + 1
      BY <3>1, FS_AddElement
    <3>4. CASE scan'.shouty = scan.shouty
      BY <1>1, <2>1, <3>2, <3>4
    <3>5. CASE scan'.shouty = scan.shouty \cup {scan.at}
      BY <1>1, <2>1, <3>2, <3>3, <3>5
    <3> QED
      BY <2>3, <3>4, <3>5
  <2>5. scan'.at \in index .. Len(page) + 1
    BY <1>1, <2>1, <2>2, <2>3
  <2>6. scan'.shouty \in SUBSET (index .. scan'.at - 1)
    <3>1. scan.at \in index .. scan'.at - 1
      BY <1>1, <2>2, <2>3
    <3>2. \A i \in index .. scan.at - 1 : i \in index .. scan'.at - 1
      BY <1>1, <2>2, <2>3
    <3> QED
      BY <2>2, <2>3, <3>1, <3>2
  <2> QED
    BY <2>1, <2>3, <2>4, <2>5, <2>6 DEF AdapterTypeOK
<1>8. CASE FeatHeading
  <2> DEFINE traits == Distinct(page, scan.shouty \ {index})
  <2>1. /\ traits \in SUBSET Nat /\ StartEntry("feat", index, traits)
        /\ scan.at \in Nat /\ index < scan.at /\ scan.at <= Len(page) + 1
    BY <1>8, FeatStarted
  <2> HIDE DEF traits
  <2>2. "feat" \in RecognisedType
    BY DEF RecognisedType
  <2>3. entries' \in Seq(EntryRecord) /\ current' \in EntryRecord
    BY <1>1, <2>1, <2>2, StartedEntry
  <2> QED
    BY <1>1, <1>8, <2>1, <2>3 DEF FeatHeading, AdapterTypeOK
<1>9. CASE NoHeading
  <2>1. index <= Len(page) /\ scan' = None /\ Push /\ UNCHANGED <<layout, page, pastAnchor>>
    BY <1>9 DEF NoHeading, ScanStops, ScanReadsOneRun
  <2> QED
    BY <1>1, <2>1, PushedLine DEF AdapterTypeOK
<1>10. CASE EndPage
  <2>1. Taken \in Seq(EntryRecord)
    BY DEF AdapterTypeOK, Taken
  <2> QED
    BY <1>1, <1>10, <2>1 DEF EndPage, AdapterTypeOK
<1>11. CASE Done \/ UNCHANGED adapterVars
  BY <1>11 DEF Done, adapterVars, AdapterTypeOK
<1> QED
  BY <1>2, <1>3, <1>4, <1>5, <1>6, <1>7, <1>8, <1>9, <1>10, <1>11 DEF AdapterNext
\* A scan that reads one more line still reads one run.
LEMMA RunGrows ==
    ASSUME AdapterTypeOK, ScanReadsOneRun, ScanContinues, ~Prose(page, scan.at)
    PROVE  /\ OneRun(page, index, scan.at)
           /\ Capitals(page, index, scan.at)
                = scan.shouty \cup (IF Is(page, scan.at, "shouty") THEN {scan.at} ELSE {})
           /\ (\E k \in index .. scan.at : Is(page, k, "marker"))
                <=> scan.marked \/ Is(page, scan.at, "marker")
<1>1. /\ Len(page) \in Nat /\ index \in Nat /\ index >= 1
  BY PageFacts
<1>2. /\ scan # None /\ scan.at \in index .. Len(page) + 1
      /\ scan.at > index => OneRun(page, index, scan.at - 1)
      /\ scan.shouty = Capitals(page, index, scan.at - 1)
      /\ scan.marked <=> \E k \in index .. scan.at - 1 : Is(page, k, "marker")
      /\ Cardinality(scan.shouty) <= MAX_HEADING_BLOCK_LINES
  BY DEF ScanContinues, ScanReadsOneRun, AdapterTypeOK
<1>3. \A k \in index .. scan.at : k \in index .. scan.at - 1 \/ k = scan.at
  BY <1>1, <1>2
<1>4. \A k \in index .. scan.at - 1 : k \in index .. scan.at /\ scan.at > index
  BY <1>1, <1>2
<1>5. scan.at \in index .. scan.at
  BY <1>1, <1>2
<1>6. OneRun(page, index, scan.at)
  <2>1. \A k \in index .. scan.at : ~Prose(page, k)
    BY <1>2, <1>3, <1>4 DEF OneRun
  <2> QED
    BY <1>2, <2>1 DEF OneRun
<1>7. Capitals(page, index, scan.at)
        = scan.shouty \cup (IF Is(page, scan.at, "shouty") THEN {scan.at} ELSE {})
  BY <1>2, <1>3, <1>4, <1>5 DEF Capitals
<1>8. (\E k \in index .. scan.at : Is(page, k, "marker")) <=> scan.marked \/ Is(page, scan.at, "marker")
  BY <1>2, <1>3, <1>4, <1>5
<1> QED
  BY <1>6, <1>7, <1>8

LEMMA ScanIsKept ==
    ASSUME AdapterTypeOK, ScanReadsOneRun, [AdapterNext]_adapterVars
    PROVE  ScanReadsOneRun'
<1>1. /\ Len(page) \in Nat /\ index \in Nat /\ index >= 1
  BY PageFacts
<1>2. CASE BeginScan
  <2>1. /\ scan'.at = index /\ scan'.shouty = {} /\ scan'.marked = FALSE
        /\ index <= Len(page) /\ MayOpen(page, index)
        /\ UNCHANGED <<layout, page, index>>
    BY <1>2 DEF BeginScan, Reading
  <2>2. index .. index - 1 = {}
    BY <1>1
  <2>3. /\ Capitals(page, index, index - 1) = {}
        /\ ~\E k \in index .. index - 1 : Is(page, k, "marker")
    BY <2>2 DEF Capitals
  <2>4. ~(index > index)
    BY <1>1
  <2> QED
    BY <2>1, <2>3, <2>4 DEF ScanReadsOneRun
<1>3. CASE ScanBlank \/ ScanMarker \/ ScanShouty
  <2>1. /\ ScanContinues /\ scan # None
        /\ UNCHANGED <<layout, page, index, pastAnchor, current, entries>>
    BY <1>3 DEF ScanBlank, ScanMarker, ScanShouty, ScanContinues
  <2>2. /\ scan \in [at : Nat, shouty : SUBSET Nat, marked : BOOLEAN]
        /\ index <= Len(page) /\ MayOpen(page, index)
    BY <2>1 DEF AdapterTypeOK, ScanReadsOneRun
  <2>3. /\ scan'.at = scan.at + 1
        /\ scan'.shouty = scan.shouty \cup (IF Is(page, scan.at, "shouty") THEN {scan.at} ELSE {})
        /\ scan'.marked <=> scan.marked \/ Is(page, scan.at, "marker")
        /\ ~Prose(page, scan.at)
    <3>1. CASE ScanBlank
      <4>1. Is(page, scan.at, "blank") /\ ~Is(page, scan.at, "shouty") /\ ~Is(page, scan.at, "marker")
        BY <3>1 DEF ScanBlank, Is
      <4>2. scan' = [scan EXCEPT !.at = scan.at + 1]
        BY <3>1 DEF ScanBlank
      <4> QED
        BY <2>2, <4>1, <4>2 DEF Prose
    <3>2. CASE ScanMarker
      <4>1. Is(page, scan.at, "marker") /\ ~Is(page, scan.at, "shouty") /\ IsShouty(page, scan.at)
        BY <3>2 DEF ScanMarker, Is, IsShouty
      <4>2. scan' = [scan EXCEPT !.at = scan.at + 1, !.marked = TRUE]
        BY <3>2 DEF ScanMarker
      <4> QED
        BY <2>2, <4>1, <4>2 DEF Prose
    <3>3. CASE ScanShouty
      <4>1. Is(page, scan.at, "shouty") /\ ~Is(page, scan.at, "marker") /\ IsShouty(page, scan.at)
        BY <3>3 DEF ScanShouty, Is, IsShouty
      <4>2. scan' = [scan EXCEPT !.at = scan.at + 1, !.shouty = scan.shouty \cup {scan.at}]
        BY <3>3 DEF ScanShouty
      <4> QED
        BY <2>2, <4>1, <4>2 DEF Prose
    <3> QED
      BY <1>3, <3>1, <3>2, <3>3
  <2>4. scan'.at - 1 = scan.at
    BY <2>2, <2>3
  <2>5. /\ OneRun(page, index, scan.at)
        /\ Capitals(page, index, scan.at) = scan'.shouty
        /\ (\E k \in index .. scan.at : Is(page, k, "marker")) <=> scan'.marked
    BY <2>1, <2>3, RunGrows
  <2> QED
    BY <2>1, <2>2, <2>4, <2>5 DEF ScanReadsOneRun
<1>4. CASE FeatHeading \/ NoHeading
  BY <1>4 DEF FeatHeading, NoHeading, ScanReadsOneRun
<1>5. CASE \/ ActionHeading \/ ActionLine \/ FeatBlank \/ FeatLine
           \/ BeforeAnchor \/ ConditionDropped \/ ConditionHeading \/ ConditionLine \/ EndPage
  <2>1. scan' = None
    BY <1>5 DEF ActionHeading, ActionLine, FeatBlank, FeatLine, BeforeAnchor, ConditionDropped,
                ConditionHeading, ConditionLine, EndPage, Reading
  <2> QED
    BY <2>1 DEF ScanReadsOneRun
<1>6. CASE Done \/ UNCHANGED adapterVars
  BY <1>6 DEF Done, adapterVars, ScanReadsOneRun
<1> QED
  BY <1>2, <1>3, <1>4, <1>5, <1>6 DEF AdapterNext

LEMMA AnchorIsKept ==
    ASSUME AdapterTypeOK, ScanReadsOneRun, AnchorIsRemembered, [AdapterNext]_adapterVars
    PROVE  AnchorIsRemembered'
<1>1. /\ Len(page) \in Nat /\ index \in Nat /\ index >= 1
  BY PageFacts
<1>2. CASE BeforeAnchor
  <2>1. /\ layout = "conditions" /\ index <= Len(page) /\ ~pastAnchor
        /\ pastAnchor' = Is(page, index, "anchor") /\ index' = index + 1
        /\ UNCHANGED <<layout, page>>
    BY <1>2 DEF BeforeAnchor, Drop, Reading
  <2>2. ~AfterAnchor(page, index)
    BY <1>1, <2>1 DEF AnchorIsRemembered
  <2>3. \A k \in 1 .. (index + 1) - 1 : k \in 1 .. index - 1 \/ k = index
    BY <1>1
  <2>4. index \in 1 .. (index + 1) - 1
    BY <1>1
  <2>5. AfterAnchor(page, index + 1) <=> Is(page, index, "anchor")
    BY <2>2, <2>3, <2>4 DEF AfterAnchor
  <2> QED
    BY <2>1, <2>5 DEF AnchorIsRemembered
<1>3. CASE ConditionDropped \/ ConditionHeading \/ ConditionLine
  <2>1. /\ layout = "conditions" /\ index <= Len(page) /\ pastAnchor
        /\ pastAnchor' = pastAnchor /\ index' = index + 1
        /\ UNCHANGED <<layout, page>>
    BY <1>3 DEF ConditionDropped, ConditionHeading, ConditionLine, Drop, Push, Reading
  <2>2. AfterAnchor(page, index)
    BY <1>1, <2>1 DEF AnchorIsRemembered
  <2>3. \A k \in 1 .. index - 1 : k \in 1 .. (index + 1) - 1
    BY <1>1
  <2>4. AfterAnchor(page, index + 1)
    <3>1. PICK k \in 1 .. index - 1 : Is(page, k, "anchor")
      BY <2>2 DEF AfterAnchor
    <3>2. k \in 1 .. (index + 1) - 1
      BY <2>3
    <3> QED
      BY <3>1, <3>2 DEF AfterAnchor
  <2> QED
    BY <2>1, <2>4 DEF AnchorIsRemembered
<1>4. CASE EndPage
  <2>1. index' = Len(page) + 2 /\ page' = page
    BY <1>1, <1>4 DEF EndPage
  <2>2. ~(index' <= Len(page') + 1)
    BY <1>1, <2>1
  <2> QED
    BY <2>2 DEF AnchorIsRemembered
<1>5. CASE \/ ActionHeading \/ ActionLine \/ FeatBlank \/ FeatLine \/ BeginScan
           \/ ScanBlank \/ ScanMarker \/ ScanShouty \/ FeatHeading \/ NoHeading
  <2>1. layout' # "conditions"
    BY <1>5 DEF ActionHeading, ActionLine, FeatBlank, FeatLine, BeginScan, Reading,
                ScanBlank, ScanMarker, ScanShouty, FeatHeading, NoHeading,
                ScanContinues, ScanStops, AdapterTypeOK
  <2> QED
    BY <2>1 DEF AnchorIsRemembered
<1>6. CASE Done \/ UNCHANGED adapterVars
  BY <1>6 DEF Done, adapterVars, AnchorIsRemembered
<1> QED
  BY <1>2, <1>3, <1>4, <1>5, <1>6 DEF AdapterNext

LEMMA OneIsKept ==
    ASSUME AdapterTypeOK, ScanReadsOneRun, OneIsRead, [AdapterNext]_adapterVars
    PROVE  OneIsRead'
<1>1. /\ Len(page) \in Nat /\ index \in Nat /\ index >= 1
  BY PageFacts
<1>2. CASE ActionHeading
  <2>1. StartEntry(page[index].cost, index, {}) /\ layout' = "actions"
    BY <1>2 DEF ActionHeading, Reading
  <2>2. page[index].cost \in RecognisedType
    BY <1>2, PageFacts DEF ActionHeading, Reading, PageLine
  <2>3. current' # None
    BY <1>1, <2>1, <2>2, StartedEntry
  <2>4. ~Converted'
    BY <1>1, <1>2 DEF ActionHeading, Reading, Converted
  <2> QED
    BY <2>1, <2>3, <2>4 DEF OneIsRead
<1>3. CASE ConditionHeading
  <2>1. StartEntry("condition", index, {}) /\ pastAnchor'
    BY <1>3 DEF ConditionHeading
  <2>2. "condition" \in RecognisedType
    BY DEF RecognisedType
  <2>3. current' # None
    BY <1>1, <2>1, <2>2, StartedEntry
  <2>4. ~Converted'
    BY <1>1, <1>3 DEF ConditionHeading, Reading, Converted
  <2> QED
    BY <2>1, <2>3, <2>4 DEF OneIsRead
<1>4. CASE FeatHeading
  <2> DEFINE traits == Distinct(page, scan.shouty \ {index})
  <2>1. traits \in SUBSET Nat /\ StartEntry("feat", index, traits)
    BY <1>4, FeatStarted
  <2> HIDE DEF traits
  <2>2. "feat" \in RecognisedType
    BY DEF RecognisedType
  <2>3. current' # None
    BY <1>1, <2>1, <2>2, StartedEntry
  <2>4. layout' # "conditions"
    BY <1>4 DEF FeatHeading, ScanStops, AdapterTypeOK
  <2>5. ~Converted'
    BY <1>1, <1>4, FeatStarted DEF FeatHeading, Converted
  <2> QED
    BY <2>3, <2>4, <2>5 DEF OneIsRead
<1>5. CASE ActionLine \/ FeatLine \/ ConditionLine \/ NoHeading
  <2>1. /\ Push /\ index <= Len(page) /\ UNCHANGED <<layout, page, pastAnchor>>
    BY <1>5 DEF ActionLine, FeatLine, ConditionLine, NoHeading, Reading, ScanStops, ScanReadsOneRun
  <2>2. /\ current' = None => current = None
        /\ current = None => current' = None
        /\ entries' = entries
    BY <2>1, PushedLine
  <2>3. index <= Len(page) + 1
    BY <1>1, <2>1
  <2>4. ~Converted'
    BY <1>1, <2>1 DEF Push, Converted
  <2> QED
    BY <2>1, <2>2, <2>3, <2>4 DEF OneIsRead
<1>6. CASE FeatBlank \/ BeforeAnchor \/ ConditionDropped
  <2>1. /\ Drop /\ index <= Len(page) /\ UNCHANGED <<layout, page>>
        /\ layout = "conditions" /\ ~pastAnchor' => ~pastAnchor
    BY <1>6 DEF FeatBlank, BeforeAnchor, ConditionDropped, Reading
  <2>2. index <= Len(page) + 1
    BY <1>1, <2>1
  <2>3. ~Converted'
    BY <1>1, <2>1 DEF Drop, Converted
  <2> QED
    BY <2>1, <2>2, <2>3 DEF OneIsRead, Drop
<1>7. CASE EndPage
  <2>1. index' = Len(page) + 2 /\ page' = page /\ current' = None
    BY <1>1, <1>7 DEF EndPage
  <2>2. ~(index' <= Len(page') + 1)
    BY <1>1, <2>1
  <2> QED
    BY <2>1, <2>2 DEF OneIsRead
<1>8. CASE BeginScan \/ ScanBlank \/ ScanMarker \/ ScanShouty \/ Done \/ UNCHANGED adapterVars
  <2>1. UNCHANGED <<layout, page, index, pastAnchor, current, entries>>
    BY <1>8 DEF BeginScan, ScanBlank, ScanMarker, ScanShouty, Done, adapterVars
  <2> QED
    BY <2>1 DEF OneIsRead, Converted
<1> QED
  BY <1>2, <1>3, <1>4, <1>5, <1>6, <1>7, <1>8 DEF AdapterNext
\* A line pushed that opens no entry and is not ignored.
LEMMA PushedLineIsKept ==
    ASSUME AdapterTypeOK, OneIsRead, Good(page, layout, Taken, index),
           Push, UNCHANGED <<layout, page>>, index <= Len(page),
           ~OpensEntry(page, layout, index), ~Ignored(page, layout, index)
    PROVE  Good(page', layout', Taken', index')
<1>1. /\ Len(page) \in Nat /\ index \in Nat /\ index >= 1
  BY PageFacts
<1>2. /\ index' = index + 1 /\ entries' = entries
      /\ current = None => current' = None
      /\ current # None => /\ current \in EntryRecord
                           /\ current' = [current EXCEPT !.body = @ \cup {index}]
                           /\ current' # None
  BY PushedLine
<1>3. entries \in Seq(EntryRecord)
  BY DEF AdapterTypeOK
<1>4. CASE current = None
  <2>1. Taken = <<>> /\ Taken' = <<>>
    BY <1>1, <1>2, <1>4 DEF OneIsRead, Taken
  <2>2. Good(page, layout, <<>>, index + 1)
    <3>1. <<>> \in Seq(EntryRecord) /\ Good(page, layout, <<>>, index)
      BY <2>1
    <3> QED
      BY <1>1, <3>1, LineSkipped
  <2> QED
    BY <1>2, <2>1, <2>2
<1>5. CASE current # None
  <2>1. /\ Taken = Append(entries, current)
        /\ Taken' = Append(entries, [current EXCEPT !.body = @ \cup {index}])
    BY <1>2, <1>5 DEF Taken
  <2>2. Good(page, layout, Append(entries, [current EXCEPT !.body = @ \cup {index}]), index + 1)
    BY <1>1, <1>2, <1>3, <1>5, <2>1, LineKept
  <2> QED
    BY <1>2, <2>1, <2>2
<1> QED
  BY <1>4, <1>5

\* A line dropped that opens no entry, being ignored or before every entry.
LEMMA DroppedLineIsKept ==
    ASSUME AdapterTypeOK, Good(page, layout, Taken, index),
           Drop, UNCHANGED <<layout, page>>, index <= Len(page),
           ~OpensEntry(page, layout, index), Ignored(page, layout, index) \/ Taken = <<>>
    PROVE  Good(page', layout', Taken', index')
<1>1. /\ Len(page) \in Nat /\ index \in Nat
  BY PageFacts
<1>2. Taken \in Seq(EntryRecord)
  BY DEF AdapterTypeOK, Taken
<1>3. Taken' = Taken /\ index' = index + 1
  BY DEF Drop, Taken
<1>4. Good(page, layout, Taken, index + 1)
  BY <1>1, <1>2, LineSkipped
<1> QED
  BY <1>3, <1>4

\* A line that is an entry's whole heading.
LEMMA StartedEntryIsKept ==
    ASSUME AdapterTypeOK, Good(page, layout, Taken, index),
           NEW type \in RecognisedType, StartEntry(type, index, {}),
           layout \in {"actions", "conditions"},
           index' = index + 1, UNCHANGED <<layout, page>>, index <= Len(page),
           OpensEntry(page, layout, index)
    PROVE  Good(page', layout', Taken', index')
<1>1. /\ Len(page) \in Nat /\ index \in Nat /\ index >= 1
  BY PageFacts
<1>2. /\ Taken \in Seq(EntryRecord)
      /\ Entry(type, index, {}) \in EntryRecord
      /\ Taken' = Append(Taken, Entry(type, index, {}))
  BY <1>1, StartedEntry
<1>3. Entry(type, index, {}).name = index /\ Entry(type, index, {}).body = {}
  BY DEF Entry
<1>4. /\ TraitsOnce(page, layout, Entry(type, index, {}))
      /\ HeadingLines(page, layout, index) = index .. (index + 1) - 1
  BY LineHeading
<1>5. index + 1 \in Nat /\ index < index + 1 /\ index + 1 <= Len(page) + 1
  BY <1>1
<1>6. Good(page, layout, Append(Taken, Entry(type, index, {})), index + 1)
  BY <1>1, <1>2, <1>3, <1>4, <1>5, EntryOpened
<1> QED
  BY <1>2, <1>6

LEMMA EntriesAreKept ==
    ASSUME AdapterTypeOK, ScanReadsOneRun, AnchorIsRemembered, OneIsRead,
           Good(page, layout, Taken, index), [AdapterNext]_adapterVars
    PROVE  Good(page', layout', Taken', index')
<1>1. /\ Len(page) \in Nat /\ index \in Nat /\ index >= 1
      /\ \A i \in 1 .. Len(page) : page[i] \in PageLine
  BY PageFacts
<1>2. CASE ActionHeading
  <2>1. /\ layout = "actions" /\ index <= Len(page) /\ Is(page, index, "cost")
        /\ StartEntry(page[index].cost, index, {}) /\ index' = index + 1
        /\ UNCHANGED <<layout, page>>
    BY <1>2 DEF ActionHeading, Reading
  <2>2. page[index].cost \in RecognisedType
    BY <1>1, <2>1 DEF PageLine
  <2>3. OpensEntry(page, layout, index)
    BY <2>1 DEF OpensEntry
  <2> QED
    BY <2>1, <2>2, <2>3, StartedEntryIsKept
<1>3. CASE ActionLine
  <2>1. /\ layout = "actions" /\ index <= Len(page) /\ ~Is(page, index, "cost")
        /\ Push /\ UNCHANGED <<layout, page>>
    BY <1>3 DEF ActionLine, Reading
  <2>2. ~OpensEntry(page, layout, index) /\ ~Ignored(page, layout, index)
    BY <2>1 DEF OpensEntry, Ignored
  <2> QED
    BY <2>1, <2>2, PushedLineIsKept
<1>4. CASE FeatBlank
  <2>1. /\ layout = "feats" /\ index <= Len(page) /\ Is(page, index, "blank")
        /\ Drop /\ UNCHANGED <<layout, page>>
    BY <1>4 DEF FeatBlank, Reading
  <2>2. ~OpensEntry(page, layout, index) /\ Ignored(page, layout, index)
    BY <2>1 DEF OpensEntry, OpensFeat, Ignored, Is
  <2> QED
    BY <2>1, <2>2, DroppedLineIsKept
<1>5. CASE FeatLine
  <2>1. /\ layout = "feats" /\ index <= Len(page) /\ ~Is(page, index, "blank")
        /\ ~MayOpen(page, index) /\ Push /\ UNCHANGED <<layout, page>>
    BY <1>5 DEF FeatLine, Reading
  <2>2. ~OpensEntry(page, layout, index) /\ ~Ignored(page, layout, index)
    BY <2>1 DEF OpensEntry, OpensFeat, Ignored, MayOpen, IsShouty, Is
  <2> QED
    BY <2>1, <2>2, PushedLineIsKept
<1>6. CASE FeatHeading
  <2> DEFINE traits == Distinct(page, scan.shouty \ {index})
             e == Entry("feat", index, traits)
  <2>1. /\ traits \in SUBSET Nat /\ StartEntry("feat", index, traits)
        /\ TraitsOnce(page, "feats", e)
        /\ OpensEntry(page, "feats", index)
        /\ HeadingLines(page, "feats", index) = index .. scan.at - 1
        /\ scan.at \in Nat /\ index < scan.at /\ scan.at <= Len(page) + 1 /\ index <= Len(page)
    BY <1>6, FeatStarted
  <2>2. layout = "feats" /\ index' = scan.at /\ UNCHANGED <<layout, page>>
    BY <1>6 DEF FeatHeading, ScanStops, AdapterTypeOK
  <2>3. e.name = index /\ e.body = {}
    BY DEF Entry
  <2>4. "feat" \in RecognisedType
    BY DEF RecognisedType
  <2> HIDE DEF traits
  <2>5. Taken \in Seq(EntryRecord) /\ e \in EntryRecord /\ Taken' = Append(Taken, e)
    BY <1>1, <2>1, <2>4, StartedEntry
  <2> HIDE DEF e
  <2>6. Good(page, layout, Append(Taken, e), scan.at)
    BY <1>1, <2>1, <2>2, <2>3, <2>5, EntryOpened
  <2> QED
    BY <2>2, <2>5, <2>6
<1>7. CASE NoHeading
  <2>1. /\ scan # None /\ ScanStops /\ ~FoundHeading /\ Push /\ UNCHANGED <<layout, page>>
    BY <1>7 DEF NoHeading, ScanStops
  <2>2. layout = "feats" /\ index <= Len(page) /\ MayOpen(page, index)
    BY <2>1 DEF AdapterTypeOK, ScanReadsOneRun
  <2>3. ~OpensFeat(page, index)
    BY <2>1, NotFoundIsNone
  <2>4. ~OpensEntry(page, layout, index) /\ ~Ignored(page, layout, index)
    BY <2>2, <2>3 DEF OpensEntry, Ignored, MayOpen, IsShouty, Is
  <2> QED
    BY <2>1, <2>2, <2>4, PushedLineIsKept
<1>8. CASE BeforeAnchor
  <2>1. /\ layout = "conditions" /\ index <= Len(page) /\ ~pastAnchor
        /\ Drop /\ UNCHANGED <<layout, page>>
    BY <1>8 DEF BeforeAnchor, Reading
  <2>2. index <= Len(page) + 1
    BY <1>1, <2>1
  <2>3. ~AfterAnchor(page, index)
    BY <2>1, <2>2 DEF AnchorIsRemembered
  <2>4. Taken = <<>>
    BY <2>1, <2>2 DEF OneIsRead, Taken
  <2>5. ~OpensEntry(page, layout, index)
    BY <2>1, <2>3 DEF OpensEntry
  <2> QED
    BY <2>1, <2>4, <2>5, DroppedLineIsKept
<1>9. CASE ConditionDropped
  <2>1. /\ layout = "conditions" /\ index <= Len(page) /\ page[index].kind \in {"blank", "number"}
        /\ Drop /\ UNCHANGED <<layout, page>>
    BY <1>9 DEF ConditionDropped, Reading
  <2>2. ~OpensEntry(page, layout, index) /\ Ignored(page, layout, index)
    BY <2>1 DEF OpensEntry, IsConditionHeading, Ignored, Is
  <2> QED
    BY <2>1, <2>2, DroppedLineIsKept
<1>10. CASE ConditionHeading
  <2>1. /\ layout = "conditions" /\ index <= Len(page) /\ pastAnchor
        /\ IsConditionHeading(page, index)
        /\ StartEntry("condition", index, {}) /\ index' = index + 1
        /\ UNCHANGED <<layout, page>>
    BY <1>10 DEF ConditionHeading, Reading
  <2>2. "condition" \in RecognisedType /\ index <= Len(page) + 1
    BY <1>1, <2>1 DEF RecognisedType
  <2>3. OpensEntry(page, layout, index)
    BY <2>1, <2>2 DEF OpensEntry, AnchorIsRemembered
  <2> QED
    BY <2>1, <2>2, <2>3, StartedEntryIsKept
<1>11. CASE ConditionLine
  <2>1. /\ layout = "conditions" /\ index <= Len(page)
        /\ page[index].kind \notin {"blank", "number"}
        /\ ~IsConditionHeading(page, index) /\ Push /\ UNCHANGED <<layout, page>>
    BY <1>11 DEF ConditionLine, Reading
  <2>2. ~OpensEntry(page, layout, index) /\ ~Ignored(page, layout, index)
    BY <2>1 DEF OpensEntry, Ignored
  <2> QED
    BY <2>1, <2>2, PushedLineIsKept
<1>12. CASE EndPage
  <2>1. /\ index = Len(page) + 1 /\ index' = index + 1
        /\ entries' = Taken /\ current' = None /\ UNCHANGED <<layout, page>>
    BY <1>12 DEF EndPage
  <2>2. Taken' = Taken
    BY <2>1 DEF Taken
  <2>3. Taken \in Seq(EntryRecord)
    BY DEF AdapterTypeOK, Taken
  <2>4. index > Len(page)
    BY <1>1, <2>1
  <2>5. Good(page, layout, Taken, index + 1)
    BY <1>1, <2>3, <2>4, NoLinePassed
  <2> QED
    BY <2>1, <2>2, <2>5
<1>13. CASE BeginScan \/ ScanBlank \/ ScanMarker \/ ScanShouty \/ Done \/ UNCHANGED adapterVars
  <2>1. UNCHANGED <<layout, page, index, current, entries>>
    BY <1>13 DEF BeginScan, ScanBlank, ScanMarker, ScanShouty, Done, adapterVars
  <2>2. Taken' = Taken
    BY <2>1 DEF Taken
  <2> QED
    BY <2>1, <2>2
<1> QED
  BY <1>2, <1>3, <1>4, <1>5, <1>6, <1>7, <1>8, <1>9, <1>10, <1>11, <1>12, <1>13 DEF AdapterNext

---------------------------------------------------------------------------
(* Where on the page the entries are. *)

OnThePage(p, l, e) ==
    /\ e.name \in 1 .. Len(p)
    /\ \A i \in e.traits : i \in HeadingLines(p, l, e.name) /\ Is(p, i, "shouty")

AllOnThePage(p, l, T) == \A n \in DOMAIN T : OnThePage(p, l, T[n])

LEMMA OnThePageOfEntries ==
    /\ EntriesAreOnThePage <=> AllOnThePage(page, layout, Taken)
    /\ EntriesAreOnThePage' <=> AllOnThePage(page', layout', Taken')
<1>1. EntriesAreOnThePage <=> \A e \in AllEntries : OnThePage(page, layout, e)
  BY Zenon DEF EntriesAreOnThePage, OnThePage
<1>2. EntriesAreOnThePage' <=> \A e \in AllEntries' : OnThePage(page', layout', e)
  BY Zenon DEF EntriesAreOnThePage, OnThePage
<1> QED
  BY <1>1, <1>2, Zenon DEF AllEntries, AllOnThePage

LEMMA OneMoreOnThePage ==
    ASSUME NEW p, NEW l, NEW T \in Seq(EntryRecord), AllOnThePage(p, l, T),
           NEW e \in EntryRecord, OnThePage(p, l, e)
    PROVE  AllOnThePage(p, l, Append(T, e))
<1>1. /\ Len(T) \in Nat /\ DOMAIN T = 1 .. Len(T)
      /\ DOMAIN Append(T, e) = 1 .. Len(T) + 1
      /\ \A n \in 1 .. Len(T) : Append(T, e)[n] = T[n]
      /\ Append(T, e)[Len(T) + 1] = e
  OBVIOUS
<1>2. \A n \in 1 .. Len(T) + 1 : n \in 1 .. Len(T) \/ n = Len(T) + 1
  BY <1>1
<1> QED
  BY <1>1, <1>2 DEF AllOnThePage

LEMMA StartedOnThePage ==
    ASSUME AdapterTypeOK, EntriesAreOnThePage, index <= Len(page),
           NEW type \in RecognisedType, NEW traits \in SUBSET Nat,
           StartEntry(type, index, traits), UNCHANGED <<layout, page>>,
           \A i \in traits : i \in HeadingLines(page, layout, index) /\ Is(page, i, "shouty")
    PROVE  EntriesAreOnThePage'
<1> DEFINE e == Entry(type, index, traits)
<1>1. index \in Nat /\ index >= 1 /\ Len(page) \in Nat
  BY PageFacts
<1>2. Taken \in Seq(EntryRecord) /\ e \in EntryRecord /\ Taken' = Append(Taken, e)
  BY <1>1, StartedEntry
<1>3. OnThePage(page, layout, e)
  BY <1>1 DEF OnThePage, Entry
<1> HIDE DEF e
<1>4. AllOnThePage(page, layout, Append(Taken, e))
  BY <1>2, <1>3, OneMoreOnThePage, OnThePageOfEntries
<1> QED
  BY <1>2, <1>4, OnThePageOfEntries

LEMMA PushedOnThePage ==
    ASSUME AdapterTypeOK, EntriesAreOnThePage, Push, UNCHANGED <<layout, page>>
    PROVE  EntriesAreOnThePage'
<1>1. /\ entries' = entries /\ entries \in Seq(EntryRecord)
      /\ current = None => current' = None
      /\ current # None => /\ current \in EntryRecord /\ current' \in EntryRecord
                           /\ current' = [current EXCEPT !.body = @ \cup {index}]
                           /\ current' # None
  BY PushedLine DEF AdapterTypeOK
<1>2. CASE current = None
  BY <1>1, <1>2, OnThePageOfEntries DEF Taken
<1>3. CASE current # None
  <2>1. Taken = Append(entries, current) /\ Taken' = Append(entries, current')
    BY <1>1, <1>3 DEF Taken
  <2>2. /\ Len(entries) \in Nat /\ DOMAIN entries = 1 .. Len(entries)
        /\ DOMAIN Append(entries, current) = 1 .. Len(entries) + 1
        /\ \A n \in 1 .. Len(entries) : Append(entries, current)[n] = entries[n]
        /\ Append(entries, current)[Len(entries) + 1] = current
    BY <1>1, <1>3
  <2>3. \A n \in 1 .. Len(entries) + 1 : OnThePage(page, layout, Append(entries, current)[n])
    BY <2>1, <2>2, OnThePageOfEntries DEF AllOnThePage
  <2>4. AllOnThePage(page, layout, entries) /\ OnThePage(page, layout, current)
    BY <2>2, <2>3 DEF AllOnThePage
  <2>5. current'.name = current.name /\ current'.traits = current.traits
    BY <1>1, <1>3 DEF EntryRecord
  <2>6. OnThePage(page, layout, current')
    BY <2>4, <2>5 DEF OnThePage
  <2>7. AllOnThePage(page, layout, Append(entries, current'))
    BY <1>1, <1>3, <2>4, <2>6, OneMoreOnThePage
  <2> QED
    BY <2>1, <2>7, OnThePageOfEntries
<1> QED
  BY <1>2, <1>3

LEMMA EntriesStayOnThePage ==
    ASSUME AdapterTypeOK, ScanReadsOneRun, EntriesAreOnThePage, [AdapterNext]_adapterVars
    PROVE  EntriesAreOnThePage'
<1>1. /\ Len(page) \in Nat /\ index \in Nat
      /\ \A i \in 1 .. Len(page) : page[i] \in PageLine
  BY PageFacts
<1>2. CASE ActionHeading
  <2>1. /\ index <= Len(page) /\ StartEntry(page[index].cost, index, {})
        /\ UNCHANGED <<layout, page>>
    BY <1>2 DEF ActionHeading, Reading
  <2>2. page[index].cost \in RecognisedType
    BY <1>2, PageFacts DEF ActionHeading, Reading, PageLine
  <2> QED
    BY <2>1, <2>2, StartedOnThePage
<1>3. CASE ConditionHeading
  <2>1. /\ index <= Len(page) /\ StartEntry("condition", index, {})
        /\ UNCHANGED <<layout, page>>
    BY <1>3 DEF ConditionHeading, Reading
  <2>2. "condition" \in RecognisedType
    BY DEF RecognisedType
  <2> QED
    BY <2>1, <2>2, StartedOnThePage
<1>4. CASE FeatHeading
  <2> DEFINE traits == Distinct(page, scan.shouty \ {index})
  <2>1. /\ traits \in SUBSET Nat /\ StartEntry("feat", index, traits) /\ index <= Len(page)
        /\ HeadingLines(page, "feats", index) = index .. scan.at - 1
    BY <1>4, FeatStarted
  <2>2. ScanStops /\ FoundHeading /\ UNCHANGED <<layout, page>> /\ layout = "feats"
    BY <1>4 DEF FeatHeading, ScanStops, AdapterTypeOK
  <2>3. scan.shouty = Capitals(page, index, scan.at - 1)
    BY <2>2, FoundIsHeading
  <2>4. \A i \in traits : i \in HeadingLines(page, layout, index) /\ Is(page, i, "shouty")
    BY <2>1, <2>2, <2>3 DEF Distinct, Capitals
  <2>5. "feat" \in RecognisedType
    BY DEF RecognisedType
  <2> HIDE DEF traits
  <2> QED
    BY <2>1, <2>2, <2>4, <2>5, StartedOnThePage
<1>5. CASE ActionLine \/ FeatLine \/ ConditionLine \/ NoHeading
  <2>1. Push /\ UNCHANGED <<layout, page>>
    BY <1>5 DEF ActionLine, FeatLine, ConditionLine, NoHeading
  <2> QED
    BY <2>1, PushedOnThePage
<1>6. CASE FeatBlank \/ BeforeAnchor \/ ConditionDropped
  <2>1. Drop /\ UNCHANGED <<layout, page>>
    BY <1>6 DEF FeatBlank, BeforeAnchor, ConditionDropped
  <2> QED
    BY <2>1, OnThePageOfEntries DEF Drop, Taken
<1>7. CASE EndPage
  <2>1. Taken' = Taken /\ UNCHANGED <<layout, page>>
    BY <1>7 DEF EndPage, Taken
  <2> QED
    BY <2>1, OnThePageOfEntries
<1>8. CASE BeginScan \/ ScanBlank \/ ScanMarker \/ ScanShouty \/ Done \/ UNCHANGED adapterVars
  <2>1. UNCHANGED <<layout, page, current, entries>>
    BY <1>8 DEF BeginScan, ScanBlank, ScanMarker, ScanShouty, Done, adapterVars
  <2> QED
    BY <2>1, OnThePageOfEntries DEF Taken
<1> QED
  BY <1>2, <1>3, <1>4, <1>5, <1>6, <1>7, <1>8 DEF AdapterNext

---------------------------------------------------------------------------
(* The theorems. *)

LEMMA AdapterInvariantInit ==
    AdapterInit => AdapterInvariant
<1> SUFFICES ASSUME AdapterInit PROVE AdapterInvariant
  OBVIOUS
<1>1. /\ layout \in Layout /\ page \in Seq(PageLine) /\ index = 1 /\ pastAnchor = FALSE
      /\ scan = None /\ current = None /\ entries = <<>>
  BY AdapterAssumption DEF AdapterInit
<1>2. Len(page) \in Nat
  BY <1>1
<1>3. AdapterTypeOK
  <2>1. entries \in Seq(EntryRecord) /\ current \in EntryRecord \cup {None}
    BY <1>1
  <2>2. index \in 1 .. Len(page) + 2
    BY <1>1, <1>2
  <2>3. pastAnchor \in BOOLEAN
    BY <1>1
  <2> QED
    BY <1>1, <2>1, <2>2, <2>3 DEF AdapterTypeOK
<1>4. ScanReadsOneRun /\ OneIsRead
  BY <1>1, <1>2 DEF ScanReadsOneRun, OneIsRead, Converted
<1>5. AnchorIsRemembered
  BY <1>1 DEF AnchorIsRemembered, AfterAnchor
<1>6. Taken = <<>>
  BY <1>1 DEF Taken
<1>7. NamesOf(<<>>) = {}
  BY DEF NamesOf
<1>8. Good(page, layout, <<>>, 1)
  BY <1>7 DEF Good, Behind, Found, Ordered, Whole
<1>9. EntriesAreOnThePage
  BY <1>6 DEF EntriesAreOnThePage, AllEntries
<1> QED
  BY <1>1, <1>3, <1>4, <1>5, <1>6, <1>8, <1>9, PropertiesOfEntries DEF AdapterInvariant

LEMMA AdapterInvariantNext ==
    AdapterInvariant /\ [AdapterNext]_adapterVars => AdapterInvariant'
<1> SUFFICES ASSUME AdapterInvariant, [AdapterNext]_adapterVars PROVE AdapterInvariant'
  OBVIOUS
<1>1. /\ AdapterTypeOK /\ ScanReadsOneRun /\ AnchorIsRemembered /\ OneIsRead
      /\ HeadingsAreBehind /\ HeadingsAreFound /\ EntriesAreWhole /\ EntriesAreOnThePage
  BY DEF AdapterInvariant
<1>2. Good(page, layout, Taken, index)
  BY <1>1, PropertiesOfEntries
<1>3. AdapterTypeOK'
  BY <1>1, TypesAreKept
<1>4. ScanReadsOneRun'
  BY <1>1, ScanIsKept
<1>5. AnchorIsRemembered'
  BY <1>1, AnchorIsKept
<1>6. OneIsRead'
  BY <1>1, OneIsKept
<1>7. Good(page', layout', Taken', index')
  BY <1>1, <1>2, EntriesAreKept
<1>8. HeadingsAreBehind' /\ HeadingsAreFound' /\ EntriesAreWhole'
  BY <1>7, PropertiesOfEntries
<1>9. EntriesAreOnThePage'
  BY <1>1, EntriesStayOnThePage
<1> QED
  BY <1>3, <1>4, <1>5, <1>6, <1>8, <1>9 DEF AdapterInvariant

\* Whatever the page, the conversion keeps the invariant: a scan has read one
\* run, the anchor is remembered, and no heading reaches past the next line.
THEOREM AdapterInvariantHolds == AdapterSpec => []AdapterInvariant
BY AdapterInvariantInit, AdapterInvariantNext, PTL DEF AdapterSpec

\* The conversion's variables keep their types.
THEOREM AdapterTypes == AdapterSpec => []AdapterTypeOK
<1>1. AdapterInvariant => AdapterTypeOK
  BY DEF AdapterInvariant
<1> QED
  BY <1>1, AdapterInvariantHolds, PTL

\* A line names an entry exactly if a loop-free reading of the page says that
\* it opens one and no earlier heading has taken it; the entries are in order.
THEOREM EveryHeadingIsFound == AdapterSpec => []HeadingsAreFound
<1>1. AdapterInvariant => HeadingsAreFound
  BY DEF AdapterInvariant
<1> QED
  BY <1>1, AdapterInvariantHolds, PTL

\* Every line between two headings that is not to be ignored is in the body of
\* the entry before it, and in no other, and a feat has every trait once.
THEOREM EveryEntryIsWhole == AdapterSpec => []EntriesAreWhole
<1>1. AdapterInvariant => EntriesAreWhole
  BY DEF AdapterInvariant
<1> QED
  BY <1>1, AdapterInvariantHolds, PTL


---------------------------------------------------------------------------
(* FlattenSeq, by its recursive function.                                  *)

\* g joins the first i members of f, for every i up to n.
IsJoin(g, f, n) == g = [i \in 1 .. n |-> IF i = 1 THEN f[i] ELSE g[i - 1] \o f[i]]

\* A join of the first n members goes on to the next.
LEMMA JoinGrows ==
    ASSUME NEW f, NEW n \in Nat, NEW g, IsJoin(g, f, n)
    PROVE  \E h : IsJoin(h, f, n + 1)
<1> DEFINE last == IF n + 1 = 1 THEN f[n + 1] ELSE g[n] \o f[n + 1]
           h == [i \in 1 .. n + 1 |-> IF i = n + 1 THEN last ELSE g[i]]
<1>1. \A i \in 1 .. n : h[i] = g[i]
  OBVIOUS
<1>2. \A i \in 1 .. n : g[i] = IF i = 1 THEN f[i] ELSE g[i - 1] \o f[i]
  BY DEF IsJoin
<1>3. ASSUME NEW i \in 1 .. n + 1
      PROVE  h[i] = IF i = 1 THEN f[i] ELSE h[i - 1] \o f[i]
  <2>1. CASE i = n + 1
    <3>1. h[i] = last
      BY <2>1
    <3>2. i # 1 => h[i - 1] = g[n]
      BY <1>1, <2>1
    <3> QED
      BY <2>1, <3>1, <3>2
  <2>2. CASE i # n + 1
    <3>1. i \in 1 .. n /\ h[i] = g[i]
      BY <2>2
    <3>2. i # 1 => i - 1 \in 1 .. n
      BY <3>1
    <3>3. i # 1 => h[i - 1] = g[i - 1]
      BY <1>1, <3>2
    <3> HIDE DEF h
    <3> QED
      BY <1>2, <3>1, <3>3
  <2> QED
    BY <2>1, <2>2
<1>4. h = [i \in 1 .. n + 1 |-> h[i]]
  OBVIOUS
<1> HIDE DEF h
<1>5. h = [i \in 1 .. n + 1 |-> IF i = 1 THEN f[i] ELSE h[i - 1] \o f[i]]
  BY <1>3, <1>4
<1> QED
  BY <1>5 DEF IsJoin

\* Every sequence has its join.
LEMMA JoinExists ==
    ASSUME NEW f, NEW n \in Nat
    PROVE  \E g : IsJoin(g, f, n)
<1> DEFINE T == { m \in Nat : ~\E g : IsJoin(g, f, m) }
<1>1. SUFFICES ASSUME T # {} PROVE FALSE
  OBVIOUS
<1>2. PICK m \in T : \A k \in T : m <= k
  BY <1>1, LeastLine
<1>3. m # 0
  <2> DEFINE e == [i \in 1 .. 0 |-> 0]
  <2>1. e = [i \in 1 .. 0 |-> IF i = 1 THEN f[i] ELSE e[i - 1] \o f[i]]
    OBVIOUS
  <2>2. IsJoin(e, f, 0)
    BY <2>1 DEF IsJoin
  <2> QED
    BY <2>2
<1>4. m - 1 \in Nat /\ ~(m - 1 \in T) /\ (m - 1) + 1 = m
  BY <1>2, <1>3
<1>5. PICK g : IsJoin(g, f, m - 1)
  BY <1>4
<1>6. \E h : IsJoin(h, f, (m - 1) + 1)
  BY <1>4, <1>5, JoinGrows
<1> QED
  BY <1>4, <1>6

\* And only one.
LEMMA JoinsAgree ==
    ASSUME NEW f, NEW n \in Nat, NEW m \in Nat, n <= m,
           NEW g, IsJoin(g, f, n), NEW h, IsJoin(h, f, m)
    PROVE  \A i \in 1 .. n : g[i] = h[i]
<1> DEFINE T == { i \in 1 .. n : g[i] # h[i] }
<1>1. SUFFICES ASSUME T # {} PROVE FALSE
  OBVIOUS
<1>2. T \subseteq Nat
  OBVIOUS
<1>3. PICK i \in T : \A k \in T : i <= k
  BY <1>1, <1>2, LeastLine
<1>4. g[i] = (IF i = 1 THEN f[i] ELSE g[i - 1] \o f[i])
  BY DEF IsJoin
<1>5. h[i] = (IF i = 1 THEN f[i] ELSE h[i - 1] \o f[i])
  <2>1. i \in 1 .. m
    OBVIOUS
  <2> QED
    BY <2>1 DEF IsJoin
<1>6. i # 1 => g[i - 1] = h[i - 1]
  BY <1>3
<1> QED
  BY <1>4, <1>5, <1>6

\* The first n members of f, joined.
Joined(f, n) == FlattenSeq([i \in 1 .. n |-> f[i]])

\* So FlattenSeq returns the join.
LEMMA JoinedByJoin ==
    ASSUME NEW S, NEW n \in Nat \ {0}, NEW f, \A i \in 1 .. n : f[i] \in Seq(S),
           NEW g, IsJoin(g, f, n)
    PROVE  Joined(f, n) = g[n]
<1> DEFINE s == [i \in 1 .. n |-> f[i]]
<1>1. s \in Seq(Seq(S)) /\ Len(s) = n
  OBVIOUS
<1>2. \A i \in 1 .. n : s[i] = f[i]
  OBVIOUS
<1>3. IsJoin(g, s, n)
  BY <1>2 DEF IsJoin
<1> DEFINE J(h) == h = [i \in 1 .. Len(s) |-> IF i = 1 THEN s[i] ELSE h[i - 1] \o s[i]]
<1>4. \A h : J(h) <=> IsJoin(h, s, n)
  BY <1>1 DEF IsJoin
<1> DEFINE c == CHOOSE h : J(h)
<1>5. IsJoin(c, s, n)
  BY <1>3, <1>4
<1>6. FlattenSeq(s) = c[Len(s)]
  BY <1>1 DEF FlattenSeq
<1>7. n \in 1 .. n /\ n <= n
  OBVIOUS
<1> HIDE DEF c, s
<1>8. c[n] = g[n]
  BY <1>3, <1>5, <1>7, JoinsAgree
<1> QED
  BY <1>1, <1>6, <1>8 DEF Joined, s

\* The join of no member.
LEMMA NothingJoined ==
    ASSUME NEW f
    PROVE  Joined(f, 0) = <<>>
<1>1. [i \in 1 .. 0 |-> f[i]] = <<>> /\ Len(<<>>) = 0
  OBVIOUS
<1> QED
  BY <1>1 DEF Joined, FlattenSeq

\* The join of one member more.
LEMMA OneMoreJoined ==
    ASSUME NEW S, NEW n \in Nat, NEW f, \A i \in 1 .. n + 1 : f[i] \in Seq(S)
    PROVE  Joined(f, n + 1) = Joined(f, n) \o f[n + 1]
<1>1. Joined(f, 0) = <<>>
  BY NothingJoined
<1>2. n + 1 \in Nat \ {0}
  OBVIOUS
<1>3. PICK g : IsJoin(g, f, n)
  BY JoinExists
<1>4. PICK h : IsJoin(h, f, n + 1)
  BY <1>2, JoinExists
<1>5. Joined(f, n + 1) = h[n + 1]
  BY <1>2, <1>4, JoinedByJoin
<1>6. CASE n = 0
  <2>1. h[1] = f[1]
    BY <1>4, <1>6 DEF IsJoin
  <2>2. f[1] \in Seq(S)
    OBVIOUS
  <2>3. <<>> \o f[1] = f[1]
    BY <2>2
  <2> QED
    BY <1>1, <1>5, <1>6, <2>1, <2>3
<1>7. CASE n # 0
  <2>1. g[n] = h[n]
    <3>1. n \in 1 .. n /\ n <= n + 1
      BY <1>7
    <3> QED
      BY <1>2, <1>3, <1>4, <3>1, JoinsAgree
  <2>2. h[n + 1] = h[n] \o f[n + 1]
    <3>1. n + 1 \in 1 .. n + 1 /\ n + 1 # 1 /\ (n + 1) - 1 = n
      BY <1>7
    <3> QED
      BY <1>4, <3>1 DEF IsJoin
  <2>3. Joined(f, n) = g[n]
    <3>1. \A i \in 1 .. n : f[i] \in Seq(S)
      OBVIOUS
    <3> QED
      BY <1>3, <1>7, <3>1, JoinedByJoin
  <2> QED
    BY <1>1, <1>5, <2>1, <2>2, <2>3
<1> QED
  BY <1>6, <1>7

---------------------------------------------------------------------------
(* Texts: what the lines and the separators of a text say, whatever their  *)
(* positions.  M is the set of the lines of a page.                        *)

WordLabel == {"traits", "trigger", "requirements", "effect", "other"}

\* A line a converter renders, or a separator.
Parts(M) ==
    {Separator} \cup
    { x \in TextLine : /\ x.label \in {"bare", "name"} \cup WordLabel
                       /\ x.label = "bare" => x.value \in RecognisedType
                       /\ x.label = "name" => x.value \in SUBSET M
                       /\ x.label \in WordLabel => x.value \in {Empty} \cup SUBSET M
                       /\ x.label = "other" => x.value \in SUBSET M }

\* The lines of the page in line i of the text, its heading's apart.
Words(t, i) ==
    IF t[i] # Separator /\ t[i].label \in WordLabel /\ t[i].value # Empty
      THEN t[i].value ELSE {}

AllWords(t) == UNION { Words(t, i) : i \in DOMAIN t }

\* No line of the page is in two lines of the text.
Apart(t) == \A i, j \in DOMAIN t : i # j => Words(t, i) \cap Words(t, j) = {}

Where(t, V) == { i \in DOMAIN t : t[i] \in V }

\* The lines up to n are finitely many.
LEMMA LinesAreFinite ==
    ASSUME NEW n \in Int
    PROVE  IsFiniteSet(1 .. n)
<1>1. 1 \in Int
  OBVIOUS
<1> QED
  BY <1>1, FS_Interval

\* The members of two texts joined.
LEMMA ConcatFacts ==
    ASSUME NEW S, NEW a \in Seq(S), NEW b \in Seq(S)
    PROVE  /\ a \o b \in Seq(S)
           /\ Len(a) \in Nat /\ Len(b) \in Nat /\ Len(a \o b) = Len(a) + Len(b)
           /\ DOMAIN a = 1 .. Len(a) /\ DOMAIN b = 1 .. Len(b)
           /\ DOMAIN (a \o b) = 1 .. Len(a) + Len(b)
           /\ \A i \in 1 .. Len(a) : (a \o b)[i] = a[i]
           /\ \A i \in 1 .. Len(b) : (a \o b)[Len(a) + i] = b[i]
           /\ \A k \in 1 .. Len(a) + Len(b) :
                k \in 1 .. Len(a) \/ \E i \in 1 .. Len(b) : k = Len(a) + i
<1>1. Len(a) \in Nat /\ Len(b) \in Nat
  OBVIOUS
<1>2. ASSUME NEW k \in 1 .. Len(a) + Len(b), k \notin 1 .. Len(a)
      PROVE  \E i \in 1 .. Len(b) : k = Len(a) + i
  <2>1. k - Len(a) \in 1 .. Len(b) /\ k = Len(a) + (k - Len(a))
    BY <1>1, <1>2
  <2> QED
    BY <2>1
<1> QED
  BY <1>1, <1>2

\* Two texts joined say what both say, and stay apart if they were.
LEMMA WordsOfConcat ==
    ASSUME NEW S, NEW a \in Seq(S), NEW b \in Seq(S)
    PROVE  /\ AllWords(a \o b) = AllWords(a) \cup AllWords(b)
           /\ Apart(a) /\ Apart(b) /\ AllWords(a) \cap AllWords(b) = {} => Apart(a \o b)
<1> DEFINE c == a \o b
<1>1. /\ Len(a) \in Nat /\ Len(b) \in Nat
      /\ DOMAIN a = 1 .. Len(a) /\ DOMAIN b = 1 .. Len(b)
      /\ DOMAIN c = 1 .. Len(a) + Len(b)
      /\ \A i \in 1 .. Len(a) : c[i] = a[i]
      /\ \A i \in 1 .. Len(b) : c[Len(a) + i] = b[i]
      /\ \A k \in DOMAIN c : k \in DOMAIN a \/ \E i \in DOMAIN b : k = Len(a) + i
  <2>1. /\ Len(a) \in Nat /\ Len(b) \in Nat
        /\ DOMAIN a = 1 .. Len(a) /\ DOMAIN b = 1 .. Len(b) /\ DOMAIN c = 1 .. Len(a) + Len(b)
    BY ConcatFacts
  <2>2. \A i \in 1 .. Len(a) : c[i] = a[i]
    BY ConcatFacts
  <2>3. \A i \in 1 .. Len(b) : c[Len(a) + i] = b[i]
    BY ConcatFacts
  <2>4. \A k \in 1 .. Len(a) + Len(b) : k \in 1 .. Len(a) \/ \E i \in 1 .. Len(b) : k = Len(a) + i
    BY ConcatFacts
  <2> HIDE DEF c
  <2> QED
    BY <2>1, <2>2, <2>3, <2>4
<1> HIDE DEF c
<1>2. \A i \in DOMAIN a : i \in DOMAIN c /\ Words(c, i) = Words(a, i)
  BY <1>1 DEF Words
<1>3. \A i \in DOMAIN b : Len(a) + i \in DOMAIN c /\ Words(c, Len(a) + i) = Words(b, i)
  BY <1>1 DEF Words
<1>4. AllWords(c) \subseteq AllWords(a) \cup AllWords(b)
  <2> SUFFICES ASSUME NEW k \in DOMAIN c, NEW x \in Words(c, k)
               PROVE  x \in AllWords(a) \cup AllWords(b)
    BY DEF AllWords
  <2>1. CASE k \in DOMAIN a
    BY <1>2, <2>1 DEF AllWords
  <2>2. CASE \E i \in DOMAIN b : k = Len(a) + i
    BY <1>3, <2>2 DEF AllWords
  <2> QED
    BY <1>1, <2>1, <2>2
<1>5. AllWords(a) \subseteq AllWords(c) /\ AllWords(b) \subseteq AllWords(c)
  BY <1>2, <1>3 DEF AllWords
<1>6. ASSUME Apart(a), Apart(b), AllWords(a) \cap AllWords(b) = {}
      PROVE  Apart(c)
  <2> SUFFICES ASSUME NEW k \in DOMAIN c, NEW m \in DOMAIN c, k # m
               PROVE  Words(c, k) \cap Words(c, m) = {}
    BY DEF Apart
  <2>1. CASE k \in DOMAIN a /\ m \in DOMAIN a
    BY <1>2, <1>6, <2>1 DEF Apart
  <2>2. ASSUME NEW i \in DOMAIN b, k = Len(a) + i, NEW j \in DOMAIN b, m = Len(a) + j
        PROVE  Words(c, k) \cap Words(c, m) = {}
    <3>1. i # j
      BY <2>2
    <3>2. Words(b, i) \cap Words(b, j) = {}
      BY <1>6, <3>1 DEF Apart
    <3> QED
      BY <1>3, <2>2, <3>2
  <2>3. \A i \in DOMAIN a, j \in DOMAIN b : Words(a, i) \cap Words(b, j) = {}
    BY <1>6 DEF AllWords
  <2>4. CASE k \in DOMAIN a /\ \E j \in DOMAIN b : m = Len(a) + j
    BY <1>2, <1>3, <2>3, <2>4
  <2>5. CASE m \in DOMAIN a /\ \E i \in DOMAIN b : k = Len(a) + i
    BY <1>2, <1>3, <2>3, <2>5
  <2> QED
    BY <1>1, <2>1, <2>2, <2>4, <2>5
<1> QED
  BY <1>4, <1>5, <1>6 DEF c

\* The members of a set stand in two texts joined as often as in both.
LEMMA WhereOfConcat ==
    ASSUME NEW S, NEW a \in Seq(S), NEW b \in Seq(S), NEW V
    PROVE  /\ IsFiniteSet(Where(a, V)) /\ Cardinality(Where(a, V)) \in Nat
           /\ Cardinality(Where(a \o b, V)) = Cardinality(Where(a, V)) + Cardinality(Where(b, V))
<1> DEFINE c == a \o b
           A == Where(a, V)
           B == Where(b, V)
           C == { Len(a) + i : i \in B }
<1>1. /\ Len(a) \in Nat /\ Len(b) \in Nat
      /\ DOMAIN a = 1 .. Len(a) /\ DOMAIN b = 1 .. Len(b)
      /\ DOMAIN c = 1 .. Len(a) + Len(b)
      /\ \A i \in 1 .. Len(a) : c[i] = a[i]
      /\ \A i \in 1 .. Len(b) : c[Len(a) + i] = b[i]
      /\ \A k \in DOMAIN c : k \in DOMAIN a \/ \E i \in DOMAIN b : k = Len(a) + i
  <2>1. /\ Len(a) \in Nat /\ Len(b) \in Nat
        /\ DOMAIN a = 1 .. Len(a) /\ DOMAIN b = 1 .. Len(b) /\ DOMAIN c = 1 .. Len(a) + Len(b)
    BY ConcatFacts
  <2>2. \A i \in 1 .. Len(a) : c[i] = a[i]
    BY ConcatFacts
  <2>3. \A i \in 1 .. Len(b) : c[Len(a) + i] = b[i]
    BY ConcatFacts
  <2>4. \A k \in 1 .. Len(a) + Len(b) : k \in 1 .. Len(a) \/ \E i \in 1 .. Len(b) : k = Len(a) + i
    BY ConcatFacts
  <2> HIDE DEF c
  <2> QED
    BY <2>1, <2>2, <2>3, <2>4
<1> HIDE DEF c
<1>2. A \in SUBSET (1 .. Len(a)) /\ B \in SUBSET (1 .. Len(b))
  BY <1>1 DEF Where
<1>3. IsFiniteSet(A) /\ IsFiniteSet(B)
  <2>0. Len(a) \in Int /\ Len(b) \in Int
    BY <1>1
  <2>1. IsFiniteSet(1 .. Len(a)) /\ IsFiniteSet(1 .. Len(b))
    BY <2>0, LinesAreFinite
  <2> QED
    BY <1>2, <2>1, FS_Subset
<1>4. Where(c, V) = A \cup C
  BY <1>1 DEF Where
<1>5. A \cap C = {}
  BY <1>1, <1>2
<1>6. IsFiniteSet(C) /\ Cardinality(C) = Cardinality(B)
  <2> DEFINE f == [i \in B |-> Len(a) + i]
  <2>1. f \in Bijection(B, C)
    BY <1>1, <1>2 DEF Bijection, Injection, Surjection, IsInjective
  <2> QED
    BY <1>3, <2>1, FS_Bijection DEF ExistsBijection
<1>7. Cardinality(A) \in Nat /\ Cardinality(B) \in Nat
  BY <1>3, FS_CardinalityType
<1>8. Cardinality(A \cup C) = Cardinality(A) + Cardinality(C) - Cardinality(A \cap C)
  BY <1>3, <1>6, FS_Union
<1>9. Cardinality({}) = 0
  BY FS_EmptySet
<1>10. Cardinality(Where(c, V)) = Cardinality(A) + Cardinality(B)
  <2>1. Cardinality(A \cap C) = 0
    BY <1>5, <1>9
  <2>2. Cardinality(Where(c, V)) = Cardinality(A) + Cardinality(B) - 0
    BY <1>4, <1>6, <1>8, <2>1
  <2> QED
    BY <1>7, <2>2
<1> QED
  BY <1>3, <1>7, <1>10 DEF c

---------------------------------------------------------------------------
(* The text of a field, S being the lines of its value.                    *)

\* The lines of a page, none of whose sets is the value of nothing.
Readable(M) == M \subseteq Nat /\ \A S \in SUBSET M : S \notin {Empty, Absent}

Separators(t) == Where(t, {Separator})

IsLine(t, i, label) == t[i] # Separator /\ t[i].label = label

\* Separators, and lines with no label directly behind them.
Trailing(t) ==
    \A i \in DOMAIN t : t[i] = Separator \/ (i > 1 /\ t[i - 1] = Separator /\ IsLine(t, i, "other"))

\* What a rendered line with lines of the page is.
LEMMA LinesOfText ==
    ASSUME NEW M, Readable(M), NEW label \in WordLabel, NEW S \in SUBSET M
    PROVE  /\ LabelLine(label, S) \in TextLine /\ LabelLine(label, S) \in Parts(M)
           /\ LabelLine(label, S) # Separator /\ S # Empty
           /\ LabelLine(label, S).label = label /\ LabelLine(label, S).value = S
<1>1. S \in SUBSET Nat /\ label \in Label
  BY DEF Readable, WordLabel, Label, Field, ListField
<1>2. LabelLine(label, S) \in TextLine
  BY <1>1 DEF LabelLine, TextLine
<1>3. LabelLine(label, S).label = label /\ LabelLine(label, S).value = S
  BY DEF LabelLine
<1>4. LabelLine(label, S) \in Parts(M)
  BY <1>2, <1>3 DEF Parts, WordLabel
<1>5. LabelLine(label, S) # Separator
  BY <1>2, RenderingAssumption
<1>6. S # Empty
  BY DEF Readable
<1> QED
  BY <1>2, <1>3, <1>4, <1>5, <1>6

\* A text of one member.
LEMMA SingleText ==
    ASSUME NEW x
    PROVE  /\ AllWords(<<x>>) = Words(<<x>>, 1)
           /\ Apart(<<x>>)
           /\ \A V : Where(<<x>>, V) = IF x \in V THEN {1} ELSE {}
<1>1. DOMAIN <<x>> = {1} /\ <<x>>[1] = x
  OBVIOUS
<1> QED
  BY <1>1 DEF AllWords, Apart, Where

\* The text of no line.
LEMMA EmptyText ==
    /\ AllWords(<<>>) = {} /\ Apart(<<>>) /\ Trailing(<<>>)
    /\ \A V : Where(<<>>, V) = {}
BY DEF AllWords, Apart, Trailing, Where

\* The text of one separator.
LEMMA SeparatorText ==
    ASSUME NEW M
    PROVE  /\ <<Separator>> \in Seq(Parts(M)) /\ AllWords(<<Separator>>) = {}
           /\ Apart(<<Separator>>) /\ Separators(<<Separator>>) = {1}
           /\ Trailing(<<Separator>>)
<1>1. <<Separator>>[1] = Separator /\ DOMAIN <<Separator>> = {1}
  OBVIOUS
<1>2. Separator \in Parts(M)
  BY DEF Parts
<1>3. <<Separator>> \in Seq(Parts(M))
  BY <1>2
<1> QED
  BY <1>1, <1>3, SingleText DEF Words, Separators, Trailing

\* The text of one line of the page.
LEMMA OtherText ==
    ASSUME NEW M, Readable(M), NEW S \in SUBSET M, NEW label \in WordLabel
    PROVE  LET t == <<LabelLine(label, S)>> IN
           /\ t \in Seq(Parts(M)) /\ AllWords(t) = S /\ Apart(t) /\ Separators(t) = {}
<1> DEFINE x == LabelLine(label, S)
<1>1. /\ x \in Parts(M) /\ x # Separator /\ S # Empty
      /\ x.label = label /\ x.value = S
  BY LinesOfText
<1> HIDE DEF x
<1>2. <<x>>[1] = x
  OBVIOUS
<1>3. Words(<<x>>, 1) = S
  BY <1>1, <1>2 DEF Words, WordLabel
<1>4. <<x>> \in Seq(Parts(M))
  BY <1>1
<1>5. Separators(<<x>>) = {}
  BY <1>1, SingleText DEF Separators
<1>6. AllWords(<<x>>) = S /\ Apart(<<x>>)
  BY <1>3, SingleText
<1> QED
  BY <1>4, <1>5, <1>6 DEF x

\* A separator in a value, and the lines behind it up to the next.
LEMMA RestFacts ==
    ASSUME NEW p \in Seq(PageLine), Readable(1 .. Len(p)), NEW S \in SUBSET (1 .. Len(p)), NEW d
    PROVE  LET r == Rest(p, S, d) IN
           /\ r \in Seq(Parts(1 .. Len(p))) /\ Trailing(r)
           /\ AllWords(r) = After(p, S, d) /\ Apart(r)
           /\ Cardinality(Separators(r)) = 1
<1> DEFINE M == 1 .. Len(p)
           A == After(p, S, d)
           s == <<Separator>>
           x == <<LabelLine("other", A)>>
           r == Rest(p, S, d)
<1>0. Readable(M)
  OBVIOUS
<1>1. A \in SUBSET M
  BY DEF After
<1>2. /\ s \in Seq(Parts(M)) /\ AllWords(s) = {} /\ Apart(s) /\ Separators(s) = {1} /\ Trailing(s)
  BY SeparatorText
<1>3. Cardinality({1}) = 1 /\ Cardinality({}) = 0
  BY FS_Singleton, FS_EmptySet
<1>4. CASE A = {}
  <2>1. s \o <<>> = s
    BY <1>2
  <2>2. r = s
    BY <1>4, <2>1 DEF Rest
  <2> QED
    BY <1>2, <1>3, <1>4, <2>2
<1>5. CASE A # {}
  <2>1. "other" \in WordLabel
    BY DEF WordLabel
  <2>2. x \in Seq(Parts(M)) /\ AllWords(x) = A /\ Apart(x) /\ Separators(x) = {}
    <3> HIDE DEF A, M
    <3> QED
      BY <1>0, <1>1, <2>1, OtherText
  <2>3. LabelLine("other", A) # Separator /\ LabelLine("other", A).label = "other"
    <3> HIDE DEF A, M
    <3> QED
      BY <1>0, <1>1, <2>1, LinesOfText
  <2>4. r = s \o x
    BY <1>5 DEF Rest
  <2>5. DOMAIN r = 1 .. 2 /\ r[1] = Separator /\ r[2] = LabelLine("other", A)
    BY <2>4
  <2>6. Trailing(r)
    BY <2>3, <2>5 DEF Trailing, IsLine
  <2> HIDE DEF A, M, s, x, r
  <2>7. r \in Seq(Parts(M))
    BY <1>2, <2>2, <2>4, ConcatFacts
  <2>8. AllWords(r) = A /\ Apart(r)
    <3>1. AllWords(r) = AllWords(s) \cup AllWords(x)
      BY <1>2, <2>2, <2>4, WordsOfConcat
    <3>2. AllWords(s) \cap AllWords(x) = {}
      BY <1>2
    <3>3. Apart(r)
      BY <1>2, <2>2, <2>4, <3>2, WordsOfConcat
    <3> QED
      BY <1>2, <2>2, <3>1, <3>3
  <2>9. Cardinality(Separators(r)) = Cardinality(Separators(s)) + Cardinality(Separators(x))
    BY <1>2, <2>2, <2>4, WhereOfConcat DEF Separators
  <2>10. Cardinality(Separators(r)) = 1
    BY <1>2, <1>3, <2>2, <2>9
  <2> QED
    BY <2>6, <2>7, <2>8, <2>10 DEF r, A, M
<1> QED
  BY <1>4, <1>5

\* Such texts join to such a text.
LEMMA TrailingConcat ==
    ASSUME NEW S, NEW a \in Seq(S), NEW b \in Seq(S), Trailing(a), Trailing(b)
    PROVE  Trailing(a \o b)
<1> DEFINE c == a \o b
<1>1. /\ Len(a) \in Nat /\ Len(b) \in Nat
      /\ DOMAIN a = 1 .. Len(a) /\ DOMAIN b = 1 .. Len(b) /\ DOMAIN c = 1 .. Len(a) + Len(b)
  BY ConcatFacts
<1>2. \A i \in 1 .. Len(a) : c[i] = a[i]
  BY ConcatFacts
<1>3. \A i \in 1 .. Len(b) : c[Len(a) + i] = b[i]
  BY ConcatFacts
<1>4. \A k \in 1 .. Len(a) + Len(b) : k \in 1 .. Len(a) \/ \E i \in 1 .. Len(b) : k = Len(a) + i
  BY ConcatFacts
<1> HIDE DEF c
<1>5. ASSUME NEW k \in DOMAIN c, c[k] # Separator
      PROVE  k > 1 /\ c[k - 1] = Separator /\ IsLine(c, k, "other")
  <2>1. CASE k \in 1 .. Len(a)
    <3>1. k > 1 /\ a[k - 1] = Separator /\ IsLine(a, k, "other")
      BY <1>1, <1>2, <1>5, <2>1 DEF Trailing
    <3>2. k - 1 \in 1 .. Len(a)
      BY <1>1, <2>1, <3>1
    <3> QED
      BY <1>2, <2>1, <3>1, <3>2 DEF IsLine
  <2>2. ASSUME NEW i \in 1 .. Len(b), k = Len(a) + i
        PROVE  k > 1 /\ c[k - 1] = Separator /\ IsLine(c, k, "other")
    <3>1. i > 1 /\ b[i - 1] = Separator /\ IsLine(b, i, "other")
      BY <1>1, <1>3, <1>5, <2>2 DEF Trailing
    <3>2. i - 1 \in 1 .. Len(b) /\ k - 1 = Len(a) + (i - 1) /\ k > 1
      BY <1>1, <2>2, <3>1
    <3> QED
      BY <1>3, <2>2, <3>1, <3>2 DEF IsLine
  <2> QED
    BY <1>1, <1>4, <2>1, <2>2
<1>6. Trailing(c)
  BY <1>5 DEF Trailing
<1> QED
  BY <1>6 DEF c

---------------------------------------------------------------------------
(* The whole text of a field.                                              *)

\* No line, no separator.
LEMMA NoDashes ==
    ASSUME NEW p
    PROVE  Dashes(p, {}) = {} /\ Cardinality(Dashes(p, {})) = 0
BY FS_EmptySet DEF Dashes

\* The separators among the lines of two sets.
LEMMA DashesOfUnion ==
    ASSUME NEW p \in Seq(PageLine), NEW V \in SUBSET (1 .. Len(p)), NEW S \in SUBSET (1 .. Len(p))
    PROVE  /\ Cardinality(Dashes(p, V)) \in Nat /\ Cardinality(Dashes(p, S)) \in Nat
           /\ Cardinality(Dashes(p, V \cup S)) =
                 Cardinality(Dashes(p, V)) + Cardinality(Dashes(p, S)) - Cardinality(Dashes(p, V \cap S))
<1>1. /\ Dashes(p, V \cup S) = Dashes(p, V) \cup Dashes(p, S)
      /\ Dashes(p, V \cap S) = Dashes(p, V) \cap Dashes(p, S)
      /\ Dashes(p, V) \subseteq 1 .. Len(p) /\ Dashes(p, S) \subseteq 1 .. Len(p)
  BY DEF Dashes
<1>2. IsFiniteSet(1 .. Len(p))
  <2>1. Len(p) \in Int
    OBVIOUS
  <2> QED
    BY <2>1, LinesAreFinite
<1>3. IsFiniteSet(Dashes(p, V)) /\ IsFiniteSet(Dashes(p, S))
  BY <1>1, <1>2, FS_Subset
<1>4. /\ Cardinality(Dashes(p, V) \cup Dashes(p, S)) =
            Cardinality(Dashes(p, V)) + Cardinality(Dashes(p, S))
               - Cardinality(Dashes(p, V) \cap Dashes(p, S))
      /\ Cardinality(Dashes(p, V)) \in Nat /\ Cardinality(Dashes(p, S)) \in Nat
  BY <1>3, FS_Union, FS_CardinalityType
<1> QED
  BY <1>1, <1>4

\* A line of a value is a separator, stands before all of them, or is behind
\* exactly one.
LEMMA AfterFacts ==
    ASSUME NEW p \in Seq(PageLine), NEW S \in SUBSET (1 .. Len(p))
    PROVE  /\ \A d \in Dashes(p, S) : \A e \in Dashes(p, S) :
                 d # e => After(p, S, d) \cap After(p, S, e) = {}
           /\ \A d \in Dashes(p, S) : After(p, S, 0) \cap After(p, S, d) = {}
           /\ S \ Dashes(p, S) = After(p, S, 0) \cup UNION { After(p, S, d) : d \in Dashes(p, S) }
<1> DEFINE D == Dashes(p, S)
<1>1. D \subseteq S /\ \A i \in S : i \in Nat /\ 0 < i
  BY DEF Dashes
<1>2. \A d : After(p, S, d) = { i \in S \ D : d < i /\ ~\E e \in D : d < e /\ e < i }
  BY DEF After
<1> HIDE DEF D
<1>3. \A d \in D : \A e \in D : d # e => After(p, S, d) \cap After(p, S, e) = {}
  <2> SUFFICES ASSUME NEW d \in D, NEW e \in D, d # e,
                      NEW i, i \in After(p, S, d), i \in After(p, S, e)
               PROVE  FALSE
    OBVIOUS
  <2>1. d < i /\ e < i /\ ~(d < e /\ e < i) /\ ~(e < d /\ d < i)
    BY <1>2
  <2>2. d \in Nat /\ e \in Nat
    BY <1>1
  <2> QED
    BY <2>1, <2>2
<1>4. \A d \in D : After(p, S, 0) \cap After(p, S, d) = {}
  <2> SUFFICES ASSUME NEW d \in D, NEW i, i \in After(p, S, 0), i \in After(p, S, d)
               PROVE  FALSE
    OBVIOUS
  <2>1. d < i /\ ~(0 < d /\ d < i)
    BY <1>2
  <2> QED
    BY <1>1, <2>1
<1>5. ASSUME NEW i \in S \ D, i \notin After(p, S, 0)
      PROVE  \E d \in D : i \in After(p, S, d)
  <2> DEFINE T == { i - d : d \in { e \in D : e < i } }
  <2>1. \E e \in D : e < i
    BY <1>1, <1>2, <1>5
  <2>2. T # {} /\ T \subseteq Nat
    BY <1>1, <2>1
  <2>3. PICK x \in T : \A y \in T : x <= y
    BY <2>2, LeastLine
  <2>4. PICK d \in D : d < i /\ x = i - d
    BY <2>3
  <2>5. ASSUME NEW e \in D, d < e, e < i
        PROVE  FALSE
    <3>1. i - e \in T
      BY <2>5
    <3>2. i - d <= i - e
      BY <2>3, <2>4, <3>1
    <3> QED
      BY <1>1, <2>5, <3>2
  <2>6. i \in After(p, S, d)
    BY <1>2, <2>4, <2>5
  <2> QED
    BY <2>6
<1>6. \A d : After(p, S, d) \subseteq S \ D
  BY <1>2
<1>7. S \ D = After(p, S, 0) \cup UNION { After(p, S, d) : d \in D }
  BY <1>5, <1>6
<1> QED
  BY <1>3, <1>4, <1>7 DEF D

\* What follows the separators among the first k lines.
Tails(p, S) == [ i \in 1 .. Len(p) |-> IF i \in Dashes(p, S) THEN Rest(p, S, i) ELSE <<>> ]
TailText(p, S, k) == Joined(Tails(p, S), k)

TailOK(p, S, k) ==
    /\ TailText(p, S, k) \in Seq(Parts(1 .. Len(p)))
    /\ Trailing(TailText(p, S, k))
    /\ AllWords(TailText(p, S, k)) = UNION { After(p, S, d) : d \in Dashes(p, S) \cap (1 .. k) }
    /\ Apart(TailText(p, S, k))
    /\ Cardinality(Separators(TailText(p, S, k))) = Cardinality(Dashes(p, S) \cap (1 .. k))

\* The text of one separator more.
LEMMA OneMoreTail ==
    ASSUME NEW p \in Seq(PageLine), Readable(1 .. Len(p)), NEW S \in SUBSET (1 .. Len(p)),
           NEW k \in Nat, k + 1 <= Len(p), TailOK(p, S, k)
    PROVE  TailOK(p, S, k + 1)
<1> DEFINE M == 1 .. Len(p)
           D == Dashes(p, S)
           f == Tails(p, S)
           t == TailText(p, S, k)
           u == TailText(p, S, k + 1)
<1>0. Len(p) \in Nat
  OBVIOUS
<1>1. k + 1 \in M /\ D \subseteq M
  <2>1. D \subseteq S
    BY DEF Dashes
  <2>2. k + 1 \in M
    BY <1>0
  <2> QED
    BY <2>1, <2>2
<1>2. ASSUME NEW i \in 1 .. k + 1
      PROVE  f[i] \in Seq(Parts(M))
  <2>1. i \in M
    BY <1>0
  <2>2. f[i] = IF i \in D THEN Rest(p, S, i) ELSE <<>>
    BY <2>1 DEF Tails
  <2>3. Rest(p, S, i) \in Seq(Parts(M))
    BY RestFacts
  <2> HIDE DEF f, M, D
  <2>4. <<>> \in Seq(Parts(M))
    OBVIOUS
  <2> QED
    BY <2>2, <2>3, <2>4
<1>3. u = t \o f[k + 1]
  BY <1>2, OneMoreJoined DEF TailText
<1>4. f[k + 1] = IF k + 1 \in D THEN Rest(p, S, k + 1) ELSE <<>>
  BY <1>1 DEF Tails
<1>5. /\ t \in Seq(Parts(M)) /\ Trailing(t) /\ Apart(t)
      /\ AllWords(t) = UNION { After(p, S, d) : d \in D \cap (1 .. k) }
      /\ Cardinality(Separators(t)) = Cardinality(D \cap (1 .. k))
  BY DEF TailOK
<1>6. CASE k + 1 \notin D
  <2>1. D \cap (1 .. k + 1) = D \cap (1 .. k)
    BY <1>0, <1>1, <1>6
  <2>2. u = t
    <3> HIDE DEF t, u
    <3> QED
      BY <1>3, <1>4, <1>5, <1>6
  <2> QED
    BY <1>5, <2>1, <2>2 DEF TailOK
<1>7. CASE k + 1 \in D
  <2> DEFINE r == Rest(p, S, k + 1)
  <2>1. /\ r \in Seq(Parts(M)) /\ Trailing(r)
        /\ AllWords(r) = After(p, S, k + 1) /\ Apart(r)
        /\ Cardinality(Separators(r)) = 1
    BY RestFacts
  <2>2. D \cap (1 .. k + 1) = (D \cap (1 .. k)) \cup {k + 1} /\ k + 1 \notin D \cap (1 .. k)
    BY <1>0, <1>1, <1>7
  <2>3. \A d \in D \cap (1 .. k) : After(p, S, d) \cap After(p, S, k + 1) = {}
    BY <1>7, <2>2, AfterFacts
  <2>4. IsFiniteSet(D \cap (1 .. k))
    <3>1. k \in Int
      OBVIOUS
    <3>2. IsFiniteSet(1 .. k)
      BY <3>1, LinesAreFinite
    <3> QED
      BY <3>2, FS_Subset
  <2>5. Cardinality(D \cap (1 .. k + 1)) = Cardinality(D \cap (1 .. k)) + 1
    BY <2>2, <2>4, FS_AddElement
  <2> HIDE DEF D, M, t, u, r, f
  <2>6. u = t \o r
    BY <1>3, <1>4, <1>7 DEF r
  <2>7. u \in Seq(Parts(M))
    BY <1>5, <2>1, <2>6, ConcatFacts
  <2>8. Trailing(u)
    BY <1>5, <2>1, <2>6, TrailingConcat
  <2>9. AllWords(u) = AllWords(t) \cup AllWords(r)
    BY <1>5, <2>1, <2>6, WordsOfConcat
  <2>10. AllWords(t) \cap AllWords(r) = {}
    BY <1>5, <2>1, <2>3
  <2>11. Apart(u)
    BY <1>5, <2>1, <2>6, <2>10, WordsOfConcat
  <2>12. AllWords(u) = UNION { After(p, S, d) : d \in D \cap (1 .. k + 1) }
    BY <1>5, <2>1, <2>2, <2>9
  <2>13. Cardinality(Separators(u)) = Cardinality(Separators(t)) + Cardinality(Separators(r))
    BY <1>5, <2>1, <2>6, WhereOfConcat DEF Separators
  <2>14. Cardinality(Separators(u)) = Cardinality(D \cap (1 .. k + 1))
    BY <1>5, <2>1, <2>5, <2>13
  <2> QED
    BY <2>7, <2>8, <2>11, <2>12, <2>14 DEF TailOK, D, M, u
<1> QED
  BY <1>6, <1>7

\* The text of all the separators of a value.
LEMMA TailFacts ==
    ASSUME NEW p \in Seq(PageLine), Readable(1 .. Len(p)), NEW S \in SUBSET (1 .. Len(p))
    PROVE  TailOK(p, S, Len(p))
<1> DEFINE T == { k \in 0 .. Len(p) : ~TailOK(p, S, k) }
<1>0. Len(p) \in Nat
  OBVIOUS
<1>1. SUFFICES ASSUME T # {} PROVE FALSE
  BY <1>0
<1>2. T \subseteq Nat
  BY <1>0
<1>3. PICK k \in T : \A m \in T : k <= m
  BY <1>1, <1>2, LeastLine
<1>4. TailOK(p, S, 0)
  <2>1. TailText(p, S, 0) = <<>>
    BY NothingJoined DEF TailText
  <2>2. Dashes(p, S) \cap (1 .. 0) = {}
    OBVIOUS
  <2>3. <<>> \in Seq(Parts(1 .. Len(p)))
    OBVIOUS
  <2> QED
    BY <2>1, <2>2, <2>3, EmptyText DEF TailOK, Separators
<1>5. k # 0
  BY <1>3, <1>4
<1>6. k - 1 \in Nat /\ (k - 1) + 1 = k /\ k <= Len(p) /\ ~(k - 1 \in T)
  BY <1>0, <1>2, <1>3, <1>5
<1>7. TailOK(p, S, k - 1)
  BY <1>0, <1>6
<1> HIDE DEF T
<1>8. TailOK(p, S, (k - 1) + 1)
  BY <1>6, <1>7, OneMoreTail
<1>9. TailOK(p, S, k)
  BY <1>6, <1>8
<1> QED
  BY <1>3, <1>9 DEF T

---------------------------------------------------------------------------
(* The shape of a text: what makes its blocks read well.                   *)

LabelsOf(t) == { t[i].label : i \in { j \in DOMAIN t : t[j] # Separator } }

\* A heading is two lines, at the beginning of a block.
BareFirst(t) ==
    \A i \in DOMAIN t : IsLine(t, i, "bare") =>
        /\ i = 1 \/ t[i - 1] = Separator
        /\ i + 1 \in DOMAIN t /\ IsLine(t, i + 1, "name")
NameSecond(t) ==
    \A i \in DOMAIN t : IsLine(t, i, "name") => i > 1 /\ IsLine(t, i - 1, "bare")
OtherFirst(t) ==
    \A i \in DOMAIN t : IsLine(t, i, "other") => i > 1 /\ t[i - 1] = Separator

\* No label stands twice in a block.
LabelsOnce(t) ==
    \A i, j \in DOMAIN t :
        i < j /\ t[i] # Separator /\ t[j] # Separator /\ t[i].label = t[j].label =>
            \E k \in i .. j : t[k] = Separator

Formed(t) == BareFirst(t) /\ NameSecond(t) /\ OtherFirst(t) /\ LabelsOnce(t)

\* A text without labels that opens with a separator has that shape.
LEMMA TrailingIsFormed ==
    ASSUME NEW S, NEW t \in Seq(S), Trailing(t)
    PROVE  Formed(t) /\ LabelsOf(t) \subseteq {"other"} /\ (t = <<>> \/ t[1] = Separator)
<1>1. Len(t) \in Nat /\ DOMAIN t = 1 .. Len(t)
  OBVIOUS
<1>2. \A i \in DOMAIN t : t[i] # Separator =>
         t[i].label = "other" /\ i > 1 /\ t[i - 1] = Separator
  BY DEF Trailing, IsLine
<1>3. BareFirst(t) /\ NameSecond(t) /\ OtherFirst(t)
  BY <1>2 DEF BareFirst, NameSecond, OtherFirst, IsLine
<1>4. LabelsOnce(t)
  <2> SUFFICES ASSUME NEW i \in DOMAIN t, NEW j \in DOMAIN t, i < j, t[j] # Separator
               PROVE  \E k \in i .. j : t[k] = Separator
    BY DEF LabelsOnce
  <2>1. t[j - 1] = Separator /\ j - 1 \in i .. j
    BY <1>1, <1>2
  <2> QED
    BY <2>1
<1>5. t = <<>> \/ t[1] = Separator
  <2>1. CASE Len(t) = 0
    BY <2>1
  <2>2. CASE Len(t) # 0
    <3>1. 1 \in DOMAIN t
      BY <1>1, <2>2
    <3> QED
      BY <1>2, <3>1
  <2> QED
    BY <2>1, <2>2
<1>6. LabelsOf(t) \subseteq {"other"}
  BY <1>2 DEF LabelsOf
<1> QED
  BY <1>3, <1>4, <1>5, <1>6 DEF Formed

\* The labels of two texts joined.
LEMMA LabelsOfConcat ==
    ASSUME NEW S, NEW a \in Seq(S), NEW b \in Seq(S)
    PROVE  LabelsOf(a \o b) \subseteq LabelsOf(a) \cup LabelsOf(b)
<1> DEFINE c == a \o b
<1>1. DOMAIN a = 1 .. Len(a) /\ DOMAIN b = 1 .. Len(b) /\ DOMAIN c = 1 .. Len(a) + Len(b)
  BY ConcatFacts
<1>2. \A i \in 1 .. Len(a) : c[i] = a[i]
  BY ConcatFacts
<1>3. \A i \in 1 .. Len(b) : c[Len(a) + i] = b[i]
  BY ConcatFacts
<1>4. \A k \in 1 .. Len(a) + Len(b) : k \in 1 .. Len(a) \/ \E i \in 1 .. Len(b) : k = Len(a) + i
  BY ConcatFacts
<1> HIDE DEF c
<1>5. ASSUME NEW k \in DOMAIN c, c[k] # Separator
      PROVE  c[k].label \in LabelsOf(a) \cup LabelsOf(b)
  <2>1. CASE k \in 1 .. Len(a)
    BY <1>1, <1>2, <1>5, <2>1 DEF LabelsOf
  <2>2. ASSUME NEW i \in 1 .. Len(b), k = Len(a) + i
        PROVE  c[k].label \in LabelsOf(b)
    BY <1>1, <1>3, <1>5, <2>2 DEF LabelsOf
  <2> QED
    BY <1>1, <1>4, <2>1, <2>2
<1>6. LabelsOf(c) \subseteq LabelsOf(a) \cup LabelsOf(b)
  BY <1>5 DEF LabelsOf
<1> QED
  BY <1>6 DEF c

\* Two texts with a separator between them.
LEMMA CutConcat ==
    ASSUME NEW S, NEW a \in Seq(S), NEW b \in Seq(S), Formed(a), Formed(b),
           \/ Len(a) > 0 /\ a[Len(a)] = Separator
           \/ Len(b) > 0 /\ b[1] = Separator
    PROVE  Formed(a \o b)
<1> DEFINE c == a \o b
           n == Len(a)
<1>1. /\ n \in Nat /\ Len(b) \in Nat
      /\ DOMAIN a = 1 .. n /\ DOMAIN b = 1 .. Len(b) /\ DOMAIN c = 1 .. n + Len(b)
  BY ConcatFacts
<1>2. \A i \in 1 .. n : c[i] = a[i]
  BY ConcatFacts
<1>3. \A i \in 1 .. Len(b) : c[n + i] = b[i]
  BY ConcatFacts
<1>4. \A k \in 1 .. n + Len(b) : k \in 1 .. n \/ \E i \in 1 .. Len(b) : k = n + i
  BY ConcatFacts
<1>5. \/ n > 0 /\ a[n] = Separator
      \/ Len(b) > 0 /\ b[1] = Separator
  OBVIOUS
<1> HIDE DEF c, n
<1>6. \/ n \in 1 .. n /\ c[n] = Separator
      \/ 1 \in 1 .. Len(b) /\ c[n + 1] = Separator
  BY <1>1, <1>2, <1>3, <1>5
<1>7. ASSUME NEW i \in 1 .. Len(b), b[i] # Separator
      PROVE  \/ i > 1
             \/ i = 1 /\ (n + i) - 1 = n /\ n + i > 1 /\ c[n] = Separator
  BY <1>1, <1>2, <1>5, <1>7
<1>8. ASSUME NEW i \in 1 .. Len(b), i > 1
      PROVE  i - 1 \in 1 .. Len(b) /\ (n + i) - 1 = n + (i - 1) /\ n + i > 1 /\ c[(n + i) - 1] = b[i - 1]
  BY <1>1, <1>3, <1>8
<1>9. BareFirst(c)
  <2> SUFFICES ASSUME NEW k \in DOMAIN c, IsLine(c, k, "bare")
               PROVE  /\ k = 1 \/ c[k - 1] = Separator
                      /\ k + 1 \in DOMAIN c /\ IsLine(c, k + 1, "name")
    BY DEF BareFirst
  <2>1. CASE k \in 1 .. n
    <3>1. IsLine(a, k, "bare")
      BY <1>2, <2>1 DEF IsLine
    <3>2. /\ k = 1 \/ a[k - 1] = Separator
          /\ k + 1 \in 1 .. n /\ IsLine(a, k + 1, "name")
      BY <1>1, <2>1, <3>1 DEF Formed, BareFirst
    <3>3. k # 1 => k - 1 \in 1 .. n
      BY <1>1, <2>1
    <3>4. k + 1 \in DOMAIN c
      BY <1>1, <3>2
    <3> QED
      BY <1>2, <3>2, <3>3, <3>4 DEF IsLine
  <2>2. ASSUME NEW i \in 1 .. Len(b), k = n + i
        PROVE  /\ c[k - 1] = Separator \/ k = 1
               /\ k + 1 \in DOMAIN c /\ IsLine(c, k + 1, "name")
    <3>1. IsLine(b, i, "bare")
      BY <1>3, <2>2 DEF IsLine
    <3>2. /\ i = 1 \/ b[i - 1] = Separator
          /\ i + 1 \in 1 .. Len(b) /\ IsLine(b, i + 1, "name")
      BY <1>1, <2>2, <3>1 DEF Formed, BareFirst
    <3>3. c[k - 1] = Separator
      BY <1>7, <1>8, <2>2, <3>1, <3>2 DEF IsLine
    <3>4. k + 1 = n + (i + 1) /\ k + 1 \in DOMAIN c
      BY <1>1, <2>2, <3>2
    <3> QED
      BY <1>3, <3>2, <3>3, <3>4 DEF IsLine
  <2> QED
    BY <1>1, <1>4, <2>1, <2>2
<1>10. NameSecond(c)
  <2> SUFFICES ASSUME NEW k \in DOMAIN c, IsLine(c, k, "name")
               PROVE  k > 1 /\ IsLine(c, k - 1, "bare")
    BY DEF NameSecond
  <2>1. CASE k \in 1 .. n
    <3>1. k > 1 /\ IsLine(a, k - 1, "bare")
      BY <1>1, <1>2, <2>1 DEF Formed, NameSecond, IsLine
    <3>2. k - 1 \in 1 .. n
      BY <1>1, <2>1, <3>1
    <3> QED
      BY <1>2, <3>1, <3>2 DEF IsLine
  <2>2. ASSUME NEW i \in 1 .. Len(b), k = n + i
        PROVE  k > 1 /\ IsLine(c, k - 1, "bare")
    <3>1. i > 1 /\ IsLine(b, i - 1, "bare")
      BY <1>1, <1>3, <2>2 DEF Formed, NameSecond, IsLine
    <3> QED
      BY <1>8, <2>2, <3>1 DEF IsLine
  <2> QED
    BY <1>1, <1>4, <2>1, <2>2
<1>11. OtherFirst(c)
  <2> SUFFICES ASSUME NEW k \in DOMAIN c, IsLine(c, k, "other")
               PROVE  k > 1 /\ c[k - 1] = Separator
    BY DEF OtherFirst
  <2>1. CASE k \in 1 .. n
    <3>1. k > 1 /\ a[k - 1] = Separator
      BY <1>1, <1>2, <2>1 DEF Formed, OtherFirst, IsLine
    <3>2. k - 1 \in 1 .. n
      BY <1>1, <2>1, <3>1
    <3> QED
      BY <1>2, <3>1, <3>2
  <2>2. ASSUME NEW i \in 1 .. Len(b), k = n + i
        PROVE  k > 1 /\ c[k - 1] = Separator
    <3>1. i > 1 /\ b[i - 1] = Separator
      BY <1>1, <1>3, <2>2 DEF Formed, OtherFirst, IsLine
    <3> QED
      BY <1>8, <2>2, <3>1
  <2> QED
    BY <1>1, <1>4, <2>1, <2>2
<1>12. LabelsOnce(c)
  <2> SUFFICES ASSUME NEW k \in DOMAIN c, NEW m \in DOMAIN c, k < m,
                      c[k] # Separator, c[m] # Separator, c[k].label = c[m].label
               PROVE  \E x \in k .. m : c[x] = Separator
    BY DEF LabelsOnce
  <2>0. k \in Nat /\ m \in Nat
    BY <1>1
  <2>1. CASE k \in 1 .. n /\ m \in 1 .. n
    <3>1. PICK x \in k .. m : a[x] = Separator
      BY <1>1, <1>2, <2>1 DEF Formed, LabelsOnce
    <3>2. x \in 1 .. n
      BY <1>1, <2>1
    <3> QED
      BY <1>2, <3>1, <3>2
  <2>2. ASSUME NEW i \in 1 .. Len(b), k = n + i, NEW j \in 1 .. Len(b), m = n + j
        PROVE  \E x \in k .. m : c[x] = Separator
    <3>1. i < j
      BY <1>1, <2>2
    <3>2. b[i] # Separator /\ b[j] # Separator /\ b[i].label = b[j].label
      BY <1>3, <2>2
    <3>3. PICK x \in i .. j : b[x] = Separator
      BY <1>1, <3>1, <3>2 DEF Formed, LabelsOnce
    <3>4. x \in 1 .. Len(b) /\ n + x \in k .. m
      BY <1>1, <2>2
    <3> QED
      BY <1>3, <3>3, <3>4
  <2>3. ASSUME k \in 1 .. n, NEW j \in 1 .. Len(b), m = n + j
        PROVE  \E x \in k .. m : c[x] = Separator
    <3>1. n \in k .. m /\ n + 1 \in k .. m
      BY <1>1, <2>3
    <3> QED
      BY <1>6, <3>1
  <2>4. ~(m \in 1 .. n /\ \E i \in 1 .. Len(b) : k = n + i)
    BY <1>1
  <2> QED
    BY <1>1, <1>4, <2>1, <2>2, <2>3, <2>4
<1>13. Formed(c)
  BY <1>9, <1>10, <1>11, <1>12 DEF Formed
<1> QED
  BY <1>13 DEF c

\* A line with a label the text does not have yet.
LEMMA NewLabel ==
    ASSUME NEW S, NEW a \in Seq(S), NEW x \in S, Formed(a), x # Separator,
           x.label \notin LabelsOf(a), x.label \in WordLabel \ {"other"}
    PROVE  Formed(a \o <<x>>)
<1> DEFINE c == a \o <<x>>
           n == Len(a)
<1>1. /\ n \in Nat /\ DOMAIN a = 1 .. n /\ DOMAIN c = 1 .. n + 1 /\ c[n + 1] = x
      /\ \A i \in 1 .. n : c[i] = a[i]
  OBVIOUS
<1>2. x.label \notin {"bare", "name", "other"}
  BY DEF WordLabel
<1> HIDE DEF c, n
<1>3. \A k \in DOMAIN c : k \in 1 .. n \/ k = n + 1
  BY <1>1
<1>4. ASSUME NEW k \in DOMAIN c, k > 1
      PROVE  k \in 1 .. n => k - 1 \in 1 .. n /\ c[k - 1] = a[k - 1]
  BY <1>1, <1>4
<1>5. BareFirst(c)
  <2> SUFFICES ASSUME NEW k \in DOMAIN c, IsLine(c, k, "bare")
               PROVE  /\ k = 1 \/ c[k - 1] = Separator
                      /\ k + 1 \in DOMAIN c /\ IsLine(c, k + 1, "name")
    BY DEF BareFirst
  <2>1. k \in 1 .. n
    BY <1>1, <1>2, <1>3 DEF IsLine
  <2>2. /\ k = 1 \/ a[k - 1] = Separator
        /\ k + 1 \in 1 .. n /\ IsLine(a, k + 1, "name")
    BY <1>1, <2>1 DEF Formed, BareFirst, IsLine
  <2>3. k # 1 => k > 1
    BY <1>1, <2>1
  <2>4. k + 1 \in DOMAIN c
    BY <1>1, <2>2
  <2> QED
    BY <1>1, <1>4, <2>1, <2>2, <2>3, <2>4 DEF IsLine
<1>6. NameSecond(c)
  <2> SUFFICES ASSUME NEW k \in DOMAIN c, IsLine(c, k, "name")
               PROVE  k > 1 /\ IsLine(c, k - 1, "bare")
    BY DEF NameSecond
  <2>1. k \in 1 .. n
    BY <1>1, <1>2, <1>3 DEF IsLine
  <2>2. k > 1 /\ IsLine(a, k - 1, "bare")
    BY <1>1, <2>1 DEF Formed, NameSecond, IsLine
  <2> QED
    BY <1>4, <2>1, <2>2 DEF IsLine
<1>7. OtherFirst(c)
  <2> SUFFICES ASSUME NEW k \in DOMAIN c, IsLine(c, k, "other")
               PROVE  k > 1 /\ c[k - 1] = Separator
    BY DEF OtherFirst
  <2>1. k \in 1 .. n
    BY <1>1, <1>2, <1>3 DEF IsLine
  <2>2. k > 1 /\ a[k - 1] = Separator
    BY <1>1, <2>1 DEF Formed, OtherFirst, IsLine
  <2> QED
    BY <1>4, <2>1, <2>2
<1>8. LabelsOnce(c)
  <2> SUFFICES ASSUME NEW k \in DOMAIN c, NEW m \in DOMAIN c, k < m,
                      c[k] # Separator, c[m] # Separator, c[k].label = c[m].label
               PROVE  \E y \in k .. m : c[y] = Separator
    BY DEF LabelsOnce
  <2>0. k \in Nat /\ m \in Nat /\ k \in 1 .. n
    BY <1>1
  <2>1. m # n + 1
    BY <1>1, <2>0 DEF LabelsOf
  <2>2. m \in 1 .. n
    BY <1>3, <2>1
  <2>3. PICK y \in k .. m : a[y] = Separator
    BY <1>1, <2>0, <2>2 DEF Formed, LabelsOnce
  <2>4. y \in 1 .. n
    BY <1>1, <2>0, <2>2
  <2> QED
    BY <1>1, <2>3, <2>4
<1>9. Formed(c)
  BY <1>5, <1>6, <1>7, <1>8 DEF Formed
<1> QED
  BY <1>9 DEF c

---------------------------------------------------------------------------
(* The text of an entry.                                                   *)

BareLines == { LabelLine("bare", type) : type \in RecognisedType }

\* t opens with the heading of e, and has the lines V of the page.
RenderedAs(p, e, t, V) ==
    /\ t \in Seq(Parts(1 .. Len(p)))
    /\ Formed(t)
    /\ AllWords(t) = V \ Dashes(p, V)
    /\ Apart(t)
    /\ Cardinality(Separators(t)) = Cardinality(Dashes(p, V))
    /\ Cardinality(Where(t, BareLines)) = 1
    /\ Len(t) > 1
    /\ t[1] = LabelLine("bare", e.type)
    /\ t[2] = LabelLine("name", {e.name})

FieldLabel == WordLabel \ {"other"}

\* The first line of a field.
FirstLine(p, label, S) ==
    LabelLine(label, IF After(p, S, 0) = {} THEN Empty ELSE After(p, S, 0))

\* No separator opens a heading.
LEMMA BareLinesFacts ==
    /\ Separator \notin BareLines
    /\ \A x \in BareLines : x.label = "bare"
<1>1. \A type \in RecognisedType : LabelLine("bare", type) \in TextLine
  BY DEF LabelLine, TextLine, Label
<1> QED
  BY <1>1, RenderingAssumption DEF BareLines, LabelLine

\* The first line of a field has its label, and the lines before a separator.
LEMMA FirstLineFacts ==
    ASSUME NEW p \in Seq(PageLine), Readable(1 .. Len(p)),
           NEW S \in SUBSET (1 .. Len(p)), NEW label \in FieldLabel
    PROVE  LET x == FirstLine(p, label, S) IN
           /\ x \in Parts(1 .. Len(p)) /\ x # Separator /\ x.label = label
           /\ AllWords(<<x>>) = After(p, S, 0) /\ Apart(<<x>>)
           /\ Separators(<<x>>) = {} /\ Where(<<x>>, BareLines) = {}
<1> DEFINE M == 1 .. Len(p)
           A == After(p, S, 0)
           u == IF A = {} THEN Empty ELSE A
           x == FirstLine(p, label, S)
<1>1. A \in SUBSET M
  BY DEF After
<1>2. A # Empty
  BY <1>1 DEF Readable
<1>3. label \in WordLabel /\ label \notin {"other", "bare", "name"} /\ label \in Label
  BY DEF FieldLabel, WordLabel, Label, Field, ListField
<1>4. x.label = label /\ x.value = u /\ x = LabelLine(label, u)
  BY DEF FirstLine, LabelLine
<1>5. x \in TextLine
  <2>1. u \in {Empty} \cup SUBSET Nat
    <3>1. A \in SUBSET Nat
      BY <1>1 DEF Readable
    <3>2. u = Empty \/ u = A
      OBVIOUS
    <3> HIDE DEF A, u
    <3> QED
      BY <3>1, <3>2
  <2> HIDE DEF u
  <2> QED
    BY <1>3, <1>4, <2>1 DEF LabelLine, TextLine
<1>6. x \in Parts(M)
  <2>1. u \in {Empty} \cup SUBSET M
    <3>1. u = Empty \/ u = A
      OBVIOUS
    <3> HIDE DEF A, M, u
    <3> QED
      BY <1>1, <3>1
  <2> HIDE DEF u, x, M
  <2> QED
    BY <1>3, <1>4, <1>5, <2>1 DEF Parts
<1>7. x # Separator
  BY <1>5, RenderingAssumption
<1>8. x \notin BareLines
  BY <1>3, <1>4, BareLinesFacts
<1>9. Words(<<x>>, 1) = A
  <2>1. <<x>>[1] = x
    OBVIOUS
  <2>2. u = Empty => A = {}
    BY <1>2
  <2>3. u # Empty => u = A
    OBVIOUS
  <2> HIDE DEF x, u, A
  <2> QED
    BY <1>3, <1>4, <1>7, <2>1, <2>2, <2>3 DEF Words
<1> HIDE DEF x, A
<1>10. Separators(<<x>>) = {} /\ Where(<<x>>, BareLines) = {}
  BY <1>7, <1>8, SingleText DEF Separators
<1>11. AllWords(<<x>>) = A /\ Apart(<<x>>)
  BY <1>9, SingleText
<1> QED
  BY <1>4, <1>6, <1>7, <1>10, <1>11 DEF x, A

\* A field is nothing, or its first line and what follows its separators.
LEMMA FieldParts ==
    ASSUME NEW p \in Seq(PageLine), NEW S, NEW label
    PROVE  FieldText(p, label, S) =
             IF S = {} THEN <<>> ELSE <<FirstLine(p, label, S)>> \o TailText(p, S, Len(p))
<1>1. [ i \in 1 .. Len(p) |-> Tails(p, S)[i] ] = Tails(p, S)
  BY DEF Tails
<1>2. TailText(p, S, Len(p)) =
         FlattenSeq([ i \in 1 .. Len(p) |-> IF i \in Dashes(p, S) THEN Rest(p, S, i) ELSE <<>> ])
  BY <1>1 DEF TailText, Joined, Tails
<1> QED
  BY <1>2 DEF FieldText, FirstLine

\* What follows the first line of a field.
LEMMA TailIsFormed ==
    ASSUME NEW p \in Seq(PageLine), Readable(1 .. Len(p)), NEW S \in SUBSET (1 .. Len(p))
    PROVE  LET r == TailText(p, S, Len(p)) IN
           /\ r \in Seq(Parts(1 .. Len(p))) /\ Formed(r) /\ LabelsOf(r) \subseteq {"other"}
           /\ r = <<>> \/ (Len(r) > 0 /\ r[1] = Separator)
           /\ AllWords(r) = UNION { After(p, S, d) : d \in Dashes(p, S) } /\ Apart(r)
           /\ Cardinality(Separators(r)) = Cardinality(Dashes(p, S))
           /\ Where(r, BareLines) = {}
<1> DEFINE M == 1 .. Len(p)
           r == TailText(p, S, Len(p))
           D == Dashes(p, S)
<1>1. D \cap (1 .. Len(p)) = D
  BY DEF Dashes
<1>2. TailOK(p, S, Len(p))
  BY TailFacts
<1>3. /\ r \in Seq(Parts(M)) /\ Trailing(r)
      /\ AllWords(r) = UNION { After(p, S, d) : d \in D } /\ Apart(r)
      /\ Cardinality(Separators(r)) = Cardinality(D)
  BY <1>1, <1>2 DEF TailOK
<1> HIDE DEF r, M
<1>4. Formed(r) /\ LabelsOf(r) \subseteq {"other"} /\ (r = <<>> \/ r[1] = Separator)
  BY <1>3, TrailingIsFormed
<1>5. r = <<>> \/ (Len(r) > 0 /\ r[1] = Separator)
  <2>1. r # <<>> => Len(r) > 0
    BY <1>3
  <2> QED
    BY <1>4, <2>1
<1>6. Where(r, BareLines) = {}
  <2>1. \A i \in DOMAIN r : r[i] = Separator \/ r[i].label = "other"
    BY <1>3 DEF Trailing, IsLine
  <2> QED
    BY <2>1, BareLinesFacts DEF Where
<1> QED
  BY <1>3, <1>4, <1>5, <1>6 DEF r, M

\* A field behind the text of an entry adds its lines, and a separator for each
\* of its separators.
LEMMA FieldAdded ==
    ASSUME NEW p \in Seq(PageLine), Readable(1 .. Len(p)), NEW e, NEW a,
           NEW V \in SUBSET (1 .. Len(p)), NEW S \in SUBSET (1 .. Len(p)),
           V \cap S = {}, NEW label \in FieldLabel, label \notin LabelsOf(a),
           RenderedAs(p, e, a, V)
    PROVE  /\ RenderedAs(p, e, a \o FieldText(p, label, S), V \cup S)
           /\ LabelsOf(a \o FieldText(p, label, S)) \subseteq LabelsOf(a) \cup {label, "other"}
<1> DEFINE M == 1 .. Len(p)
           F == FieldText(p, label, S)
           x == FirstLine(p, label, S)
           r == TailText(p, S, Len(p))
           first == <<x>>
           b == a \o first
           c == a \o F
<1>1. /\ Cardinality(Dashes(p, V \cup S)) = Cardinality(Dashes(p, V)) + Cardinality(Dashes(p, S))
      /\ (V \cup S) \ Dashes(p, V \cup S) = (V \ Dashes(p, V)) \cup (S \ Dashes(p, S))
  <2>1. /\ Cardinality(Dashes(p, V \cup S)) =
              Cardinality(Dashes(p, V)) + Cardinality(Dashes(p, S)) - Cardinality(Dashes(p, V \cap S))
        /\ Cardinality(Dashes(p, V)) \in Nat /\ Cardinality(Dashes(p, S)) \in Nat
    BY DashesOfUnion
  <2>2. Cardinality(Dashes(p, V \cap S)) = 0
    BY NoDashes
  <2>3. Cardinality(Dashes(p, V \cup S)) = Cardinality(Dashes(p, V)) + Cardinality(Dashes(p, S))
    BY <2>1, <2>2
  <2>4. (V \cup S) \ Dashes(p, V \cup S) = (V \ Dashes(p, V)) \cup (S \ Dashes(p, S))
    BY DEF Dashes
  <2> QED
    BY <2>3, <2>4
<1>2. /\ a \in Seq(Parts(M)) /\ Formed(a) /\ AllWords(a) = V \ Dashes(p, V) /\ Apart(a)
      /\ Cardinality(Separators(a)) = Cardinality(Dashes(p, V))
      /\ Cardinality(Where(a, BareLines)) = 1
      /\ Len(a) > 1 /\ a[1] = LabelLine("bare", e.type) /\ a[2] = LabelLine("name", {e.name})
  BY DEF RenderedAs
<1>3. CASE S = {}
  <2>1. F = <<>>
    BY <1>3, FieldParts
  <2>2. c = a
    BY <1>2, <2>1, ConcatEmptySeq
  <2>3. V \cup S = V
    BY <1>3
  <2> QED
    BY <2>2, <2>3
<1>4. CASE S # {}
  <2>1. Readable(M) /\ label \in WordLabel \ {"other"}
    BY DEF FieldLabel
  <2>2. /\ x \in Parts(M) /\ x # Separator /\ x.label = label
        /\ AllWords(first) = After(p, S, 0) /\ Apart(first)
        /\ Separators(first) = {} /\ Where(first, BareLines) = {}
    BY FirstLineFacts
  <2>3. /\ r \in Seq(Parts(M)) /\ Formed(r) /\ LabelsOf(r) \subseteq {"other"}
        /\ r = <<>> \/ (Len(r) > 0 /\ r[1] = Separator)
        /\ AllWords(r) = UNION { After(p, S, d) : d \in Dashes(p, S) } /\ Apart(r)
        /\ Cardinality(Separators(r)) = Cardinality(Dashes(p, S))
        /\ Where(r, BareLines) = {}
    BY TailIsFormed
  <2>4. /\ S \ Dashes(p, S) = AllWords(first) \cup AllWords(r)
        /\ AllWords(first) \cap AllWords(r) = {}
        /\ AllWords(first) \subseteq S /\ AllWords(r) \subseteq S
    <3>1. S \ Dashes(p, S) = AllWords(first) \cup AllWords(r)
      BY <2>2, <2>3, AfterFacts
    <3>2. \A d \in Dashes(p, S) : After(p, S, 0) \cap After(p, S, d) = {}
      BY AfterFacts
    <3> HIDE DEF x, r
    <3> QED
      BY <2>2, <2>3, <3>1, <3>2
  <2>5. F = first \o r
    BY <1>4, FieldParts
  <2>6. AllWords(a) \cap S = {}
    BY <1>2
  <2>7. label \notin LabelsOf(a)
    OBVIOUS
  <2>8. Len(p) \in Nat
    OBVIOUS
  <2> HIDE DEF x, r, M, F
  <2>9. first \in Seq(Parts(M))
    BY <2>2
  <2>10. Formed(b)
    BY <1>2, <2>1, <2>2, <2>7, NewLabel
  <2>11. /\ \A i \in 1 .. Len(a) : b[i] = a[i]
         /\ Len(b) = Len(a) + 1
    BY <1>2, <2>2
  <2>12. LabelsOf(first) = {label}
    <3>1. DOMAIN first = {1} /\ first[1] = x
      OBVIOUS
    <3> HIDE DEF first
    <3> QED
      BY <2>2, <3>1 DEF LabelsOf
  <2> HIDE DEF first
  <2>13. c = b \o r
    <3>1. a \in Seq(Parts(M)) /\ r \in Seq(Parts(M))
      BY <1>2, <2>3
    <3>2. (a \o first) \o r = a \o (first \o r)
      BY <2>9, <3>1, ConcatAssociative
    <3> QED
      BY <2>5, <3>2
  <2>14. b \in Seq(Parts(M))
    BY <1>2, <2>9, ConcatFacts
  <2>15. LabelsOf(b) \subseteq LabelsOf(a) \cup {label}
    BY <1>2, <2>9, <2>12, LabelsOfConcat
  <2>16. AllWords(b) = AllWords(a) \cup AllWords(first)
    BY <1>2, <2>9, WordsOfConcat
  <2>17. Apart(b)
    <3>1. AllWords(a) \cap AllWords(first) = {}
      BY <2>4, <2>6
    <3> QED
      BY <1>2, <2>2, <2>9, <3>1, WordsOfConcat
  <2>18. Cardinality({}) = 0
    BY FS_EmptySet
  <2>19. /\ Cardinality(Separators(b)) = Cardinality(Separators(a)) + Cardinality(Separators(first))
         /\ Cardinality(Where(b, BareLines)) =
               Cardinality(Where(a, BareLines)) + Cardinality(Where(first, BareLines))
         /\ Cardinality(Separators(a)) \in Nat
    BY <1>2, <2>9, WhereOfConcat DEF Separators
  <2>20. /\ Cardinality(Separators(b)) = Cardinality(Separators(a))
         /\ Cardinality(Where(b, BareLines)) = 1
    BY <1>2, <2>2, <2>18, <2>19
  <2> HIDE DEF b, c
  <2>21. c \in Seq(Parts(M))
    BY <2>3, <2>13, <2>14, ConcatFacts
  <2>22. Formed(c)
    <3>1. CASE r = <<>>
      <4>1. c = b
        BY <2>13, <2>14, <3>1, ConcatEmptySeq
      <4> QED
        BY <2>10, <4>1
    <3>2. CASE Len(r) > 0 /\ r[1] = Separator
      BY <2>3, <2>13, <2>14, <2>10, <3>2, CutConcat
    <3> QED
      BY <2>3, <3>1, <3>2
  <2>23. LabelsOf(c) \subseteq LabelsOf(a) \cup {label, "other"}
    <3>1. LabelsOf(c) \subseteq LabelsOf(b) \cup LabelsOf(r)
      BY <2>3, <2>13, <2>14, LabelsOfConcat
    <3> QED
      BY <2>3, <2>15, <3>1
  <2>24. AllWords(c) = AllWords(b) \cup AllWords(r)
    BY <2>3, <2>13, <2>14, WordsOfConcat
  <2>25. AllWords(c) = (V \cup S) \ Dashes(p, V \cup S)
    BY <1>1, <1>2, <2>4, <2>16, <2>24
  <2>26. Apart(c)
    <3>1. AllWords(b) \cap AllWords(r) = {}
      BY <2>4, <2>6, <2>16
    <3> QED
      BY <2>3, <2>13, <2>14, <2>17, <3>1, WordsOfConcat
  <2>27. /\ Cardinality(Separators(c)) = Cardinality(Separators(b)) + Cardinality(Separators(r))
         /\ Cardinality(Where(c, BareLines)) =
               Cardinality(Where(b, BareLines)) + Cardinality(Where(r, BareLines))
    <3>1. Cardinality(Separators(c)) = Cardinality(Separators(b)) + Cardinality(Separators(r))
      BY <2>3, <2>13, <2>14, WhereOfConcat DEF Separators
    <3>2. Cardinality(Where(c, BareLines)) =
             Cardinality(Where(b, BareLines)) + Cardinality(Where(r, BareLines))
      BY <2>3, <2>13, <2>14, WhereOfConcat
    <3> QED
      BY <3>1, <3>2
  <2>28. /\ Cardinality(Separators(c)) = Cardinality(Dashes(p, V \cup S))
         /\ Cardinality(Where(c, BareLines)) = 1
    <3>1. Cardinality(Where(r, BareLines)) = 0
      BY <2>3, <2>18
    <3>2. Cardinality(Where(c, BareLines)) = 1 + 0
      BY <2>20, <2>27, <3>1
    <3>3. Cardinality(Separators(c)) = Cardinality(Dashes(p, V)) + Cardinality(Dashes(p, S))
      BY <1>2, <2>3, <2>20, <2>27
    <3> QED
      BY <1>1, <3>2, <3>3
  <2>29. Len(c) > 1 /\ c[1] = a[1] /\ c[2] = a[2]
    <3>1. /\ Len(a) \in Nat /\ Len(b) \in Nat /\ Len(r) \in Nat /\ Len(c) = Len(b) + Len(r)
      BY <1>2, <2>3, <2>13, <2>14, ConcatFacts
    <3>2. \A i \in 1 .. Len(b) : c[i] = b[i]
      BY <2>3, <2>13, <2>14, ConcatFacts
    <3>3. Len(a) > 1
      BY <1>2
    <3>4. 1 \in 1 .. Len(a) /\ 2 \in 1 .. Len(a) /\ 1 \in 1 .. Len(b) /\ 2 \in 1 .. Len(b) /\ Len(c) > 1
      BY <2>11, <3>1, <3>3
    <3> QED
      BY <2>11, <3>2, <3>4
  <2>30. RenderedAs(p, e, c, V \cup S)
    BY <1>2, <2>21, <2>22, <2>25, <2>26, <2>28, <2>29 DEF RenderedAs, M
  <2> QED
    BY <2>23, <2>30 DEF c, F
<1> QED
  BY <1>3, <1>4

---------------------------------------------------------------------------
(* The paragraphs of an entry, and what becomes of each.                   *)

\* The paragraphs cut a set of lines up, with a cut before every opening.
LEMMA RunsFacts ==
    ASSUME NEW S, NEW D
    PROVE  /\ \A B \in Runs(S, D) : \A C \in Runs(S, D) : B # C => B \cap C = {}
           /\ \A B \in Runs(S, D) : B \subseteq S
           /\ \A i \in S : \E B \in Runs(S, D) : i \in B
           /\ \A B \in Runs(S, D) : \A i \in B : \A j \in S :
                 j \in B <=> \A d \in D : (i < d <=> j < d)
           /\ \A B \in Runs(S, D) : B # {}
<1> DEFINE Run(i) == { j \in S : \A d \in D : (i < d <=> j < d) }
<1>1. Runs(S, D) = { Run(i) : i \in S }
  BY DEF Runs
<1>2. \A i \in S : \A j \in S : j \in Run(i) <=> \A d \in D : (i < d <=> j < d)
  OBVIOUS
<1>3. \A i \in S : i \in Run(i) /\ Run(i) \subseteq S
  OBVIOUS
<1>4. ASSUME NEW i \in S, NEW j \in S, NEW k \in S, k \in Run(i), k \in Run(j)
      PROVE  Run(i) = Run(j)
  <2>1. \A d \in D : (i < d <=> j < d)
    BY <1>2, <1>4
  <2> QED
    BY <2>1
<1> HIDE DEF Run
<1>5. \A B \in Runs(S, D) : \A C \in Runs(S, D) : B # C => B \cap C = {}
  BY <1>1, <1>3, <1>4
<1>6. \A B \in Runs(S, D) : B \subseteq S /\ B # {}
  BY <1>1, <1>3
<1>7. \A i \in S : \E B \in Runs(S, D) : i \in B
  BY <1>1, <1>3
<1>8. ASSUME NEW B \in Runs(S, D), NEW i \in B, NEW j \in S
      PROVE  j \in B <=> \A d \in D : (i < d <=> j < d)
  <2>1. i \in S
    BY <1>6
  <2>2. PICK k \in S : B = Run(k)
    BY <1>1
  <2>3. i \in Run(i) /\ i \in Run(k)
    BY <1>3, <2>1, <2>2
  <2>4. B = Run(i)
    BY <1>4, <2>1, <2>2, <2>3
  <2> QED
    BY <1>2, <2>1, <2>4
<1> QED
  BY <1>5, <1>6, <1>7, <1>8

\* Every line of the body in at most one part of the block.
LEMMA PartsOfEntry ==
    ASSUME NEW p, NEW body
    PROVE  LET T == UNION TraitParagraphs(p, body)
               G == ClauseOf(p, body, "trigger")
               Q == ClauseOf(p, body, "requirements")
               E == Effect(p, body)
           IN  /\ T \subseteq body /\ G \subseteq body /\ Q \subseteq body /\ E \subseteq body
               /\ T \cap G = {} /\ (T \cup G) \cap Q = {} /\ ((T \cup G) \cup Q) \cap E = {}
<1> DEFINE P == Paragraphs(p, body)
           X == TraitParagraphs(p, body)
           Y(label) == Opening(p, body, label)
           T == UNION X
           G == ClauseOf(p, body, "trigger")
           Q == ClauseOf(p, body, "requirements")
           E == Effect(p, body)
<1>1. /\ \A B \in P : \A C \in P : B # C => B \cap C = {}
      /\ \A B \in P : B \subseteq body
  <2> DEFINE blanks == { i \in body : Is(p, i, "blank") }
  <2>1. P = Runs(body \ blanks, blanks)
    BY DEF Paragraphs
  <2> HIDE DEF blanks
  <2>2. \A B \in P : \A C \in P : B # C => B \cap C = {}
    BY <2>1, RunsFacts
  <2>3. \A B \in P : B \subseteq body \ blanks
    BY <2>1, RunsFacts
  <2> QED
    BY <2>2, <2>3
<1>2. X \subseteq P
  BY DEF TraitParagraphs
<1>3. \A label : Y(label) \subseteq P \ X
  BY DEF Opening
<1>4. Y("trigger") \cap Y("requirements") = {}
  BY DEF Opening, Opens, Is
<1>5. \A label : \A i \in ClauseOf(p, body, label) : \E B \in Y(label) : i \in Clause(p, B)
  BY DEF ClauseOf
<1>6. \A B : Clause(p, B) \subseteq B
  BY DEF Clause
<1>7. \A i \in E :
         \/ \E B \in P \ (X \cup (Y("requirements") \cup Y("trigger"))) : i \in B
         \/ \E B \in Y("requirements") \cup Y("trigger") : i \in B \ Clause(p, B)
  <2> DEFINE L == Y("requirements") \cup Y("trigger")
  <2>1. E = (UNION (P \ (X \cup L))) \cup (UNION { B \ Clause(p, B) : B \in L })
    BY DEF Effect, LabelledParagraphs
  <2> HIDE DEF P, X, E, L
  <2>2. \A i \in E : \/ \E B \in P \ (X \cup L) : i \in B
                     \/ \E B \in L : i \in B \ Clause(p, B)
    BY <2>1
  <2> QED
    BY <2>2 DEF L
<1> HIDE DEF P, X, Y, G, Q, E
<1>8. \A i \in G : \E B \in Y("trigger") : i \in Clause(p, B)
  BY <1>5 DEF G
<1>9. \A i \in Q : \E B \in Y("requirements") : i \in Clause(p, B)
  BY <1>5 DEF Q
<1>10. \A i \in T : \E B \in X : i \in B
  OBVIOUS
<1>11. \A B \in P : \A C \in P : \A i : i \in B /\ i \in C => B = C
  BY <1>1
<1> HIDE DEF T
<1>12. T \cap G = {}
  BY <1>2, <1>3, <1>6, <1>8, <1>10, <1>11
<1>13. T \cap Q = {}
  BY <1>2, <1>3, <1>6, <1>9, <1>10, <1>11
<1>14. G \cap Q = {}
  BY <1>3, <1>4, <1>6, <1>8, <1>9, <1>11
<1>15. T \cap E = {}
  BY <1>2, <1>3, <1>7, <1>10, <1>11
<1>16. G \cap E = {}
  BY <1>3, <1>6, <1>7, <1>8, <1>11
<1>17. Q \cap E = {}
  BY <1>3, <1>6, <1>7, <1>9, <1>11
<1>18. T \subseteq body /\ G \subseteq body /\ Q \subseteq body /\ E \subseteq body
  BY <1>1, <1>2, <1>3, <1>6, <1>7, <1>8, <1>9, <1>10
<1>19. (T \cup G) \cap Q = {} /\ ((T \cup G) \cup Q) \cap E = {}
  BY <1>13, <1>14, <1>15, <1>16, <1>17
<1> QED
  BY <1>12, <1>18, <1>19 DEF T, G, Q, E, X

\* The lines of the page in the block of an entry.
LinesOf(p, l, e) ==
    IF l = "actions"
      THEN (UNION TraitParagraphs(p, e.body))
             \cup ClauseOf(p, e.body, "trigger")
             \cup ClauseOf(p, e.body, "requirements")
             \cup Effect(p, e.body)
      ELSE e.traits \cup e.body

\* A line of the body that is in no part of the block stood behind a label
\* that a later paragraph repeats.
LEMMA LinesKept ==
    ASSUME NEW p, NEW l, NEW e, NEW i \in e.body, i \notin LinesOf(p, l, e),
           ~Is(p, i, "blank")
    PROVE  \E label \in {"requirements", "trigger"} :
             \E q \in Opening(p, e.body, label) : \E r \in Opening(p, e.body, label) :
                i \in Clause(p, q) /\ ~(Min(r) <= Min(q))
<1> DEFINE body == e.body
           P == Paragraphs(p, body)
           X == TraitParagraphs(p, body)
           L == LabelledParagraphs(p, body)
<1>1. l = "actions"
  BY DEF LinesOf
<1>2. /\ i \notin UNION X /\ i \notin Effect(p, body)
      /\ \A label \in {"requirements", "trigger"} : i \notin ClauseOf(p, body, label)
  <2>1. LinesOf(p, l, e) = (UNION X) \cup ClauseOf(p, body, "trigger")
                              \cup ClauseOf(p, body, "requirements") \cup Effect(p, body)
    BY <1>1 DEF LinesOf
  <2> HIDE DEF X, body
  <2> QED
    BY <2>1
<1>3. PICK B \in P : i \in B
  <2> DEFINE blanks == { j \in body : Is(p, j, "blank") }
  <2>1. P = Runs(body \ blanks, blanks) /\ i \in body \ blanks
    BY DEF Paragraphs
  <2> HIDE DEF blanks
  <2> QED
    BY <2>1, RunsFacts
<1>4. B \notin X
  BY <1>2, <1>3
<1>5. B \in L /\ i \in Clause(p, B)
  <2>1. Effect(p, body) = (UNION (P \ (X \cup L))) \cup (UNION { C \ Clause(p, C) : C \in L })
    BY DEF Effect
  <2> HIDE DEF P, X, L, body
  <2> QED
    BY <1>2, <1>3, <1>4, <2>1
<1>6. PICK label \in {"requirements", "trigger"} : B \in Opening(p, body, label)
  BY <1>5 DEF LabelledParagraphs
<1>7. ~\A r \in Opening(p, body, label) : Min(r) <= Min(B)
  BY <1>2, <1>5, <1>6 DEF ClauseOf
<1> QED
  BY <1>5, <1>6, <1>7

\* The heading of an entry, before its fields.
LEMMA HeadingText ==
    ASSUME NEW p \in Seq(PageLine), Readable(1 .. Len(p)), NEW e,
           e.type \in RecognisedType, e.name \in 1 .. Len(p)
    PROVE  /\ RenderedAs(p, e, Heading(e), {})
           /\ LabelsOf(Heading(e)) \subseteq {"bare", "name"}
<1> DEFINE M == 1 .. Len(p)
           x == LabelLine("bare", e.type)
           y == LabelLine("name", {e.name})
           t == Heading(e)
<1>1. x.label = "bare" /\ x.value = e.type /\ y.label = "name" /\ y.value = {e.name}
  BY DEF LabelLine
<1>2. {e.name} \in SUBSET M /\ {e.name} \in SUBSET Nat
  OBVIOUS
<1>3. x \in TextLine /\ y \in TextLine
  BY <1>2 DEF LabelLine, TextLine, Label, Field
<1>4. x # Separator /\ y # Separator
  BY <1>3, RenderingAssumption
<1>5. x \in BareLines
  BY DEF BareLines
<1>6. y \notin BareLines
  BY <1>1, BareLinesFacts
<1>7. t = <<x, y>>
  BY DEF Heading
<1>8. x \in Parts(M) /\ y \in Parts(M)
  <2> HIDE DEF x, y, M
  <2> QED
    BY <1>1, <1>2, <1>3 DEF Parts, WordLabel
<1> HIDE DEF x, y, M
<1>9. DOMAIN t = {1, 2} /\ Len(t) = 2 /\ t[1] = x /\ t[2] = y
  BY <1>7
<1>10. t \in Seq(Parts(M))
  BY <1>7, <1>8
<1> HIDE DEF t
<1>11. Formed(t)
  <2>1. BareFirst(t) /\ NameSecond(t) /\ OtherFirst(t)
    BY <1>1, <1>4, <1>9 DEF BareFirst, NameSecond, OtherFirst, IsLine
  <2>2. LabelsOnce(t)
    BY <1>1, <1>9 DEF LabelsOnce
  <2> QED
    BY <2>1, <2>2 DEF Formed
<1>12. \A i \in DOMAIN t : Words(t, i) = {}
  BY <1>1, <1>9 DEF Words, WordLabel
<1>13. AllWords(t) = {} /\ Apart(t)
  BY <1>12 DEF AllWords, Apart
<1>14. Separators(t) = {}
  BY <1>4, <1>9 DEF Separators, Where
<1>15. Where(t, BareLines) = {1}
  BY <1>5, <1>6, <1>9 DEF Where
<1>16. Dashes(p, {}) = {}
  BY DEF Dashes
<1>17. Cardinality({}) = 0 /\ Cardinality({1}) = 1
  BY FS_EmptySet, FS_Singleton
<1>18. LabelsOf(t) \subseteq {"bare", "name"}
  BY <1>1, <1>9 DEF LabelsOf
<1>19. RenderedAs(p, e, t, {})
  <2>1. AllWords(t) = {} \ Dashes(p, {}) /\ Cardinality(Separators(t)) = Cardinality(Dashes(p, {}))
    BY <1>13, <1>14, <1>16
  <2>2. Cardinality(Where(t, BareLines)) = 1 /\ Len(t) > 1
    BY <1>9, <1>15, <1>17
  <2> QED
    BY <1>9, <1>10, <1>11, <1>13, <2>1, <2>2 DEF RenderedAs, M, x, y
<1> QED
  BY <1>18, <1>19 DEF t

\* The block of an entry has its heading and its lines.
LEMMA EntryText ==
    ASSUME NEW p \in Seq(PageLine), Readable(1 .. Len(p)), NEW l, NEW e,
           e.type \in RecognisedType, e.name \in 1 .. Len(p),
           e.traits \subseteq 1 .. Len(p), e.body \subseteq 1 .. Len(p),
           e.traits \cap e.body = {}
    PROVE  RenderedAs(p, e, Render(p, l, e), LinesOf(p, l, e))
<1> DEFINE M == 1 .. Len(p)
           h == Heading(e)
<1>1. RenderedAs(p, e, h, {}) /\ LabelsOf(h) \subseteq {"bare", "name"}
  BY HeadingText
<1>2. {"traits", "trigger", "requirements", "effect"} \subseteq FieldLabel
  BY DEF FieldLabel, WordLabel
<1> HIDE DEF h
<1>3. ASSUME NEW T \in SUBSET M
      PROVE  LET a == h \o FieldText(p, "traits", T) IN
             /\ RenderedAs(p, e, a, T) /\ LabelsOf(a) \subseteq {"bare", "name", "traits", "other"}
  <2> DEFINE a == h \o FieldText(p, "traits", T)
  <2>1. {} \in SUBSET M /\ {} \cap T = {} /\ "traits" \in FieldLabel /\ {} \cup T = T
    BY <1>2
  <2>2. "traits" \notin LabelsOf(h)
    BY <1>1
  <2>3. RenderedAs(p, e, a, {} \cup T) /\ LabelsOf(a) \subseteq LabelsOf(h) \cup {"traits", "other"}
    BY <1>1, <2>1, <2>2, FieldAdded
  <2> HIDE DEF a
  <2>4. RenderedAs(p, e, a, T) /\ LabelsOf(a) \subseteq {"bare", "name", "traits", "other"}
    BY <1>1, <2>1, <2>3
  <2> QED
    BY <2>4 DEF a
<1>4. CASE l = "actions"
  <2> DEFINE T == UNION TraitParagraphs(p, e.body)
             G == ClauseOf(p, e.body, "trigger")
             Q == ClauseOf(p, e.body, "requirements")
             E == Effect(p, e.body)
             a == h \o FieldText(p, "traits", T)
             b == a \o FieldText(p, "trigger", G)
             c == b \o FieldText(p, "requirements", Q)
             d == c \o FieldText(p, "effect", E)
  <2>1. /\ T \subseteq e.body /\ G \subseteq e.body /\ Q \subseteq e.body /\ E \subseteq e.body
        /\ T \cap G = {} /\ (T \cup G) \cap Q = {} /\ ((T \cup G) \cup Q) \cap E = {}
    BY PartsOfEntry
  <2>2. Render(p, l, e) = d /\ LinesOf(p, l, e) = ((T \cup G) \cup Q) \cup E
    <3>1. Render(p, l, e) = RenderBlock(p, e)
      BY <1>4 DEF Render
    <3>2. RenderBlock(p, e) = d
      BY DEF RenderBlock, h
    <3>3. LinesOf(p, l, e) = ((T \cup G) \cup Q) \cup E
      BY <1>4 DEF LinesOf
    <3> QED
      BY <3>1, <3>2, <3>3
  <2> HIDE DEF T, G, Q, E
  <2>3. /\ T \in SUBSET M /\ G \in SUBSET M /\ Q \in SUBSET M /\ E \in SUBSET M
        /\ T \cup G \in SUBSET M /\ (T \cup G) \cup Q \in SUBSET M
    BY <2>1
  <2>4. RenderedAs(p, e, a, T) /\ LabelsOf(a) \subseteq {"bare", "name", "traits", "other"}
    BY <1>3, <2>3
  <2> HIDE DEF a
  <2>5. "trigger" \notin LabelsOf(a) /\ "trigger" \in FieldLabel
    BY <1>2, <2>4
  <2>6. /\ RenderedAs(p, e, b, T \cup G)
        /\ LabelsOf(b) \subseteq LabelsOf(a) \cup {"trigger", "other"}
    BY <2>1, <2>3, <2>4, <2>5, FieldAdded
  <2> HIDE DEF b
  <2>7. "requirements" \notin LabelsOf(b) /\ "requirements" \in FieldLabel
    BY <1>2, <2>4, <2>6
  <2>8. /\ RenderedAs(p, e, c, (T \cup G) \cup Q)
        /\ LabelsOf(c) \subseteq LabelsOf(b) \cup {"requirements", "other"}
    BY <2>1, <2>3, <2>6, <2>7, FieldAdded
  <2> HIDE DEF c
  <2>9. "effect" \notin LabelsOf(c) /\ "effect" \in FieldLabel
    BY <1>2, <2>4, <2>6, <2>8
  <2>10. RenderedAs(p, e, d, ((T \cup G) \cup Q) \cup E)
    BY <2>1, <2>3, <2>8, <2>9, FieldAdded
  <2> QED
    BY <2>2, <2>10
<1>5. CASE l # "actions"
  <2> DEFINE T == e.traits
             E == e.body
             a == h \o FieldText(p, "traits", T)
             d == a \o FieldText(p, "effect", E)
  <2>1. Render(p, l, e) = d /\ LinesOf(p, l, e) = T \cup E
    BY <1>5 DEF Render, RenderProse, LinesOf, h
  <2>2. T \in SUBSET M /\ E \in SUBSET M /\ T \cap E = {}
    OBVIOUS
  <2> HIDE DEF T, E
  <2>3. RenderedAs(p, e, a, T) /\ LabelsOf(a) \subseteq {"bare", "name", "traits", "other"}
    BY <1>3, <2>2
  <2> HIDE DEF a
  <2>4. "effect" \notin LabelsOf(a) /\ "effect" \in FieldLabel
    BY <1>2, <2>3
  <2>5. RenderedAs(p, e, d, T \cup E)
    BY <2>2, <2>3, <2>4, FieldAdded
  <2> QED
    BY <2>1, <2>5
<1> QED
  BY <1>4, <1>5

---------------------------------------------------------------------------
(* The text of the page.                                                   *)

\* What an entry has to be to be rendered.
EntryOnPage(p, e) ==
    /\ e.type \in RecognisedType
    /\ e.name \in 1 .. Len(p)
    /\ e.traits \subseteq 1 .. Len(p)
    /\ e.body \subseteq 1 .. Len(p)
    /\ e.traits \cap e.body = {}

\* es are entries of p, no two of which have a line in common.
EntriesOfPage(p, l, es) ==
    /\ \A n \in 1 .. Len(es) : EntryOnPage(p, es[n])
    /\ \A m, n \in 1 .. Len(es) : m # n => LinesOf(p, l, es[m]) \cap LinesOf(p, l, es[n]) = {}

Pieces(p, l, es) ==
    [ n \in 1 .. Len(es) |-> (IF n = 1 THEN <<>> ELSE <<Separator>>) \o Render(p, l, es[n]) ]

PageText(p, l, es, n) == Joined(Pieces(p, l, es), n)

LinesUpTo(p, l, es, n) == UNION { LinesOf(p, l, es[k]) : k \in 1 .. n }

\* The heading of e stands in t.
HasHeading(t, e) ==
    \E i \in DOMAIN t : /\ i + 1 \in DOMAIN t
                        /\ t[i] = LabelLine("bare", e.type)
                        /\ t[i + 1] = LabelLine("name", {e.name})

PageTextOK(p, l, es, n) ==
    LET t == PageText(p, l, es, n)
        V == LinesUpTo(p, l, es, n)
    IN  /\ t \in Seq(Parts(1 .. Len(p)))
        /\ Formed(t)
        /\ AllWords(t) = V \ Dashes(p, V)
        /\ Apart(t)
        /\ Cardinality(Separators(t)) = Cardinality(Dashes(p, V)) + (IF n = 0 THEN 0 ELSE n - 1)
        /\ Cardinality(Where(t, BareLines)) = n
        /\ \A k \in 1 .. n : HasHeading(t, es[k])

\* The rendered page is the text of all its entries.
LEMMA OutputIsPageText ==
    ASSUME NEW p, NEW l, NEW es
    PROVE  Output(p, l, es) = PageText(p, l, es, Len(es))
<1>1. [ n \in 1 .. Len(es) |-> Pieces(p, l, es)[n] ] = Pieces(p, l, es)
  BY DEF Pieces
<1> QED
  BY <1>1 DEF Output, PageText, Joined, Pieces

\* The lines of an entry are of its traits or of its body.
LEMMA LinesOfEntry ==
    ASSUME NEW p, NEW l, NEW e, EntryOnPage(p, e)
    PROVE  LinesOf(p, l, e) \subseteq e.traits \cup e.body
<1>1. CASE l = "actions"
  <2> DEFINE T == UNION TraitParagraphs(p, e.body)
             G == ClauseOf(p, e.body, "trigger")
             Q == ClauseOf(p, e.body, "requirements")
             E == Effect(p, e.body)
  <2>1. T \subseteq e.body /\ G \subseteq e.body /\ Q \subseteq e.body /\ E \subseteq e.body
    BY PartsOfEntry
  <2>2. LinesOf(p, l, e) = T \cup G \cup Q \cup E
    BY <1>1 DEF LinesOf
  <2> HIDE DEF T, G, Q, E
  <2> QED
    BY <2>1, <2>2
<1>2. CASE l # "actions"
  BY <1>2 DEF LinesOf
<1> QED
  BY <1>1, <1>2

\* A heading stays where it is, or moves with the text it is in.
LEMMA HeadingOfConcat ==
    ASSUME NEW S, NEW a \in Seq(S), NEW b \in Seq(S), NEW e, HasHeading(a, e) \/ HasHeading(b, e)
    PROVE  HasHeading(a \o b, e)
<1> DEFINE c == a \o b
           n == Len(a)
<1>1. /\ n \in Nat /\ Len(b) \in Nat
      /\ DOMAIN a = 1 .. n /\ DOMAIN b = 1 .. Len(b) /\ DOMAIN c = 1 .. n + Len(b)
  BY ConcatFacts
<1>2. \A i \in 1 .. n : c[i] = a[i]
  BY ConcatFacts
<1>3. \A i \in 1 .. Len(b) : c[n + i] = b[i]
  BY ConcatFacts
<1> HIDE DEF c, n
<1>4. CASE HasHeading(a, e)
  <2>1. PICK i \in 1 .. n : /\ i + 1 \in 1 .. n
                            /\ a[i] = LabelLine("bare", e.type)
                            /\ a[i + 1] = LabelLine("name", {e.name})
    BY <1>1, <1>4 DEF HasHeading
  <2>2. i \in DOMAIN c /\ i + 1 \in DOMAIN c
    BY <1>1, <2>1
  <2>3. HasHeading(c, e)
    BY <1>2, <2>1, <2>2 DEF HasHeading
  <2> QED
    BY <2>3 DEF c
<1>5. CASE HasHeading(b, e)
  <2>1. PICK i \in 1 .. Len(b) : /\ i + 1 \in 1 .. Len(b)
                                 /\ b[i] = LabelLine("bare", e.type)
                                 /\ b[i + 1] = LabelLine("name", {e.name})
    BY <1>1, <1>5 DEF HasHeading
  <2>2. n + i \in DOMAIN c /\ (n + i) + 1 \in DOMAIN c /\ (n + i) + 1 = n + (i + 1)
    BY <1>1, <2>1
  <2>3. c[n + i] = b[i] /\ c[(n + i) + 1] = b[i + 1]
    BY <1>3, <2>1, <2>2
  <2>4. HasHeading(c, e)
    BY <2>1, <2>2, <2>3 DEF HasHeading
  <2> QED
    BY <2>4 DEF c
<1> QED
  BY <1>4, <1>5

\* The block of an entry, alone and behind a separator.
LEMMA PieceText ==
    ASSUME NEW p \in Seq(PageLine), Readable(1 .. Len(p)), NEW l, NEW e, EntryOnPage(p, e)
    PROVE  LET r == Render(p, l, e)
               q == <<Separator>> \o r
               V == LinesOf(p, l, e)
           IN  /\ r \in Seq(Parts(1 .. Len(p))) /\ RenderedAs(p, e, r, V) /\ HasHeading(r, e)
               /\ q \in Seq(Parts(1 .. Len(p))) /\ Formed(q) /\ HasHeading(q, e)
               /\ Len(q) > 0 /\ q[1] = Separator
               /\ AllWords(q) = V \ Dashes(p, V) /\ Apart(q)
               /\ Cardinality(Separators(q)) = 1 + Cardinality(Dashes(p, V))
               /\ Cardinality(Where(q, BareLines)) = 1
<1> DEFINE M == 1 .. Len(p)
           V == LinesOf(p, l, e)
           s == <<Separator>>
           r == Render(p, l, e)
           q == s \o r
<1>1. RenderedAs(p, e, r, V)
  BY EntryText DEF EntryOnPage
<1>2. /\ r \in Seq(Parts(M)) /\ Formed(r) /\ AllWords(r) = V \ Dashes(p, V) /\ Apart(r)
      /\ Cardinality(Separators(r)) = Cardinality(Dashes(p, V))
      /\ Cardinality(Where(r, BareLines)) = 1
      /\ Len(r) > 1 /\ r[1] = LabelLine("bare", e.type) /\ r[2] = LabelLine("name", {e.name})
  BY <1>1 DEF RenderedAs
<1>3. /\ s \in Seq(Parts(M)) /\ AllWords(s) = {} /\ Apart(s) /\ Separators(s) = {1} /\ Trailing(s)
  BY SeparatorText
<1>4. Len(s) = 1 /\ s[1] = Separator /\ DOMAIN s = {1}
  OBVIOUS
<1>5. Where(s, BareLines) = {}
  BY <1>4, BareLinesFacts DEF Where
<1>6. Cardinality({}) = 0 /\ Cardinality({1}) = 1
  BY FS_EmptySet, FS_Singleton
<1> HIDE DEF M, V, s, r
<1>7. Formed(s)
  BY <1>3, TrailingIsFormed
<1>8. Formed(q)
  <2>1. Len(s) > 0 /\ s[Len(s)] = Separator
    BY <1>4
  <2> QED
    BY <1>2, <1>3, <1>7, <2>1, CutConcat
<1>9. HasHeading(r, e)
  <2>1. 1 \in DOMAIN r /\ 1 + 1 \in DOMAIN r /\ 1 + 1 = 2
    BY <1>2
  <2> QED
    BY <1>2, <2>1 DEF HasHeading
<1>10. HasHeading(q, e)
  BY <1>2, <1>3, <1>9, HeadingOfConcat
<1>11. q \in Seq(Parts(M)) /\ Len(q) = 1 + Len(r) /\ Len(r) \in Nat
  <2>1. q \in Seq(Parts(M))
    BY <1>2, <1>3, ConcatFacts
  <2>2. Len(q) = Len(s) + Len(r) /\ Len(r) \in Nat
    BY <1>2, <1>3, ConcatFacts
  <2> HIDE DEF q
  <2> QED
    BY <1>4, <2>1, <2>2
<1>12. q[1] = Separator
  <2>1. 1 \in 1 .. Len(s)
    BY <1>4
  <2>2. q[1] = s[1]
    BY <1>2, <1>3, <2>1, ConcatFacts
  <2> QED
    BY <1>4, <2>2
<1>13. AllWords(q) = AllWords(s) \cup AllWords(r)
  BY <1>2, <1>3, WordsOfConcat
<1>14. Apart(q)
  <2>1. AllWords(s) \cap AllWords(r) = {}
    BY <1>3
  <2> QED
    BY <1>2, <1>3, <2>1, WordsOfConcat
<1>15. Cardinality(Separators(q)) = Cardinality(Separators(s)) + Cardinality(Separators(r))
  BY <1>2, <1>3, WhereOfConcat DEF Separators
<1>16. Cardinality(Where(q, BareLines)) = Cardinality(Where(s, BareLines)) + Cardinality(Where(r, BareLines))
  BY <1>2, <1>3, WhereOfConcat
<1> HIDE DEF q
<1>17. Cardinality(Where(q, BareLines)) = 1
  BY <1>2, <1>5, <1>6, <1>16
<1>18. Cardinality(Separators(q)) = 1 + Cardinality(Dashes(p, V))
  BY <1>2, <1>3, <1>6, <1>15
<1>19. AllWords(q) = V \ Dashes(p, V)
  BY <1>2, <1>3, <1>13
<1>20. Len(q) > 0
  BY <1>11
<1> QED
  BY <1>1, <1>2, <1>8, <1>9, <1>10, <1>11, <1>12, <1>14, <1>17, <1>18, <1>19, <1>20 DEF M, V, s, r, q

\* The text of one entry more.
LEMMA OneMorePiece ==
    ASSUME NEW p \in Seq(PageLine), Readable(1 .. Len(p)), NEW l, NEW es,
           EntriesOfPage(p, l, es), NEW n \in Nat, Len(es) \in Nat, n + 1 <= Len(es),
           PageTextOK(p, l, es, n)
    PROVE  PageTextOK(p, l, es, n + 1)
<1> DEFINE M == 1 .. Len(p)
           f == Pieces(p, l, es)
           e == es[n + 1]
           L == LinesOf(p, l, e)
           t == PageText(p, l, es, n)
           u == PageText(p, l, es, n + 1)
           V == LinesUpTo(p, l, es, n)
           W == LinesUpTo(p, l, es, n + 1)
           r == Render(p, l, e)
           q == <<Separator>> \o r
<1>1. \A k \in 1 .. n + 1 : k \in 1 .. Len(es)
  OBVIOUS
<1>2. \A k \in 1 .. n + 1 : EntryOnPage(p, es[k])
  BY <1>1 DEF EntriesOfPage
<1>3. \A k \in 1 .. n + 1 : f[k] = (IF k = 1 THEN <<>> ELSE <<Separator>>) \o Render(p, l, es[k])
  BY <1>1 DEF Pieces
<1>4. ASSUME NEW k \in 1 .. n + 1
      PROVE  f[k] \in Seq(Parts(M))
  <2>1. /\ Render(p, l, es[k]) \in Seq(Parts(M))
        /\ <<Separator>> \o Render(p, l, es[k]) \in Seq(Parts(M))
    BY <1>2, PieceText
  <2>2. <<>> \o Render(p, l, es[k]) = Render(p, l, es[k])
    BY <2>1, ConcatEmptySeq
  <2> HIDE DEF f, M
  <2> QED
    BY <1>3, <2>1, <2>2
<1>5. u = t \o f[n + 1]
  BY <1>4, OneMoreJoined DEF PageText
<1>6. n + 1 \in 1 .. n + 1
  OBVIOUS
<1>7. /\ r \in Seq(Parts(M)) /\ RenderedAs(p, e, r, L) /\ HasHeading(r, e)
      /\ q \in Seq(Parts(M)) /\ Formed(q) /\ HasHeading(q, e)
      /\ Len(q) > 0 /\ q[1] = Separator
      /\ AllWords(q) = L \ Dashes(p, L) /\ Apart(q)
      /\ Cardinality(Separators(q)) = 1 + Cardinality(Dashes(p, L))
      /\ Cardinality(Where(q, BareLines)) = 1
  BY <1>2, <1>6, PieceText
<1>8. /\ t \in Seq(Parts(M)) /\ Formed(t) /\ AllWords(t) = V \ Dashes(p, V) /\ Apart(t)
      /\ Cardinality(Separators(t)) = Cardinality(Dashes(p, V)) + (IF n = 0 THEN 0 ELSE n - 1)
      /\ Cardinality(Where(t, BareLines)) = n
      /\ \A k \in 1 .. n : HasHeading(t, es[k])
  BY DEF PageTextOK
<1>9. W = V \cup L
  BY DEF LinesUpTo
<1>10. V \cap L = {}
  <2>1. \A k \in 1 .. n : k \in 1 .. Len(es) /\ n + 1 \in 1 .. Len(es) /\ k # n + 1
    OBVIOUS
  <2>2. \A k \in 1 .. n : LinesOf(p, l, es[k]) \cap L = {}
    BY <2>1 DEF EntriesOfPage
  <2> HIDE DEF L
  <2> QED
    BY <2>2 DEF LinesUpTo
<1>11. L \subseteq M /\ V \subseteq M
  <2>1. \A k \in 1 .. n + 1 : LinesOf(p, l, es[k]) \subseteq M
    <3> SUFFICES ASSUME NEW k \in 1 .. n + 1 PROVE LinesOf(p, l, es[k]) \subseteq M
      OBVIOUS
    <3>1. EntryOnPage(p, es[k])
      BY <1>2
    <3>2. LinesOf(p, l, es[k]) \subseteq es[k].traits \cup es[k].body
      BY <3>1, LinesOfEntry
    <3> QED
      BY <3>1, <3>2 DEF EntryOnPage
  <2>2. L \subseteq M
    BY <1>6, <2>1
  <2>3. \A k \in 1 .. n : LinesOf(p, l, es[k]) \subseteq M
    BY <2>1
  <2> HIDE DEF M
  <2> QED
    BY <2>2, <2>3 DEF LinesUpTo
<1>12. /\ W \ Dashes(p, W) = (V \ Dashes(p, V)) \cup (L \ Dashes(p, L))
       /\ (V \ Dashes(p, V)) \cap (L \ Dashes(p, L)) = {}
  <2> HIDE DEF V, L, W
  <2>1. (V \cup L) \ Dashes(p, V \cup L) = (V \ Dashes(p, V)) \cup (L \ Dashes(p, L))
    BY DEF Dashes
  <2> QED
    BY <1>9, <1>10, <2>1
<1>13. /\ Cardinality(Dashes(p, W)) = Cardinality(Dashes(p, V)) + Cardinality(Dashes(p, L))
       /\ Cardinality(Dashes(p, V)) \in Nat /\ Cardinality(Dashes(p, L)) \in Nat
  <2> HIDE DEF V, L, W
  <2>1. /\ Cardinality(Dashes(p, V \cup L)) =
              Cardinality(Dashes(p, V)) + Cardinality(Dashes(p, L)) - Cardinality(Dashes(p, V \cap L))
        /\ Cardinality(Dashes(p, V)) \in Nat /\ Cardinality(Dashes(p, L)) \in Nat
    BY <1>11, DashesOfUnion
  <2>2. Cardinality(Dashes(p, V \cap L)) = 0
    BY <1>10, NoDashes
  <2> QED
    BY <1>9, <2>1, <2>2
<1>14. f[n + 1] = IF n = 0 THEN <<>> \o r ELSE q
  <2>1. f[n + 1] = (IF n + 1 = 1 THEN <<>> ELSE <<Separator>>) \o r
    BY <1>3, <1>6
  <2>2. n + 1 = 1 <=> n = 0
    OBVIOUS
  <2> HIDE DEF f, r
  <2> QED
    BY <2>1, <2>2
<1>15. CASE n = 0
  <2>1. t = <<>>
    BY <1>15, NothingJoined DEF PageText
  <2>2. V = {}
    BY <1>15 DEF LinesUpTo
  <2> HIDE DEF t, u, V, W, L, r, q, f, M
  <2>3. u = r
    BY <1>5, <1>7, <1>14, <1>15, <2>1, ConcatEmptySeq
  <2>4. W = L
    BY <1>9, <2>2
  <2>5. /\ Formed(u) /\ AllWords(u) = W \ Dashes(p, W) /\ Apart(u)
        /\ Cardinality(Separators(u)) = Cardinality(Dashes(p, W))
        /\ Cardinality(Where(u, BareLines)) = 1
    BY <1>7, <2>3, <2>4 DEF RenderedAs
  <2>6. \A k \in 1 .. n + 1 : HasHeading(u, es[k])
    <3>1. \A k \in 1 .. n + 1 : k = n + 1
      BY <1>15
    <3> QED
      BY <1>7, <2>3, <3>1 DEF e
  <2>7. Cardinality(Separators(u)) = Cardinality(Dashes(p, W)) + (IF n + 1 = 0 THEN 0 ELSE (n + 1) - 1)
    BY <1>13, <1>15, <2>5
  <2>8. u \in Seq(Parts(M)) /\ n + 1 = 1
    BY <1>7, <1>15, <2>3
  <2> QED
    BY <2>5, <2>6, <2>7, <2>8 DEF PageTextOK, u, W, M
<1>16. CASE n # 0
  <2> HIDE DEF t, u, V, W, L, r, q, f, M
  <2>1. u = t \o q
    BY <1>5, <1>14, <1>16
  <2>2. u \in Seq(Parts(M))
    BY <1>7, <1>8, <2>1, ConcatFacts
  <2>3. Formed(u)
    BY <1>7, <1>8, <2>1, CutConcat
  <2>4. AllWords(u) = AllWords(t) \cup AllWords(q)
    BY <1>7, <1>8, <2>1, WordsOfConcat
  <2>5. AllWords(t) \cap AllWords(q) = {} /\ AllWords(u) = W \ Dashes(p, W)
    BY <1>7, <1>8, <1>12, <2>4
  <2>6. Apart(u)
    BY <1>7, <1>8, <2>1, <2>5, WordsOfConcat
  <2>7. Cardinality(Separators(u)) = Cardinality(Separators(t)) + Cardinality(Separators(q))
    BY <1>7, <1>8, <2>1, WhereOfConcat DEF Separators
  <2>8. Cardinality(Where(u, BareLines)) = Cardinality(Where(t, BareLines)) + Cardinality(Where(q, BareLines))
    BY <1>7, <1>8, <2>1, WhereOfConcat
  <2>9. Cardinality(Where(u, BareLines)) = n + 1
    BY <1>7, <1>8, <2>8
  <2>10. Cardinality(Separators(u)) =
            (Cardinality(Dashes(p, V)) + (n - 1)) + (1 + Cardinality(Dashes(p, L)))
    BY <1>7, <1>8, <1>16, <2>7
  <2>11. Cardinality(Separators(u)) = Cardinality(Dashes(p, W)) + (IF n + 1 = 0 THEN 0 ELSE (n + 1) - 1)
    BY <1>13, <2>10
  <2>12. \A k \in 1 .. n + 1 : HasHeading(u, es[k])
    <3> SUFFICES ASSUME NEW k \in 1 .. n + 1 PROVE HasHeading(u, es[k])
      OBVIOUS
    <3>1. CASE k \in 1 .. n
      BY <1>7, <1>8, <2>1, <3>1, HeadingOfConcat
    <3>2. CASE k = n + 1
      BY <1>7, <1>8, <2>1, <3>2, HeadingOfConcat DEF e
    <3> QED
      BY <3>1, <3>2
  <2> QED
    BY <2>2, <2>3, <2>5, <2>6, <2>9, <2>11, <2>12 DEF PageTextOK, u, W, M
<1> QED
  BY <1>15, <1>16

\* The text of all the entries.
LEMMA OutputText ==
    ASSUME NEW p \in Seq(PageLine), Readable(1 .. Len(p)), NEW l, NEW es,
           Len(es) \in Nat, EntriesOfPage(p, l, es)
    PROVE  PageTextOK(p, l, es, Len(es))
<1> DEFINE T == { k \in 0 .. Len(es) : ~PageTextOK(p, l, es, k) }
<1>1. SUFFICES ASSUME T # {} PROVE FALSE
  OBVIOUS
<1>2. T \subseteq Nat
  OBVIOUS
<1>3. PICK k \in T : \A m \in T : k <= m
  BY <1>1, <1>2, LeastLine
<1>4. PageTextOK(p, l, es, 0)
  <2>1. PageText(p, l, es, 0) = <<>>
    BY NothingJoined DEF PageText
  <2>2. LinesUpTo(p, l, es, 0) = {} /\ Dashes(p, {}) = {}
    BY DEF LinesUpTo, Dashes
  <2>3. <<>> \in Seq(Parts(1 .. Len(p))) /\ Cardinality({}) = 0
    BY FS_EmptySet
  <2>4. Formed(<<>>)
    BY <2>3, EmptyText, TrailingIsFormed
  <2>5. AllWords(<<>>) = {} /\ Apart(<<>>) /\ Separators(<<>>) = {} /\ Where(<<>>, BareLines) = {}
    BY EmptyText DEF Separators
  <2>6. Cardinality(Separators(<<>>)) = 0 + 0 /\ Cardinality(Where(<<>>, BareLines)) = 0
    <3>1. Cardinality(Separators(<<>>)) = 0
      BY <2>3, <2>5
    <3>2. Cardinality(Where(<<>>, BareLines)) = 0
      BY <2>3, <2>5
    <3> QED
      BY <3>1, <3>2
  <2>7. {} \ {} = {} /\ \A i : i \notin 1 .. 0
    OBVIOUS
  <2> QED
    BY <2>1, <2>2, <2>3, <2>4, <2>5, <2>6, <2>7 DEF PageTextOK
<1>5. k # 0
  BY <1>3, <1>4
<1>6. k - 1 \in Nat /\ (k - 1) + 1 = k /\ k <= Len(es) /\ ~(k - 1 \in T)
  BY <1>2, <1>3, <1>5
<1>7. PageTextOK(p, l, es, k - 1)
  BY <1>6
<1> HIDE DEF T
<1>8. PageTextOK(p, l, es, (k - 1) + 1)
  BY <1>6, <1>7, OneMorePiece
<1>9. PageTextOK(p, l, es, k)
  BY <1>6, <1>8
<1> QED
  BY <1>3, <1>9 DEF T

---------------------------------------------------------------------------
(* The entries of a converted page.                                        *)

\* The lines from a name to the next.
OwnLines(n) == { i \in n .. Len(page) : \A m \in Names : m <= i => m <= n }

\* The heading lines of a name are its own.
LEMMA HeadingIsOwn ==
    ASSUME AdapterInvariant, NEW n \in Names, NEW i \in HeadingLines(page, layout, n)
    PROVE  i \in OwnLines(n)
<1>1. Len(page) \in Nat
  BY DEF AdapterInvariant, AdapterTypeOK
<1>2. \A m \in Names : m \in 1 .. Len(page)
  BY DEF AdapterInvariant, EntriesAreOnThePage, Names
<1>3. \A m \in Names : m < index
  BY DEF AdapterInvariant, HeadingsAreBehind
<1>4. index \in Int
  BY <1>1 DEF AdapterInvariant, AdapterTypeOK
<1>5. CASE layout # "feats"
  <2>1. i = n
    BY <1>5 DEF HeadingLines
  <2> QED
    BY <1>1, <1>2, <2>1 DEF OwnLines
<1>6. CASE layout = "feats"
  <2>1. i \in n .. Len(page) /\ OneRun(page, n, i)
    BY <1>6 DEF HeadingLines
  <2>2. ASSUME NEW m \in Names, m <= i, ~(m <= n)
        PROVE  FALSE
    <3>1. n \in Nat /\ m \in Nat /\ i \in Nat /\ n < m /\ m \in 1 .. Len(page)
      BY <1>1, <1>2, <2>1, <2>2
    <3>2. OneRun(page, n, m)
      BY <2>1, <2>2, <3>1, OneRunBegins
    <3>3. m \in HeadingLines(page, layout, n)
      BY <1>1, <1>6, <3>1, <3>2 DEF HeadingLines
    <3>4. m \in 1 .. index - 1 /\ m <= Len(page)
      BY <1>1, <1>3, <1>4, <3>1
    <3>5. m \notin HeadingLines(page, layout, n)
      BY <2>2, <3>1, <3>4 DEF AdapterInvariant, HeadingsAreFound
    <3> QED
      BY <3>3, <3>5
  <2> QED
    BY <2>1, <2>2 DEF OwnLines
<1> QED
  BY <1>5, <1>6

\* An entry has no lines but those from its name to the next.
LEMMA EntryHasOwnLines ==
    ASSUME AdapterInvariant, NEW e \in AllEntries, e \in EntryRecord
    PROVE  /\ EntryOnPage(page, e)
           /\ LinesOf(page, layout, e) \subseteq OwnLines(e.name)
           /\ e.name \in Names
           /\ \A i \in e.traits : ~Is(page, i, "dashes")
<1>1. e.name \in Names
  BY DEF Names
<1>2. Len(page) \in Nat /\ index \in Int
  BY DEF AdapterInvariant, AdapterTypeOK
<1>3. e.name \in 1 .. Len(page)
  BY DEF AdapterInvariant, EntriesAreOnThePage
<1>4. \A i \in e.traits : i \in HeadingLines(page, layout, e.name) /\ Is(page, i, "shouty")
  BY DEF AdapterInvariant, EntriesAreOnThePage
<1>5. e.traits \subseteq OwnLines(e.name)
  BY <1>1, <1>4, HeadingIsOwn
<1>6. /\ e.body \subseteq OwnLines(e.name)
      /\ e.body \cap HeadingLines(page, layout, e.name) = {}
  <2> DEFINE own == { i \in e.name .. index - 1 : i <= Len(page) /\ \A n \in Names : n <= i => n <= e.name }
             heading == HeadingLines(page, layout, e.name)
  <2>1. e.body = { i \in own \ heading : ~Ignored(page, layout, i) }
    BY DEF AdapterInvariant, EntriesAreWhole
  <2>2. own \subseteq OwnLines(e.name)
    BY <1>2, <1>3 DEF OwnLines
  <2> HIDE DEF own, heading
  <2>3. e.body \subseteq OwnLines(e.name) /\ e.body \cap heading = {}
    BY <2>1, <2>2
  <2> QED
    BY <2>3 DEF heading
<1>7. OwnLines(e.name) \subseteq 1 .. Len(page)
  BY <1>2, <1>3 DEF OwnLines
<1>8. e.traits \cap e.body = {}
  BY <1>4, <1>6
<1>9. e.type \in RecognisedType
  BY DEF EntryRecord
<1>10. EntryOnPage(page, e)
  BY <1>3, <1>5, <1>6, <1>7, <1>8, <1>9 DEF EntryOnPage
<1>11. LinesOf(page, layout, e) \subseteq e.traits \cup e.body
  BY <1>10, LinesOfEntry
<1>12. \A i \in e.traits : ~Is(page, i, "dashes")
  BY <1>4 DEF Is
<1> QED
  BY <1>1, <1>5, <1>6, <1>10, <1>11, <1>12

\* So no two entries of a converted page have a line in common.
LEMMA EntriesOfConverted ==
    ASSUME AdapterInvariant, Converted
    PROVE  /\ entries \in Seq(EntryRecord) /\ Len(entries) \in Nat
           /\ AllEntries = { entries[n] : n \in 1 .. Len(entries) }
           /\ EntriesOfPage(page, layout, entries)
<1>1. entries \in Seq(EntryRecord)
  BY DEF AdapterInvariant, AdapterTypeOK
<1>2. Len(entries) \in Nat /\ DOMAIN entries = 1 .. Len(entries)
  BY <1>1
<1>3. \A n \in 1 .. Len(entries) : entries[n] \in EntryRecord
  BY <1>1
<1>4. Taken = entries
  BY DEF AdapterInvariant, OneIsRead, Taken
<1>5. AllEntries = { entries[n] : n \in 1 .. Len(entries) }
  BY <1>2, <1>4 DEF AllEntries
<1>6. \A n \in 1 .. Len(entries) :
         /\ EntryOnPage(page, entries[n])
         /\ LinesOf(page, layout, entries[n]) \subseteq OwnLines(entries[n].name)
         /\ entries[n].name \in Names
  BY <1>3, <1>5, EntryHasOwnLines
<1>7. \A m, n \in 1 .. Len(entries) : m < n => entries[m].name < entries[n].name
  BY <1>2, <1>4 DEF AdapterInvariant, HeadingsAreFound
<1>8. \A m, n \in Names : m < n => OwnLines(m) \cap OwnLines(n) = {}
  <2> SUFFICES ASSUME NEW m \in Names, NEW n \in Names, m < n,
                      NEW i, i \in OwnLines(m), i \in OwnLines(n)
               PROVE  FALSE
    OBVIOUS
  <2>1. m \in Nat /\ n \in Nat /\ i \in n .. Len(page) /\ (n <= i => n <= m)
    <3>1. \A k \in Names : k \in 1 .. Len(page)
      BY DEF AdapterInvariant, EntriesAreOnThePage, Names
    <3>2. i \in n .. Len(page) /\ (n <= i => n <= m)
      BY DEF OwnLines
    <3> QED
      BY <3>1, <3>2
  <2> QED
    BY <2>1
<1>9. \A m, n \in 1 .. Len(entries) :
         m < n => LinesOf(page, layout, entries[m]) \cap LinesOf(page, layout, entries[n]) = {}
  <2> SUFFICES ASSUME NEW m \in 1 .. Len(entries), NEW n \in 1 .. Len(entries), m < n
               PROVE  LinesOf(page, layout, entries[m]) \cap LinesOf(page, layout, entries[n]) = {}
    OBVIOUS
  <2>1. OwnLines(entries[m].name) \cap OwnLines(entries[n].name) = {}
    BY <1>6, <1>7, <1>8
  <2> QED
    BY <1>6, <2>1
<1>10. \A m, n \in 1 .. Len(entries) : m # n => m < n \/ n < m
  OBVIOUS
<1>11. EntriesOfPage(page, layout, entries)
  BY <1>6, <1>9, <1>10 DEF EntriesOfPage
<1> QED
  BY <1>1, <1>2, <1>5, <1>11

\* The page is one of the converter's.
PageIsGiven == layout \in Layout /\ page \in Page[layout]

\* The conversion leaves the page alone.
LEMMA PageStays ==
    AdapterSpec => []PageIsGiven
<1>1. AdapterInit => PageIsGiven
  BY DEF AdapterInit, PageIsGiven
<1>2. ASSUME PageIsGiven, [AdapterNext]_adapterVars
      PROVE  PageIsGiven'
  <2>1. layout' = layout /\ page' = page
    BY <1>2 DEF AdapterNext, adapterVars, ActionHeading, ActionLine, FeatBlank, FeatLine,
         BeginScan, ScanBlank, ScanMarker, ScanShouty, FeatHeading, NoHeading, BeforeAnchor,
         ConditionDropped, ConditionHeading, ConditionLine, EndPage, Done
  <2> QED
    BY <1>2, <2>1 DEF PageIsGiven
<1> QED
  BY <1>1, <1>2, PTL DEF AdapterSpec

\* No set of lines of a page is mistaken for the value of nothing.
LEMMA PageIsReadable ==
    ASSUME PageIsGiven
    PROVE  Readable(1 .. Len(page))
<1>1. Len(page) \in PageLength
  BY DEF PageIsGiven, PageLength
<1>2. \A S \in SUBSET (1 .. Len(page)) : S \notin {Empty, Absent}
  BY <1>1, RenderingAssumption
<1>3. 1 .. Len(page) \subseteq Nat
  OBVIOUS
<1> QED
  BY <1>2, <1>3 DEF Readable

---------------------------------------------------------------------------
(* The blocks of a text.                                                   *)

\* The blocks of a text are what stands between its separators.
LEMMA BlockFacts ==
    ASSUME NEW S, NEW t \in Seq(S)
    PROVE  /\ \A B \in BlocksOf(t) : B # {} /\ B \subseteq DOMAIN t
           /\ \A B \in BlocksOf(t) : \A i \in B : t[i] # Separator
           /\ \A B \in BlocksOf(t) : \A C \in BlocksOf(t) : B # C => B \cap C = {}
           /\ \A i \in DOMAIN t : t[i] # Separator => \E B \in BlocksOf(t) : i \in B
           /\ \A B \in BlocksOf(t) : \A i, j \in B : \A k \in i .. j : t[k] # Separator
           /\ \A B \in BlocksOf(t) : \A i \in B : \A j \in DOMAIN t :
                 (j = i + 1 \/ i = j + 1) /\ t[j] # Separator => j \in B
           /\ \A B \in BlocksOf(t) : \A i \in B :
                 i = 1 \/ t[i - 1] = Separator => \A j \in B : i <= j
<1> DEFINE cuts == { i \in DOMAIN t : t[i] = Separator }
           R == Runs(DOMAIN t \ cuts, cuts)
<1>1. BlocksOf(t) = R
  BY DEF BlocksOf
<1>2. Len(t) \in Nat /\ DOMAIN t = 1 .. Len(t)
  OBVIOUS
<1>3. \A i \in DOMAIN t : i \in cuts <=> t[i] = Separator
  OBVIOUS
<1>4. cuts \subseteq DOMAIN t
  OBVIOUS
<1> HIDE DEF cuts
<1>5. /\ \A B \in R : \A C \in R : B # C => B \cap C = {}
      /\ \A B \in R : B \subseteq DOMAIN t \ cuts
      /\ \A i \in DOMAIN t \ cuts : \E B \in R : i \in B
      /\ \A B \in R : B # {}
  <2>1. \A B \in R : \A C \in R : B # C => B \cap C = {}
    BY RunsFacts
  <2>2. \A B \in R : B \subseteq DOMAIN t \ cuts
    BY RunsFacts
  <2>3. \A i \in DOMAIN t \ cuts : \E B \in R : i \in B
    BY RunsFacts
  <2>4. \A B \in R : B # {}
    BY RunsFacts
  <2> QED
    BY <2>1, <2>2, <2>3, <2>4
<1>6. \A B \in R : \A i \in B : \A j \in DOMAIN t \ cuts :
         j \in B <=> \A d \in cuts : (i < d <=> j < d)
  BY RunsFacts
<1> HIDE DEF R
<1>7. ASSUME NEW B \in R, NEW i \in B, NEW j \in B, NEW k \in i .. j
      PROVE  t[k] # Separator
  <2>1. i \in DOMAIN t \ cuts /\ j \in DOMAIN t \ cuts
    BY <1>5
  <2>2. i \in Nat /\ j \in Nat /\ k \in DOMAIN t /\ k \in Nat /\ i <= k /\ k <= j
    BY <1>2, <2>1
  <2>3. ASSUME k \in cuts PROVE FALSE
    <3>1. i < k <=> j < k
      BY <1>6, <2>1, <2>3
    <3>2. k # i /\ k # j
      BY <2>1, <2>3
    <3> QED
      BY <2>2, <3>1, <3>2
  <2> QED
    BY <1>3, <2>2, <2>3
<1>8. ASSUME NEW B \in R, NEW i \in B, NEW j \in DOMAIN t, j = i + 1 \/ i = j + 1, t[j] # Separator
      PROVE  j \in B
  <2>1. i \in DOMAIN t \ cuts /\ j \in DOMAIN t \ cuts
    BY <1>3, <1>5, <1>8
  <2>2. ASSUME NEW d \in cuts PROVE i < d <=> j < d
    <3>1. d # i /\ d # j /\ d \in Nat /\ i \in Nat /\ j \in Nat
      BY <1>2, <1>4, <2>1
    <3> QED
      BY <1>8, <3>1
  <2> QED
    BY <1>6, <2>1, <2>2
<1>9. ASSUME NEW B \in R, NEW i \in B, i = 1 \/ t[i - 1] = Separator, NEW j \in B
      PROVE  i <= j
  <2>1. i \in Nat /\ j \in Nat /\ 1 <= j
    BY <1>2, <1>5
  <2>2. ASSUME j < i PROVE FALSE
    <3>1. i - 1 \in j .. i /\ i # 1
      BY <2>1, <2>2
    <3> QED
      BY <1>7, <1>9, <3>1
  <2> QED
    BY <2>1, <2>2
<1>10. \A B \in R : \A i \in B : t[i] # Separator
  BY <1>3, <1>5
<1>11. \A i \in DOMAIN t : t[i] # Separator => \E B \in R : i \in B
  BY <1>3, <1>5
<1>12. \A B \in R : B # {} /\ B \subseteq DOMAIN t
  BY <1>5
<1> QED
  BY <1>1, <1>5, <1>7, <1>8, <1>9, <1>10, <1>11, <1>12

\* There are no more blocks than separators, and one.
LEMMA BlocksAreCounted ==
    ASSUME NEW S, NEW t \in Seq(S)
    PROVE  /\ IsFiniteSet(BlocksOf(t)) /\ Cardinality(BlocksOf(t)) \in Nat
           /\ IsFiniteSet(Separators(t)) /\ Cardinality(Separators(t)) \in Nat
           /\ Cardinality(BlocksOf(t)) <= Cardinality(Separators(t)) + 1
<1> DEFINE K == BlocksOf(t)
           C == Separators(t)
           Least(B) == CHOOSE i \in B : \A j \in B : i <= j
           f == [ B \in K |-> Least(B) - 1 ]
<1>1. Len(t) \in Nat /\ DOMAIN t = 1 .. Len(t)
  OBVIOUS
<1>2. \A i \in DOMAIN t : i \in C <=> t[i] = Separator
  BY DEF Separators, Where
<1>3. C \subseteq DOMAIN t
  BY DEF Separators, Where
<1> HIDE DEF C
<1>4. IsFiniteSet(C)
  <2>1. Len(t) \in Int
    BY <1>1
  <2>2. IsFiniteSet(1 .. Len(t))
    BY <2>1, LinesAreFinite
  <2> QED
    BY <1>1, <1>3, <2>2, FS_Subset
<1>5. 0 \notin C
  BY <1>1, <1>3
<1>6. IsFiniteSet(C \cup {0}) /\ Cardinality(C \cup {0}) = Cardinality(C) + 1
  BY <1>4, <1>5, FS_AddElement
<1>7. /\ \A B \in K : B # {} /\ B \subseteq DOMAIN t
      /\ \A B \in K : \A i \in B : t[i] # Separator
      /\ \A B \in K : \A D \in K : B # D => B \cap D = {}
  BY BlockFacts
<1>8. \A B \in K : \A i \in B : \A j \in DOMAIN t :
         (j = i + 1 \/ i = j + 1) /\ t[j] # Separator => j \in B
  BY BlockFacts
<1> HIDE DEF K
<1>9. ASSUME NEW B \in K
      PROVE  /\ Least(B) \in B /\ \A j \in B : Least(B) <= j
             /\ Least(B) \in DOMAIN t
  <2>1. B # {} /\ B \subseteq Nat
    BY <1>1, <1>7
  <2>2. \E i \in B : \A j \in B : i <= j
    BY <2>1, LeastLine
  <2> QED
    BY <1>7, <2>2
<1> HIDE DEF Least
<1>10. ASSUME NEW B \in K
       PROVE  Least(B) - 1 \in C \cup {0}
  <2>1. Least(B) \in Nat /\ Least(B) >= 1 /\ Least(B) <= Len(t)
    BY <1>1, <1>9
  <2>2. CASE Least(B) # 1
    <3>1. Least(B) - 1 \in DOMAIN t /\ Least(B) = (Least(B) - 1) + 1
      BY <1>1, <2>1, <2>2
    <3>2. Least(B) - 1 \notin B
      BY <1>9, <2>1
    <3>3. t[Least(B) - 1] = Separator
      BY <1>8, <1>9, <3>1, <3>2
    <3> QED
      BY <1>2, <3>1, <3>3
  <2> QED
    BY <2>1, <2>2
<1>11. ASSUME NEW B \in K, NEW D \in K, Least(B) - 1 = Least(D) - 1
       PROVE  B = D
  <2>1. Least(B) = Least(D)
    BY <1>1, <1>9, <1>11
  <2> QED
    BY <1>7, <1>9, <2>1
<1>12. f \in Injection(K, C \cup {0})
  <2>1. f \in [K -> C \cup {0}]
    BY <1>10
  <2>2. \A B \in K : \A D \in K : f[B] = f[D] => B = D
    BY <1>11
  <2> QED
    BY <2>1, <2>2 DEF Injection, IsInjective
<1> HIDE DEF f
<1>13. IsFiniteSet(K) /\ Cardinality(K) <= Cardinality(C \cup {0})
  BY <1>6, <1>12, FS_Injection
<1>14. Cardinality(K) \in Nat /\ Cardinality(C) \in Nat
  BY <1>4, <1>13, FS_CardinalityType
<1>15. Cardinality(K) <= Cardinality(C) + 1
  BY <1>6, <1>13
<1> QED
  BY <1>4, <1>13, <1>14, <1>15 DEF K, C

\* The latest of one line.
LEMMA LatestOfOne ==
    ASSUME NEW i \in Int
    PROVE  Latest({i}) = i
<1>1. \A j \in {i} : IsLatest({i}, j) <=> j = i
  BY DEF IsLatest
<1> QED
  BY <1>1 DEF Latest

\* What a block says, the text being well formed.
LEMMA BlockReads ==
    ASSUME NEW M, NEW t \in Seq(Parts(M)), Formed(t), NEW B \in BlocksOf(t)
    PROVE  /\ TypedLines(t, B) = Labelled(t, "bare", B)
           /\ \A i \in B : t[i].label \in {"bare", "name"} \cup WordLabel
           /\ \A label : \A i, j \in Labelled(t, label, B) : i = j
           /\ \A i \in Labelled(t, "bare", B) : /\ i + 1 \in Labelled(t, "name", B)
                                               /\ Labelled(t, "other", B) = {}
           /\ \A i \in Labelled(t, "name", B) : i - 1 \in Labelled(t, "bare", B)
           /\ LeftoverOf(t, B) = Labelled(t, "other", B)
<1>1. /\ B # {} /\ B \subseteq DOMAIN t
      /\ \A i \in B : t[i] # Separator
      /\ \A i, j \in B : \A k \in i .. j : t[k] # Separator
  BY BlockFacts
<1>2. \A i \in B : \A j \in DOMAIN t :
         (j = i + 1 \/ i = j + 1) /\ t[j] # Separator => j \in B
  BY BlockFacts
<1>3. \A i \in B : i = 1 \/ t[i - 1] = Separator => \A j \in B : i <= j
  BY BlockFacts
<1>4. Len(t) \in Nat /\ DOMAIN t = 1 .. Len(t)
  OBVIOUS
<1>5. \A i \in B : t[i].label \in {"bare", "name"} \cup WordLabel
  <2>1. \A i \in B : t[i] \in Parts(M)
    BY <1>1, <1>4
  <2> QED
    BY <1>1, <2>1 DEF Parts
<1>6. BareFirst(t) /\ NameSecond(t) /\ OtherFirst(t) /\ LabelsOnce(t)
  BY DEF Formed
<1>7. \A i \in B : \A label : t[i].label = label <=> IsLine(t, i, label)
  BY <1>1 DEF IsLine
<1>8. \A i \in B : t[i].label = "bare" => \A j \in B : i <= j
  BY <1>1, <1>3, <1>6, <1>7 DEF BareFirst
<1>9. TypedLines(t, B) = Labelled(t, "bare", B)
  BY <1>5, <1>8 DEF TypedLines, Labelled, WordLabel
<1>10. ASSUME NEW label, NEW i \in Labelled(t, label, B), NEW j \in Labelled(t, label, B), i < j
       PROVE  FALSE
  <2>1. /\ i \in DOMAIN t /\ j \in DOMAIN t /\ t[i] # Separator /\ t[j] # Separator
        /\ t[i].label = t[j].label /\ i \in B /\ j \in B
    BY <1>1 DEF Labelled
  <2>2. \E k \in i .. j : t[k] = Separator
    BY <1>6, <1>10, <2>1 DEF LabelsOnce
  <2> QED
    BY <1>1, <2>1, <2>2
<1>11. \A label : \A i, j \in Labelled(t, label, B) : i = j
  <2>1. \A label : Labelled(t, label, B) \subseteq Nat
    BY <1>1, <1>4 DEF Labelled
  <2> QED
    BY <1>10, <2>1
<1>12. ASSUME NEW i \in Labelled(t, "bare", B)
       PROVE  i + 1 \in Labelled(t, "name", B)
  <2>1. i \in B /\ IsLine(t, i, "bare")
    BY <1>7 DEF Labelled
  <2>2. i + 1 \in DOMAIN t /\ IsLine(t, i + 1, "name")
    BY <1>1, <1>6, <2>1 DEF BareFirst
  <2>3. i + 1 \in B
    BY <1>2, <2>1, <2>2 DEF IsLine
  <2> QED
    BY <2>2, <2>3 DEF Labelled, IsLine
<1>13. ASSUME NEW i \in Labelled(t, "bare", B), NEW j \in Labelled(t, "other", B)
       PROVE  FALSE
  <2>1. /\ i \in B /\ j \in B /\ t[i].label = "bare" /\ IsLine(t, j, "other")
    BY <1>7 DEF Labelled
  <2>2. \A k \in B : j <= k
    BY <1>1, <1>3, <1>6, <2>1 DEF OtherFirst
  <2>3. i <= j /\ j <= i
    BY <1>8, <2>1, <2>2
  <2>4. i = j
    BY <1>1, <1>4, <2>1, <2>3
  <2> QED
    BY <2>1, <2>4 DEF IsLine
<1>14. ASSUME NEW i \in Labelled(t, "name", B)
       PROVE  i - 1 \in Labelled(t, "bare", B)
  <2>1. i \in B /\ IsLine(t, i, "name")
    BY <1>7 DEF Labelled
  <2>2. i > 1 /\ IsLine(t, i - 1, "bare")
    BY <1>1, <1>6, <2>1 DEF NameSecond
  <2>3. i - 1 \in DOMAIN t /\ i = (i - 1) + 1
    BY <1>1, <1>4, <2>1, <2>2
  <2>4. i - 1 \in B
    BY <1>2, <2>1, <2>2, <2>3 DEF IsLine
  <2> QED
    BY <2>2, <2>4 DEF Labelled, IsLine
<1>15. LeftoverOf(t, B) = Labelled(t, "other", B)
  <2>1. Labelled(t, "bare", B) \cap Labelled(t, "other", B) = {}
    BY <1>13
  <2> QED
    BY <1>9, <2>1 DEF LeftoverOf
<1> QED
  BY <1>5, <1>9, <1>11, <1>12, <1>13, <1>14, <1>15

\* A field is what its only line says.
LEMMA FieldReads ==
    ASSUME NEW M, NEW t \in Seq(Parts(M)), Formed(t), NEW B \in BlocksOf(t), NEW f,
           NEW i \in Labelled(t, f, B)
    PROVE  FieldOf(t, f, B) = t[i].value
<1>1. Labelled(t, f, B) = {i}
  BY BlockReads
<1>2. i \in Int
  <2>1. B \subseteq DOMAIN t
    BY BlockFacts
  <2> QED
    BY <2>1 DEF Labelled
<1>3. Latest(Labelled(t, f, B)) = i
  BY <1>1, <1>2, LatestOfOne
<1> QED
  BY <1>3 DEF FieldOf

\* A block has a type exactly if a heading stands in it.
LEMMA TypeReads ==
    ASSUME NEW M, NEW t \in Seq(Parts(M)), Formed(t), NEW B \in BlocksOf(t)
    PROVE  /\ Labelled(t, "bare", B) = {} <=> TypeOf(t, B) = Absent
           /\ \A i \in Labelled(t, "bare", B) : TypeOf(t, B) = t[i].value
<1>1. TypedLines(t, B) = Labelled(t, "bare", B)
  BY BlockReads
<1>2. B \subseteq DOMAIN t /\ \A i \in B : t[i] # Separator
  BY BlockFacts
<1>3. ASSUME NEW i \in Labelled(t, "bare", B)
      PROVE  TypeOf(t, B) = t[i].value /\ TypeOf(t, B) # Absent
  <2>1. Labelled(t, "bare", B) = {i}
    BY BlockReads
  <2>2. i \in Int /\ t[i] \in Parts(M) /\ t[i] # Separator /\ t[i].label = "bare"
    BY <1>2 DEF Labelled
  <2>3. Latest(Labelled(t, "bare", B)) = i
    BY <2>1, <2>2, LatestOfOne
  <2>4. t[i].value \in RecognisedType
    BY <2>2 DEF Parts
  <2>5. TypeOf(t, B) = t[i].value
    BY <1>1, <2>1, <2>3 DEF TypeOf
  <2> QED
    BY <2>4, <2>5, RenderingAssumption
<1>4. Labelled(t, "bare", B) = {} => TypeOf(t, B) = Absent
  BY <1>1 DEF TypeOf
<1> QED
  BY <1>3, <1>4

\* There are as many blocks with a type as headings.
LEMMA TypedAreCounted ==
    ASSUME NEW M, NEW t \in Seq(Parts(M)), Formed(t)
    PROVE  Cardinality({ B \in BlocksOf(t) : TypeOf(t, B) # Absent }) = Cardinality(Where(t, BareLines))
<1> DEFINE W == Where(t, BareLines)
           K == BlocksOf(t)
           typed == { B \in K : TypeOf(t, B) # Absent }
           f == [ i \in W |-> CHOOSE B \in K : i \in B ]
<1>1. Len(t) \in Nat /\ DOMAIN t = 1 .. Len(t)
  OBVIOUS
<1>2. ASSUME NEW i \in DOMAIN t
      PROVE  t[i] \in BareLines <=> t[i] # Separator /\ t[i].label = "bare"
  <2>1. t[i] \in BareLines => t[i] # Separator /\ t[i].label = "bare"
    BY BareLinesFacts
  <2>2. ASSUME t[i] # Separator, t[i].label = "bare" PROVE t[i] \in BareLines
    <3>1. t[i] \in TextLine /\ t[i].value \in RecognisedType
      BY <2>2 DEF Parts
    <3>2. t[i] = LabelLine("bare", t[i].value)
      BY <2>2, <3>1 DEF TextLine, LabelLine
    <3> QED
      BY <3>1, <3>2 DEF BareLines
  <2> QED
    BY <2>1, <2>2
<1>3. /\ \A B \in K : B \subseteq DOMAIN t
      /\ \A B \in K : \A i \in B : t[i] # Separator
      /\ \A B \in K : \A C \in K : B # C => B \cap C = {}
      /\ \A i \in DOMAIN t : t[i] # Separator => \E B \in K : i \in B
  BY BlockFacts
<1>4. \A B \in K : Labelled(t, "bare", B) = {} <=> TypeOf(t, B) = Absent
  BY TypeReads
<1>5. \A B \in K : \A i, j \in Labelled(t, "bare", B) : i = j
  BY BlockReads
<1>6. \A i : i \in W <=> i \in DOMAIN t /\ t[i] \in BareLines
  BY DEF Where
<1> HIDE DEF K, W
<1>7. \A B \in K : \A i \in B : i \in Labelled(t, "bare", B) <=> i \in W
  BY <1>2, <1>3, <1>6 DEF Labelled
<1>8. ASSUME NEW i \in W
      PROVE  f[i] \in typed /\ i \in f[i]
  <2>1. \E B \in K : i \in B
    BY <1>2, <1>3, <1>6
  <2>2. f[i] \in K /\ i \in f[i]
    BY <2>1
  <2>3. i \in Labelled(t, "bare", f[i])
    BY <1>7, <2>2
  <2> HIDE DEF f
  <2> QED
    BY <1>4, <2>2, <2>3
<1>9. typed \subseteq K
  OBVIOUS
<1>10. \A i, j \in W : f[i] = f[j] => i = j
  <2> HIDE DEF f, typed
  <2> QED
    BY <1>5, <1>7, <1>8, <1>9
<1>11. ASSUME NEW B \in typed
       PROVE  \E i \in W : f[i] = B
  <2>1. B \in K /\ Labelled(t, "bare", B) # {}
    BY <1>4, <1>11
  <2>2. PICK i \in Labelled(t, "bare", B) : TRUE
    BY <2>1
  <2>3. i \in B /\ i \in W
    BY <1>7, <2>1, <2>2 DEF Labelled
  <2>4. f[i] \in K /\ i \in f[i]
    BY <1>8, <1>9, <2>3
  <2> HIDE DEF f
  <2> QED
    BY <1>3, <2>1, <2>3, <2>4
<1>12. f \in Bijection(W, typed)
  <2>1. f \in [W -> typed]
    BY <1>8
  <2> HIDE DEF f, typed
  <2> QED
    BY <1>10, <1>11, <2>1 DEF Bijection, Injection, Surjection, IsInjective
<1>13. IsFiniteSet(W)
  BY WhereOfConcat DEF W
<1>14. Cardinality(typed) = Cardinality(W)
  BY <1>12, <1>13, FS_Bijection DEF ExistsBijection
<1> QED
  BY <1>14 DEF typed, K, W

\* The text of a converted page.
LEMMA TextOfConverted ==
    ASSUME AdapterInvariant, PageIsGiven, Converted
    PROVE  /\ Output(page, layout, entries) = PageText(page, layout, entries, Len(entries))
           /\ PageTextOK(page, layout, entries, Len(entries))
<1>1. page \in Seq(PageLine)
  BY DEF AdapterInvariant, AdapterTypeOK
<1>2. Len(entries) \in Nat /\ EntriesOfPage(page, layout, entries)
  BY EntriesOfConverted
<1>3. Readable(1 .. Len(page))
  BY PageIsReadable
<1> QED
  BY <1>1, <1>2, <1>3, OutputIsPageText, OutputText

\* Its separators stand between the blocks, or in the body of an entry.
LEMMA SeparatorsAreCounted ==
    ASSUME AdapterInvariant, PageIsGiven, Converted
    PROVE  LET dashes == { i \in UNION { e.body : e \in AllEntries } : Is(page, i, "dashes") }
           IN  /\ Cardinality(Separators(Output(page, layout, entries))) <=
                     Cardinality(dashes) + (IF Len(entries) = 0 THEN 0 ELSE Len(entries) - 1)
               /\ Cardinality(dashes) \in Nat
<1> DEFINE dashes == { i \in UNION { e.body : e \in AllEntries } : Is(page, i, "dashes") }
           V == LinesUpTo(page, layout, entries, Len(entries))
           n == IF Len(entries) = 0 THEN 0 ELSE Len(entries) - 1
           c == Cardinality(Separators(Output(page, layout, entries)))
<1>1. c = Cardinality(Dashes(page, V)) + n
  BY TextOfConverted DEF PageTextOK
<1>2. /\ entries \in Seq(EntryRecord) /\ Len(entries) \in Nat
      /\ AllEntries = { entries[k] : k \in 1 .. Len(entries) }
  BY EntriesOfConverted
<1>3. \A e \in AllEntries : e \in EntryRecord
  BY <1>2
<1>4. \A e \in AllEntries :
         /\ EntryOnPage(page, e)
         /\ \A i \in e.traits : ~Is(page, i, "dashes")
  BY <1>3, EntryHasOwnLines
<1>5. ASSUME NEW i \in Dashes(page, V)
      PROVE  i \in dashes
  <2>1. PICK k \in 1 .. Len(entries) : i \in LinesOf(page, layout, entries[k])
    BY DEF Dashes, LinesUpTo
  <2>2. entries[k] \in AllEntries
    BY <1>2
  <2>3. i \in entries[k].traits \cup entries[k].body
    BY <1>4, <2>1, <2>2, LinesOfEntry
  <2>4. Is(page, i, "dashes")
    BY DEF Dashes
  <2>5. i \in entries[k].body
    BY <1>4, <2>2, <2>3, <2>4
  <2> QED
    BY <2>2, <2>4, <2>5
<1>6. dashes \subseteq 1 .. Len(page)
  BY <1>4 DEF EntryOnPage
<1>7. IsFiniteSet(dashes)
  <2>1. Len(page) \in Int
    BY DEF AdapterInvariant, AdapterTypeOK
  <2>2. IsFiniteSet(1 .. Len(page))
    BY <2>1, LinesAreFinite
  <2> QED
    BY <1>6, <2>2, FS_Subset
<1> HIDE DEF dashes, V
<1>8. Dashes(page, V) \in SUBSET dashes
  BY <1>5
<1>9. /\ IsFiniteSet(Dashes(page, V))
      /\ Cardinality(Dashes(page, V)) <= Cardinality(dashes)
  BY <1>7, <1>8, FS_Subset
<1>10. Cardinality(Dashes(page, V)) \in Nat /\ Cardinality(dashes) \in Nat
  BY <1>7, <1>9, FS_CardinalityType
<1>11. n \in Nat
  BY <1>2
<1> HIDE DEF n, c
<1>12. c <= Cardinality(dashes) + n
  BY <1>1, <1>9, <1>10, <1>11
<1> QED
  BY <1>10, <1>12 DEF dashes, n, c

\* A converted page has one typed block for each entry.
LEMMA CandidatesOfPage ==
    AdapterInvariant /\ PageIsGiven => OneCandidatePerEntry
<1> SUFFICES ASSUME AdapterInvariant, PageIsGiven, Converted
             PROVE  OneCandidatePerEntry
  BY DEF OneCandidatePerEntry
<1> DEFINE t == Output(page, layout, entries)
           M == 1 .. Len(page)
           n == Len(entries)
           K == BlocksOf(t)
           typed == { B \in K : TypeOf(t, B) # Absent }
           fragments == K \ typed
           dashes == { i \in UNION { e.body : e \in AllEntries } : Is(page, i, "dashes") }
<1>1. /\ t \in Seq(Parts(M)) /\ Formed(t)
      /\ Cardinality(Where(t, BareLines)) = n
      /\ \A k \in 1 .. n : HasHeading(t, entries[k])
  BY TextOfConverted DEF PageTextOK
<1>2. n \in Nat /\ AllEntries = { entries[k] : k \in 1 .. n }
  BY EntriesOfConverted
<1>3. /\ Cardinality(Separators(t)) <= Cardinality(dashes) + (IF n = 0 THEN 0 ELSE n - 1)
      /\ Cardinality(dashes) \in Nat
  BY SeparatorsAreCounted
<1>4. \A e \in AllEntries : e.type \in RecognisedType
  <2>1. entries \in Seq(EntryRecord)
    BY EntriesOfConverted
  <2>2. \A k \in 1 .. n : entries[k] \in EntryRecord
    BY <2>1
  <2> QED
    BY <1>2, <2>2 DEF EntryRecord
<1>5. n = 0 => t = <<>>
  <2> SUFFICES ASSUME n = 0 PROVE t = <<>>
    OBVIOUS
  <2>1. t = PageText(page, layout, entries, 0)
    BY TextOfConverted
  <2> QED
    BY <2>1, NothingJoined DEF PageText
<1> HIDE DEF t, M, n, dashes
<1>6. Cardinality(typed) = n
  BY <1>1, TypedAreCounted
<1>7. ASSUME NEW e \in AllEntries
      PROVE  \E B \in typed : TypeOf(t, B) = e.type /\ FieldOf(t, "name", B) = {e.name}
  <2>1. PICK k \in 1 .. n : e = entries[k]
    BY <1>2
  <2>2. PICK i \in DOMAIN t : /\ i + 1 \in DOMAIN t
                              /\ t[i] = LabelLine("bare", e.type)
                              /\ t[i + 1] = LabelLine("name", {e.name})
    BY <1>1, <2>1 DEF HasHeading
  <2>3. /\ t[i].label = "bare" /\ t[i].value = e.type
        /\ t[i + 1].label = "name" /\ t[i + 1].value = {e.name}
    BY <2>2 DEF LabelLine
  <2>4. t[i] # Separator
    BY <1>4, <2>2, BareLinesFacts DEF BareLines
  <2>5. PICK B \in K : i \in B
    BY <1>1, <2>4, BlockFacts
  <2>6. i \in Labelled(t, "bare", B)
    BY <2>3, <2>5 DEF Labelled
  <2>7. i + 1 \in Labelled(t, "name", B)
    BY <1>1, <2>6, BlockReads
  <2>8. TypeOf(t, B) = e.type
    BY <1>1, <2>3, <2>6, TypeReads
  <2>9. FieldOf(t, "name", B) = {e.name}
    BY <1>1, <2>3, <2>7, FieldReads
  <2>10. TypeOf(t, B) # Absent
    BY <1>4, <2>8, RenderingAssumption
  <2> QED
    BY <2>5, <2>8, <2>9, <2>10
<1>8. ASSUME NEW B \in fragments
      PROVE  FieldOf(t, "name", B) = Absent
  <2>1. B \in K /\ TypeOf(t, B) = Absent
    OBVIOUS
  <2>2. Labelled(t, "bare", B) = {}
    BY <1>1, <2>1, TypeReads
  <2>3. Labelled(t, "name", B) = {}
    BY <1>1, <2>1, <2>2, BlockReads
  <2> QED
    BY <2>3 DEF FieldOf, NoFields, Field, ListField
<1>9. Cardinality(fragments) <= Cardinality(dashes)
  <2>1. /\ IsFiniteSet(K) /\ Cardinality(K) \in Nat /\ Cardinality(Separators(t)) \in Nat
        /\ Cardinality(K) <= Cardinality(Separators(t)) + 1
    BY <1>1, BlocksAreCounted
  <2>2. K \cap typed = typed
    OBVIOUS
  <2> HIDE DEF K, typed
  <2>3. Cardinality(fragments) = Cardinality(K) - n
    BY <1>6, <2>1, <2>2, FS_Difference
  <2>4. CASE n # 0
    <3>1. Cardinality(Separators(t)) <= Cardinality(dashes) + (n - 1)
      BY <1>3, <2>4
    <3> QED
      BY <1>2, <1>3, <2>1, <2>3, <3>1
  <2>5. CASE n = 0
    <3>1. t = <<>>
      BY <1>5, <2>5
    <3>2. DOMAIN t = {}
      BY <3>1
    <3>3. K = {}
      <4>1. \A B \in K : B # {} /\ B \subseteq DOMAIN t
        BY <1>1, BlockFacts DEF K
      <4> QED
        BY <3>2, <4>1
    <3>4. fragments = {}
      BY <3>3
    <3>5. Cardinality(fragments) = 0
      BY <3>4, FS_EmptySet
    <3> QED
      BY <1>3, <3>5
  <2> QED
    BY <2>4, <2>5
<1> QED
  BY <1>6, <1>7, <1>8, <1>9 DEF OneCandidatePerEntry, t, n, dashes

\* Whatever the page, the parser finds one candidate with a type and a name for
\* each entry of the converted page, under the entry's name, and beyond these no
\* more fragments than the page has separators in the text of its entries.
THEOREM OneCandidateForEachEntry == AdapterSpec => []OneCandidatePerEntry
BY AdapterInvariantHolds, PageStays, CandidatesOfPage, PTL

---------------------------------------------------------------------------
(* Where the parser reads each line.                                       *)

\* What the parser takes for a value of nothing.
ReadIn(t, B, f) ==
    LET value == FieldOf(t, f, B) IN IF value \in {Empty, Absent} THEN {} ELSE value

EntryField == {"traits", "trigger", "requirements", "effect"}

LabelAt(f) == IF f = "none" THEN "other" ELSE f

\* The lines of the page that block B of t has in field f, or in none.
ReadAt(t, s) ==
    IF s.field # "none" THEN ReadIn(t, s.block, s.field)
    ELSE UNION { t[i].value : i \in LeftoverOf(t, s.block) }

\* A field of a block is read as the lines rendered with its label.
LEMMA ReadWhatIsWritten ==
    ASSUME NEW M, Readable(M), NEW t \in Seq(Parts(M)), Formed(t),
           NEW s, s.block \in BlocksOf(t), s.field \in EntryField \cup {"none"}
    PROVE  ReadAt(t, s) = UNION { Words(t, i) : i \in Labelled(t, LabelAt(s.field), s.block) }
<1> DEFINE B == s.block
           f == s.field
           W == UNION { Words(t, i) : i \in Labelled(t, LabelAt(f), B) }
<1>1. \A i \in B : i \in DOMAIN t /\ t[i] # Separator /\ t[i] \in Parts(M)
  <2>1. B \subseteq DOMAIN t /\ \A i \in B : t[i] # Separator
    BY BlockFacts
  <2> QED
    BY <2>1
<1>2. CASE f # "none"
  <2>1. f \in WordLabel \ {"other"} /\ LabelAt(f) = f
    BY <1>2 DEF EntryField, WordLabel, LabelAt
  <2>2. ReadAt(t, s) = ReadIn(t, B, f)
    BY <1>2 DEF ReadAt
  <2>3. CASE Labelled(t, f, B) = {}
    <3>1. FieldOf(t, f, B) \in {Empty, Absent}
      BY <1>2, <2>3 DEF FieldOf, NoFields, Field, ListField, EntryField
    <3>2. ReadIn(t, B, f) = {}
      BY <3>1 DEF ReadIn
    <3> QED
      BY <2>1, <2>2, <2>3, <3>2
  <2>4. CASE Labelled(t, f, B) # {}
    <3>1. PICK i \in Labelled(t, f, B) : TRUE
      BY <2>4
    <3>2. Labelled(t, f, B) = {i}
      BY <3>1, BlockReads
    <3>3. FieldOf(t, f, B) = t[i].value
      BY <3>1, FieldReads
    <3>4. i \in B /\ t[i].label = f
      BY <3>1 DEF Labelled
    <3>5. t[i].value \in {Empty} \cup SUBSET M
      BY <1>1, <2>1, <3>4 DEF Parts
    <3>6. t[i].value = Absent => t[i].value = Empty
      BY <3>5 DEF Readable
    <3>7. Words(t, i) = IF t[i].value = Empty THEN {} ELSE t[i].value
      BY <1>1, <2>1, <3>4 DEF Words
    <3>8. ReadIn(t, B, f) = Words(t, i)
      BY <3>3, <3>6, <3>7 DEF ReadIn
    <3>9. W = Words(t, i)
      BY <2>1, <3>2
    <3> QED
      BY <2>2, <3>8, <3>9
  <2> QED
    BY <2>3, <2>4
<1>3. CASE f = "none"
  <2>1. LabelAt(f) = "other"
    BY <1>3 DEF LabelAt
  <2>2. LeftoverOf(t, B) = Labelled(t, "other", B)
    BY BlockReads
  <2>3. ReadAt(t, s) = UNION { t[i].value : i \in Labelled(t, "other", B) }
    BY <1>3, <2>2 DEF ReadAt
  <2>4. ASSUME NEW i \in Labelled(t, "other", B)
        PROVE  Words(t, i) = t[i].value
    <3>1. i \in B /\ t[i].label = "other"
      BY DEF Labelled
    <3>2. t[i].value \in SUBSET M
      BY <1>1, <3>1 DEF Parts
    <3>3. t[i].value # Empty
      BY <3>2 DEF Readable
    <3> QED
      BY <1>1, <3>1, <3>3 DEF Words, WordLabel
  <2>5. { t[i].value : i \in Labelled(t, "other", B) } = { Words(t, i) : i \in Labelled(t, "other", B) }
    BY <2>4
  <2> QED
    BY <2>1, <2>3, <2>5
<1> QED
  BY <1>2, <1>3

\* No line is read at two places.
LEMMA ReadOnce ==
    ASSUME NEW M, Readable(M), NEW t \in Seq(Parts(M)), Formed(t), Apart(t),
           NEW r \in [block : BlocksOf(t), field : EntryField \cup {"none"}],
           NEW s \in [block : BlocksOf(t), field : EntryField \cup {"none"}],
           NEW x, x \in ReadAt(t, r), x \in ReadAt(t, s)
    PROVE  r = s
<1>1. /\ ReadAt(t, r) = UNION { Words(t, i) : i \in Labelled(t, LabelAt(r.field), r.block) }
      /\ ReadAt(t, s) = UNION { Words(t, i) : i \in Labelled(t, LabelAt(s.field), s.block) }
  BY ReadWhatIsWritten
<1>2. PICK i \in Labelled(t, LabelAt(r.field), r.block) : x \in Words(t, i)
  BY <1>1
<1>3. PICK j \in Labelled(t, LabelAt(s.field), s.block) : x \in Words(t, j)
  BY <1>1
<1>4. /\ i \in r.block /\ t[i].label = LabelAt(r.field)
      /\ j \in s.block /\ t[j].label = LabelAt(s.field)
  BY DEF Labelled
<1>5. r.block \in BlocksOf(t) /\ s.block \in BlocksOf(t)
  OBVIOUS
<1>6. i \in DOMAIN t /\ j \in DOMAIN t
  <2>1. r.block \subseteq DOMAIN t /\ s.block \subseteq DOMAIN t
    BY <1>5, BlockFacts
  <2> QED
    BY <1>4, <2>1
<1>7. i = j
  BY <1>2, <1>3, <1>6 DEF Apart
<1>8. r.block = s.block
  <2>1. r.block # s.block => r.block \cap s.block = {}
    BY <1>5, BlockFacts
  <2> QED
    BY <1>4, <1>7, <2>1
<1>9. r.field = s.field
  BY <1>4, <1>7 DEF LabelAt, EntryField
<1> QED
  BY <1>8, <1>9

\* Every line of a text is read somewhere.
LEMMA AllIsRead ==
    ASSUME NEW M, Readable(M), NEW t \in Seq(Parts(M)), Formed(t), NEW x \in AllWords(t)
    PROVE  \E s \in [block : BlocksOf(t), field : EntryField \cup {"none"}] : x \in ReadAt(t, s)
<1>1. PICK i \in DOMAIN t : x \in Words(t, i)
  BY DEF AllWords
<1>2. t[i] # Separator /\ t[i].label \in WordLabel
  BY <1>1 DEF Words
<1>3. PICK B \in BlocksOf(t) : i \in B
  BY <1>2, BlockFacts
<1> DEFINE f == IF t[i].label = "other" THEN "none" ELSE t[i].label
           s == [block |-> B, field |-> f]
<1>4. f \in EntryField \cup {"none"} /\ LabelAt(f) = t[i].label
  BY <1>2 DEF WordLabel, EntryField, LabelAt
<1> HIDE DEF f
<1>5. s \in [block : BlocksOf(t), field : EntryField \cup {"none"}] /\ s.block = B /\ s.field = f
  BY <1>4
<1> HIDE DEF s
<1>6. ReadAt(t, s) = UNION { Words(t, j) : j \in Labelled(t, LabelAt(s.field), s.block) }
  BY <1>5, <1>4, ReadWhatIsWritten
<1>7. i \in Labelled(t, LabelAt(s.field), s.block)
  BY <1>3, <1>4, <1>5 DEF Labelled
<1>8. x \in ReadAt(t, s)
  BY <1>1, <1>6, <1>7
<1> QED
  BY <1>5, <1>8

\* Every paragraph opens at a line.
LEMMA OpeningsHaveAMin ==
    ASSUME NEW p, NEW body, body \subseteq Nat, NEW label, NEW B \in Opening(p, body, label)
    PROVE  Min(B) \in Nat
<1> DEFINE blanks == { i \in body : Is(p, i, "blank") }
<1>1. B \in Runs(body \ blanks, blanks)
  BY DEF Opening, Paragraphs
<1> HIDE DEF blanks
<1>2. B # {} /\ B \subseteq body \ blanks
  BY <1>1, RunsFacts
<1>3. B \subseteq Nat
  BY <1>2
<1>4. PICK x \in B : \A y \in B : x <= y
  BY <1>2, <1>3, LeastLine
<1>5. Min(B) = x
  BY <1>3, <1>4, MinIsLeast
<1> QED
  BY <1>3, <1>5

\* On a converted page every line of an entry is read where it was rendered.
LEMMA LinesReadBack ==
    AdapterInvariant /\ PageIsGiven => BlocksParseBack
<1> SUFFICES ASSUME AdapterInvariant, PageIsGiven, Converted
             PROVE  BlocksParseBack
  BY DEF BlocksParseBack
<1> DEFINE t == Output(page, layout, entries)
           M == 1 .. Len(page)
           n == Len(entries)
           V == LinesUpTo(page, layout, entries, n)
           Place == [block : BlocksOf(t), field : EntryField \cup {"none"}]
           Lost(e) == { i \in e.body : page[i].kind \notin {"blank", "dashes"} }
                          \ UNION { ReadAt(t, s) : s \in Place }
<1>1. /\ t \in Seq(Parts(M)) /\ Formed(t) /\ Apart(t) /\ AllWords(t) = V \ Dashes(page, V)
  BY TextOfConverted DEF PageTextOK
<1>2. n \in Nat /\ AllEntries = { entries[k] : k \in 1 .. n }
  BY EntriesOfConverted
<1>3. Readable(M)
  BY PageIsReadable
<1>4. \A e \in AllEntries : EntryOnPage(page, e)
  <2>1. entries \in Seq(EntryRecord)
    BY EntriesOfConverted
  <2>2. \A e \in AllEntries : e \in EntryRecord
    BY <1>2, <2>1
  <2> QED
    BY <2>2, EntryHasOwnLines
<1> HIDE DEF t, M
<1>5. \A r, s \in Place : r # s => ReadAt(t, r) \cap ReadAt(t, s) = {}
  BY <1>1, <1>3, ReadOnce
<1>6. \A B \in BlocksOf(t) : TypeOf(t, B) # Absent => LeftoverOf(t, B) = {}
  <2> SUFFICES ASSUME NEW B \in BlocksOf(t), TypeOf(t, B) # Absent
               PROVE  LeftoverOf(t, B) = {}
    OBVIOUS
  <2>1. Labelled(t, "bare", B) # {}
    BY <1>1, TypeReads
  <2>2. Labelled(t, "other", B) = {}
    BY <1>1, <2>1, BlockReads
  <2> QED
    BY <1>1, <2>2, BlockReads
<1>7. ASSUME NEW e \in AllEntries, NEW i \in Lost(e)
      PROVE  \E label \in {"requirements", "trigger"} :
               \E q, r \in Opening(page, e.body, label) : i \in Clause(page, q) /\ Min(q) < Min(r)
  <2>1. /\ i \in e.body /\ page[i].kind \notin {"blank", "dashes"}
        /\ \A s \in Place : i \notin ReadAt(t, s)
    OBVIOUS
  <2>2. i \notin AllWords(t)
    BY <1>1, <1>3, <2>1, AllIsRead
  <2>3. i \notin V
    BY <1>1, <2>1, <2>2 DEF Dashes, Is
  <2>4. PICK k \in 1 .. n : e = entries[k]
    BY <1>2
  <2>5. i \notin LinesOf(page, layout, e)
    BY <2>3, <2>4 DEF LinesUpTo
  <2>6. ~Is(page, i, "blank")
    BY <2>1 DEF Is
  <2>7. PICK label \in {"requirements", "trigger"} :
          \E q \in Opening(page, e.body, label) : \E r \in Opening(page, e.body, label) :
             i \in Clause(page, q) /\ ~(Min(r) <= Min(q))
    BY <2>1, <2>5, <2>6, LinesKept
  <2>8. PICK q \in Opening(page, e.body, label) : \E r \in Opening(page, e.body, label) :
             i \in Clause(page, q) /\ ~(Min(r) <= Min(q))
    BY <2>7
  <2>9. PICK r \in Opening(page, e.body, label) : i \in Clause(page, q) /\ ~(Min(r) <= Min(q))
    BY <2>8
  <2>10. e.body \subseteq Nat
    BY <1>4 DEF EntryOnPage
  <2>11. Min(q) \in Nat /\ Min(r) \in Nat
    BY <2>10, OpeningsHaveAMin
  <2>12. Min(q) < Min(r)
    BY <2>9, <2>11
  <2> QED
    BY <2>9, <2>12
<1> QED
  BY <1>5, <1>6, <1>7 DEF BlocksParseBack, ReadAt, ReadIn, EntryField, t

\* Whatever the page, the parser reads every line of an entry into one field of
\* one candidate, or leaves it over in a fragment; what is missing stood behind
\* a label that a later paragraph of the entry repeats.
THEOREM BlocksAreParsedBack == AdapterSpec => []BlocksParseBack
BY AdapterInvariantHolds, PageStays, LinesReadBack, PTL
=============================================================================
