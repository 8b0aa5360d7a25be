-------------------------- MODULE ScopeCodec_proofs --------------------------
(***************************************************************************)
(* What holds of the scopes for every text: parse_input_scope reads back   *)
(* what the wire shape was made from, and takes nothing else; the scope of *)
(* an admission determines what is admitted and where it comes from, as    *)
(* long as no location holds a tilde; and how much room it leaves.         *)
(***************************************************************************)
EXTENDS ScopeCodec, TLAPS

(***************************************************************************)
(* split_once and its inverse.                                             *)
(***************************************************************************)

\* A joined text is a text, as long as its parts and the delimiter.
LEMMA JoinIsText ==
    ASSUME NEW a \in Text, NEW b \in Text, NEW c \in Delimiter
    PROVE  /\ Join(a, c, b) \in Text
           /\ Len(Join(a, c, b)) = Len(a) + 1 + Len(b)
           /\ \A i \in 1 .. Len(a) : Join(a, c, b)[i] = a[i]
           /\ Join(a, c, b)[Len(a) + 1] = c
           /\ \A i \in 1 .. Len(b) : Join(a, c, b)[Len(a) + 1 + i] = b[i]
<1>1. c \in Char
  BY DEF Char
<1>2. <<c>> \in Text /\ Len(<<c>>) = 1 /\ <<c>>[1] = c
  BY <1>1 DEF Text
<1> DEFINE ac == a \o <<c>>
<1>3. /\ ac \in Text
      /\ Len(ac) = Len(a) + 1
      /\ \A i \in 1 .. Len(a) : ac[i] = a[i]
      /\ ac[Len(a) + 1] = c
  BY <1>2 DEF Text
<1>4. Join(a, c, b) = ac \o b
  BY DEF Join
<1> HIDE DEF ac
<1>5. /\ Len(a) \in Nat /\ Len(b) \in Nat
      /\ ac \o b \in Text
      /\ Len(ac \o b) = Len(ac) + Len(b)
      /\ \A i \in 1 .. Len(ac) : (ac \o b)[i] = ac[i]
      /\ \A i \in 1 .. Len(b) : (ac \o b)[Len(ac) + i] = b[i]
  BY <1>3 DEF Text
<1>6. \A i \in 1 .. Len(a) : i \in 1 .. Len(ac)
  BY <1>3, <1>5
<1>7. Len(a) + 1 \in 1 .. Len(ac)
  BY <1>3, <1>5
<1> QED
  BY <1>3, <1>4, <1>5, <1>6, <1>7

\* A text has the characters of its parts.
LEMMA HasInJoin ==
    ASSUME NEW a \in Text, NEW b \in Text, NEW c \in Delimiter, NEW d,
           ~Has(a, d), ~Has(b, d), c # d
    PROVE  ~Has(Join(a, c, b), d)
<1> DEFINE s == Join(a, c, b)
<1>1. SUFFICES ASSUME NEW i \in DOMAIN s, s[i] = d PROVE FALSE
  BY DEF Has
<1>2. /\ s \in Text
      /\ Len(s) = Len(a) + 1 + Len(b)
      /\ \A j \in 1 .. Len(a) : s[j] = a[j]
      /\ s[Len(a) + 1] = c
      /\ \A j \in 1 .. Len(b) : s[Len(a) + 1 + j] = b[j]
  BY JoinIsText
<1> HIDE DEF s
<1>3. i \in 1 .. Len(a) + 1 + Len(b) /\ Len(a) \in Nat /\ Len(b) \in Nat
  BY <1>1, <1>2 DEF Text
<1>4. CASE i \in 1 .. Len(a)
  BY <1>1, <1>2, <1>4 DEF Has, Text
<1>5. CASE i = Len(a) + 1
  BY <1>1, <1>2, <1>5
<1>6. CASE i > Len(a) + 1
  <2>1. i - (Len(a) + 1) \in 1 .. Len(b)
    BY <1>3, <1>6
  <2>2. s[Len(a) + 1 + (i - (Len(a) + 1))] = b[i - (Len(a) + 1)]
    BY <1>2, <2>1
  <2>3. Len(a) + 1 + (i - (Len(a) + 1)) = i
    BY <1>3
  <2> QED
    BY <1>1, <2>1, <2>2, <2>3 DEF Has, Text
<1> QED
  BY <1>3, <1>4, <1>5, <1>6

\* There is one first place.
LEMMA FirstIsUnique ==
    ASSUME NEW s \in Text, NEW c, NEW k \in DOMAIN s, IsFirst(s, c, k)
    PROVE  Splits(s, c) /\ First(s, c) = k
<1>1. \A j \in DOMAIN s : IsFirst(s, c, j) => j = k
  BY DEF IsFirst, Text
<1> QED
  BY <1>1 DEF Splits, First

\* Splitting undoes joining, where the left part does not have the delimiter.
LEMMA SplitOfJoin ==
    ASSUME NEW a \in Text, NEW b \in Text, NEW c \in Delimiter, ~Has(a, c)
    PROVE  /\ Splits(Join(a, c, b), c)
           /\ Before(Join(a, c, b), c) = a
           /\ After(Join(a, c, b), c) = b
<1> DEFINE s == Join(a, c, b)
           k == Len(a) + 1
<1>1. /\ s \in Text
      /\ Len(s) = Len(a) + 1 + Len(b)
      /\ \A i \in 1 .. Len(a) : s[i] = a[i]
      /\ s[k] = c
      /\ \A i \in 1 .. Len(b) : s[Len(a) + 1 + i] = b[i]
  BY JoinIsText
<1> HIDE DEF s
<1>2. k \in DOMAIN s /\ IsFirst(s, c, k)
  BY <1>1 DEF IsFirst, Has, Text
<1>3. Splits(s, c) /\ First(s, c) = k
  BY <1>1, <1>2, FirstIsUnique
<1>4. SubSeq(s, 1, k - 1) = a
  BY <1>1 DEF Text
<1>5. SubSeq(s, k + 1, Len(s)) = b
  BY <1>1 DEF Text
<1> QED
  BY <1>3, <1>4, <1>5 DEF s, Before, After

\* Joining undoes splitting.
LEMMA JoinOfSplit ==
    ASSUME NEW s \in Text, NEW c \in Delimiter, Splits(s, c)
    PROVE  /\ Before(s, c) \in Text /\ ~Has(Before(s, c), c)
           /\ After(s, c) \in Text
           /\ s = Join(Before(s, c), c, After(s, c))
<1>1. PICK k \in DOMAIN s : IsFirst(s, c, k)
  BY DEF Splits
<1>2. First(s, c) = k
  BY <1>1, FirstIsUnique
<1> DEFINE a == SubSeq(s, 1, k - 1)
           b == SubSeq(s, k + 1, Len(s))
<1>3. k \in 1 .. Len(s) /\ Len(s) \in Nat /\ s[k] = c
  BY <1>1 DEF IsFirst, Text
<1>4. a \in Text /\ Len(a) = k - 1 /\ \A i \in 1 .. k - 1 : a[i] = s[i]
  BY <1>3 DEF Text
<1>5. b \in Text /\ Len(b) = Len(s) - k /\ \A i \in 1 .. Len(s) - k : b[i] = s[k + i]
  BY <1>3 DEF Text
<1>6. ~Has(a, c)
  BY <1>1, <1>4 DEF Has, IsFirst, Text
<1> HIDE DEF a, b
<1> DEFINE t == Join(a, c, b)
<1>7. /\ t \in Text
      /\ Len(t) = Len(s)
      /\ \A i \in 1 .. k - 1 : t[i] = s[i]
      /\ t[k] = s[k]
      /\ \A i \in 1 .. Len(s) - k : t[k + i] = s[k + i]
  <2>1. /\ t \in Text
        /\ Len(t) = Len(a) + 1 + Len(b)
        /\ \A i \in 1 .. Len(a) : t[i] = a[i]
        /\ t[Len(a) + 1] = c
        /\ \A i \in 1 .. Len(b) : t[Len(a) + 1 + i] = b[i]
    BY <1>4, <1>5, JoinIsText
  <2> HIDE DEF t
  <2>2. Len(a) + 1 = k
    BY <1>3, <1>4
  <2>3. Len(a) = k - 1 /\ Len(b) = Len(s) - k /\ k \in Nat /\ Len(s) \in Nat
    BY <1>3, <1>4, <1>5
  <2>4. \A m, n \in Nat : m - 1 + 1 + (n - m) = n
    OBVIOUS
  <2>5. Len(a) + 1 + Len(b) = Len(s)
    <3>1. k - 1 + 1 + (Len(s) - k) = Len(s)
      BY <2>3, <2>4
    <3> HIDE DEF a, b
    <3> QED
      BY <2>3, <3>1
  <2> QED
    BY <1>3, <1>4, <1>5, <2>1, <2>2, <2>5
<1> HIDE DEF t
<1>8. ASSUME NEW i \in 1 .. Len(s) PROVE t[i] = s[i]
  <2>1. CASE i > k
    <3>1. i - k \in 1 .. Len(s) - k /\ k + (i - k) = i
      BY <1>3, <2>1
    <3> QED
      BY <1>7, <3>1
  <2> QED
    BY <1>3, <1>7, <2>1
<1>9. t = s
  BY <1>7, <1>8 DEF Text
<1> QED
  BY <1>2, <1>4, <1>5, <1>6, <1>9 DEF a, b, t, Before, After

\* Equal joins have equal parts, where neither left part has the delimiter.
LEMMA JoinCancels ==
    ASSUME NEW a \in Text, NEW b \in Text, NEW x \in Text, NEW y \in Text,
           NEW c \in Delimiter, ~Has(a, c), ~Has(x, c), Join(a, c, b) = Join(x, c, y)
    PROVE  a = x /\ b = y
<1>1. Before(Join(a, c, b), c) = a /\ After(Join(a, c, b), c) = b
  BY SplitOfJoin
<1>2. Before(Join(x, c, y), c) = x /\ After(Join(x, c, y), c) = y
  BY SplitOfJoin
<1> QED
  BY <1>1, <1>2

LEMMA JoinsCancel ==
    \A c \in Delimiter : \A a, b, x, y \in Text :
        ~Has(a, c) /\ ~Has(x, c) /\ Join(a, c, b) = Join(x, c, y) => a = x /\ b = y
BY JoinCancels

LEMMA JoinsAreTexts ==
    \A c \in Delimiter : \A a, b \in Text :
        Join(a, c, b) \in Text /\ Len(Join(a, c, b)) = Len(a) + 1 + Len(b)
BY JoinIsText

\* What a text does not have, its parts do not have.
LEMMA PartsHaveLess ==
    ASSUME NEW a \in Text, NEW b \in Text, NEW c \in Delimiter, NEW d,
           ~Has(Join(a, c, b), d)
    PROVE  ~Has(a, d) /\ ~Has(b, d)
<1> DEFINE s == Join(a, c, b)
<1>1. /\ s \in Text
      /\ Len(s) = Len(a) + 1 + Len(b)
      /\ \A i \in 1 .. Len(a) : s[i] = a[i]
      /\ \A i \in 1 .. Len(b) : s[Len(a) + 1 + i] = b[i]
  BY JoinIsText
<1> HIDE DEF s
<1>2. DOMAIN a = 1 .. Len(a) /\ DOMAIN b = 1 .. Len(b) /\ DOMAIN s = 1 .. Len(s)
      /\ Len(a) \in Nat /\ Len(b) \in Nat
  BY <1>1 DEF Text
<1>3. \A i \in 1 .. Len(a) : i \in DOMAIN s
  BY <1>1, <1>2
<1>4. \A i \in 1 .. Len(b) : Len(a) + 1 + i \in DOMAIN s
  BY <1>1, <1>2
<1>5. \A i \in DOMAIN s : s[i] # d
  BY DEF Has, s
<1> QED
  BY <1>1, <1>2, <1>3, <1>4, <1>5 DEF Has

(***************************************************************************)
(* The scope of pf2e.parse.                                                *)
(***************************************************************************)

\* The header's parts, with the delimiters that would cut them elsewhere.
LEMMA HeaderIsText ==
    ASSUME NEW id \in PlainText, NEW version \in PlainText, NEW digest \in PlainText,
           NEW location \in Text, ~Has(location, "|"), ~Has(location, "!")
    PROVE  LET iv == Join(id, "@", version)
               ivl == Join(iv, "#", location)
               header == Join(ivl, "!", digest)
           IN  /\ iv \in Text /\ ~Has(iv, "#")
               /\ ivl \in Text /\ ~Has(ivl, "!")
               /\ header \in Text /\ ~Has(header, "|")
<1> DEFINE iv == Join(id, "@", version)
           ivl == Join(iv, "#", location)
           header == Join(ivl, "!", digest)
<1>1. {"@", "#", "!", "|"} \subseteq Delimiter
  BY DEF Delimiter
<1>2. /\ id \in Text /\ version \in Text /\ digest \in Text
      /\ \A d \in Delimiter : ~Has(id, d) /\ ~Has(version, d) /\ ~Has(digest, d)
  BY DEF PlainText
<1>3. iv \in Text /\ ~Has(iv, "#") /\ ~Has(iv, "!") /\ ~Has(iv, "|")
  BY <1>1, <1>2, JoinIsText, HasInJoin
<1> HIDE DEF iv
<1>4. ivl \in Text /\ ~Has(ivl, "!") /\ ~Has(ivl, "|")
  BY <1>1, <1>3, JoinIsText, HasInJoin
<1> HIDE DEF ivl
<1>5. header \in Text /\ ~Has(header, "|")
  BY <1>1, <1>2, <1>4, JoinIsText, HasInJoin
<1> QED
  BY <1>3, <1>4, <1>5 DEF iv, ivl, header

\* parse_input_scope reads back exactly the parts a scope of the documented
\* shape was made from: the source text may hold every delimiter, and the
\* location all but those two that end it.
THEOREM InputScopesReadBack ==
    ASSUME NEW id \in PlainText, NEW version \in PlainText, NEW digest \in PlainText,
           NEW location \in Text, NEW text \in Text,
           ~Has(location, "|"), ~Has(location, "!"),
           FieldsParse(id, version, location, digest)
    PROVE  ParseInputScope(InputScope(id, version, location, digest, text)) =
               SourceOf(id, version, location, digest, text)
<1> DEFINE iv == Join(id, "@", version)
           ivl == Join(iv, "#", location)
           header == Join(ivl, "!", digest)
           scope == Join(header, "|", text)
<1>1. {"@", "#", "!", "|"} \subseteq Delimiter
  BY DEF Delimiter
<1>2. /\ id \in Text /\ version \in Text /\ digest \in Text
      /\ ~Has(id, "@")
  BY <1>1 DEF PlainText
<1>3. /\ iv \in Text /\ ~Has(iv, "#")
      /\ ivl \in Text /\ ~Has(ivl, "!")
      /\ header \in Text /\ ~Has(header, "|")
  BY HeaderIsText
<1>4. Splits(iv, "@") /\ Before(iv, "@") = id /\ After(iv, "@") = version
  BY <1>1, <1>2, SplitOfJoin
<1> HIDE DEF iv
<1>5. Splits(ivl, "#") /\ Before(ivl, "#") = iv /\ After(ivl, "#") = location
  BY <1>1, <1>3, SplitOfJoin
<1> HIDE DEF ivl
<1>6. Splits(header, "!") /\ Before(header, "!") = ivl /\ After(header, "!") = digest
  BY <1>1, <1>2, <1>3, SplitOfJoin
<1> HIDE DEF header
<1>7. Splits(scope, "|") /\ Before(scope, "|") = header /\ After(scope, "|") = text
  BY <1>1, <1>3, SplitOfJoin
<1>8. InputScope(id, version, location, digest, text) = scope
  BY DEF InputScope, iv, ivl, header
<1> HIDE DEF scope
<1> QED
  BY <1>4, <1>5, <1>6, <1>7, <1>8 DEF ParseInputScope

\* Whatever it accepts has that shape, with a location that is neither empty
\* nor holds one of the delimiters that end it: no character of the scope is
\* dropped or falls to another field.
THEOREM OnlyInputScopesParse ==
    ASSUME NEW scope \in Text, ParseInputScope(scope) # MalformedScope
    PROVE  \E id, version, location, digest, text \in Text :
               /\ scope = InputScope(id, version, location, digest, text)
               /\ FieldsParse(id, version, location, digest)
               /\ ~Has(id, "@") /\ ~Has(location, "!")
               /\ ~Has(location, "|") /\ ~Has(digest, "|")
               /\ ParseInputScope(scope) = SourceOf(id, version, location, digest, text)
<1> DEFINE header == Before(scope, "|")
           text == After(scope, "|")
           ivl == Before(header, "!")
           digest == After(header, "!")
           iv == Before(ivl, "#")
           location == After(ivl, "#")
           id == Before(iv, "@")
           version == After(iv, "@")
<1>1. {"@", "#", "!", "|"} \subseteq Delimiter
  BY DEF Delimiter
<1>2. /\ Splits(scope, "|") /\ Splits(header, "!")
      /\ Splits(ivl, "#") /\ Splits(iv, "@")
      /\ FieldsParse(id, version, location, digest)
      /\ ParseInputScope(scope) = SourceOf(id, version, location, digest, text)
  BY DEF ParseInputScope
<1>3. /\ header \in Text /\ ~Has(header, "|") /\ text \in Text
      /\ scope = Join(header, "|", text)
  BY <1>1, <1>2, JoinOfSplit
<1> HIDE DEF header, text
<1>4. /\ ivl \in Text /\ ~Has(ivl, "!") /\ digest \in Text
      /\ header = Join(ivl, "!", digest)
  BY <1>1, <1>2, <1>3, JoinOfSplit
<1> HIDE DEF ivl, digest
<1>5. /\ iv \in Text /\ location \in Text
      /\ ivl = Join(iv, "#", location)
  BY <1>1, <1>2, <1>4, JoinOfSplit
<1> HIDE DEF iv, location
<1>6. /\ id \in Text /\ ~Has(id, "@") /\ version \in Text
      /\ iv = Join(id, "@", version)
  BY <1>1, <1>2, <1>5, JoinOfSplit
<1> HIDE DEF id, version
<1>7. ~Has(ivl, "|") /\ ~Has(digest, "|")
  BY <1>1, <1>3, <1>4, PartsHaveLess
<1>8. ~Has(location, "|") /\ ~Has(location, "!")
  BY <1>1, <1>4, <1>5, <1>7, PartsHaveLess
<1>9. scope = InputScope(id, version, location, digest, text)
  BY <1>3, <1>4, <1>5, <1>6 DEF InputScope
<1> QED
  BY <1>2, <1>3, <1>4, <1>5, <1>6, <1>7, <1>8, <1>9

(***************************************************************************)
(* The scope of pf2e.rules.admit.                                          *)
(***************************************************************************)

\* What comes behind the last delimiter but four.
LEMMA ProvenanceIsText ==
    ASSUME NEW source \in ShownSource, NEW name \in Text
    PROVE  Provenance(source, name) \in Text
<1>1. "~" \in Delimiter
  BY DEF Delimiter
<1>2. /\ source.document_id \in Text /\ source.document_version \in Text
      /\ source.content_digest \in Text /\ source.location \in Text
  BY DEF ShownSource
<1>3. \A a, b \in Text : Join(a, "~", b) \in Text
  BY <1>1, JoinIsText
<1> HIDE DEF Text
<1> QED
  BY <1>2, <1>3 DEF Provenance

\* Equal provenance is provenance from one place, under one name.
LEMMA ProvenanceIsUnambiguous ==
    ASSUME NEW s \in ShownSource, NEW t \in ShownSource, NEW m \in Text, NEW n \in Text,
           ~Has(s.document_id, "~"), ~Has(s.document_version, "~"),
           ~Has(s.content_digest, "~"), ~Has(s.location, "~"),
           ~Has(t.document_id, "~"), ~Has(t.document_version, "~"),
           ~Has(t.content_digest, "~"), ~Has(t.location, "~"),
           Provenance(s, m) = Provenance(t, n)
    PROVE  s = t /\ m = n
<1>1. "~" \in Delimiter
  BY DEF Delimiter
<1>2. /\ s.document_id \in Text /\ s.document_version \in Text
      /\ s.content_digest \in Text /\ s.location \in Text
      /\ t.document_id \in Text /\ t.document_version \in Text
      /\ t.content_digest \in Text /\ t.location \in Text
  BY DEF ShownSource
<1>3. \A a, b \in Text : Join(a, "~", b) \in Text
  BY <1>1, JoinIsText
<1>4. \A a, b, x, y \in Text :
         ~Has(a, "~") /\ ~Has(x, "~") /\ Join(a, "~", b) = Join(x, "~", y) => a = x /\ b = y
  BY <1>1, JoinCancels
<1> DEFINE placeS == Join(s.location, "~", m)
           placeT == Join(t.location, "~", n)
           digestS == Join(s.content_digest, "~", placeS)
           digestT == Join(t.content_digest, "~", placeT)
           versionS == Join(s.document_version, "~", digestS)
           versionT == Join(t.document_version, "~", digestT)
<1>5. placeS \in Text /\ placeT \in Text
  BY <1>2, <1>3
<1>6. placeS = placeT => s.location = t.location /\ m = n
  BY <1>2, <1>4
<1> HIDE DEF placeS, placeT
<1>7. digestS \in Text /\ digestT \in Text
  BY <1>2, <1>3, <1>5
<1>8. digestS = digestT => s.content_digest = t.content_digest /\ placeS = placeT
  BY <1>2, <1>4, <1>5
<1> HIDE DEF digestS, digestT
<1>9. versionS \in Text /\ versionT \in Text
  BY <1>2, <1>3, <1>7
<1>10. versionS = versionT => s.document_version = t.document_version /\ digestS = digestT
  BY <1>2, <1>4, <1>7
<1> HIDE DEF versionS, versionT
<1>11. /\ Provenance(s, m) = Join(s.document_id, "~", versionS)
       /\ Provenance(t, n) = Join(t.document_id, "~", versionT)
  BY DEF Provenance, versionS, versionT, digestS, digestT, placeS, placeT
<1>12. s.document_id = t.document_id /\ versionS = versionT
  <2>1. Join(s.document_id, "~", versionS) = Join(t.document_id, "~", versionT)
    BY <1>11
  <2>2. s.document_id \in Text /\ t.document_id \in Text
    BY <1>2
  <2> QED
    BY <2>1, <2>2, <1>4, <1>9
<1> QED
  BY <1>6, <1>8, <1>10, <1>12 DEF ShownSource

\* The scope of an admission says what is admitted and where it comes from:
\* it cannot stand for two candidates, sources or names, unless a location
\* holds the tilde that ends it.  The name may hold anything.
THEOREM AdmitScopesAreUnambiguous ==
    ASSUME PARSER_VERSION \in PlainText,
           NEW s, NEW t, NEW c, NEW d,
           IsShown(s, c), IsShown(t, d),
           ~Has(s.location, "~"), ~Has(t.location, "~"),
           AdmitScopeFor(s, c) = AdmitScopeFor(t, d)
    PROVE  s = t /\ c = d
<1>1. {"@", "#", "!", "|", "~"} \subseteq Delimiter
  BY DEF Delimiter
<1>2. /\ s \in ShownSource /\ t \in ShownSource
      /\ c \in ShownCandidate /\ d \in ShownCandidate
      /\ c.name \in Text /\ d.name \in Text
  BY DEF IsShown, ShownCandidate
<1>3. PARSER_VERSION \in Text /\ ~Has(PARSER_VERSION, "#")
  BY <1>1 DEF PlainText
<1>4. /\ c.candidate_id \in Text /\ ~Has(c.candidate_id, "@")
      /\ d.candidate_id \in Text /\ ~Has(d.candidate_id, "@")
      /\ c.rule_type \in Text /\ ~Has(c.rule_type, "!")
      /\ d.rule_type \in Text /\ ~Has(d.rule_type, "!")
      /\ c.confidence \in Text /\ ~Has(c.confidence, "|")
      /\ d.confidence \in Text /\ ~Has(d.confidence, "|")
  BY <1>1 DEF IsShown, PlainText
<1>5. \A x \in {s, t} : /\ ~Has(x.document_id, "~") /\ ~Has(x.document_version, "~")
                        /\ ~Has(x.content_digest, "~")
  BY <1>1 DEF IsShown, PlainText
<1> DEFINE fromS == Provenance(s, c.name)
           fromT == Provenance(t, d.name)
           sureC == Join(c.confidence, "|", fromS)
           sureD == Join(d.confidence, "|", fromT)
           typeC == Join(c.rule_type, "!", sureC)
           typeD == Join(d.rule_type, "!", sureD)
           madeC == Join(PARSER_VERSION, "#", typeC)
           madeD == Join(PARSER_VERSION, "#", typeD)
<1>6. fromS \in Text /\ fromT \in Text
  BY <1>2, ProvenanceIsText
<1>7. fromS = fromT => s = t /\ c.name = d.name
  BY <1>2, <1>5, ProvenanceIsUnambiguous
<1> HIDE DEF fromS, fromT
<1>8. sureC \in Text /\ sureD \in Text
  BY <1>1, <1>4, <1>6, JoinsAreTexts
<1>9. sureC = sureD => c.confidence = d.confidence /\ fromS = fromT
  BY <1>1, <1>4, <1>6, JoinsCancel
<1> HIDE DEF sureC, sureD
<1>10. typeC \in Text /\ typeD \in Text
  BY <1>1, <1>4, <1>8, JoinsAreTexts
<1>11. typeC = typeD => c.rule_type = d.rule_type /\ sureC = sureD
  BY <1>1, <1>4, <1>8, JoinsCancel
<1> HIDE DEF typeC, typeD
<1>12. madeC \in Text /\ madeD \in Text
  BY <1>1, <1>3, <1>10, JoinsAreTexts
<1>13. madeC = madeD => typeC = typeD
  BY <1>1, <1>3, <1>10, JoinsCancel
<1> HIDE DEF madeC, madeD
<1>14. /\ AdmitScopeFor(s, c) = Join(c.candidate_id, "@", madeC)
       /\ AdmitScopeFor(t, d) = Join(d.candidate_id, "@", madeD)
  BY DEF AdmitScopeFor, madeC, madeD, typeC, typeD, sureC, sureD, fromS, fromT
<1>15. c.candidate_id = d.candidate_id /\ madeC = madeD
  <2>1. Join(c.candidate_id, "@", madeC) = Join(d.candidate_id, "@", madeD)
    BY <1>14
  <2>2. /\ c.candidate_id \in Text /\ ~Has(c.candidate_id, "@")
        /\ d.candidate_id \in Text /\ ~Has(d.candidate_id, "@")
    BY <1>4
  <2>3. "@" \in Delimiter
    BY <1>1
  <2> QED
    BY <2>1, <2>2, <2>3, <1>12, JoinsCancel
<1> QED
  BY <1>2, <1>7, <1>9, <1>11, <1>13, <1>15 DEF ShownCandidate

LEMMA LimitLeaves ==
    ASSUME NEW type \in Nat, NEW version \in Nat, NEW location \in Nat, NEW name \in Nat
    PROVE  144 + (type + version + location + name) <= 200
               <=> type + version + location + name <= 56
OBVIOUS

\* With the usual lengths a scope leaves 56 characters for the type, the
\* version, the location and the name together: a Request the kernel took can
\* ask for a candidate it will never take.
THEOREM RoomInAnAdmitScope ==
    ASSUME PARSER_VERSION \in PlainText, NEW source, NEW candidate,
           IsShown(source, candidate), HasUsualLengths(source, candidate)
    PROVE  Len(AdmitScopeFor(source, candidate)) <= SCOPE_LIMIT
               <=> Len(candidate.rule_type) + Len(source.document_version)
                       + Len(source.location) + Len(candidate.name) <= 56
<1>1. {"@", "#", "!", "|", "~"} \subseteq Delimiter
  BY DEF Delimiter
<1>2. /\ source.document_id \in Text /\ source.document_version \in Text
      /\ source.content_digest \in Text /\ source.location \in Text
      /\ candidate.candidate_id \in Text /\ candidate.rule_type \in Text
      /\ candidate.confidence \in Text /\ candidate.name \in Text
      /\ PARSER_VERSION \in Text
      /\ source \in ShownSource
  BY DEF IsShown, ShownSource, ShownCandidate, PlainText
<1>3. \A x \in Delimiter : \A a, b \in Text :
         Join(a, x, b) \in Text /\ Len(Join(a, x, b)) = Len(a) + 1 + Len(b)
  BY JoinsAreTexts
<1> DEFINE place == Join(source.location, "~", candidate.name)
           digest == Join(source.content_digest, "~", place)
           version == Join(source.document_version, "~", digest)
           from == Join(source.document_id, "~", version)
           sure == Join(candidate.confidence, "|", from)
           type == Join(candidate.rule_type, "!", sure)
           made == Join(PARSER_VERSION, "#", type)
           whole == Join(candidate.candidate_id, "@", made)
<1>4. place \in Text /\ Len(place) = Len(source.location) + 1 + Len(candidate.name)
  BY <1>1, <1>2, <1>3
<1> HIDE DEF place
<1>5. digest \in Text /\ Len(digest) = Len(source.content_digest) + 1 + Len(place)
  BY <1>1, <1>2, <1>3, <1>4
<1> HIDE DEF digest
<1>6. version \in Text /\ Len(version) = Len(source.document_version) + 1 + Len(digest)
  BY <1>1, <1>2, <1>3, <1>5
<1> HIDE DEF version
<1>7. from \in Text /\ Len(from) = Len(source.document_id) + 1 + Len(version)
  BY <1>1, <1>2, <1>3, <1>6
<1> HIDE DEF from
<1>8. sure \in Text /\ Len(sure) = Len(candidate.confidence) + 1 + Len(from)
  BY <1>1, <1>2, <1>3, <1>7
<1> HIDE DEF sure
<1>9. type \in Text /\ Len(type) = Len(candidate.rule_type) + 1 + Len(sure)
  BY <1>1, <1>2, <1>3, <1>8
<1> HIDE DEF type
<1>10. made \in Text /\ Len(made) = Len(PARSER_VERSION) + 1 + Len(type)
  <2>1. PARSER_VERSION \in Text /\ "#" \in Delimiter
    BY <1>1, <1>2
  <2> QED
    BY <2>1, <1>3, <1>9
<1> HIDE DEF made
<1>11. Len(whole) = Len(candidate.candidate_id) + 1 + Len(made)
  <2>1. candidate.candidate_id \in Text /\ "@" \in Delimiter
    BY <1>1, <1>2
  <2> QED
    BY <2>1, <1>3, <1>10
<1> HIDE DEF whole
<1>12. AdmitScopeFor(source, candidate) = whole
  BY DEF AdmitScopeFor, Provenance, whole, made, type, sure, from, version, digest, place
<1>13. /\ Len(source.document_id) = 36 /\ Len(candidate.candidate_id) = 36
       /\ Len(source.content_digest) = 43 /\ Len(candidate.confidence) = 4
       /\ Len(PARSER_VERSION) = 17
  BY DEF HasUsualLengths, UUID_LENGTH, DIGEST_LENGTH, CONFIDENCE_LENGTH, VERSION_LENGTH
<1>14. /\ Len(source.document_version) \in Nat /\ Len(source.location) \in Nat
       /\ Len(candidate.rule_type) \in Nat /\ Len(candidate.name) \in Nat
  BY <1>2 DEF Text
<1>15. Len(whole) = 144 + (Len(candidate.rule_type) + Len(source.document_version)
                       + Len(source.location) + Len(candidate.name))
  <2> DEFINE t == Len(candidate.rule_type)
             v == Len(source.document_version)
             l == Len(source.location)
             n == Len(candidate.name)
             where == l + 1 + n
             which == v + 1 + (43 + 1 + where)
             what == t + 1 + (4 + 1 + (36 + 1 + which))
  <2>1. Len(place) = where
    BY <1>4
  <2>2. Len(digest) = 43 + 1 + where
    BY <1>5, <1>13, <2>1
  <2>3. Len(version) = which
    BY <1>6, <2>2
  <2>4. Len(from) = 36 + 1 + which
    BY <1>7, <1>13, <2>3
  <2>5. Len(sure) = 4 + 1 + (36 + 1 + which)
    BY <1>8, <1>13, <2>4
  <2>6. Len(type) = what
    BY <1>9, <2>5
  <2>7. Len(made) = 17 + 1 + what
    BY <1>10, <1>13, <2>6
  <2>8. Len(whole) = 36 + 1 + (17 + 1 + what)
    BY <1>11, <1>13, <2>7
  <2>9. t \in Nat /\ v \in Nat /\ l \in Nat /\ n \in Nat
    BY <1>14
  <2> HIDE DEF t, v, l, n
  <2>10. 36 + 1 + (17 + 1 + what) = 144 + (t + v + l + n)
    BY <2>9
  <2> HIDE DEF what
  <2>11. Len(whole) = 144 + (t + v + l + n)
    BY <2>8, <2>10
  <2> QED
    BY <2>11 DEF t, v, l, n
<1>16. 144 + (Len(candidate.rule_type) + Len(source.document_version)
              + Len(source.location) + Len(candidate.name)) <= 200
           <=> Len(candidate.rule_type) + Len(source.document_version)
                   + Len(source.location) + Len(candidate.name) <= 56
  BY <1>14, LimitLeaves
<1> QED
  BY <1>12, <1>15, <1>16 DEF SCOPE_LIMIT
=============================================================================
