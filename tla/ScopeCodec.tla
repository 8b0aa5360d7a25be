------------------------------ MODULE ScopeCodec -----------------------------
(***************************************************************************)
(* The two strings this service speaks in: the scope of a routed pf2e.parse *)
(* Request, which parse_input_scope takes apart, and the scope of the      *)
(* pf2e.rules.admit Request that admit_scope_for puts together.            *)
(*                                                                         *)
(* A text is a sequence of characters.  The conversions are those of the   *)
(* uuid, the base64 and the standard library: functions from the texts     *)
(* that parse to what they stand for.                                      *)
(***************************************************************************)
EXTENDS Integers, Sequences

CONSTANTS
    OtherChar,        \* the characters that are no delimiters
    UuidOf,           \* Uuid's FromStr
    I64Of,            \* i64's FromStr
    DigestOf,         \* decode_digest: base64url of exactly 32 bytes
    PARSER_VERSION,
    MalformedScope    \* the error

Delimiter == {"|", "!", "#", "@", "~"}
Char == OtherChar \cup Delimiter
Text == Seq(Char)

Has(s, c) == \E i \in DOMAIN s : s[i] = c

---------------------------------------------------------------------------
(* str::split_once, at the first c. *)

IsFirst(s, c, k) ==
    /\ k \in DOMAIN s
    /\ s[k] = c
    /\ \A j \in 1 .. k - 1 : s[j] # c

Splits(s, c) == \E k \in DOMAIN s : IsFirst(s, c, k)
First(s, c) == CHOOSE k \in DOMAIN s : IsFirst(s, c, k)
Before(s, c) == SubSeq(s, 1, First(s, c) - 1)
After(s, c) == SubSeq(s, First(s, c) + 1, Len(s))

\* The text that splits into a and b.
Join(a, c, b) == a \o <<c>> \o b

---------------------------------------------------------------------------
(* <document_id>@<version>#<location>!<digest>|<source_text> *)

InputScope(id, version, location, digest, text) ==
    Join(Join(Join(Join(id, "@", version), "#", location), "!", digest), "|", text)

\* What parse_input_scope makes of the parts.
SourceOf(id, version, location, digest, text) ==
    [ document_id |-> UuidOf[id],
      document_version |-> I64Of[version],
      content_digest |-> DigestOf[digest],
      location |-> location,
      source_text |-> text ]

FieldsParse(id, version, location, digest) ==
    /\ id \in DOMAIN UuidOf
    /\ version \in DOMAIN I64Of
    /\ location # <<>>
    /\ digest \in DOMAIN DigestOf

\* The header, then what is left of each delimiter in it; any split or any
\* conversion that fails is a MalformedScope.
ParseInputScope(scope) ==
    LET header == Before(scope, "|")
        idVersionLocation == Before(header, "!")
        idVersion == Before(idVersionLocation, "#")
        id == Before(idVersion, "@")
        version == After(idVersion, "@")
        location == After(idVersionLocation, "#")
        digest == After(header, "!")
    IN  IF /\ Splits(scope, "|") /\ Splits(header, "!")
           /\ Splits(idVersionLocation, "#") /\ Splits(idVersion, "@")
           /\ FieldsParse(id, version, location, digest)
        THEN SourceOf(id, version, location, digest, After(scope, "|"))
        ELSE MalformedScope

---------------------------------------------------------------------------
(* <candidate_id>@<parser_version>#<rule_type>!<confidence>|              *)
(* <document_id>~<version>~<digest>~<location>~<name>, of the texts that   *)
(* the source and the candidate are shown as.                              *)

Provenance(source, name) ==
    Join(source.document_id, "~",
    Join(source.document_version, "~",
    Join(source.content_digest, "~",
    Join(source.location, "~", name))))

AdmitScopeFor(source, candidate) ==
    Join(candidate.candidate_id, "@",
    Join(PARSER_VERSION, "#",
    Join(candidate.rule_type, "!",
    Join(candidate.confidence, "|", Provenance(source, candidate.name)))))

ShownSource ==
    [document_id : Text, document_version : Text, content_digest : Text, location : Text]

ShownCandidate ==
    [candidate_id : Text, rule_type : Text, confidence : Text, name : Text]

\* Uuid, i64, base64url, RuleType and {:.2} are shown without a delimiter.
PlainText == { t \in Text : \A c \in Delimiter : ~Has(t, c) }

\* The sources and the candidates as their types let them be shown, with
\* texts as long as Uuid, the digest and the confidence have.
IsShown(source, candidate) ==
    /\ source \in ShownSource /\ candidate \in ShownCandidate
    /\ source.document_id \in PlainText
    /\ source.document_version \in PlainText
    /\ source.content_digest \in PlainText
    /\ candidate.candidate_id \in PlainText
    /\ candidate.rule_type \in PlainText
    /\ candidate.confidence \in PlainText

\* The lengths of a shown Uuid, of a digest in base64url, of a confidence
\* and of PARSER_VERSION, and the kernel's limit for a scope.
UUID_LENGTH == 36
DIGEST_LENGTH == 43
CONFIDENCE_LENGTH == 4
VERSION_LENGTH == 17
SCOPE_LIMIT == 200

HasUsualLengths(source, candidate) ==
    /\ Len(source.document_id) = UUID_LENGTH
    /\ Len(candidate.candidate_id) = UUID_LENGTH
    /\ Len(source.content_digest) = DIGEST_LENGTH
    /\ Len(candidate.confidence) = CONFIDENCE_LENGTH
    /\ Len(PARSER_VERSION) = VERSION_LENGTH
=============================================================================
