---------------------------- MODULE ParserDomain ----------------------------
(***************************************************************************)
(* The data every other module talks about: the source a pf2e.parse        *)
(* Request names, the key under which one parse run is remembered, and the *)
(* candidates one run produces.                                            *)
(*                                                                         *)
(* Texts are abstract.  A Fragment stands for a location together with the *)
(* source text found there; all the protocol needs to know of it is how    *)
(* many blocks the parser finds in it and whether it is blank.  A Batch    *)
(* stands for the random UUIDs one run of the parser draws, so the pair    *)
(* <<batch, block>> is a candidate_id.                                     *)
(***************************************************************************)
EXTENDS Naturals, FiniteSets

CONSTANTS
    DocVersion,      \* (document_id, document_version) pairs
    Digest,          \* content digests
    Fragment,        \* (location, source_text) pairs
    ParserVersion,   \* values of PARSER_VERSION, one per release
    Batch,           \* one draw of fresh UUIDs by parse_candidates
    BlockCount,      \* BlockCount[f]: blocks the parser finds in fragment f
    Blank,           \* the fragments whose source_text.trim() is empty
    Source,          \* the SourceReferences Requests may carry
    NoSource         \* stands for "no call in progress"

SourceReference ==
    [version : DocVersion, digest : Digest, fragment : Fragment]

ASSUME DomainAssumption ==
    /\ BlockCount \in [Fragment -> Nat]
    /\ Blank \subseteq Fragment
    /\ Source \subseteq SourceReference
    /\ NoSource \notin SourceReference

\* The primary key of parse_runs.
RunKey == [version : DocVersion, digest : Digest, parser : ParserVersion]

KeyOf(parser, s) ==
    [version |-> s.version, digest |-> s.digest, parser |-> parser]

\* A row of parsed_candidates: its id, the run it belongs to (the foreign
\* key) and the text it was read from.
Candidate == [batch : Batch, block : Nat, key : RunKey, fragment : Fragment]

\* parse_candidates: one candidate per block of the text, each with a UUID of
\* its own; none at all when every block between the separators is blank.
ParseCandidates(parser, s, b) ==
    { [batch |-> b, block |-> i, key |-> KeyOf(parser, s),
       fragment |-> s.fragment] : i \in 1 .. BlockCount[s.fragment] }

CandidatesOf(k, table) == { c \in table : c.key = k }

\* How a call of parse_once ends: a ParseOutcome ("ok"), one of the three
\* CandidateErrors, or not at all ("none").
AnswerKind == {"none", "ok", "empty", "mismatch", "repository"}

Answer == [kind : AnswerKind, source : Source \cup {NoSource},
           candidates : SUBSET Candidate, repeat : BOOLEAN]

Failed(kind) ==
    [kind |-> kind, source |-> NoSource, candidates |-> {}, repeat |-> FALSE]

NoAnswer == Failed("none")

Outcome(s, cs, repeat) ==
    [kind |-> "ok", source |-> s, candidates |-> cs, repeat |-> repeat]
=============================================================================
