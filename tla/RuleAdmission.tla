--------------------------- MODULE RuleAdmission ---------------------------
(***************************************************************************)
(* What the service as a whole promises, with no workers, claims, leases   *)
(* or transactions in sight: a source is parsed once and for all under a   *)
(* release; what is admitted is what that parse stored; and a route is     *)
(* finished only after every candidate of its source has been admitted.    *)
(***************************************************************************)
EXTENDS AdmissionDomain

VARIABLES
    runs,       \* the keys that have been parsed
    rows,       \* the candidates of those runs
    accepted,   \* what has been admitted
    done        \* the routes that are finished

vars == <<runs, rows, accepted, done>>

Init ==
    /\ runs = {}
    /\ rows = {}
    /\ accepted = {}
    /\ done = {}

\* A parse is recorded, under ids no candidate has had before.
Record ==
    /\ \E p \in ParserVersion, s \in Source, b \in Batch :
         LET cs == ParseCandidates(p, s, b) IN
         /\ KeyOf(p, s) \notin runs
         /\ \A c \in cs, d \in rows : c.batch # d.batch
         /\ runs' = runs \cup {KeyOf(p, s)}
         /\ rows' = rows \cup cs
    /\ UNCHANGED <<accepted, done>>

\* A stored candidate is admitted on behalf of a requested source.
Admit ==
    /\ \E r \in Route, p \in ParserVersion :
         /\ Request[r] \in Source
         /\ \E c \in CandidatesOf(KeyOf(p, Request[r]), rows) :
              /\ Acceptable(c)
              /\ accepted' = accepted \cup {AdmitScope(c, Request[r])}
    /\ UNCHANGED <<runs, rows, done>>

\* Every candidate of k has been admitted on behalf of s.
AllAdmitted(k, s) ==
    k \in runs /\ \A c \in CandidatesOf(k, rows) : AdmitScope(c, s) \in accepted

Finish ==
    /\ \E r \in Route \ done :
         /\ \/ Request[r] = UnknownAction
            \/ /\ Request[r] \in Source
               /\ \E p \in ParserVersion :
                    AllAdmitted(KeyOf(p, Request[r]), Request[r])
         /\ done' = done \cup {r}
    /\ UNCHANGED <<runs, rows, accepted>>

Next == Record \/ Admit \/ Finish

Spec == Init /\ [][Next]_vars
=============================================================================
