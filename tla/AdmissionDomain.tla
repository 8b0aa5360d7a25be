-------------------------- MODULE AdmissionDomain --------------------------
(***************************************************************************)
(* The work the kernel routes to this service and the Requests the service *)
(* submits in turn.                                                        *)
(***************************************************************************)
EXTENDS ParserDomain

CONSTANTS
    NumRoutes,       \* routes are numbered by age, 1 the oldest
    Request,         \* Request[r]: what the routed Request asks for
    Malformed,       \* a scope that parse_input_scope refuses
    UnknownAction,   \* an action dispatch does not know
    Oversized        \* <<fragment, block>>: the admit scope exceeds 200 characters

Route == 1 .. NumRoutes

ASSUME RequestAssumption ==
    /\ NumRoutes \in Nat
    /\ Request \in [Route -> Source \cup {Malformed, UnknownAction}]
    /\ Malformed \notin Source /\ UnknownAction \notin Source
    /\ Malformed # UnknownAction

\* An admit scope: the candidate's id and fields, and the location of the
\* source the ParseOutcome carries.
Admission == [candidate : Candidate, location : Fragment]

AdmitScope(c, s) == [candidate |-> c, location |-> s.fragment]

\* submit_request: the kernel takes no scope of more than 200 characters.
Acceptable(c) == <<c.fragment, c.block>> \notin Oversized
=============================================================================
