--------------------------- MODULE CandidateStore ---------------------------
(***************************************************************************)
(* What the CandidateRepository trait promises, with every call taking     *)
(* effect in one indivisible step.  A run is recorded once and its         *)
(* candidates never change; a later call with the same key is answered     *)
(* from the record.  A call may also fail, and then the caller cannot tell *)
(* whether its run was recorded: the commit may have succeeded and only    *)
(* its acknowledgement been lost.                                          *)
(***************************************************************************)
EXTENDS ParserDomain

CONSTANTS Worker, VersionOf

VARIABLES
    runs,     \* the keys that have been parsed
    rows,     \* the candidates of those runs
    source,   \* source[w]: the argument of the call w is making
    answer    \* answer[w]: how the last call of w returned

vars == <<runs, rows, source, answer>>

Init ==
    /\ runs = {}
    /\ rows = {}
    /\ source = [w \in Worker |-> NoSource]
    /\ answer = [w \in Worker |-> NoAnswer]

Call(w) ==
    /\ source[w] = NoSource
    /\ \E s \in Source :
         /\ s.fragment \notin Blank
         /\ source' = [source EXCEPT ![w] = s]
    /\ answer' = [answer EXCEPT ![w] = NoAnswer]
    /\ UNCHANGED <<runs, rows>>

Return(w, a) ==
    /\ source[w] # NoSource
    /\ source' = [source EXCEPT ![w] = NoSource]
    /\ answer' = [answer EXCEPT ![w] = a]

\* The run is new: record it with candidates no run has had before.
Record(w) ==
    LET k == KeyOf(VersionOf[w], source[w]) IN
    /\ source[w] # NoSource
    /\ k \notin runs
    /\ runs' = runs \cup {k}
    /\ \E b \in Batch :
         LET cs == ParseCandidates(VersionOf[w], source[w], b) IN
         /\ \A c \in cs, d \in rows : c.batch # d.batch
         /\ rows' = rows \cup cs
         /\ \E a \in {Outcome(source[w], cs, FALSE), Failed("repository"), NoAnswer} :
              Return(w, a)

\* The run is on record: answer with exactly what was recorded.
Recall(w) ==
    LET k == KeyOf(VersionOf[w], source[w]) IN
    /\ source[w] # NoSource
    /\ k \in runs
    /\ Return(w, Outcome(source[w], CandidatesOf(k, rows), TRUE))
    /\ UNCHANGED <<runs, rows>>

\* A digest conflict is reported only if there is one.
RefuseDigest(w) ==
    /\ source[w] # NoSource
    /\ \E k \in runs : /\ k.version = source[w].version
                      /\ k.digest # source[w].digest
    /\ Return(w, Failed("mismatch"))
    /\ UNCHANGED <<runs, rows>>

\* Blank text is refused at once, and only blank text is.
RefuseEmpty(w) ==
    /\ source[w] = NoSource
    /\ \E s \in Source : s.fragment \in Blank
    /\ answer' = [answer EXCEPT ![w] = Failed("empty")]
    /\ UNCHANGED <<runs, rows, source>>

\* The database or the process fails, and nothing is recorded.
GiveUp(w) ==
    /\ \E a \in {Failed("repository"), NoAnswer} : Return(w, a)
    /\ UNCHANGED <<runs, rows>>

\* A crash of an idle process takes its last answer with it.
Forget(w) ==
    /\ source[w] = NoSource
    /\ answer' = [answer EXCEPT ![w] = NoAnswer]
    /\ UNCHANGED <<runs, rows, source>>

Next == \E w \in Worker :
    \/ Call(w)
    \/ Record(w)
    \/ Recall(w)
    \/ RefuseDigest(w)
    \/ RefuseEmpty(w)
    \/ GiveUp(w)
    \/ Forget(w)

Spec == Init /\ [][Next]_vars
=============================================================================
