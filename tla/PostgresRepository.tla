------------------------- MODULE PostgresRepository -------------------------
(***************************************************************************)
(* parse_once of PostgresCandidateRepository, one action per SQL statement *)
(* its transaction sends, for any number of processes calling it at the    *)
(* same time on one database.                                              *)
(*                                                                         *)
(* The transaction runs at PostgreSQL's default isolation, READ COMMITTED: *)
(* each statement sees what was committed when it started, plus its own    *)
(* writes.  runs and rows are the committed tables; holding and staged are *)
(* the uncommitted writes of each process.  An INSERT whose primary key is *)
(* held by another open transaction waits until that transaction ends.     *)
(***************************************************************************)
EXTENDS ParserDomain

CONSTANTS
    Worker,          \* processes that may call parse_once at the same time
    VersionOf        \* VersionOf[w]: the PARSER_VERSION built into process w

ASSUME WorkerAssumption == VersionOf \in [Worker -> ParserVersion]

VARIABLES
    runs,      \* parse_runs, committed
    rows,      \* parsed_candidates, committed
    pc,        \* pc[w]: the next statement of w's transaction
    source,    \* source[w]: the argument of w's call
    parsed,    \* parsed[w]: the local variable `candidates`
    holding,   \* holding[w]: w's transaction has inserted its row of parse_runs
    staged,    \* staged[w]: the parsed_candidates rows w's transaction has inserted
    answer     \* answer[w]: what w's last call returned

vars == <<runs, rows, pc, source, parsed, holding, staged, answer>>

Key(w) == KeyOf(VersionOf[w], source[w])

Statement == {"digests", "find", "insert", "rows", "load", "commit"}

Init ==
    /\ runs = {}
    /\ rows = {}
    /\ pc = [w \in Worker |-> "idle"]
    /\ source = [w \in Worker |-> NoSource]
    /\ parsed = [w \in Worker |-> {}]
    /\ holding = [w \in Worker |-> FALSE]
    /\ staged = [w \in Worker |-> {}]
    /\ answer = [w \in Worker |-> NoAnswer]

-----------------------------------------------------------------------------
\* Mutant: the rows of a failed call are still there for the next one.
ReturnKeepingRows(w, a) ==
    /\ pc' = [pc EXCEPT ![w] = "idle"]
    /\ source' = [source EXCEPT ![w] = NoSource]
    /\ parsed' = [parsed EXCEPT ![w] = {}]
    /\ holding' = [holding EXCEPT ![w] = FALSE]
    /\ answer' = [answer EXCEPT ![w] = a]
    /\ UNCHANGED staged

\* The call returns and its transaction is over, whatever became of it.
Return(w, a) ==
    /\ pc' = [pc EXCEPT ![w] = "idle"]
    /\ source' = [source EXCEPT ![w] = NoSource]
    /\ parsed' = [parsed EXCEPT ![w] = {}]
    /\ holding' = [holding EXCEPT ![w] = FALSE]
    /\ staged' = [staged EXCEPT ![w] = {}]
    /\ answer' = [answer EXCEPT ![w] = a]

\* Dropping an open transaction rolls it back.
Rollback(w, a) ==
    /\ Return(w, a)
    /\ UNCHANGED <<runs, rows>>

GoTo(w, label) ==
    /\ pc' = [pc EXCEPT ![w] = label]
    /\ UNCHANGED <<runs, rows, source, answer>>

-----------------------------------------------------------------------------
\* parse_once is called; blank text is refused before any connection is taken.
Begin(w, s) ==
    /\ pc[w] = "idle"
    /\ IF s.fragment \in Blank
         THEN /\ answer' = [answer EXCEPT ![w] = Failed("empty")]
              /\ UNCHANGED <<runs, rows, pc, source, parsed, holding, staged>>
         ELSE /\ pc' = [pc EXCEPT ![w] = "digests"]
              /\ source' = [source EXCEPT ![w] = s]
              /\ answer' = [answer EXCEPT ![w] = NoAnswer]
              /\ UNCHANGED <<runs, rows, parsed, holding, staged>>

DigestConflict(s, table) ==
    \E k \in table : k.version = s.version /\ k.digest # s.digest

\* FIND_ANY_DIGEST_FOR_VERSION_SQL: any other digest on record refuses the call.
CheckDigests(w) ==
    /\ pc[w] = "digests"
    /\ IF DigestConflict(source[w], runs)
         THEN Rollback(w, Failed("mismatch"))
         ELSE GoTo(w, "find") /\ UNCHANGED <<parsed, holding, staged>>

\* UUIDs that neither a stored candidate nor one being stored has.
Fresh(b) ==
    /\ \A c \in rows : c.batch # b
    /\ \A v \in Worker : \A c \in parsed[v] : c.batch # b

\* FIND_RUN_SQL, then either the stored run or a parse of the text.
FindRun(w) ==
    /\ pc[w] = "find"
    /\ IF Key(w) \in runs
         THEN GoTo(w, "load") /\ UNCHANGED parsed
         ELSE /\ GoTo(w, "insert")
              /\ \E b \in Batch :
                   /\ Fresh(b)
                   /\ parsed' = [parsed EXCEPT ![w] =
                                   ParseCandidates(VersionOf[w], source[w], b)]
    /\ UNCHANGED <<holding, staged>>

\* Mutant: a lock on the key is taken before the text is parsed.
WantedByAnother(w) ==
    \E v \in Worker \ {w} : pc[v] \notin {"idle", "digests"} /\ Key(v) = Key(w)

HeldByAnother(w) == \E v \in Worker \ {w} : holding[v] /\ Key(v) = Key(w)

\* Mutant: the loser of a race returns the parse it made itself.
InsertRunKeepingOwnParse(w) ==
    /\ pc[w] = "insert"
    /\ ~HeldByAnother(w)
    /\ GoTo(w, IF Key(w) \in runs THEN "commit" ELSE "rows")
    /\ holding' = [holding EXCEPT ![w] = Key(w) \notin runs]
    /\ UNCHANGED <<parsed, staged>>

\* Mutant: parse_runs has no primary key, so every INSERT succeeds.
InsertRunAgain(w) ==
    /\ pc[w] = "insert"
    /\ GoTo(w, "rows")
    /\ holding' = [holding EXCEPT ![w] = TRUE]
    /\ UNCHANGED <<parsed, staged>>

\* INSERT_RUN_SQL: waits for a transaction that holds the key, and inserts
\* nothing if the key is there by then (ON CONFLICT DO NOTHING).
InsertRun(w) ==
    /\ pc[w] = "insert"
    /\ ~HeldByAnother(w)
    /\ IF Key(w) \in runs
         THEN /\ GoTo(w, "load")
              /\ UNCHANGED <<parsed, holding, staged>>
         ELSE /\ GoTo(w, "rows")
              /\ holding' = [holding EXCEPT ![w] = TRUE]
              /\ UNCHANGED <<parsed, staged>>

\* Mutant: only the ids of the stored candidates are selected.
LoadIds(w) ==
    /\ pc[w] = "load"
    /\ GoTo(w, "commit")
    /\ parsed' = [parsed EXCEPT ![w] = {c.batch : c \in CandidatesOf(Key(w), rows)}]
    /\ UNCHANGED <<holding, staged>>

\* The parse this call made is dropped for the one on record.
LoadCandidates(w) ==
    /\ pc[w] = "load"
    /\ GoTo(w, "commit")
    /\ parsed' = [parsed EXCEPT ![w] = CandidatesOf(Key(w), rows)]
    /\ UNCHANGED <<holding, staged>>

\* One INSERT_CANDIDATE_SQL per candidate, in the order of the text.
InsertCandidate(w) ==
    /\ pc[w] = "rows"
    /\ \E c \in parsed[w] \ staged[w] :
         /\ \A d \in parsed[w] \ staged[w] : c.block <= d.block
         /\ staged' = [staged EXCEPT ![w] = @ \cup {c}]
    /\ UNCHANGED <<runs, rows, pc, source, parsed, holding, answer>>

\* Mutant: the transaction is committed before the loop is over.
CommitEarly(w) ==
    /\ pc[w] = "rows"
    /\ GoTo(w, "commit")
    /\ UNCHANGED <<parsed, holding, staged>>

AllInserted(w) ==
    /\ pc[w] = "rows"
    /\ parsed[w] = staged[w]
    /\ GoTo(w, "commit")
    /\ UNCHANGED <<parsed, holding, staged>>

CommitWith(w, a) ==
    /\ pc[w] = "commit"
    /\ runs' = IF holding[w] THEN runs \cup {Key(w)} ELSE runs
    /\ rows' = rows \cup staged[w]
    /\ Return(w, a)

\* Mutant: was_already_processed is never set.
CommitAsNew(w) ==
    CommitWith(w, Outcome(source[w], parsed[w], FALSE))

\* COMMIT, and the ParseOutcome is returned.
Commit(w) ==
    CommitWith(w, Outcome(source[w], parsed[w], ~holding[w]))

\* COMMIT takes effect but its acknowledgement is lost: the call fails
\* although its writes are durable.
CommitUnacknowledged(w) ==
    CommitWith(w, Failed("repository"))

\* COMMIT takes effect and the process dies before it can use the answer.
CommitThenCrash(w) ==
    CommitWith(w, NoAnswer)

\* A statement, or taking a connection, fails: the transaction is dropped.
Fail(w) ==
    /\ pc[w] # "idle"
    /\ Rollback(w, Failed("repository"))

\* The process is killed, and another one takes its place.
Crash(w) ==
    Rollback(w, NoAnswer)

-----------------------------------------------------------------------------
Step(w) ==
    \/ CheckDigests(w)
    \/ FindRun(w)
    \/ InsertRun(w)
    \/ LoadCandidates(w)
    \/ InsertCandidate(w)
    \/ AllInserted(w)
    \/ Commit(w)

\* What goes wrong around the code: the database, the network, the process.
Failure(w) ==
    \/ Fail(w)
    \/ Crash(w)
    \/ CommitUnacknowledged(w)
    \/ CommitThenCrash(w)

Next == \E w \in Worker :
    \/ \E s \in Source : Begin(w, s)
    \/ Step(w)
    \/ Failure(w)

Spec == Init /\ [][Next]_vars

\* A process that is inside parse_once keeps executing it.
LiveSpec == Spec /\ \A w \in Worker : WF_vars(Step(w))

-----------------------------------------------------------------------------
TypeOK ==
    /\ runs \subseteq RunKey
    /\ rows \subseteq Candidate
    /\ pc \in [Worker -> {"idle"} \cup Statement]
    /\ source \in [Worker -> Source \cup {NoSource}]
    /\ parsed \in [Worker -> SUBSET Candidate]
    /\ holding \in [Worker -> BOOLEAN]
    /\ staged \in [Worker -> SUBSET Candidate]
    /\ answer \in [Worker -> Answer]

\* A caller is only ever given candidates that are durable, and all of them:
\* what it goes on to submit under their ids can be recalled by any retry,
\* whether it parsed the text itself, lost the race or hit the record.
AnswersAreStored ==
    \A w \in Worker : answer[w].kind = "ok" =>
        LET k == KeyOf(VersionOf[w], answer[w].source) IN
        /\ k \in runs
        /\ answer[w].candidates = CandidatesOf(k, rows)

\* parse_runs and parsed_candidates agree at every moment another process can
\* look: a run on record has exactly the candidates one parse of one text
\* produced, none missing, none from a second parse, and no candidate is
\* there without its run.
RunsAreWhole ==
    /\ \A c \in rows : c.key \in runs
    /\ \A k \in runs : \E s \in Source, b \in Batch :
         /\ s.version = k.version /\ s.digest = k.digest
         /\ CandidatesOf(k, rows) = ParseCandidates(k.parser, s, b)

\* Once a run is on record its candidates, ids included, never change: this is
\* the stability that makes a redelivered pf2e.parse Request harmless.
CandidatesAreStable ==
    [][\A k \in runs : /\ k \in runs'
                      /\ CandidatesOf(k, rows') = CandidatesOf(k, rows)]_vars

\* All the promises of the trait at once: each call takes effect in one step
\* between its start and its return, and was_already_processed tells whether
\* that step recorded the run.
Store == INSTANCE CandidateStore
    WITH runs <- runs, rows <- rows, source <- source, answer <- answer
ImplementsStore == Store!Spec

\* "The same identified document version must have stable content": what the
\* digest check of parse_once and the index behind it are there to ensure.
OneDigestPerVersion ==
    \A k, l \in runs : k.version = l.version => k.digest = l.digest

\* A call returns, even one that waits for another process's transaction,
\* unless processes keep failing for ever.
CallsReturn ==
    \/ \A w \in Worker : source[w] # NoSource ~> source[w] = NoSource
    \/ []<><<\E w \in Worker : Failure(w)>>_vars

-----------------------------------------------------------------------------
(* The inductive invariant behind the safety properties. *)

\* w has parsed its text and neither committed nor dropped the result.
OwnsParse(w) == pc[w] = "insert" \/ holding[w]

\* Between calls nothing is left of the last one.
IdleIsClean ==
    \A w \in Worker :
        IF pc[w] = "idle"
          THEN /\ source[w] = NoSource
               /\ parsed[w] = {}
               /\ staged[w] = {}
               /\ ~holding[w]
          ELSE source[w] \in Source

\* A run is held from its insertion to the end of the transaction, by one
\* process at a time, and only while it is not on record.
HeldRunsAreNew ==
    \A w \in Worker :
        /\ pc[w] = "rows" => holding[w]
        /\ holding[w] => /\ pc[w] \in {"rows", "commit"}
                         /\ Key(w) \notin runs
                         /\ \A v \in Worker \ {w} : holding[v] => Key(v) # Key(w)

StagedIsParsed ==
    \A w \in Worker :
        /\ staged[w] \subseteq parsed[w]
        /\ ~holding[w] => staged[w] = {}
        /\ holding[w] /\ pc[w] = "commit" => staged[w] = parsed[w]

\* What a process is about to store is one parse of its text, under ids that
\* are neither stored nor about to be stored by another.
ParsesAreFresh ==
    \A w \in Worker : OwnsParse(w) =>
        /\ \E b \in Batch :
             parsed[w] = ParseCandidates(VersionOf[w], source[w], b)
        /\ \A c \in parsed[w], d \in rows : c.batch # d.batch
        /\ \A v \in Worker \ {w} : OwnsParse(v) =>
             \A c \in parsed[w], d \in parsed[v] : c.batch # d.batch

\* A process that did not store its own parse holds the stored one.
LoadedIsStored ==
    \A w \in Worker :
        /\ pc[w] = "load" => Key(w) \in runs
        /\ pc[w] = "commit" /\ ~holding[w] =>
             Key(w) \in runs /\ parsed[w] = CandidatesOf(Key(w), rows)

\* The strengthening of AnswersAreStored and RunsAreWhole that every step
\* preserves: it says what each process has in its hands at each statement.
InductiveInvariant ==
    /\ TypeOK
    /\ IdleIsClean
    /\ HeldRunsAreNew
    /\ StagedIsParsed
    /\ ParsesAreFresh
    /\ LoadedIsStored
    /\ AnswersAreStored
    /\ RunsAreWhole
=============================================================================
