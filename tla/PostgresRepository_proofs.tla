---------------------- MODULE PostgresRepository_proofs ----------------------
(***************************************************************************)
(* Proofs about PostgresRepository for any number of processes, documents, *)
(* digests, releases and texts.                                            *)
(***************************************************************************)
EXTENDS PostgresRepository, TLAPS

-----------------------------------------------------------------------------
(* Keys and parses. *)

\* The key of a source is a key of parse_runs.
LEMMA KeyOfType ==
    ASSUME NEW p \in ParserVersion, NEW s \in Source
    PROVE  /\ KeyOf(p, s) \in RunKey
           /\ KeyOf(p, s).version = s.version
           /\ KeyOf(p, s).digest = s.digest
           /\ KeyOf(p, s).parser = p
BY DomainAssumption DEF KeyOf, RunKey, SourceReference

\* A parse yields candidates of its own run, all under the ids it drew.
LEMMA ParseType ==
    ASSUME NEW p \in ParserVersion, NEW s \in Source, NEW b \in Batch
    PROVE  /\ ParseCandidates(p, s, b) \subseteq Candidate
           /\ \A c \in ParseCandidates(p, s, b) : c.key = KeyOf(p, s) /\ c.batch = b
<1>1. KeyOf(p, s) \in RunKey
  BY KeyOfType
<1>2. s.fragment \in Fragment /\ BlockCount[s.fragment] \in Nat
  BY DomainAssumption DEF SourceReference
<1>3. 1 .. BlockCount[s.fragment] \subseteq Nat
  BY <1>2
<1> QED
  BY <1>1, <1>2, <1>3 DEF ParseCandidates, Candidate

LEMMA FailedType ==
    /\ NoAnswer \in Answer /\ NoAnswer.kind # "ok"
    /\ \A k \in {"empty", "mismatch", "repository"} :
         Failed(k) \in Answer /\ Failed(k).kind # "ok"
BY DEF NoAnswer, Failed, Answer, AnswerKind

\* No call is in progress under the name NoSource.
LEMMA NoSourceIsNoSource == NoSource \notin Source
BY DomainAssumption

-----------------------------------------------------------------------------
LEMMA InitInvariant == Init => InductiveInvariant
<1> SUFFICES ASSUME Init PROVE InductiveInvariant
  OBVIOUS
<1> USE DEF Init
<1>1. TypeOK
  BY FailedType DEF TypeOK
<1>2. IdleIsClean
  BY DEF IdleIsClean
<1>3. HeldRunsAreNew /\ StagedIsParsed /\ LoadedIsStored
  BY DEF HeldRunsAreNew, StagedIsParsed, LoadedIsStored
<1>4. ParsesAreFresh
  BY DEF ParsesAreFresh, OwnsParse
<1>5. AnswersAreStored
  BY FailedType DEF AnswersAreStored
<1>6. RunsAreWhole
  BY DEF RunsAreWhole
<1> QED
  BY <1>1, <1>2, <1>3, <1>4, <1>5, <1>6 DEF InductiveInvariant

-----------------------------------------------------------------------------
(* Steps that end a call without touching the tables. *)

LEMMA RollbackInvariant ==
    ASSUME InductiveInvariant, NEW w \in Worker,
           NEW a \in Answer, a.kind # "ok",
           Rollback(w, a)
    PROVE  InductiveInvariant'
<1> USE DEF Rollback, Return
<1> USE DEF InductiveInvariant
<1>1. TypeOK'
  BY DEF TypeOK
<1>2. IdleIsClean'
  BY DEF TypeOK, IdleIsClean
<1>3. HeldRunsAreNew'
  BY DEF TypeOK, HeldRunsAreNew, Key
<1>4. StagedIsParsed'
  BY DEF TypeOK, StagedIsParsed
<1>5. ParsesAreFresh'
  BY DEF TypeOK, ParsesAreFresh, OwnsParse
<1>6. LoadedIsStored'
  BY DEF TypeOK, LoadedIsStored, Key
<1>7. AnswersAreStored'
  BY DEF TypeOK, AnswersAreStored
<1>8. RunsAreWhole'
  BY DEF RunsAreWhole
<1> QED
  BY <1>1, <1>2, <1>3, <1>4, <1>5, <1>6, <1>7, <1>8

-----------------------------------------------------------------------------
(* The statements of the transaction. *)

LEMMA BeginInvariant ==
    ASSUME InductiveInvariant, NEW w \in Worker, NEW s \in Source, Begin(w, s)
    PROVE  InductiveInvariant'
<1> USE DEF Begin, InductiveInvariant
<1>1. TypeOK'
  BY FailedType DEF TypeOK, Statement
<1>2. IdleIsClean'
  BY DEF TypeOK, IdleIsClean
<1>3. HeldRunsAreNew'
  BY DEF TypeOK, HeldRunsAreNew, IdleIsClean, Key
<1>4. StagedIsParsed'
  BY DEF TypeOK, StagedIsParsed
<1>5. ParsesAreFresh'
  BY DEF TypeOK, ParsesAreFresh, IdleIsClean, OwnsParse
<1>6. LoadedIsStored'
  BY DEF TypeOK, LoadedIsStored, IdleIsClean, Key
<1>7. AnswersAreStored'
  BY FailedType DEF TypeOK, AnswersAreStored
<1>8. RunsAreWhole'
  BY DEF RunsAreWhole
<1> QED
  BY <1>1, <1>2, <1>3, <1>4, <1>5, <1>6, <1>7, <1>8

LEMMA CheckDigestsInvariant ==
    ASSUME InductiveInvariant, NEW w \in Worker, CheckDigests(w)
    PROVE  InductiveInvariant'
<1>1. CASE Rollback(w, Failed("mismatch"))
  BY <1>1, FailedType, RollbackInvariant
<1>2. CASE GoTo(w, "find") /\ UNCHANGED <<parsed, holding, staged>> /\ pc[w] = "digests"
  <2> USE <1>2 DEF GoTo, InductiveInvariant
  <2>1. TypeOK'
    BY DEF TypeOK, Statement
  <2>2. IdleIsClean'
    BY DEF TypeOK, IdleIsClean
  <2>3. HeldRunsAreNew'
    BY DEF TypeOK, HeldRunsAreNew, Key
  <2>4. StagedIsParsed'
    BY DEF TypeOK, StagedIsParsed
  <2>5. ParsesAreFresh'
    BY DEF TypeOK, ParsesAreFresh, OwnsParse
  <2>6. LoadedIsStored'
    BY DEF TypeOK, LoadedIsStored, Key
  <2>7. AnswersAreStored'
    BY DEF TypeOK, AnswersAreStored
  <2>8. RunsAreWhole'
    BY DEF RunsAreWhole
  <2> QED
    BY <2>1, <2>2, <2>3, <2>4, <2>5, <2>6, <2>7, <2>8
<1> QED
  BY <1>1, <1>2 DEF CheckDigests

LEMMA FindRunInvariant ==
    ASSUME InductiveInvariant, NEW w \in Worker, FindRun(w)
    PROVE  InductiveInvariant'
<1> USE DEF FindRun, GoTo, InductiveInvariant
<1> VersionOf[w] \in ParserVersion /\ source[w] \in Source
  BY WorkerAssumption DEF IdleIsClean
<1>0. ~holding[w] /\ staged[w] = {}
  BY DEF HeldRunsAreNew, StagedIsParsed
<1>1. TypeOK'
  BY ParseType DEF TypeOK, Statement
<1>2. IdleIsClean'
  BY DEF TypeOK, IdleIsClean
<1>3. HeldRunsAreNew'
  BY DEF TypeOK, HeldRunsAreNew, Key
<1>4. StagedIsParsed'
  BY <1>0 DEF TypeOK, StagedIsParsed
<1>5. ParsesAreFresh'
  <2>1. CASE Key(w) \in runs
    BY <2>1, <1>0 DEF TypeOK, ParsesAreFresh, OwnsParse
  <2>2. CASE Key(w) \notin runs
    <3>1. PICK b \in Batch :
            /\ Fresh(b)
            /\ parsed' = [parsed EXCEPT ![w] = ParseCandidates(VersionOf[w], source[w], b)]
      BY <2>2
    <3>2. parsed'[w] = ParseCandidates(VersionOf[w], source[w], b)
      BY <3>1 DEF TypeOK
    <3>3. \A c \in parsed'[w] : c.batch = b
      BY <3>2, ParseType
    <3>4. \A u \in Worker \ {w} : parsed'[u] = parsed[u] /\ (OwnsParse(u)' => OwnsParse(u))
      BY <3>1 DEF TypeOK, OwnsParse
    <3>5. \A u \in Worker : \A c \in parsed[u] : c.batch # b
      BY <3>1 DEF Fresh
    <3>6. \A d \in rows : d.batch # b
      BY <3>1 DEF Fresh
    <3>7. UNCHANGED <<source, rows>>
      OBVIOUS
    <3> QED
      BY <3>2, <3>3, <3>4, <3>5, <3>6, <3>7 DEF ParsesAreFresh
  <2> QED
    BY <2>1, <2>2
<1>6. LoadedIsStored'
  BY DEF TypeOK, LoadedIsStored, Key
<1>7. AnswersAreStored'
  BY DEF TypeOK, AnswersAreStored
<1>8. RunsAreWhole'
  BY DEF RunsAreWhole
<1> QED
  BY <1>1, <1>2, <1>3, <1>4, <1>5, <1>6, <1>7, <1>8

LEMMA InsertRunInvariant ==
    ASSUME InductiveInvariant, NEW w \in Worker, InsertRun(w)
    PROVE  InductiveInvariant'
<1> USE DEF InsertRun, GoTo, InductiveInvariant
<1>1. TypeOK'
  BY DEF TypeOK, Statement
<1>2. IdleIsClean'
  BY DEF TypeOK, IdleIsClean
<1>3. HeldRunsAreNew'
  BY DEF TypeOK, HeldRunsAreNew, HeldByAnother, Key
<1>4. StagedIsParsed'
  BY DEF TypeOK, StagedIsParsed
<1>5. ParsesAreFresh'
  BY DEF TypeOK, ParsesAreFresh, OwnsParse
<1>6. LoadedIsStored'
  BY DEF TypeOK, LoadedIsStored, Key
<1>7. AnswersAreStored'
  BY DEF TypeOK, AnswersAreStored
<1>8. RunsAreWhole'
  BY DEF RunsAreWhole
<1> QED
  BY <1>1, <1>2, <1>3, <1>4, <1>5, <1>6, <1>7, <1>8

LEMMA LoadCandidatesInvariant ==
    ASSUME InductiveInvariant, NEW w \in Worker, LoadCandidates(w)
    PROVE  InductiveInvariant'
<1> USE DEF LoadCandidates, GoTo, InductiveInvariant
<1>1. TypeOK'
  BY DEF TypeOK, Statement, CandidatesOf
<1>2. IdleIsClean'
  BY DEF TypeOK, IdleIsClean
<1>3. HeldRunsAreNew'
  BY DEF TypeOK, HeldRunsAreNew, Key
<1>4. StagedIsParsed'
  BY DEF TypeOK, StagedIsParsed, HeldRunsAreNew
<1>5. ParsesAreFresh'
  BY DEF TypeOK, ParsesAreFresh, OwnsParse, HeldRunsAreNew
<1>6. LoadedIsStored'
  BY DEF TypeOK, LoadedIsStored, Key
<1>7. AnswersAreStored'
  BY DEF TypeOK, AnswersAreStored
<1>8. RunsAreWhole'
  BY DEF RunsAreWhole
<1> QED
  BY <1>1, <1>2, <1>3, <1>4, <1>5, <1>6, <1>7, <1>8

LEMMA InsertCandidateInvariant ==
    ASSUME InductiveInvariant, NEW w \in Worker, InsertCandidate(w)
    PROVE  InductiveInvariant'
<1> USE DEF InsertCandidate, InductiveInvariant
<1>1. TypeOK'
  BY DEF TypeOK, Statement
<1>2. IdleIsClean'
  BY DEF TypeOK, IdleIsClean
<1>3. HeldRunsAreNew'
  BY DEF TypeOK, HeldRunsAreNew, Key
<1>4. StagedIsParsed'
  BY DEF TypeOK, StagedIsParsed, HeldRunsAreNew
<1>5. ParsesAreFresh'
  BY DEF TypeOK, ParsesAreFresh, OwnsParse
<1>6. LoadedIsStored'
  BY DEF TypeOK, LoadedIsStored, Key
<1>7. AnswersAreStored'
  BY DEF TypeOK, AnswersAreStored
<1>8. RunsAreWhole'
  BY DEF RunsAreWhole
<1> QED
  BY <1>1, <1>2, <1>3, <1>4, <1>5, <1>6, <1>7, <1>8

LEMMA AllInsertedInvariant ==
    ASSUME InductiveInvariant, NEW w \in Worker, AllInserted(w)
    PROVE  InductiveInvariant'
<1> USE DEF AllInserted, GoTo, InductiveInvariant
<1>1. TypeOK'
  BY DEF TypeOK, Statement
<1>2. IdleIsClean'
  BY DEF TypeOK, IdleIsClean
<1>3. HeldRunsAreNew'
  BY DEF TypeOK, HeldRunsAreNew, Key
<1>4. StagedIsParsed'
  BY DEF TypeOK, StagedIsParsed
<1>5. ParsesAreFresh'
  BY DEF TypeOK, ParsesAreFresh, OwnsParse
<1>6. LoadedIsStored'
  BY DEF TypeOK, LoadedIsStored, HeldRunsAreNew, Key
<1>7. AnswersAreStored'
  BY DEF TypeOK, AnswersAreStored
<1>8. RunsAreWhole'
  BY DEF RunsAreWhole
<1> QED
  BY <1>1, <1>2, <1>3, <1>4, <1>5, <1>6, <1>7, <1>8

-----------------------------------------------------------------------------
(* COMMIT. *)

\* What a commit makes visible: nothing, or one whole parse under a new key.
LEMMA CommitEffect ==
    ASSUME InductiveInvariant, NEW w \in Worker, NEW a, CommitWith(w, a)
    PROVE  /\ source[w] \in Source /\ VersionOf[w] \in ParserVersion
           /\ Key(w) \in RunKey
           /\ runs' = runs \cup {Key(w)}
           /\ CandidatesOf(Key(w), rows') = parsed[w]
           /\ \A k \in runs : CandidatesOf(k, rows') = CandidatesOf(k, rows)
           /\ \A c \in parsed[w] : c.key = Key(w)
           /\ holding[w] => rows' = rows \cup parsed[w]
           /\ ~holding[w] => rows' = rows
<1> USE DEF InductiveInvariant
<1>1. source[w] \in Source /\ VersionOf[w] \in ParserVersion
  BY WorkerAssumption DEF IdleIsClean, CommitWith
<1>2. Key(w) \in RunKey
  BY <1>1, KeyOfType DEF Key
<1>3. CASE holding[w]
  <2>1. /\ Key(w) \notin runs
        /\ staged[w] = parsed[w]
    BY <1>3 DEF HeldRunsAreNew, StagedIsParsed, CommitWith
  <2>2. \A c \in parsed[w] : c.key = Key(w)
    BY <1>1, <1>3, ParseType DEF ParsesAreFresh, OwnsParse, Key
  <2>3. \A c \in rows : c.key \in runs
    BY DEF RunsAreWhole
  <2>4. runs' = runs \cup {Key(w)} /\ rows' = rows \cup parsed[w]
    BY <1>3, <2>1 DEF CommitWith
  <2> QED
    BY <1>1, <1>2, <1>3, <2>1, <2>2, <2>3, <2>4 DEF CandidatesOf
<1>4. CASE ~holding[w]
  <2>1. Key(w) \in runs /\ parsed[w] = CandidatesOf(Key(w), rows) /\ staged[w] = {}
    BY <1>4 DEF LoadedIsStored, StagedIsParsed, CommitWith
  <2>2. runs' = runs /\ rows' = rows
    BY <1>4, <2>1 DEF CommitWith
  <2> QED
    BY <1>1, <1>2, <1>4, <2>1, <2>2 DEF CandidatesOf
<1> QED
  BY <1>3, <1>4

LEMMA CommitInvariant ==
    ASSUME InductiveInvariant, NEW w \in Worker,
           NEW a \in Answer,
           a.kind = "ok" => a = Outcome(source[w], parsed[w], ~holding[w]),
           CommitWith(w, a)
    PROVE  InductiveInvariant'
<1> USE DEF InductiveInvariant
<1>a. /\ pc[w] = "commit"
      /\ Return(w, a)
  BY DEF CommitWith
<1>b. /\ source[w] \in Source /\ VersionOf[w] \in ParserVersion
      /\ Key(w) \in RunKey
      /\ runs' = runs \cup {Key(w)}
      /\ CandidatesOf(Key(w), rows') = parsed[w]
      /\ \A k \in runs : CandidatesOf(k, rows') = CandidatesOf(k, rows)
      /\ \A c \in parsed[w] : c.key = Key(w)
      /\ holding[w] => rows' = rows \cup parsed[w]
      /\ ~holding[w] => rows' = rows
  BY CommitEffect
<1>c. \A v \in Worker \ {w} :
        /\ pc'[v] = pc[v] /\ source'[v] = source[v] /\ parsed'[v] = parsed[v]
        /\ holding'[v] = holding[v] /\ staged'[v] = staged[v]
        /\ answer'[v] = answer[v]
  BY <1>a DEF Return, TypeOK
<1>d. /\ pc'[w] = "idle" /\ source'[w] = NoSource /\ parsed'[w] = {}
      /\ ~holding'[w] /\ staged'[w] = {} /\ answer'[w] = a
  BY <1>a DEF Return, TypeOK
<1>1. TypeOK'
  <2>1. rows' \subseteq Candidate
    BY <1>b DEF TypeOK
  <2> QED
    BY <1>a, <1>b, <2>1 DEF TypeOK, Return
<1>2. IdleIsClean'
  BY <1>c, <1>d DEF IdleIsClean
<1>3. HeldRunsAreNew'
  <2> SUFFICES ASSUME NEW v \in Worker \ {w}, holding[v]
               PROVE  Key(v) # Key(w)
    BY <1>b, <1>c, <1>d DEF HeldRunsAreNew, Key
  <2>1. CASE holding[w]
    BY <2>1 DEF HeldRunsAreNew
  <2>2. CASE ~holding[w]
    BY <1>a, <2>2 DEF HeldRunsAreNew, LoadedIsStored
  <2> QED
    BY <2>1, <2>2
<1>4. StagedIsParsed'
  BY <1>c, <1>d DEF StagedIsParsed
<1>5. ParsesAreFresh'
  <2>1. \A v \in Worker : OwnsParse(v)' => v # w /\ OwnsParse(v)
    BY <1>c, <1>d DEF OwnsParse
  <2>2. \A v \in Worker \ {w} : OwnsParse(v) =>
          \A c \in parsed[v], d \in rows' : c.batch # d.batch
    BY <1>b DEF ParsesAreFresh, OwnsParse
  <2> QED
    BY <1>c, <2>1, <2>2 DEF ParsesAreFresh
<1>6. LoadedIsStored'
  BY <1>b, <1>c, <1>d DEF LoadedIsStored, Key
<1>7. AnswersAreStored'
  <2> SUFFICES ASSUME NEW v \in Worker, answer'[v].kind = "ok"
               PROVE  LET k == KeyOf(VersionOf[v], answer'[v].source) IN
                      /\ k \in runs'
                      /\ answer'[v].candidates = CandidatesOf(k, rows')
    BY DEF AnswersAreStored
  <2>1. CASE v = w
    BY <1>b, <1>d, <2>1 DEF Outcome, Key
  <2>2. CASE v # w
    BY <1>b, <1>c, <2>2 DEF AnswersAreStored
  <2> QED
    BY <2>1, <2>2
<1>8. RunsAreWhole'
  <2>1. \A c \in rows' : c.key \in runs'
    BY <1>b DEF RunsAreWhole
  <2>2. ASSUME NEW k \in runs'
        PROVE  \E s \in Source, b \in Batch :
                 /\ s.version = k.version /\ s.digest = k.digest
                 /\ CandidatesOf(k, rows') = ParseCandidates(k.parser, s, b)
    <3>1. CASE k \in runs
      BY <1>b, <3>1 DEF RunsAreWhole
    <3>2. CASE k = Key(w) /\ holding[w]
      BY <1>b, <3>2, KeyOfType DEF ParsesAreFresh, OwnsParse, Key
    <3>3. CASE k = Key(w) /\ ~holding[w]
      BY <1>a, <3>1, <3>3 DEF LoadedIsStored
    <3> QED
      BY <1>b, <3>1, <3>2, <3>3
  <2> QED
    BY <2>1, <2>2 DEF RunsAreWhole
<1> QED
  BY <1>1, <1>2, <1>3, <1>4, <1>5, <1>6, <1>7, <1>8

-----------------------------------------------------------------------------
LEMMA OutcomeType ==
    ASSUME InductiveInvariant, NEW w \in Worker
    PROVE  Outcome(source[w], parsed[w], ~holding[w]) \in Answer
BY DEF InductiveInvariant, TypeOK, Outcome, Answer, AnswerKind

LEMMA NextInvariant ==
    ASSUME InductiveInvariant, [Next]_vars
    PROVE  InductiveInvariant'
<1>1. CASE UNCHANGED vars
  BY <1>1 DEF vars, InductiveInvariant, TypeOK, IdleIsClean, HeldRunsAreNew,
       StagedIsParsed, ParsesAreFresh, OwnsParse, LoadedIsStored,
       AnswersAreStored, RunsAreWhole, Key
<1>2. ASSUME NEW w \in Worker, NEW s \in Source, Begin(w, s)
      PROVE  InductiveInvariant'
  BY <1>2, BeginInvariant
<1>3. ASSUME NEW w \in Worker, Step(w)
      PROVE  InductiveInvariant'
  BY <1>3, CheckDigestsInvariant, FindRunInvariant, InsertRunInvariant,
     LoadCandidatesInvariant, InsertCandidateInvariant, AllInsertedInvariant,
     CommitInvariant, OutcomeType DEF Step, Commit
<1>4. ASSUME NEW w \in Worker, Failure(w)
      PROVE  InductiveInvariant'
  BY <1>4, RollbackInvariant, CommitInvariant, FailedType
     DEF Failure, Fail, Crash, CommitUnacknowledged, CommitThenCrash
<1> QED
  BY <1>1, <1>2, <1>3, <1>4 DEF Next

\* Every reachable state of the repository satisfies the inductive invariant.
THEOREM RepositoryInvariant == Spec => []InductiveInvariant
<1>1. Init => InductiveInvariant
  BY InitInvariant
<1>2. InductiveInvariant /\ [Next]_vars => InductiveInvariant'
  BY NextInvariant
<1> QED
  BY <1>1, <1>2, PTL DEF Spec

\* Every caller is given all and only what is durable under its key.
THEOREM AnswersAreAlwaysStored == Spec => []AnswersAreStored
BY RepositoryInvariant, PTL DEF InductiveInvariant

\* The two tables agree whenever another process can look at them.
THEOREM RunsAreAlwaysWhole == Spec => []RunsAreWhole
BY RepositoryInvariant, PTL DEF InductiveInvariant

THEOREM RepositoryTypes == Spec => []TypeOK
BY RepositoryInvariant, PTL DEF InductiveInvariant

-----------------------------------------------------------------------------
(* What is on record stays as it is. *)

\* The tables change only at a commit.
LEMMA StepCommitsOrKeeps ==
    ASSUME InductiveInvariant, [Next]_vars
    PROVE  \/ \E w \in Worker, a \in Answer : CommitWith(w, a)
           \/ UNCHANGED <<runs, rows>>
<1>1. CASE UNCHANGED vars
  BY <1>1 DEF vars
<1>2. ASSUME NEW w \in Worker, NEW s \in Source, Begin(w, s)
      PROVE  UNCHANGED <<runs, rows>>
  BY <1>2 DEF Begin
<1>3. ASSUME NEW w \in Worker, Step(w)
      PROVE  Commit(w) \/ UNCHANGED <<runs, rows>>
  BY <1>3 DEF Step, CheckDigests, FindRun, InsertRun, LoadCandidates,
       InsertCandidate, AllInserted, GoTo, Rollback
<1>4. ASSUME NEW w \in Worker, Failure(w)
      PROVE  \/ CommitUnacknowledged(w) \/ CommitThenCrash(w)
             \/ UNCHANGED <<runs, rows>>
  BY <1>4 DEF Failure, Fail, Crash, Rollback
<1> QED
  BY <1>1, <1>2, <1>3, <1>4, OutcomeType, FailedType
     DEF Next, Commit, CommitUnacknowledged, CommitThenCrash

LEMMA StepKeepsCandidates ==
    ASSUME InductiveInvariant, [Next]_vars
    PROVE  \A k \in runs : k \in runs' /\ CandidatesOf(k, rows') = CandidatesOf(k, rows)
<1>1. ASSUME NEW w \in Worker, NEW a, CommitWith(w, a)
      PROVE  \A k \in runs : k \in runs' /\ CandidatesOf(k, rows') = CandidatesOf(k, rows)
  BY <1>1, CommitEffect
<1>2. CASE UNCHANGED <<runs, rows>>
  BY <1>2 DEF CandidatesOf
<1> QED
  BY <1>1, <1>2, StepCommitsOrKeeps

\* A recorded run keeps its candidates, ids included, for ever.
THEOREM CandidatesAreAlwaysStable == Spec => CandidatesAreStable
<1>1. InductiveInvariant /\ [Next]_vars =>
        [\A k \in runs : /\ k \in runs'
                        /\ CandidatesOf(k, rows') = CandidatesOf(k, rows)]_vars
  BY StepKeepsCandidates
<1> QED
  BY <1>1, RepositoryInvariant, PTL DEF Spec, CandidatesAreStable

-----------------------------------------------------------------------------
(* The repository implements the abstract store. *)

\* The two modules mean the same by the data they share.
LEMMA StoreData ==
    /\ Store!NoAnswer = NoAnswer
    /\ \A kind : Store!Failed(kind) = Failed(kind)
    /\ \A p, s : Store!KeyOf(p, s) = KeyOf(p, s)
    /\ \A p, s, b : Store!ParseCandidates(p, s, b) = ParseCandidates(p, s, b)
    /\ \A k, table : Store!CandidatesOf(k, table) = CandidatesOf(k, table)
    /\ \A s, cs, repeat : Store!Outcome(s, cs, repeat) = Outcome(s, cs, repeat)
BY DEF Store!NoAnswer, NoAnswer, Store!Failed, Failed, Store!KeyOf, KeyOf,
   Store!ParseCandidates, ParseCandidates, Store!CandidatesOf, CandidatesOf,
   Store!Outcome, Outcome

LEMMA ReturnsAlike ==
    ASSUME InductiveInvariant, NEW w \in Worker, NEW a, Return(w, a), pc[w] # "idle"
    PROVE  Store!Return(w, a)
BY NoSourceIsNoSource DEF InductiveInvariant, IdleIsClean, Return, Store!Return

LEMMA RollbackImplements ==
    ASSUME InductiveInvariant, NEW w \in Worker,
           NEW a \in {Failed("repository"), NoAnswer}, Rollback(w, a),
           pc[w] = "idle" => a = NoAnswer
    PROVE  [Store!Next]_Store!vars
<1>1. CASE pc[w] = "idle"
  <2>1. source[w] = NoSource /\ source' = source
    BY <1>1 DEF InductiveInvariant, IdleIsClean, TypeOK, Rollback, Return
  <2>2. Store!Forget(w)
    BY <1>1, <2>1 DEF Rollback, Return, Store!Forget, Store!NoAnswer, Store!Failed, NoAnswer, Failed
  <2> QED
    BY <2>2 DEF Store!Next
<1>2. CASE pc[w] # "idle"
  <2>1. Store!GiveUp(w)
    BY <1>2, ReturnsAlike DEF Rollback, Store!GiveUp, Store!Failed, Failed,
         Store!NoAnswer, NoAnswer
  <2> QED
    BY <2>1 DEF Store!Next
<1> QED
  BY <1>1, <1>2

LEMMA CommitImplements ==
    ASSUME InductiveInvariant, NEW w \in Worker,
           NEW a \in {Outcome(source[w], parsed[w], ~holding[w]),
                      Failed("repository"), NoAnswer},
           CommitWith(w, a)
    PROVE  [Store!Next]_Store!vars
<1>1. Store!Return(w, a) /\ source[w] # NoSource
  BY ReturnsAlike, NoSourceIsNoSource
     DEF CommitWith, InductiveInvariant, IdleIsClean
<1>2. CASE holding[w]
  <2>1. PICK b \in Batch : parsed[w] = ParseCandidates(VersionOf[w], source[w], b)
    BY <1>2 DEF InductiveInvariant, ParsesAreFresh, OwnsParse
  <2>2. \A c \in parsed[w], d \in rows : c.batch # d.batch
    BY <1>2 DEF InductiveInvariant, ParsesAreFresh, OwnsParse
  <2>3. /\ KeyOf(VersionOf[w], source[w]) \notin runs
        /\ runs' = runs \cup {KeyOf(VersionOf[w], source[w])}
    BY <1>2 DEF InductiveInvariant, HeldRunsAreNew, CommitWith, Key
  <2>4. rows' = rows \cup parsed[w]
    BY <1>2, CommitEffect
  <2>5. a \in {Outcome(source[w], parsed[w], FALSE), Failed("repository"), NoAnswer}
    BY <1>2
  <2>6. Store!Record(w)
    BY <1>1, <2>1, <2>2, <2>3, <2>4, <2>5, StoreData DEF Store!Record
  <2> QED
    BY <2>6 DEF Store!Next
<1>3. CASE ~holding[w]
  <2>1. /\ KeyOf(VersionOf[w], source[w]) \in runs
        /\ parsed[w] = CandidatesOf(KeyOf(VersionOf[w], source[w]), rows)
    BY <1>3 DEF InductiveInvariant, LoadedIsStored, CommitWith, Key
  <2>2. UNCHANGED <<runs, rows>>
    BY <1>3 DEF InductiveInvariant, StagedIsParsed, CommitWith
  <2>3. CASE a = Outcome(source[w], parsed[w], TRUE)
    BY <1>1, <2>1, <2>2, <2>3, StoreData DEF Store!Recall, Store!Next
  <2>4. CASE a \in {Failed("repository"), NoAnswer}
    BY <1>1, <2>2, <2>4 DEF Store!GiveUp, Store!Next, Store!NoAnswer, NoAnswer, Store!Failed, Failed
  <2> QED
    BY <1>3, <2>3, <2>4
<1> QED
  BY <1>2, <1>3

\* Each step of a transaction either is invisible to the callers of the trait
\* or is the one step in which the call takes effect.
LEMMA StepImplements ==
    ASSUME InductiveInvariant, [Next]_vars
    PROVE  [Store!Next]_Store!vars
<1>1. CASE UNCHANGED vars
  BY <1>1 DEF vars, Store!vars
<1>2. ASSUME NEW w \in Worker, NEW s \in Source, Begin(w, s)
      PROVE  [Store!Next]_Store!vars
  <2>1. source[w] = NoSource
    BY <1>2 DEF Begin, InductiveInvariant, IdleIsClean
  <2>2. CASE s.fragment \in Blank
    BY <1>2, <2>1, <2>2 DEF Begin, Store!RefuseEmpty, Store!Next, Store!Failed, Failed,
         Store!NoAnswer, NoAnswer
  <2>3. CASE s.fragment \notin Blank
    BY <1>2, <2>1, <2>3 DEF Begin, Store!Call, Store!Next, Store!Failed, Failed,
         Store!NoAnswer, NoAnswer
  <2> QED
    BY <2>2, <2>3
<1>3. ASSUME NEW w \in Worker, CheckDigests(w)
      PROVE  [Store!Next]_Store!vars
  <2>1. CASE DigestConflict(source[w], runs) /\ Rollback(w, Failed("mismatch"))
    <3>1. Store!Return(w, Failed("mismatch")) /\ source[w] # NoSource
      BY <1>3, <2>1, ReturnsAlike, NoSourceIsNoSource
         DEF CheckDigests, Rollback, InductiveInvariant, IdleIsClean
    <3> QED
      BY <2>1, <3>1 DEF DigestConflict, Rollback, Store!RefuseDigest, Store!Next, Store!Failed, Failed,
         Store!NoAnswer, NoAnswer
  <2>2. CASE GoTo(w, "find")
    BY <2>2 DEF GoTo, Store!vars
  <2> QED
    BY <1>3, <2>1, <2>2 DEF CheckDigests
<1>4. ASSUME NEW w \in Worker,
             \/ FindRun(w) \/ InsertRun(w) \/ LoadCandidates(w)
             \/ InsertCandidate(w) \/ AllInserted(w)
      PROVE  UNCHANGED Store!vars
  BY <1>4 DEF FindRun, InsertRun, LoadCandidates, InsertCandidate, AllInserted,
       GoTo, Store!vars
<1>5. ASSUME NEW w \in Worker, Commit(w)
      PROVE  [Store!Next]_Store!vars
  BY <1>5, CommitImplements DEF Commit
<1>6. ASSUME NEW w \in Worker, Failure(w)
      PROVE  [Store!Next]_Store!vars
  BY <1>6, CommitImplements, RollbackImplements
     DEF Failure, Fail, Crash, CommitUnacknowledged, CommitThenCrash
<1> QED
  BY <1>1, <1>2, <1>3, <1>4, <1>5, <1>6 DEF Next, Step

\* parse_once, statement by statement and with any number of processes, keeps
\* every promise of the CandidateRepository trait.
THEOREM RepositoryImplementsStore == Spec => ImplementsStore
<1>1. Init => Store!Init
  BY DEF Init, Store!Init, Store!Failed, Failed,
         Store!NoAnswer, NoAnswer
<1>2. InductiveInvariant /\ [Next]_vars => [Store!Next]_Store!vars
  BY StepImplements
<1> QED
  BY <1>1, <1>2, RepositoryInvariant, PTL DEF Spec, Store!Spec, ImplementsStore

-----------------------------------------------------------------------------
(* The digest check holds wherever no two calls race past it.              *)

\* Two calls have passed the check for one document version, under two
\* digests, and neither has returned.
DigestRace(u, w) ==
    /\ pc[u] \notin {"idle", "digests"} /\ pc[w] \notin {"idle", "digests"}
    /\ source[u].version = source[w].version
    /\ source[u].digest # source[w].digest

NoDigestRace == \A u, w \in Worker : ~DigestRace(u, w)

\* What the check found stays true until the call returns.
CheckStands ==
    \A w \in Worker : pc[w] \notin {"idle", "digests"} => ~DigestConflict(source[w], runs)

\* The one step that records a digest records one the check has let pass.
LEMMA CommitKeepsDigests ==
    ASSUME InductiveInvariant, NoDigestRace, CheckStands, OneDigestPerVersion,
           NEW w \in Worker, NEW a, CommitWith(w, a)
    PROVE  CheckStands' /\ OneDigestPerVersion'
<1>1. /\ pc[w] = "commit" /\ runs' = runs \cup {Key(w)}
      /\ pc' = [pc EXCEPT ![w] = "idle"] /\ source' = [source EXCEPT ![w] = NoSource]
  BY CommitEffect DEF CommitWith, Return
<1>2. Key(w).version = source[w].version /\ Key(w).digest = source[w].digest
  BY DEF Key, KeyOf
<1>3. OneDigestPerVersion'
  <2>1. \A k \in runs : k.version = source[w].version => k.digest = source[w].digest
    BY <1>1 DEF CheckStands, DigestConflict
  <2> QED
    BY <1>1, <1>2, <2>1 DEF OneDigestPerVersion
<1>4. ASSUME NEW v \in Worker, pc'[v] \notin {"idle", "digests"}
      PROVE  ~DigestConflict(source[v], runs') /\ source'[v] = source[v]
  <2>1. v # w /\ pc[v] = pc'[v] /\ source'[v] = source[v]
    BY <1>1, <1>4 DEF InductiveInvariant, TypeOK
  <2>2. ~DigestConflict(source[v], runs)
    BY <1>4, <2>1 DEF CheckStands
  <2>3. ~(Key(w).version = source[v].version /\ Key(w).digest # source[v].digest)
    BY <1>1, <1>2, <1>4, <2>1 DEF NoDigestRace, DigestRace
  <2> QED
    BY <1>1, <2>1, <2>2, <2>3 DEF DigestConflict
<1>5. CheckStands'
  BY <1>4 DEF CheckStands
<1> QED
  BY <1>3, <1>5

LEMMA StepKeepsDigests ==
    ASSUME InductiveInvariant, NoDigestRace, CheckStands, OneDigestPerVersion, [Next]_vars
    PROVE  CheckStands' /\ OneDigestPerVersion'
<1>1. ASSUME NEW w \in Worker, NEW a, CommitWith(w, a)
      PROVE  CheckStands' /\ OneDigestPerVersion'
  BY <1>1, CommitKeepsDigests
<1>2. ASSUME runs' = runs,
             \A v \in Worker : pc'[v] \notin {"idle", "digests"} =>
                /\ source'[v] = source[v]
                /\ pc[v] \notin {"idle", "digests"} \/ ~DigestConflict(source[v], runs)
      PROVE  CheckStands' /\ OneDigestPerVersion'
  <2>1. OneDigestPerVersion'
    BY <1>2 DEF OneDigestPerVersion
  <2>2. ASSUME NEW v \in Worker, pc'[v] \notin {"idle", "digests"}
        PROVE  ~DigestConflict(source[v], runs)
    BY <1>2, <2>2 DEF CheckStands
  <2>3. CheckStands'
    BY <1>2, <2>2 DEF CheckStands
  <2> QED
    BY <2>1, <2>3
<1>3. ASSUME NEW w \in Worker, NEW a, Rollback(w, a)
      PROVE  CheckStands' /\ OneDigestPerVersion'
  BY <1>2, <1>3 DEF Rollback, Return, InductiveInvariant, TypeOK
<1>4. CASE UNCHANGED vars
  BY <1>2, <1>4 DEF vars
<1>5. ASSUME NEW w \in Worker, NEW s \in Source, Begin(w, s)
      PROVE  CheckStands' /\ OneDigestPerVersion'
  BY <1>2, <1>5 DEF Begin, InductiveInvariant, TypeOK
<1>6. ASSUME NEW w \in Worker, CheckDigests(w)
      PROVE  CheckStands' /\ OneDigestPerVersion'
  BY <1>2, <1>3, <1>6 DEF CheckDigests, GoTo, InductiveInvariant, TypeOK
<1>7. ASSUME NEW w \in Worker,
             \/ FindRun(w) \/ InsertRun(w) \/ LoadCandidates(w)
             \/ InsertCandidate(w) \/ AllInserted(w)
      PROVE  CheckStands' /\ OneDigestPerVersion'
  BY <1>2, <1>7 DEF FindRun, InsertRun, LoadCandidates, InsertCandidate,
     AllInserted, GoTo, InductiveInvariant, TypeOK
<1>8. ASSUME NEW w \in Worker, Commit(w) \/ Failure(w)
      PROVE  CheckStands' /\ OneDigestPerVersion'
  BY <1>1, <1>3, <1>8 DEF Commit, Failure, Fail, Crash, CommitUnacknowledged, CommitThenCrash
<1> QED
  BY <1>4, <1>5, <1>6, <1>7, <1>8 DEF Next, Step

\* A document version has one digest on record for as long as no two calls
\* with different digests of it are past FIND_ANY_DIGEST_FOR_VERSION_SQL at
\* the same time: that race, which the run DigestSkew exhibits, is the only
\* way around the check, whatever fails or crashes.
THEOREM OneDigestUnlessCallsRace == Spec /\ []NoDigestRace => []OneDigestPerVersion
<1>1. Init => CheckStands /\ OneDigestPerVersion
  BY DEF Init, CheckStands, OneDigestPerVersion
<1>2. InductiveInvariant /\ NoDigestRace /\ CheckStands /\ OneDigestPerVersion /\ [Next]_vars
      => CheckStands' /\ OneDigestPerVersion'
  BY StepKeepsDigests
<1> QED
  BY <1>1, <1>2, RepositoryInvariant, PTL DEF Spec

\* A single process never records two digests of one document version.
THEOREM OneDigestWithOneWorker ==
    ASSUME \A u, w \in Worker : u = w
    PROVE  Spec => []OneDigestPerVersion
<1>1. NoDigestRace
  BY DEF NoDigestRace, DigestRace
<1>2. []NoDigestRace
  BY <1>1, PTL
<1> QED
  BY <1>2, OneDigestUnlessCallsRace, PTL
=============================================================================
