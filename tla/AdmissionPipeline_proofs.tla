---------------------- MODULE AdmissionPipeline_proofs ----------------------
(***************************************************************************)
(* Proofs about AdmissionPipeline for any number of workers and routes,    *)
(* whatever fails: what was proved of the repository is used here through  *)
(* the fact that the pipeline drives it only by its own steps.             *)
(***************************************************************************)
EXTENDS AdmissionPipeline, PostgresRepository_proofs

-----------------------------------------------------------------------------
(* The pipeline and the repository. *)

LEMMA PassDrivesTheRepository ==
    ASSUME NEW w \in Worker, Pass(w)
    PROVE  [Next]_vars
<1>1. CASE Dispatch(w)
  BY <1>1 DEF Dispatch, Next
<1>2. CASE Parse(w)
  BY <1>2 DEF Parse, Next
<1>3. CASE \/ Poll(w) \/ Claim(w) \/ LoseClaim(w) \/ FetchRequest(w) \/ Parsed(w)
           \/ Submit(w) \/ AllSubmitted(w) \/ Complete(w) \/ Fenced(w)
  BY <1>3 DEF Poll, Claim, GrantClaim, LoseClaim, FetchRequest, Parsed, Submit,
       AllSubmitted, Complete, TakeCompletion, Fenced
<1> QED
  BY <1>1, <1>2, <1>3 DEF Pass

LEMMA StepDrivesTheRepository == [PipelineNext]_allVars => [Next]_vars
<1>1. CASE UNCHANGED allVars
  BY <1>1 DEF allVars
<1>2. ASSUME NEW w \in Worker, Pass(w) \/ NothingEligible(w)
      PROVE  [Next]_vars
  BY <1>2, PassDrivesTheRepository DEF NothingEligible, allVars
<1>3. ASSUME NEW r \in Route, ExpireClaim(r)
      PROVE  [Next]_vars
  BY <1>3 DEF ExpireClaim
<1>4. ASSUME NEW w \in Worker, CallFails(w) \/ ReplyLost(w)
      PROVE  [Next]_vars
  BY <1>4 DEF CallFails, ReplyLost, GrantClaim, TakeCompletion
<1>5. ASSUME NEW w \in Worker, RepositoryFails(w) \/ Killed(w)
      PROVE  [Next]_vars
  BY <1>5 DEF RepositoryFails, Killed, Failure, Next
<1> QED
  BY <1>1, <1>2, <1>3, <1>4, <1>5
     DEF PipelineNext, Fault, ExpireAbandoned, ExpireEarly

\* Whatever the workers do, the repository only ever takes its own steps, so
\* everything proved of it holds inside the pipeline.
THEOREM PipelineDrivesTheRepository == PipelineSpec => Spec
<1>1. PipelineInit => Init
  BY DEF PipelineInit
<1> QED
  BY <1>1, StepDrivesTheRepository, PTL DEF PipelineSpec, Spec

LEMMA RepositoryInvariantInPipeline == PipelineSpec => []InductiveInvariant
BY PipelineDrivesTheRepository, RepositoryInvariant, PTL

-----------------------------------------------------------------------------
LEMMA PipelineInitInvariant == PipelineInit => PipelineInvariant
<1> SUFFICES ASSUME PipelineInit PROVE PipelineInvariant
  OBVIOUS
<1> USE DEF PipelineInit
<1>1. PipelineTypeOK
  BY InitInvariant DEF InductiveInvariant, PipelineTypeOK, Stage
<1>2. RepositoryIsDriven
  BY DEF RepositoryIsDriven, Init
<1> QED
  BY <1>1, <1>2 DEF PipelineInvariant, AcceptedAreStored, ParsesItsRequest,
     NothingSkipped, ReadyMeansAdmitted, CompletedMeansAdmitted

-----------------------------------------------------------------------------
(* What a step of one worker leaves alone. *)

WorkerStep(w) ==
    Pass(w) \/ CallFails(w) \/ ReplyLost(w) \/ RepositoryFails(w) \/ Killed(w)

LEMMA PipelineStepCases ==
    ASSUME PipelineNext
    PROVE  \/ \E w \in Worker : WorkerStep(w)
           \/ \E r \in Route : ExpireClaim(r)
           \/ UNCHANGED allVars
BY DEF PipelineNext, Fault, WorkerStep, ExpireAbandoned, ExpireEarly, NothingEligible

\* The repository's view of another process.
LEMMA RepositoryFrame ==
    ASSUME TypeOK, NEW w \in Worker, NEW v \in Worker \ {w},
           \/ Step(w) \/ Failure(w) \/ \E s \in Source : Begin(w, s)
           \/ UNCHANGED vars
    PROVE  pc'[v] = pc[v] /\ source'[v] = source[v] /\ answer'[v] = answer[v]
<1> USE DEF TypeOK
<1>1. ASSUME NEW a, Return(w, a)
      PROVE  pc'[v] = pc[v] /\ source'[v] = source[v] /\ answer'[v] = answer[v]
  BY <1>1 DEF Return
<1>2. ASSUME NEW label, GoTo(w, label)
      PROVE  pc'[v] = pc[v] /\ source'[v] = source[v] /\ answer'[v] = answer[v]
  BY <1>2 DEF GoTo
<1>3. CASE Step(w)
  BY <1>1, <1>2, <1>3 DEF Step, CheckDigests, FindRun, InsertRun, LoadCandidates,
       InsertCandidate, AllInserted, Commit, CommitWith, Rollback
<1>4. CASE Failure(w)
  BY <1>1, <1>4 DEF Failure, Fail, Crash, CommitUnacknowledged, CommitThenCrash,
       CommitWith, Rollback
<1>5. CASE \E s \in Source : Begin(w, s)
  BY <1>5 DEF Begin
<1>6. CASE UNCHANGED vars
  BY <1>6 DEF vars
<1> QED
  BY <1>3, <1>4, <1>5, <1>6

\* A call of parse_once answers for the source it was given.
LEMMA CallKeepsSource ==
    ASSUME InductiveInvariant, NEW w \in Worker,
           Step(w) \/ Fail(w) \/ CommitUnacknowledged(w)
    PROVE  /\ pc[w] # "idle"
           /\ pc'[w] # "idle" => source'[w] = source[w]
           /\ pc'[w] = "idle" /\ answer'[w].kind = "ok" => answer'[w].source = source[w]
<1> USE DEF InductiveInvariant, TypeOK
<1>1. ASSUME NEW a, Return(w, a)
      PROVE  pc'[w] = "idle" /\ answer'[w] = a
  BY <1>1 DEF Return
<1>2. ASSUME NEW label, GoTo(w, label), label # "idle"
      PROVE  pc'[w] # "idle" /\ source'[w] = source[w]
  BY <1>2 DEF GoTo
<1>3. CASE Commit(w)
  BY <1>1, <1>3 DEF Commit, CommitWith, Outcome
<1>4. CASE Fail(w) \/ CommitUnacknowledged(w)
  BY <1>1, <1>4 DEF Fail, CommitUnacknowledged, CommitWith, Rollback, Failed
<1>5. CASE CheckDigests(w)
  BY <1>1, <1>2, <1>5 DEF CheckDigests, Rollback, Failed
<1>6. CASE FindRun(w) \/ InsertRun(w) \/ LoadCandidates(w) \/ AllInserted(w)
  BY <1>2, <1>6 DEF FindRun, InsertRun, LoadCandidates, AllInserted
<1>7. CASE InsertCandidate(w)
  BY <1>7 DEF InsertCandidate
<1> QED
  BY <1>3, <1>4, <1>5, <1>6, <1>7 DEF Step

LEMMA PassFrame ==
    ASSUME PipelineTypeOK, NEW w \in Worker, NEW v \in Worker \ {w}, WorkerStep(w)
    PROVE  /\ stage'[v] = stage[v] /\ route'[v] = route[v] /\ todo'[v] = todo[v]
           /\ pc'[v] = pc[v] /\ source'[v] = source[v] /\ answer'[v] = answer[v]
<1> USE DEF PipelineTypeOK
<1>1. /\ stage'[v] = stage[v] /\ route'[v] = route[v] /\ todo'[v] = todo[v]
  <2>1. CASE Pass(w)
    BY <2>1 DEF Pass, Poll, Claim, LoseClaim, FetchRequest, Dispatch, Parse, Parsed,
         Submit, AllSubmitted, Complete, Fenced, GoOn, PassEnds, pipelineVars, passVars
  <2>2. CASE \/ CallFails(w) \/ ReplyLost(w) \/ RepositoryFails(w) \/ Killed(w)
    BY <2>2 DEF CallFails, ReplyLost, RepositoryFails, Killed, PassEnds,
         pipelineVars, passVars
  <2> QED
    BY <2>1, <2>2 DEF WorkerStep
<1>2. \/ Step(w) \/ Failure(w) \/ \E s \in Source : Begin(w, s)
      \/ UNCHANGED vars
  <2>1. CASE Pass(w)
    BY <2>1 DEF Pass, Poll, Claim, GrantClaim, LoseClaim, FetchRequest, Dispatch,
         Parse, Parsed, Submit, AllSubmitted, Complete, TakeCompletion, Fenced
  <2>2. CASE \/ CallFails(w) \/ ReplyLost(w) \/ RepositoryFails(w) \/ Killed(w)
    BY <2>2 DEF CallFails, ReplyLost, GrantClaim, TakeCompletion, RepositoryFails,
         Killed, Failure
  <2> QED
    BY <2>1, <2>2 DEF WorkerStep
<1> QED
  BY <1>1, <1>2, RepositoryFrame

\* Nothing stored, accepted or completed is ever taken back.
LEMMA NothingIsTakenBack ==
    ASSUME InductiveInvariant, [PipelineNext]_allVars
    PROVE  /\ rows \subseteq rows'
           /\ accepted \subseteq accepted'
           /\ \A k, s : AllAdmitted(k, s) => AllAdmitted(k, s)'
<1>1. \A k \in runs : k \in runs' /\ CandidatesOf(k, rows') = CandidatesOf(k, rows)
  BY StepDrivesTheRepository, StepKeepsCandidates
<1>2. rows \subseteq rows'
  BY <1>1 DEF CandidatesOf, InductiveInvariant, RunsAreWhole
<1>3. accepted \subseteq accepted'
  <2>1. ASSUME NEW w \in Worker, Pass(w)
        PROVE  accepted \subseteq accepted'
    BY <2>1 DEF Pass, Poll, Claim, GrantClaim, LoseClaim, FetchRequest, Dispatch,
         Parse, Parsed, Submit, AllSubmitted, Complete, TakeCompletion, Fenced,
         kernelVars, pipelineVars
  <2>2. ASSUME NEW w \in Worker,
               CallFails(w) \/ ReplyLost(w) \/ RepositoryFails(w) \/ Killed(w)
        PROVE  accepted \subseteq accepted'
    BY <2>2 DEF CallFails, ReplyLost, GrantClaim, TakeCompletion, RepositoryFails,
         Killed, kernelVars, pipelineVars
  <2> QED
    BY <2>1, <2>2, PipelineStepCases
       DEF WorkerStep, ExpireClaim, allVars, pipelineVars, kernelVars
<1> QED
  BY <1>1, <1>2, <1>3 DEF AllAdmitted

-----------------------------------------------------------------------------
(* The invariant is preserved. *)

\* A pass that fails or ends leaves nothing behind.
LEMMA PassEndsClean ==
    ASSUME PipelineTypeOK, NEW w \in Worker, PassEnds(w)
    PROVE  stage'[w] = "poll"
BY DEF PipelineTypeOK, PassEnds

\* The candidates a pass submits are the stored ones of its Request.
LEMMA AnswerInHand ==
    ASSUME InductiveInvariant, PipelineInvariant, NEW w \in Worker,
           stage[w] = "submit"
    PROVE  /\ Request[route[w]] \in Source
           /\ answer[w].source = Request[route[w]]
           /\ KeyOf(VersionOf[w], Request[route[w]]) \in runs
           /\ answer[w].candidates =
                CandidatesOf(KeyOf(VersionOf[w], Request[route[w]]), rows)
           /\ todo[w] \subseteq answer[w].candidates
           /\ \A c \in answer[w].candidates \ todo[w] :
                AdmitScope(c, Request[route[w]]) \in accepted
<1>1. pc[w] = "idle" /\ answer[w].kind = "ok"
  BY DEF PipelineInvariant, RepositoryIsDriven, NothingSkipped
<1>2. Request[route[w]] \in Source /\ answer[w].source = Request[route[w]]
  BY <1>1 DEF PipelineInvariant, ParsesItsRequest
<1> QED
  BY <1>1, <1>2 DEF InductiveInvariant, AnswersAreStored, PipelineInvariant,
     NothingSkipped

\* What a step adds to accepted is a stored candidate of a requested source.
LEMMA AcceptedGrowsByStored ==
    ASSUME InductiveInvariant, PipelineInvariant, NEW w \in Worker, WorkerStep(w)
    PROVE  \/ accepted' = accepted
           \/ /\ stage[w] = "submit"
              /\ UNCHANGED <<vars, done>>
              /\ \E c \in todo[w] :
                   /\ Acceptable(c)
                   /\ accepted' = accepted \cup {AdmitScope(c, answer[w].source)}
<1>1. CASE Submit(w)
  BY <1>1 DEF Submit
<1>2. CASE ReplyLost(w)
  BY <1>2 DEF ReplyLost, GrantClaim, TakeCompletion
<1>3. CASE Pass(w) /\ ~Submit(w)
  BY <1>3 DEF Pass, Poll, Claim, GrantClaim, LoseClaim, FetchRequest, Dispatch,
     Parse, Parsed, AllSubmitted, Complete, TakeCompletion, Fenced,
     kernelVars, pipelineVars
<1>4. CASE CallFails(w) \/ RepositoryFails(w) \/ Killed(w)
  BY <1>4 DEF CallFails, RepositoryFails, Killed, kernelVars, pipelineVars
<1> QED
  BY <1>1, <1>2, <1>3, <1>4 DEF WorkerStep

LEMMA AcceptedAreStoredPreserved ==
    ASSUME InductiveInvariant, PipelineInvariant, [PipelineNext]_allVars
    PROVE  AcceptedAreStored'
<1>1. AcceptedAreStored /\ rows \subseteq rows'
  BY NothingIsTakenBack DEF PipelineInvariant
<1>2. CASE accepted' = accepted
  BY <1>1, <1>2 DEF AcceptedAreStored
<1>3. ASSUME NEW w \in Worker, WorkerStep(w), accepted' # accepted
      PROVE  AcceptedAreStored'
  <2>1. PICK c \in todo[w] : accepted' = accepted \cup {AdmitScope(c, answer[w].source)}
    BY <1>3, AcceptedGrowsByStored
  <2>2. c \in rows
    BY <1>3, AcceptedGrowsByStored, AnswerInHand DEF CandidatesOf
  <2> QED
    BY <1>1, <2>1, <2>2 DEF AcceptedAreStored, AdmitScope
<1> QED
  BY <1>2, <1>3, PipelineStepCases
     DEF ExpireClaim, allVars, pipelineVars, kernelVars

LEMMA RepositoryIsDrivenPreserved ==
    ASSUME InductiveInvariant, PipelineInvariant, NEW w \in Worker, WorkerStep(w)
    PROVE  RepositoryIsDriven'
<1> USE DEF PipelineInvariant
<1>1. /\ stage'[w] # "parse" => pc'[w] = "idle"
      /\ stage'[w] # "poll" => route'[w] \in Route
  <2> USE DEF RepositoryIsDriven, PipelineTypeOK, TypeOK
  <2>1. CASE Pass(w)
    BY <2>1 DEF Pass, Poll, Claim, GrantClaim, LoseClaim, FetchRequest, Dispatch,
       Parse, Parsed, Submit, AllSubmitted, Complete, TakeCompletion, Fenced,
       GoOn, PassEnds, pipelineVars, passVars, vars, Eligible
  <2>2. CASE CallFails(w) \/ ReplyLost(w) \/ RepositoryFails(w)
    BY <2>2 DEF CallFails, ReplyLost, GrantClaim, TakeCompletion, RepositoryFails,
       PassEnds, pipelineVars, passVars, vars
  <2>3. CASE Killed(w)
    BY <2>3 DEF Killed, Crash, CommitThenCrash, CommitWith, Rollback, Return, PassEnds
  <2> QED
    BY <2>1, <2>2, <2>3 DEF WorkerStep
<1>2. ASSUME NEW v \in Worker \ {w}
      PROVE  /\ stage'[v] # "parse" => pc'[v] = "idle"
             /\ stage'[v] # "poll" => route'[v] \in Route
  BY PassFrame DEF RepositoryIsDriven
<1> QED
  BY <1>1, <1>2 DEF RepositoryIsDriven

LEMMA ParsesItsRequestPreserved ==
    ASSUME InductiveInvariant, PipelineInvariant, NEW w \in Worker, WorkerStep(w)
    PROVE  ParsesItsRequest'
<1> USE DEF PipelineInvariant
<1> DEFINE P(v) == stage[v] \in {"parse", "submit"} =>
                     /\ Request[route[v]] \in Source
                     /\ pc[v] # "idle" => source[v] = Request[route[v]]
                     /\ pc[v] = "idle" /\ answer[v].kind = "ok" =>
                          answer[v].source = Request[route[v]]
<1>0. P(w)
  BY DEF ParsesItsRequest
<1>1. P(w)'
  <2> USE DEF PipelineTypeOK, TypeOK
  <2>1. CASE Dispatch(w)
    BY <2>1 DEF Dispatch, Begin, GoOn, PassEnds, NoAnswer, Failed
  <2>2. CASE Parse(w) \/ RepositoryFails(w)
    <3>1. stage[w] = "parse" /\ stage' = stage /\ route' = route
      BY <2>2 DEF Parse, RepositoryFails, pipelineVars, passVars
    <3>2. Step(w) \/ Fail(w) \/ CommitUnacknowledged(w)
      BY <2>2 DEF Parse, RepositoryFails
    <3> QED
      BY <1>0, <3>1, <3>2, CallKeepsSource
  <2>3. CASE Parsed(w) \/ Submit(w)
    BY <1>0, <2>3 DEF Parsed, Submit, PassEnds, vars
  <2>4. CASE \/ Poll(w) \/ Claim(w) \/ FetchRequest(w) \/ AllSubmitted(w)
    BY <2>4 DEF Poll, Claim, FetchRequest, AllSubmitted, GoOn
  <2>5. CASE \/ LoseClaim(w) \/ Complete(w) \/ Fenced(w)
             \/ CallFails(w) \/ ReplyLost(w) \/ Killed(w)
    BY <2>5, PassEndsClean
       DEF LoseClaim, Complete, Fenced, CallFails, ReplyLost, Killed
  <2> QED
    BY <2>1, <2>2, <2>3, <2>4, <2>5 DEF WorkerStep, Pass
<1>2. ASSUME NEW v \in Worker \ {w}
      PROVE  P(v)'
  BY PassFrame DEF ParsesItsRequest
<1>3. \A v \in Worker : P(v)'
  BY <1>1, <1>2
<1> QED
  BY <1>3 DEF ParsesItsRequest

LEMMA NothingSkippedPreserved ==
    ASSUME InductiveInvariant, PipelineInvariant, NEW w \in Worker, WorkerStep(w)
    PROVE  NothingSkipped'
<1> USE DEF PipelineInvariant
<1> DEFINE P(v) == stage[v] = "submit" =>
                     /\ answer[v].kind = "ok"
                     /\ todo[v] \subseteq answer[v].candidates
                     /\ \A c \in answer[v].candidates \ todo[v] :
                          AdmitScope(c, answer[v].source) \in accepted
<1>0. accepted \subseteq accepted'
  BY NothingIsTakenBack DEF WorkerStep, PipelineNext, Fault
<1>1. P(w)'
  <2> USE DEF PipelineTypeOK
  <2>1. CASE Parsed(w)
    BY <2>1 DEF Parsed, PassEnds, vars
  <2>2. CASE Submit(w)
    <3>1. CASE stage'[w] = "submit"
      <4>1. PICK c \in todo[w] :
              /\ accepted' = accepted \cup {AdmitScope(c, answer[w].source)}
              /\ todo' = [todo EXCEPT ![w] = @ \ {c}]
        BY <2>2, <3>1, PassEndsClean DEF Submit
      <4>2. answer' = answer /\ stage[w] = "submit"
        BY <2>2 DEF Submit, vars
      <4> QED
        BY <4>1, <4>2 DEF NothingSkipped
    <3> QED
      BY <3>1
  <2>3. CASE \/ Poll(w) \/ Claim(w) \/ FetchRequest(w) \/ Dispatch(w)
             \/ AllSubmitted(w)
    BY <2>3 DEF Poll, Claim, FetchRequest, Dispatch, AllSubmitted, GoOn, PassEnds
  <2>4. CASE \/ LoseClaim(w) \/ Complete(w) \/ Fenced(w)
             \/ CallFails(w) \/ ReplyLost(w) \/ Killed(w)
    BY <2>4, PassEndsClean
       DEF LoseClaim, Complete, Fenced, CallFails, ReplyLost, Killed
  <2>5. CASE Parse(w) \/ RepositoryFails(w)
    BY <2>5 DEF Parse, RepositoryFails, pipelineVars, passVars
  <2> QED
    BY <2>1, <2>2, <2>3, <2>4, <2>5 DEF WorkerStep, Pass
<1>2. ASSUME NEW v \in Worker \ {w}
      PROVE  P(v)'
  BY <1>0, PassFrame DEF NothingSkipped
<1>3. \A v \in Worker : P(v)'
  BY <1>1, <1>2
<1> QED
  BY <1>3 DEF NothingSkipped

LEMMA ReadyMeansAdmittedPreserved ==
    ASSUME InductiveInvariant, PipelineInvariant, NEW w \in Worker, WorkerStep(w)
    PROVE  ReadyMeansAdmitted'
<1> USE DEF PipelineInvariant
<1> DEFINE P(v) == stage[v] = "complete" =>
                     \/ Request[route[v]] = UnknownAction
                     \/ /\ Request[route[v]] \in Source
                        /\ AllAdmitted(KeyOf(VersionOf[v], Request[route[v]]),
                                       Request[route[v]])
<1>0. \A k, s : AllAdmitted(k, s) => AllAdmitted(k, s)'
  BY NothingIsTakenBack DEF WorkerStep, PipelineNext, Fault
<1>1. P(w)'
  <2> USE DEF PipelineTypeOK
  <2>1. CASE Dispatch(w)
    BY <2>1 DEF Dispatch, GoOn, PassEnds
  <2>2. CASE AllSubmitted(w)
    <3>1. stage[w] = "submit" /\ todo[w] = {} /\ route' = route
      BY <2>2 DEF AllSubmitted, GoOn
    <3>2. /\ Request[route[w]] \in Source
          /\ AllAdmitted(KeyOf(VersionOf[w], Request[route[w]]), Request[route[w]])
      BY <3>1, AnswerInHand DEF AllAdmitted
    <3> QED
      BY <1>0, <3>1, <3>2
  <2>3. CASE \/ Poll(w) \/ Claim(w) \/ FetchRequest(w) \/ Parsed(w) \/ Submit(w)
    BY <2>3 DEF Poll, Claim, FetchRequest, Parsed, Submit, GoOn, PassEnds
  <2>4. CASE \/ LoseClaim(w) \/ Complete(w) \/ Fenced(w)
             \/ CallFails(w) \/ ReplyLost(w) \/ Killed(w)
    BY <2>4, PassEndsClean
       DEF LoseClaim, Complete, Fenced, CallFails, ReplyLost, Killed
  <2>5. CASE Parse(w) \/ RepositoryFails(w)
    BY <2>5 DEF Parse, RepositoryFails, pipelineVars, passVars
  <2> QED
    BY <2>1, <2>2, <2>3, <2>4, <2>5 DEF WorkerStep, Pass
<1>2. ASSUME NEW v \in Worker \ {w}
      PROVE  P(v)'
  BY <1>0, PassFrame DEF ReadyMeansAdmitted
<1>3. \A v \in Worker : P(v)'
  BY <1>1, <1>2
<1> QED
  BY <1>3 DEF ReadyMeansAdmitted

\* A route is only ever completed by a pass that is ready to.
LEMMA DoneGrowsByReady ==
    ASSUME InductiveInvariant, PipelineInvariant, NEW w \in Worker, WorkerStep(w)
    PROVE  \/ done' = done
           \/ /\ stage[w] = "complete"
              /\ UNCHANGED <<vars, accepted>>
              /\ route[w] \notin done
              /\ done' = done \cup {route[w]}
<1>1. CASE Complete(w)
  BY <1>1 DEF Complete, TakeCompletion, Current
<1>2. CASE ReplyLost(w)
  BY <1>2 DEF ReplyLost, GrantClaim, TakeCompletion, Current
<1>3. CASE Pass(w) /\ ~Complete(w)
  BY <1>3 DEF Pass, Poll, Claim, GrantClaim, LoseClaim, FetchRequest, Dispatch,
     Parse, Parsed, Submit, AllSubmitted, Fenced, kernelVars, pipelineVars
<1>4. CASE CallFails(w) \/ RepositoryFails(w) \/ Killed(w)
  BY <1>4 DEF CallFails, RepositoryFails, Killed, kernelVars, pipelineVars
<1> QED
  BY <1>1, <1>2, <1>3, <1>4 DEF WorkerStep

\* What holds of the route a pass is ready to complete.
LEMMA ReadyRoute ==
    ASSUME PipelineInvariant, NEW w \in Worker, stage[w] = "complete"
    PROVE  /\ route[w] \in Route
           /\ Request[route[w]] # UnknownAction =>
                /\ Request[route[w]] \in Source
                /\ \E p \in ParserVersion :
                     AllAdmitted(KeyOf(p, Request[route[w]]), Request[route[w]])
BY WorkerAssumption DEF PipelineInvariant, RepositoryIsDriven, ReadyMeansAdmitted

LEMMA CompletedMeansAdmittedPreserved ==
    ASSUME InductiveInvariant, PipelineInvariant, [PipelineNext]_allVars
    PROVE  CompletedMeansAdmitted'
<1>1. CompletedMeansAdmitted /\ \A k, s : AllAdmitted(k, s) => AllAdmitted(k, s)'
  BY NothingIsTakenBack DEF PipelineInvariant
<1>2. CASE done' = done
  BY <1>1, <1>2 DEF CompletedMeansAdmitted
<1>3. ASSUME NEW w \in Worker, WorkerStep(w), done' # done
      PROVE  CompletedMeansAdmitted'
  <2>1. stage[w] = "complete" /\ done' = done \cup {route[w]}
    BY <1>3, DoneGrowsByReady
  <2>2. Request[route[w]] # UnknownAction =>
          /\ Request[route[w]] \in Source
          /\ \E p \in ParserVersion :
               AllAdmitted(KeyOf(p, Request[route[w]]), Request[route[w]])
    BY <2>1, ReadyRoute
  <2> QED
    BY <1>1, <2>1, <2>2 DEF CompletedMeansAdmitted
<1> QED
  BY <1>2, <1>3, PipelineStepCases
     DEF ExpireClaim, allVars, pipelineVars, kernelVars

LEMMA PipelineTypePreserved ==
    ASSUME InductiveInvariant, InductiveInvariant', PipelineInvariant,
           NEW w \in Worker, WorkerStep(w)
    PROVE  PipelineTypeOK'
<1> USE DEF PipelineInvariant, PipelineTypeOK
<1>1. TypeOK'
  BY DEF InductiveInvariant
<1>2. accepted' \subseteq Admission
  <2>1. CASE accepted' = accepted
    BY <2>1
  <2>2. CASE accepted' # accepted
    <3>1. stage[w] = "submit"
      BY <2>2, AcceptedGrowsByStored
    <3>2. PICK c \in todo[w] : accepted' = accepted \cup {AdmitScope(c, answer[w].source)}
      BY <2>2, AcceptedGrowsByStored
    <3>3. c \in Candidate
      BY <3>2
    <3>4. answer[w].source \in Source
      BY <3>1, AnswerInHand
    <3>5. answer[w].source.fragment \in Fragment
      BY <3>4, DomainAssumption DEF SourceReference
    <3> QED
      BY <3>2, <3>3, <3>5 DEF AdmitScope, Admission
  <2> QED
    BY <2>1, <2>2
<1>3. done' \subseteq Route
  BY DoneGrowsByReady, ReadyRoute
<1>4. /\ held' \subseteq Route
      /\ lastClaimant' \in [Route -> Worker \cup {Nobody}]
  <2>1. CASE Claim(w) \/ ReplyLost(w)
    BY <2>1 DEF Claim, ReplyLost, GrantClaim, TakeCompletion, Eligible
  <2>2. CASE Complete(w)
    BY <2>2 DEF Complete, TakeCompletion
  <2>3. CASE Pass(w) /\ ~Complete(w) /\ ~Claim(w)
    BY <2>3 DEF Pass, Poll, LoseClaim, FetchRequest, Dispatch, Parse, Parsed,
       Submit, AllSubmitted, Fenced, kernelVars, pipelineVars
  <2>4. CASE CallFails(w) \/ RepositoryFails(w) \/ Killed(w)
    BY <2>4 DEF CallFails, RepositoryFails, Killed, kernelVars, pipelineVars
  <2> QED
    BY <2>1, <2>2, <2>3, <2>4 DEF WorkerStep
<1>5. /\ stage' \in [Worker -> Stage]
      /\ route' \in [Worker -> Route \cup {NoRoute}]
      /\ todo' \in [Worker -> SUBSET Candidate]
  <2>0. ASSUME PassEnds(w)
        PROVE  /\ stage' \in [Worker -> Stage]
               /\ route' \in [Worker -> Route \cup {NoRoute}]
               /\ todo' \in [Worker -> SUBSET Candidate]
    BY <2>0 DEF PassEnds, Stage
  <2>1. ASSUME NEW next \in Stage, GoOn(w, next)
        PROVE  /\ stage' \in [Worker -> Stage]
               /\ route' \in [Worker -> Route \cup {NoRoute}]
               /\ todo' \in [Worker -> SUBSET Candidate]
    BY <2>1 DEF GoOn
  <2>2. CASE \/ Claim(w) \/ FetchRequest(w) \/ Dispatch(w) \/ AllSubmitted(w)
    BY <2>0, <2>1, <2>2 DEF Claim, FetchRequest, Dispatch, AllSubmitted, Stage
  <2>3. CASE Poll(w)
    BY <2>3 DEF Poll, Eligible, Stage
  <2>4. CASE Parsed(w)
    <3>1. answer[w].candidates \subseteq Candidate
      BY DEF TypeOK, Answer
    <3> QED
      BY <2>0, <2>4, <3>1 DEF Parsed, Stage
  <2>5. CASE Submit(w)
    BY <2>0, <2>5 DEF Submit
  <2>6. CASE \/ LoseClaim(w) \/ Complete(w) \/ Fenced(w)
             \/ CallFails(w) \/ ReplyLost(w) \/ Killed(w)
    BY <2>0, <2>6 DEF LoseClaim, Complete, Fenced, CallFails, ReplyLost, Killed
  <2>7. CASE Parse(w) \/ RepositoryFails(w)
    BY <2>7 DEF Parse, RepositoryFails, pipelineVars, passVars
  <2> QED
    BY <2>2, <2>3, <2>4, <2>5, <2>6, <2>7 DEF WorkerStep, Pass
<1> QED
  BY <1>1, <1>2, <1>3, <1>4, <1>5

LEMMA PipelineNextInvariant ==
    ASSUME InductiveInvariant, InductiveInvariant', PipelineInvariant,
           [PipelineNext]_allVars
    PROVE  PipelineInvariant'
<1>1. AcceptedAreStored' /\ CompletedMeansAdmitted'
  BY AcceptedAreStoredPreserved, CompletedMeansAdmittedPreserved
<1>2. ASSUME NEW w \in Worker, WorkerStep(w)
      PROVE  PipelineInvariant'
  BY <1>1, <1>2, PipelineTypePreserved, RepositoryIsDrivenPreserved,
     ParsesItsRequestPreserved, NothingSkippedPreserved, ReadyMeansAdmittedPreserved
     DEF PipelineInvariant
<1>3. ASSUME UNCHANGED <<vars, done, lastClaimant, accepted, passVars>>,
             held' \subseteq Route
      PROVE  PipelineInvariant'
  <2>1. PipelineTypeOK'
    BY <1>3 DEF PipelineInvariant, PipelineTypeOK, passVars, InductiveInvariant
  <2>2. /\ RepositoryIsDriven' /\ ParsesItsRequest' /\ NothingSkipped'
        /\ ReadyMeansAdmitted'
    BY <1>3 DEF PipelineInvariant, RepositoryIsDriven, ParsesItsRequest,
       NothingSkipped, ReadyMeansAdmitted, AllAdmitted, passVars, vars
  <2> QED
    BY <1>1, <2>1, <2>2 DEF PipelineInvariant
<1>4. ASSUME NEW r \in Route, ExpireClaim(r)
      PROVE  PipelineInvariant'
  BY <1>3, <1>4 DEF ExpireClaim, PipelineInvariant, PipelineTypeOK
<1>5. CASE UNCHANGED allVars
  BY <1>3, <1>5 DEF allVars, pipelineVars, kernelVars, PipelineInvariant, PipelineTypeOK
<1> QED
  BY <1>2, <1>4, <1>5, PipelineStepCases

-----------------------------------------------------------------------------
(* The theorems. *)

\* The inductive invariants of the repository and of the pipeline hold together.
THEOREM PipelineInvariantHolds ==
    PipelineSpec => [](InductiveInvariant /\ PipelineInvariant)
<1>1. PipelineInit => PipelineInvariant
  BY PipelineInitInvariant
<1>2. /\ InductiveInvariant /\ InductiveInvariant' /\ PipelineInvariant
      /\ [PipelineNext]_allVars
      => PipelineInvariant'
  BY PipelineNextInvariant
<1> QED
  BY <1>1, <1>2, RepositoryInvariantInPipeline, PTL DEF PipelineSpec

\* Type correctness of the composed system: a pass's stage, route and
\* candidates, and what the kernel has accepted.
THEOREM PipelineTypes == PipelineSpec => []PipelineTypeOK
BY PipelineInvariantHolds, PTL DEF PipelineInvariant

\* No fault, expiry or takeover completes a route with a candidate missing.
THEOREM CompletedAlwaysMeansAdmitted == PipelineSpec => []CompletedMeansAdmitted
BY PipelineInvariantHolds, PTL DEF PipelineInvariant

LEMMA StoredOnce ==
    ASSUME InductiveInvariant, NEW c \in rows, NEW d \in rows,
           c.key = d.key, c.block = d.block
    PROVE  c = d
<1>1. c.key \in runs
  BY DEF InductiveInvariant, RunsAreWhole
<1>2. PICK s \in Source, b \in Batch :
        CandidatesOf(c.key, rows) = ParseCandidates(c.key.parser, s, b)
  BY <1>1 DEF InductiveInvariant, RunsAreWhole
<1>3. /\ c \in ParseCandidates(c.key.parser, s, b)
      /\ d \in ParseCandidates(c.key.parser, s, b)
  BY <1>2 DEF CandidatesOf
<1> QED
  BY <1>3 DEF ParseCandidates

\* Two admissions of the same block of the same run carry the same id.
THEOREM AlwaysOneIdPerRule == PipelineSpec => []OneIdPerRule
<1>1. InductiveInvariant /\ PipelineInvariant => OneIdPerRule
  BY StoredOnce DEF PipelineInvariant, AcceptedAreStored, OneIdPerRule
<1> QED
  BY <1>1, PipelineInvariantHolds, PTL

-----------------------------------------------------------------------------
(* The pipeline implements the abstract service. *)

LEMMA RulesData ==
    /\ \A k, table : Rules!CandidatesOf(k, table) = CandidatesOf(k, table)
    /\ \A p, s : Rules!KeyOf(p, s) = KeyOf(p, s)
    /\ \A p, s, b : Rules!ParseCandidates(p, s, b) = ParseCandidates(p, s, b)
    /\ \A c, s : Rules!AdmitScope(c, s) = AdmitScope(c, s)
    /\ \A k, s : Rules!AllAdmitted(k, s) <=> AllAdmitted(k, s)
    /\ \A c : Rules!Acceptable(c) <=> Acceptable(c)
    /\ Rules!Route = Route
BY DEF Rules!CandidatesOf, CandidatesOf, Rules!KeyOf, KeyOf, Rules!ParseCandidates,
   ParseCandidates, Rules!AdmitScope, AdmitScope, Rules!AllAdmitted, AllAdmitted,
   Rules!Acceptable, Acceptable, Rules!Route, Route

\* A step of the repository records a parse or leaves the tables alone.
LEMMA TablesChangeByRecord ==
    ASSUME InductiveInvariant, [Next]_vars, UNCHANGED <<accepted, done>>
    PROVE  Rules!Record \/ UNCHANGED <<runs, rows>>
<1>1. ASSUME NEW w \in Worker, NEW a, CommitWith(w, a)
      PROVE  Rules!Record \/ UNCHANGED <<runs, rows>>
  <2>1. CASE holding[w]
    <3>1. /\ source[w] \in Source /\ VersionOf[w] \in ParserVersion
          /\ runs' = runs \cup {Key(w)} /\ rows' = rows \cup parsed[w]
      BY <1>1, <2>1, CommitEffect
    <3>2. Key(w) \notin runs
      BY <2>1 DEF InductiveInvariant, HeldRunsAreNew
    <3>3. PICK b \in Batch : parsed[w] = ParseCandidates(VersionOf[w], source[w], b)
      BY <2>1 DEF InductiveInvariant, ParsesAreFresh, OwnsParse
    <3>4. \A c \in parsed[w], d \in rows : c.batch # d.batch
      BY <2>1 DEF InductiveInvariant, ParsesAreFresh, OwnsParse
    <3> QED
      BY <3>1, <3>2, <3>3, <3>4, RulesData DEF Rules!Record, Key
  <2>2. CASE ~holding[w]
    BY <1>1, <2>2 DEF CommitWith, InductiveInvariant, StagedIsParsed
  <2> QED
    BY <2>1, <2>2
<1>2. \/ \E w \in Worker, a \in Answer : CommitWith(w, a)
      \/ UNCHANGED <<runs, rows>>
  BY StepCommitsOrKeeps
<1> QED
  BY <1>1, <1>2

LEMMA PipelineStepImplements ==
    ASSUME InductiveInvariant, PipelineInvariant, [PipelineNext]_allVars
    PROVE  [Rules!Next]_Rules!vars
<1>1. CASE UNCHANGED <<accepted, done>>
  BY <1>1, StepDrivesTheRepository, TablesChangeByRecord DEF Rules!Next, Rules!vars
<1>2. ASSUME NEW w \in Worker, WorkerStep(w), accepted' # accepted
      PROVE  Rules!Admit
  <2>1. stage[w] = "submit" /\ UNCHANGED <<runs, rows, done>>
    BY <1>2, AcceptedGrowsByStored DEF vars
  <2>2. PICK c \in todo[w] :
          /\ Acceptable(c)
          /\ accepted' = accepted \cup {AdmitScope(c, answer[w].source)}
    BY <1>2, AcceptedGrowsByStored
  <2>3. /\ Request[route[w]] \in Source
        /\ answer[w].source = Request[route[w]]
        /\ c \in CandidatesOf(KeyOf(VersionOf[w], Request[route[w]]), rows)
    BY <2>1, <2>2, AnswerInHand
  <2>4. route[w] \in Route /\ VersionOf[w] \in ParserVersion
    BY <2>1, WorkerAssumption DEF PipelineInvariant, RepositoryIsDriven
  <2> QED
    BY <2>1, <2>2, <2>3, <2>4, RulesData DEF Rules!Admit
<1>3. ASSUME NEW w \in Worker, WorkerStep(w), done' # done
      PROVE  Rules!Finish
  <2>1. /\ stage[w] = "complete" /\ UNCHANGED <<runs, rows, accepted>>
        /\ route[w] \notin done /\ done' = done \cup {route[w]}
    BY <1>3, DoneGrowsByReady DEF vars
  <2>2. /\ route[w] \in Route
        /\ Request[route[w]] # UnknownAction =>
             /\ Request[route[w]] \in Source
             /\ \E p \in ParserVersion :
                  AllAdmitted(KeyOf(p, Request[route[w]]), Request[route[w]])
    BY <2>1, ReadyRoute
  <2> QED
    BY <2>1, <2>2, RulesData DEF Rules!Finish
<1>4. \/ \E w \in Worker : WorkerStep(w)
      \/ UNCHANGED <<accepted, done>>
  BY PipelineStepCases DEF ExpireClaim, allVars, pipelineVars, kernelVars
<1> QED
  BY <1>1, <1>2, <1>3, <1>4 DEF Rules!Next

\* Workers, claims, leases, faults and transactions together keep the promise
\* of the service: parse once, admit what is stored, finish what is admitted.
THEOREM PipelineImplementsRuleAdmission == PipelineSpec => ImplementsRuleAdmission
<1>1. PipelineInit => Rules!Init
  BY DEF PipelineInit, Init, Rules!Init
<1>2. InductiveInvariant /\ PipelineInvariant /\ [PipelineNext]_allVars
      => [Rules!Next]_Rules!vars
  BY PipelineStepImplements
<1> QED
  BY <1>1, <1>2, PipelineInvariantHolds, PTL
     DEF PipelineSpec, Rules!Spec, ImplementsRuleAdmission

-----------------------------------------------------------------------------
(* Where an admission's location comes from.                               *)

\* A digest of a document version stands for one passage of its text.
OnePassagePerDigest ==
    \A s, t \in Source :
        s.version = t.version /\ s.digest = t.digest => s.fragment = t.fragment

\* An admission's location is one that a source with its candidate's key has.
LocationsAreRequested ==
    \A a \in accepted : \E s \in Source :
        /\ s.version = a.candidate.key.version /\ s.digest = a.candidate.key.digest
        /\ a.location = s.fragment

LEMMA LocationsAreRequestedPreserved ==
    ASSUME InductiveInvariant, PipelineInvariant, LocationsAreRequested,
           [PipelineNext]_allVars
    PROVE  LocationsAreRequested'
<1>1. CASE accepted' = accepted
  BY <1>1 DEF LocationsAreRequested
<1>2. ASSUME NEW w \in Worker, WorkerStep(w), accepted' # accepted
      PROVE  LocationsAreRequested'
  <2>1. /\ stage[w] = "submit"
        /\ \E c \in todo[w] : accepted' = accepted \cup {AdmitScope(c, answer[w].source)}
    BY <1>2, AcceptedGrowsByStored
  <2>2. PICK c \in todo[w] : accepted' = accepted \cup {AdmitScope(c, answer[w].source)}
    BY <2>1
  <2>3. /\ answer[w].source \in Source
        /\ c.key = KeyOf(VersionOf[w], answer[w].source)
    BY <2>1, AnswerInHand DEF CandidatesOf
  <2>4. /\ c.key.version = answer[w].source.version
        /\ c.key.digest = answer[w].source.digest
    BY <2>3 DEF KeyOf
  <2>5. /\ AdmitScope(c, answer[w].source).candidate = c
        /\ AdmitScope(c, answer[w].source).location = answer[w].source.fragment
    BY DEF AdmitScope
  <2> QED
    BY <2>2, <2>3, <2>4, <2>5 DEF LocationsAreRequested
<1> QED
  BY <1>1, <1>2, PipelineStepCases DEF ExpireClaim, allVars, pipelineVars, kernelVars

\* If no two passages of a document version share a digest, every admission
\* names the location its candidate was parsed from, through every fault and
\* redelivery: the key of a run, which has no location in it, is the one
\* place where provenance is lost (the run Provenance exhibits it).
THEOREM AdmissionsNameTheirSourceIfKeyed ==
    ASSUME OnePassagePerDigest
    PROVE  PipelineSpec => []AdmissionsNameTheirSource
<1>1. PipelineInit => LocationsAreRequested
  BY DEF PipelineInit, LocationsAreRequested
<1>2. /\ InductiveInvariant /\ PipelineInvariant /\ LocationsAreRequested
      /\ [PipelineNext]_allVars
      => LocationsAreRequested'
  BY LocationsAreRequestedPreserved
<1>3. InductiveInvariant /\ PipelineInvariant /\ LocationsAreRequested
      => AdmissionsNameTheirSource
  <2> SUFFICES ASSUME InductiveInvariant, PipelineInvariant, LocationsAreRequested,
                      NEW a \in accepted
               PROVE  a.candidate.fragment = a.location
    BY DEF AdmissionsNameTheirSource
  <2>1. PICK s \in Source :
          /\ s.version = a.candidate.key.version /\ s.digest = a.candidate.key.digest
          /\ a.location = s.fragment
    BY DEF LocationsAreRequested
  <2>2. a.candidate \in rows /\ a.candidate.key \in runs
    BY DEF PipelineInvariant, AcceptedAreStored, InductiveInvariant, RunsAreWhole
  <2>3. PICK t \in Source, b \in Batch :
          /\ t.version = a.candidate.key.version /\ t.digest = a.candidate.key.digest
          /\ CandidatesOf(a.candidate.key, rows)
               = ParseCandidates(a.candidate.key.parser, t, b)
    BY <2>2 DEF InductiveInvariant, RunsAreWhole
  <2>4. a.candidate \in ParseCandidates(a.candidate.key.parser, t, b)
    BY <2>2, <2>3 DEF CandidatesOf
  <2>5. a.candidate.fragment = t.fragment
    BY <2>4 DEF ParseCandidates
  <2> QED
    BY <2>1, <2>3, <2>5 DEF OnePassagePerDigest
<1> QED
  BY <1>1, <1>2, <1>3, PipelineInvariantHolds, PTL DEF PipelineSpec
=============================================================================
