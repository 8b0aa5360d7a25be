------------------------- MODULE AdmissionPipeline -------------------------
(***************************************************************************)
(* work_once and dispatch: one pass of a worker polls the kernel for its   *)
(* oldest eligible route, claims it, fetches the Request behind it, parses *)
(* the Request's text through the repository, submits one pf2e.rules.admit *)
(* Request per candidate, and only then completes the claim.               *)
(*                                                                         *)
(* Any number of workers run passes over the same kernel and the same      *)
(* database.  The repository's statements (PostgresRepository) interleave  *)
(* with everything else, and any call may fail: with no effect, or having  *)
(* taken effect and lost only its reply.                                   *)
(*                                                                         *)
(* The kernel and the Rules Service are external: they do what their       *)
(* callers in this repository rely on.  A claim is a lease; when it        *)
(* expires the route is eligible again, and the old claim's fencing token  *)
(* stays current until the route is claimed anew.                          *)
(***************************************************************************)
EXTENDS PostgresRepository, AdmissionDomain

CONSTANT Nobody      \* the claimant of a route never claimed

ASSUME NobodyAssumption == Nobody \notin Worker

NoRoute == 0

VARIABLES
    done,          \* routes whose claim was completed
    held,          \* routes under a claim that has not expired
    lastClaimant,  \* lastClaimant[r]: the worker with r's newest fencing token
    accepted,      \* pf2e.rules.admit Requests the kernel has accepted
    stage,         \* stage[w]: the next call of w's pass
    route,         \* route[w]: the route of w's pass
    todo           \* todo[w]: candidates of the ParseOutcome not yet submitted

passVars == <<stage, route, todo>>
kernelVars == <<done, held, lastClaimant, accepted>>
pipelineVars == <<kernelVars, passVars>>
allVars == <<vars, pipelineVars>>

Stage == {"poll", "claim", "request", "dispatch", "parse", "submit", "complete"}

PipelineInit ==
    /\ Init
    /\ done = {}
    /\ held = {}
    /\ lastClaimant = [r \in Route |-> Nobody]
    /\ accepted = {}
    /\ stage = [w \in Worker |-> "poll"]
    /\ route = [w \in Worker |-> NoRoute]
    /\ todo = [w \in Worker |-> {}]

-----------------------------------------------------------------------------
GoOn(w, next) ==
    /\ stage' = [stage EXCEPT ![w] = next]
    /\ UNCHANGED <<route, todo>>

\* The pass is over, completed or not; run() starts the next one.
PassEnds(w) ==
    /\ stage' = [stage EXCEPT ![w] = "poll"]
    /\ route' = [route EXCEPT ![w] = NoRoute]
    /\ todo' = [todo EXCEPT ![w] = {}]

Eligible == Route \ (done \cup held)

\* eligible_routes, oldest first; the pass takes the first one.
Poll(w) ==
    /\ stage[w] = "poll"
    /\ \E r \in Eligible :
         /\ \A q \in Eligible : r <= q
         /\ route' = [route EXCEPT ![w] = r]
    /\ stage' = [stage EXCEPT ![w] = "claim"]
    /\ UNCHANGED <<vars, kernelVars, todo>>

NothingEligible(w) ==
    /\ stage[w] = "poll"
    /\ Eligible = {}
    /\ UNCHANGED allVars

GrantClaim(w) ==
    /\ stage[w] = "claim"
    /\ route[w] \in Eligible
    /\ held' = held \cup {route[w]}
    /\ lastClaimant' = [lastClaimant EXCEPT ![route[w]] = w]
    /\ UNCHANGED <<vars, done, accepted>>

\* propose_claim is granted.
Claim(w) ==
    GrantClaim(w) /\ GoOn(w, "request")

\* The route was claimed, or is gone, since it was listed: ClaimLost.
LoseClaim(w) ==
    /\ stage[w] = "claim"
    /\ route[w] \notin Eligible
    /\ PassEnds(w)
    /\ UNCHANGED <<vars, kernelVars>>

\* routed_request finds the Request.
FetchRequest(w) ==
    /\ stage[w] = "request"
    /\ GoOn(w, "dispatch")
    /\ UNCHANGED <<vars, kernelVars>>

\* Mutant: a route that cannot be parsed is completed to get rid of it.
DispatchCompletingMalformed(w) ==
    LET q == Request[route[w]] IN
    /\ stage[w] = "dispatch"
    /\ IF q \in Source
         THEN Begin(w, q) /\ GoOn(w, "parse")
         ELSE GoOn(w, "complete") /\ UNCHANGED vars
    /\ UNCHANGED kernelVars

\* Mutant: an unknown action fails the pass like any other error.
DispatchFailingUnknown(w) ==
    LET q == Request[route[w]] IN
    /\ stage[w] = "dispatch"
    /\ IF q \in Source
         THEN Begin(w, q) /\ GoOn(w, "parse")
         ELSE PassEnds(w) /\ UNCHANGED vars
    /\ UNCHANGED kernelVars

\* dispatch: a parse is started, a malformed scope fails the pass, and an
\* unknown action goes straight to completion.
Dispatch(w) ==
    LET q == Request[route[w]] IN
    /\ stage[w] = "dispatch"
    /\ \/ /\ q \in Source
          /\ Begin(w, q)
          /\ GoOn(w, "parse")
       \/ /\ q = Malformed
          /\ PassEnds(w)
          /\ UNCHANGED vars
       \/ /\ q = UnknownAction
          /\ GoOn(w, "complete")
          /\ UNCHANGED vars
    /\ UNCHANGED kernelVars

\* parse_once runs, statement by statement.
Parse(w) ==
    /\ stage[w] = "parse"
    /\ Step(w)
    /\ UNCHANGED pipelineVars

\* Mutant: an error of the repository is taken for an empty result.
ParsedIgnoringErrors(w) ==
    /\ stage[w] = "parse"
    /\ pc[w] = "idle"
    /\ stage' = [stage EXCEPT ![w] = "submit"]
    /\ todo' = [todo EXCEPT ![w] = answer[w].candidates]
    /\ UNCHANGED <<vars, kernelVars, route>>

\* parse_once has returned: submit its candidates, or fail the pass.
Parsed(w) ==
    /\ stage[w] = "parse"
    /\ pc[w] = "idle"
    /\ IF answer[w].kind = "ok"
         THEN /\ stage' = [stage EXCEPT ![w] = "submit"]
              /\ todo' = [todo EXCEPT ![w] = answer[w].candidates]
              /\ UNCHANGED route
         ELSE PassEnds(w)
    /\ UNCHANGED <<vars, kernelVars>>

\* submit_request for one candidate.  A scope the kernel does not accept fails
\* the pass, with the candidates before it already submitted.
Submit(w) ==
    /\ stage[w] = "submit"
    /\ \E c \in todo[w] :
         IF Acceptable(c)
           THEN /\ accepted' = accepted \cup {AdmitScope(c, answer[w].source)}
                /\ todo' = [todo EXCEPT ![w] = @ \ {c}]
                /\ UNCHANGED <<stage, route>>
           ELSE /\ PassEnds(w)
                /\ UNCHANGED accepted
    /\ UNCHANGED <<vars, done, held, lastClaimant>>

\* Mutant: the claim is completed whether or not every candidate was submitted.
CompleteWithoutWaiting(w) ==
    /\ stage[w] = "submit"
    /\ GoOn(w, "complete")
    /\ UNCHANGED <<vars, kernelVars>>

AllSubmitted(w) ==
    /\ stage[w] = "submit"
    /\ todo[w] = {}
    /\ GoOn(w, "complete")
    /\ UNCHANGED <<vars, kernelVars>>

\* The fencing token of w's claim is still the newest one of its route.
Current(w) == lastClaimant[route[w]] = w /\ route[w] \notin done

TakeCompletion(w) ==
    /\ stage[w] = "complete"
    /\ Current(w)
    /\ done' = done \cup {route[w]}
    /\ held' = held \ {route[w]}
    /\ UNCHANGED <<vars, lastClaimant, accepted>>

\* complete_claim with a current token.
Complete(w) ==
    TakeCompletion(w) /\ PassEnds(w)

\* complete_claim with a stale token, or after the lease has run out.
Fenced(w) ==
    /\ stage[w] = "complete"
    /\ ~Current(w) \/ route[w] \notin held
    /\ PassEnds(w)
    /\ UNCHANGED <<vars, kernelVars>>

-----------------------------------------------------------------------------
\* A worker is in a pass under the route's newest claim.
Working(r) == \E w \in Worker :
    /\ route[w] = r
    /\ stage[w] \notin {"poll", "claim"}
    /\ lastClaimant[r] = w

ExpireClaim(r) ==
    /\ r \in held
    /\ held' = held \ {r}
    /\ UNCHANGED <<vars, done, lastClaimant, accepted, passVars>>

\* The lease of a claim no pass is working under runs out.
ExpireAbandoned(r) == ~Working(r) /\ ExpireClaim(r)

\* The lease runs out under a pass that takes longer than lease_seconds.
ExpireEarly(r) == Working(r) /\ ExpireClaim(r)

\* A kernel call fails without effect, or finds no Request: the pass is over
\* and its claim, if it has one, is left to expire.
CallFails(w) ==
    /\ stage[w] \in {"claim", "request", "submit", "complete"}
    /\ PassEnds(w)
    /\ UNCHANGED <<vars, kernelVars>>

\* A kernel call takes effect and its reply is lost.
ReplyLost(w) ==
    /\ PassEnds(w)
    /\ \/ GrantClaim(w)
       \/ TakeCompletion(w)
       \/ /\ stage[w] = "submit"
          /\ \E c \in todo[w] :
               /\ Acceptable(c)
               /\ accepted' = accepted \cup {AdmitScope(c, answer[w].source)}
          /\ UNCHANGED <<vars, done, held, lastClaimant>>

RepositoryFails(w) ==
    /\ stage[w] = "parse"
    /\ Fail(w) \/ CommitUnacknowledged(w)
    /\ UNCHANGED pipelineVars

\* The process is killed, whatever it was doing, and restarted.
Killed(w) ==
    /\ Crash(w) \/ CommitThenCrash(w)
    /\ PassEnds(w)
    /\ UNCHANGED kernelVars

Fault ==
    \/ \E w \in Worker :
         CallFails(w) \/ ReplyLost(w) \/ RepositoryFails(w) \/ Killed(w)
    \/ \E r \in Route : ExpireEarly(r)

-----------------------------------------------------------------------------
Pass(w) ==
    \/ Poll(w)
    \/ Claim(w)
    \/ LoseClaim(w)
    \/ FetchRequest(w)
    \/ Dispatch(w)
    \/ Parse(w)
    \/ Parsed(w)
    \/ Submit(w)
    \/ AllSubmitted(w)
    \/ Complete(w)
    \/ Fenced(w)

PipelineNext ==
    \/ \E w \in Worker : Pass(w) \/ NothingEligible(w)
    \/ \E r \in Route : ExpireAbandoned(r)
    \/ Fault

PipelineSpec == PipelineInit /\ [][PipelineNext]_allVars

\* run() never stops, and the kernel lets the leases of abandoned claims expire.
PipelineLiveSpec ==
    /\ PipelineSpec
    /\ \A w \in Worker : WF_allVars(Pass(w))
    /\ \A r \in Route : WF_allVars(ExpireAbandoned(r))

-----------------------------------------------------------------------------
PipelineTypeOK ==
    /\ TypeOK
    /\ done \subseteq Route
    /\ held \subseteq Route
    /\ lastClaimant \in [Route -> Worker \cup {Nobody}]
    /\ accepted \subseteq Admission
    /\ stage \in [Worker -> Stage]
    /\ route \in [Worker -> Route \cup {NoRoute}]
    /\ todo \in [Worker -> SUBSET Candidate]

\* Every candidate of k has been accepted for the location of s.
AllAdmitted(k, s) ==
    k \in runs /\ \A c \in CandidatesOf(k, rows) : AdmitScope(c, s) \in accepted

\* A pf2e.parse route is completed only when its source has been parsed and
\* every candidate of that parse has been accepted, by whichever passes did
\* the work: no fault, expiry or takeover drops a candidate.
CompletedMeansAdmitted ==
    \A r \in done : Request[r] # UnknownAction =>
        /\ Request[r] \in Source
        /\ \E p \in ParserVersion : AllAdmitted(KeyOf(p, Request[r]), Request[r])

\* One rule, one candidate_id: however often a route is redelivered, and to
\* however many workers, two admissions of the same block of the same run
\* carry the same id, so the Rules Service can tell the second is a repeat.
OneIdPerRule ==
    \A a, b \in accepted :
        a.candidate.key = b.candidate.key /\ a.candidate.block = b.candidate.block
            => a.candidate = b.candidate

\* "Full source provenance": an admission names the location its candidate was
\* parsed from.
AdmissionsNameTheirSource ==
    \A a \in accepted : a.candidate.fragment = a.location

\* The service keeps its promise whatever the workers, the claims and the
\* database do: nothing is admitted before it is stored, nothing stored is
\* parsed again, and no route is finished with a candidate missing.
Rules == INSTANCE RuleAdmission
    WITH runs <- runs, rows <- rows, accepted <- accepted, done <- done
ImplementsRuleAdmission == Rules!Spec

\* Every route completes, the older ones first or not, unless faults never end.
RoutesComplete ==
    \/ <>(done = Route)
    \/ []<><<Fault>>_allVars

-----------------------------------------------------------------------------
(* The inductive invariant behind the safety properties. *)

\* Nothing is proposed to the Rules Service that a crash could still undo.
AcceptedAreStored ==
    \A a \in accepted : a.candidate \in rows

\* A worker is inside parse_once only while its pass parses.
RepositoryIsDriven ==
    \A w \in Worker :
        /\ stage[w] # "parse" => pc[w] = "idle"
        /\ stage[w] # "poll" => route[w] \in Route

\* The source being parsed, or just parsed, is the one the route asks for.
ParsesItsRequest ==
    \A w \in Worker : stage[w] \in {"parse", "submit"} =>
        /\ Request[route[w]] \in Source
        /\ pc[w] # "idle" => source[w] = Request[route[w]]
        /\ pc[w] = "idle" /\ answer[w].kind = "ok" =>
             answer[w].source = Request[route[w]]

\* Each candidate of the answer is either still to do or accepted.
NothingSkipped ==
    \A w \in Worker : stage[w] = "submit" =>
        /\ answer[w].kind = "ok"
        /\ todo[w] \subseteq answer[w].candidates
        /\ \A c \in answer[w].candidates \ todo[w] :
             AdmitScope(c, answer[w].source) \in accepted

\* A pass that is about to complete its claim has done the work.
ReadyMeansAdmitted ==
    \A w \in Worker : stage[w] = "complete" =>
        LET q == Request[route[w]] IN
        \/ q = UnknownAction
        \/ q \in Source /\ AllAdmitted(KeyOf(VersionOf[w], q), q)

\* Together with the repository's invariant, preserved by every step.
PipelineInvariant ==
    /\ PipelineTypeOK
    /\ AcceptedAreStored
    /\ RepositoryIsDriven
    /\ ParsesItsRequest
    /\ NothingSkipped
    /\ ReadyMeansAdmitted
    /\ CompletedMeansAdmitted
=============================================================================
