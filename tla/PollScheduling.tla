--------------------------- MODULE PollScheduling ----------------------------
(***************************************************************************)
(* The order in which the work loop takes Routes, in discrete time.  A     *)
(* pass takes the oldest eligible Route; a Route whose pass fails keeps    *)
(* its claim until the claim's lease runs out and is then eligible again,  *)
(* in front of every younger one.  A Route that can never succeed (a       *)
(* malformed scope, an admit scope that is too long, a request the kernel  *)
(* no longer has) comes back for ever in this way, and takes a pass from   *)
(* the others each time.                                                   *)
(*                                                                         *)
(* One worker (deployment.yaml: replicas 1) and a kernel and a database    *)
(* that answer: their failures are AdmissionPipeline's.  Bounds: MaxRoutes *)
(* on the Routes that come in, MaxBad on those that never succeed.         *)
(***************************************************************************)
EXTENDS Naturals, FiniteSets

CONSTANTS
    Lease,       \* CLAIM_LEASE_SECONDS
    Poll,        \* POLL_INTERVAL_SECONDS
    MaxPass,     \* the longest pass
    MaxRoutes,
    MaxBad

\* The passes of all Routes that never succeed, and the sleeps between them,
\* fit into one lease.
ASSUME SchedulingAssumption ==
    /\ Lease \in Nat /\ Poll \in Nat \ {0} /\ MaxPass \in Nat
    /\ MaxRoutes \in Nat /\ MaxBad \in Nat
    /\ MaxPass < Lease
    /\ MaxBad * (MaxPass + Poll) < Lease

VARIABLES
    arrived,   \* Routes 1 .. arrived have come in, the oldest first
    open,      \* those that are not completed
    bad,       \* those that never succeed
    lease,     \* lease[r]: what is left of the claim on r; 0 is eligible
    taken,     \* the Route of the pass in hand, 0 between passes
    timer,     \* what is left of the pass or of the sleep
    streak,    \* history: Routes that failed since the last one completed
    elapsed    \* history: the time since the first of them was taken,
               \* up to a whole lease

vars == <<arrived, open, bad, lease, taken, timer, streak, elapsed>>

Route == 1 .. MaxRoutes

Init ==
    /\ arrived = 0
    /\ open = {}
    /\ bad = {}
    /\ lease = [r \in Route |-> 0]
    /\ taken = 0
    /\ timer = 0
    /\ streak = {}
    /\ elapsed = 0

\* A requester's Request is routed to the service.
Arrive ==
    /\ arrived < MaxRoutes
    /\ arrived' = arrived + 1
    /\ open' = open \cup {arrived'}
    /\ \/ UNCHANGED bad
       \/ Cardinality(bad) < MaxBad /\ bad' = bad \cup {arrived'}
    /\ UNCHANGED <<lease, taken, timer, streak, elapsed>>

Eligible == { r \in open : lease[r] = 0 }

Awake == taken = 0 /\ timer = 0

\* run: the pass is over, and the loop sleeps.
Sleep == taken' = 0 /\ timer' = Poll

\* NothingEligible: there is nothing to take.
PassEmpty ==
    /\ Awake /\ Eligible = {}
    /\ Sleep
    /\ streak' = {} /\ elapsed' = 0
    /\ UNCHANGED <<arrived, open, bad, lease>>

\* Mutant: the youngest is taken first.
TakeNewest(r) ==
    /\ Awake /\ r \in Eligible
    /\ \A other \in Eligible : other <= r
    /\ taken' = r
    /\ timer' \in 0 .. MaxPass
    /\ lease' = [lease EXCEPT ![r] = Lease]
    /\ UNCHANGED <<arrived, open, bad, streak, elapsed>>

\* The first eligible Route is claimed and its request fetched.
Take(r) ==
    /\ Awake /\ r \in Eligible
    /\ \A other \in Eligible : r <= other
    /\ taken' = r
    /\ timer' \in 0 .. MaxPass
    /\ lease' = [lease EXCEPT ![r] = Lease]
    /\ UNCHANGED <<arrived, open, bad, streak, elapsed>>

\* dispatch succeeds, or the action is unknown: the claim is completed.
PassCompletes ==
    /\ taken \in open \ bad /\ timer = 0
    /\ open' = open \ {taken}
    /\ Sleep
    /\ streak' = {} /\ elapsed' = 0
    /\ UNCHANGED <<arrived, bad, lease>>

\* Mutant: a pass that fails gives its claim back.
PassFailsReleasing ==
    /\ taken \in bad /\ timer = 0
    /\ Sleep
    /\ lease' = [lease EXCEPT ![taken] = 0]
    /\ streak' = streak \cup {taken}
    /\ UNCHANGED <<arrived, open, bad, elapsed>>

\* dispatch fails or the request is not found: nobody gives the claim back.
PassFails ==
    /\ taken \in bad /\ timer = 0
    /\ Sleep
    /\ streak' = streak \cup {taken}
    /\ UNCHANGED <<arrived, open, bad, lease, elapsed>>

Left(t) == IF t > 0 THEN t - 1 ELSE 0

\* Time passes for the timer and for all leases together.
Tick ==
    /\ timer > 0
    /\ timer' = timer - 1
    /\ lease' = [r \in Route |-> Left(lease[r])]
    /\ elapsed' = IF streak = {} /\ taken \notin bad THEN 0
                  ELSE IF elapsed < Lease THEN elapsed + 1 ELSE Lease
    /\ UNCHANGED <<arrived, open, bad, taken, streak>>

\* The work loop, which never stops.
Loop ==
    \/ PassEmpty \/ (\E r \in Route : Take(r))
    \/ PassCompletes \/ PassFails \/ Tick

Next == Arrive \/ Loop

Spec == Init /\ [][Next]_vars

\* run() is a loop without an exit, and time passes.
LiveSpec == Spec /\ WF_vars(Loop)

-----------------------------------------------------------------------------
(* Properties. *)

SchedulingTypeOK ==
    /\ arrived \in 0 .. MaxRoutes
    /\ open \subseteq 1 .. arrived /\ bad \subseteq open
    /\ lease \in [Route -> 0 .. Lease]
    /\ taken \in 0 .. arrived
    /\ timer \in Nat /\ elapsed \in 0 .. Lease
    /\ streak \subseteq bad

\* Whenever the loop wakes up, every Route that failed since the last
\* completion is still claimed: none of them is taken a second time before a
\* Route that can succeed has had its pass.
NoneFailsTwice == Awake => \A r \in streak : lease[r] > 0

\* A Route that can succeed is completed, however many arrive after it and
\* whichever of those before it never succeed.
GoodRoutesComplete == \A r \in Route : (r \in open \ bad) ~> (r \notin open)

\* What the order of work promises, FairQueue.  streak is a set, so bypassed
\* counts Routes; that each of them stands for one pass is NoneFailsTwice.
Fair == INSTANCE FairQueue
    WITH MaxBypass <- MaxBad,
         waiting <- open \ bad,
         newest <- arrived,
         bypassed <- Cardinality(streak)
ImplementsFairQueue == Fair!Spec

-----------------------------------------------------------------------------
(* The inductive invariant. *)

\* The Routes that fail in the streak in hand, the pass in hand included.
Failing == streak \cup ({taken} \cap bad)

\* Each of them took at most a pass and a sleep.
StreakIsShort ==
    /\ Failing = {} => elapsed = 0
    /\ taken = 0 /\ Failing # {} => elapsed + timer <= Cardinality(Failing) * (MaxPass + Poll)
    /\ taken \in bad => elapsed + timer + Poll <= Cardinality(Failing) * (MaxPass + Poll)

\* None of them was claimed before the streak began, and a pass ends before
\* the lease of its claim.
ClaimsAreYoung ==
    /\ \A r \in Failing : lease[r] + elapsed >= Lease
    /\ taken # 0 => lease[taken] > timer

\* A Route that can succeed is claimed by the pass that completes it alone,
\* and it is the oldest of its kind.
GoodRoutesWait ==
    /\ \A r \in Route : (r > arrived \/ r \in open \ bad) /\ r # taken => lease[r] = 0
    /\ taken \in open \ bad => \A other \in open \ bad : taken <= other

SchedulingInvariant ==
    /\ SchedulingTypeOK
    /\ IsFiniteSet(bad) /\ Cardinality(bad) <= MaxBad
    /\ taken # 0 => taken \in open \ streak /\ timer <= MaxPass
    /\ StreakIsShort
    /\ ClaimsAreYoung
    /\ GoodRoutesWait
=============================================================================
