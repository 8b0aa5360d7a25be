-------------------------- MODULE ServiceLifecycle --------------------------
(***************************************************************************)
(* One Pod of the service from start to restart: Config::from_env enrols   *)
(* with the kernel and connects to the database, run() renews the instance *)
(* lease and makes one pass after another, the heartbeat remembers the     *)
(* last pass that succeeded, and the kubelet kills the container when      *)
(* /health/live says so.  What happens inside a pass is AdmissionPipeline; *)
(* here a pass only takes time and succeeds or fails.  A call that needs   *)
(* the database waits for a connection of the pool while there is none,    *)
(* longer than everything else in a pass takes.                            *)
(*                                                                         *)
(* Time is discrete.  Timestamps are kept as distances from now: how long  *)
(* the lease still runs, how old the heartbeat is.  The code compares    *)
(* its own unix_time() with the kernel's lease_expires_at: the two clocks  *)
(* run at one speed and differ by skew.                                    *)
(***************************************************************************)
EXTENDS Integers

CONSTANTS
    LeaseGrant,     \* the lease the kernel grants: 60 s
    Margin,         \* RENEWAL_MARGIN_SECONDS: 20 s
    Poll,           \* POLL_INTERVAL_SECONDS: 5 s
    ReadyStale,     \* DEFAULT_READY_STALE_SECONDS: 30 s
    LiveStale,      \* DEFAULT_LIVE_STALE_SECONDS: 150 s
    PoolWait,       \* r2d2's connection_timeout, left at its default: 30 s
    MaxStart,       \* bound: how long from_env may take, such waits apart
    MaxPass,        \* bound: how long a renewal and a pass may take together,
                    \* the wait for a connection apart
    StartGrace,     \* how long the kubelet bears a refused liveness probe
    MaxSkew,        \* bound: how far the Pod's and the kernel's clocks differ
    Injected,       \* ENROLLMENT_CHALLENGE is set in the Deployment
    Faults          \* what the environment may do wrong

FaultKind == {"kernel", "database", "reply", "route", "kill"}

ASSUME LifecycleAssumption ==
    /\ {LeaseGrant, Margin, Poll, ReadyStale, LiveStale, PoolWait} \subseteq Nat \ {0}
    /\ {MaxStart, MaxPass, StartGrace, MaxSkew} \subseteq Nat
    /\ MaxSkew < LeaseGrant /\ MaxSkew <= LiveStale
    /\ ReadyStale < LiveStale
    /\ Injected \in BOOLEAN
    /\ Faults \subseteq FaultKind

VARIABLES
    stage,            \* where main() is
    timer,            \* time since the process, the iteration or the sleep began,
                      \* waits for a connection apart
    waiting,          \* how long the call in hand has waited for a connection
    delay,            \* how long all calls of the start-up have
    granted,          \* the kernel's lease: time left, negative once expired
    believed,         \* lease.expires_at - unix_time(), as the process knows it
    behind,           \* lease.revision is older than the kernel's
    hindered,         \* history: since the lease was last renewed or found long
                      \* enough, a call waited for a connection, the kernel was
                      \* down or the reply to a renewal was lost
    beat,             \* age of the last successful pass
    kernelUp, databaseUp,
    subscribed,       \* the kernel holds an active subscription of the service
    challengeSpent,   \* the injected challenge has enrolled a process
    skew              \* how far the Pod's clock is behind the kernel's

waitVars == <<waiting, delay>>
leaseVars == <<granted, believed, behind, hindered>>
worldVars == <<kernelUp, databaseUp, subscribed, challengeSpent, skew>>
lifecycleVars == <<stage, timer, waitVars, leaseVars, beat, worldVars>>

Startup == {"enrol", "subscribe", "connect", "check", "migrate"}

\* A pass asks the kernel ("pass"), borrows a connection for parse_once
\* ("parse"), parses and submits ("store"), and run() records its success.
Busy == {"renew", "pass", "parse", "store", "record"}
Loop == Busy \cup {"sleep"}
Stage == {"down"} \cup Startup \cup Loop

\* The calls of Pool::new and Pool::get.
Connecting == {"connect", "check", "migrate", "parse"}

\* The heartbeat's zero: no pass has succeeded yet.
Never == -1

\* Ages saturate: so far past LiveStale no property tells them apart.
Oldest == LiveStale + MaxPass + 1

LifecycleTypeOK ==
    /\ stage \in Stage
    /\ timer \in Nat
    /\ waiting \in 0 .. PoolWait /\ delay \in Nat
    /\ granted \in -Oldest .. LeaseGrant
    /\ believed \in -Oldest .. LeaseGrant + MaxSkew
    /\ behind \in BOOLEAN /\ hindered \in BOOLEAN
    /\ beat \in Never .. Oldest
    /\ kernelUp \in BOOLEAN /\ databaseUp \in BOOLEAN
    /\ subscribed \in BOOLEAN /\ challengeSpent \in BOOLEAN
    /\ skew \in -MaxSkew .. MaxSkew

LifecycleInit ==
    /\ stage = "down"
    /\ timer = 0 /\ waiting = 0 /\ delay = 0
    /\ granted = 0 /\ believed = 0 /\ behind = FALSE /\ hindered = FALSE
    /\ beat = Never
    /\ kernelUp = TRUE /\ databaseUp = TRUE
    /\ subscribed = FALSE /\ challengeSpent = FALSE
    /\ skew \in -MaxSkew .. MaxSkew

---------------------------------------------------------------------------
(* The probes. *)

Enrolled == stage \in (Startup \ {"enrol"}) \cup Loop

\* The endpoint is served from the end of from_env on.
Served == stage \in Loop

\* Mutant: the probe looks at no heartbeat.
LivenessAlwaysPasses == stage \in Startup /\ timer + delay > StartGrace

\* /health/live: the heartbeat alone, and "starting" passes.  Before the
\* endpoint is bound the kubelet's connection is refused.
LivenessFails ==
    \/ Served /\ beat > LiveStale
    \/ stage \in Startup /\ timer + delay > StartGrace

\* /health/ready.
Ready ==
    /\ Served
    /\ databaseUp
    /\ beat # Never
    /\ beat <= ReadyStale

---------------------------------------------------------------------------
(* Start-up. *)

\* A lease holder's signed calls are answered.
KernelAnswers == kernelUp /\ granted > 0

\* The container stops; a new process will generate a new credential, so the
\* kernel's lease on the old one is of no more use to anybody.
Gone ==
    /\ stage' = "down"
    /\ timer' = 0 /\ waiting' = 0 /\ delay' = 0
    /\ granted' = 0 /\ believed' = 0 /\ behind' = FALSE /\ hindered' = FALSE
    /\ beat' = Never

Start ==
    /\ stage = "down"
    /\ stage' = "enrol"
    /\ UNCHANGED <<timer, waitVars, leaseVars, beat, worldVars>>

\* A challenge enrols one process: the injected one the first time only, a
\* requested one always.
ChallengeValid == Injected => ~challengeSpent

Enrol ==
    /\ stage = "enrol"
    /\ kernelUp
    /\ ChallengeValid
    /\ stage' = "subscribe"
    /\ granted' = LeaseGrant /\ believed' = LeaseGrant + skew
    /\ behind' = FALSE /\ hindered' = FALSE
    /\ challengeSpent' = TRUE
    /\ UNCHANGED <<timer, waitVars, beat, kernelUp, databaseUp, subscribed, skew>>

\* The kernel enrols the process and the process exits on the lost reply.
EnrolReplyLost ==
    /\ "reply" \in Faults
    /\ stage = "enrol"
    /\ kernelUp
    /\ ChallengeValid
    /\ Gone
    /\ challengeSpent' = TRUE
    /\ UNCHANGED <<kernelUp, databaseUp, subscribed, skew>>

\* Looked up first, created when missing: idempotent across restarts.
EnsureSubscription ==
    /\ stage = "subscribe"
    /\ KernelAnswers
    /\ stage' = "connect"
    /\ subscribed' = TRUE
    /\ UNCHANGED <<timer, waitVars, leaseVars, beat, kernelUp, databaseUp, challengeSpent, skew>>

\* Mutant: renew when the lease has run out.
RenewalDueAtExpiry == believed <= 0

\* unix_time() >= lease.expires_at - RENEWAL_MARGIN_SECONDS
RenewalDue == believed <= Margin

\* The first thing an iteration does is to look at the lease.
LookAtLease ==
    /\ stage' = IF RenewalDue THEN "renew" ELSE "pass"
    /\ timer' = 0
    /\ hindered' = IF RenewalDue THEN hindered ELSE ~kernelUp
    /\ UNCHANGED <<granted, believed, behind, beat, worldVars>>

\* The pool has its connections, and then one of them answers "SELECT 1".
Connect ==
    /\ databaseUp
    /\ \/ stage = "connect" /\ stage' = "check"
       \/ stage = "check" /\ stage' = "migrate"
    /\ waiting' = 0
    /\ UNCHANGED <<timer, delay, leaseVars, beat, worldVars>>

\* Then main starts the endpoint and enters run().
Migrate ==
    /\ stage = "migrate"
    /\ databaseUp
    /\ LookAtLease
    /\ waiting' = 0 /\ delay' = 0

\* The pool's patience is over.
PoolTimesOut == stage \in Connecting /\ waiting = PoolWait

\* Any error of from_env: exit(1).  A statement fails with its connection.
StartFails ==
    /\ \/ stage = "enrol" /\ ~(kernelUp /\ ChallengeValid)
       \/ stage = "subscribe" /\ ~KernelAnswers
       \/ stage \in Startup /\ PoolTimesOut
       \/ stage \in {"check", "migrate"} /\ ~databaseUp /\ waiting = 0
    /\ Gone
    /\ UNCHANGED worldVars

---------------------------------------------------------------------------
(* The loop of run(). *)

Wake ==
    /\ stage = "sleep"
    /\ timer = Poll
    /\ LookAtLease
    /\ UNCHANGED waitVars

RenewalAccepted == KernelAnswers /\ ~behind

\* Mutant: the new expiry is not remembered.
RenewKeepingExpiry ==
    /\ stage = "renew"
    /\ RenewalAccepted
    /\ stage' = "pass"
    /\ granted' = LeaseGrant
    /\ hindered' = FALSE
    /\ UNCHANGED <<timer, waitVars, believed, behind, beat, worldVars>>

Renew ==
    /\ stage = "renew"
    /\ RenewalAccepted
    /\ stage' = "pass"
    /\ granted' = LeaseGrant /\ believed' = LeaseGrant + skew
    /\ hindered' = FALSE
    /\ UNCHANGED <<timer, waitVars, behind, beat, worldVars>>

\* The kernel extends the lease under a new revision and the reply is lost.
RenewReplyLost ==
    /\ "reply" \in Faults
    /\ stage = "renew"
    /\ RenewalAccepted
    /\ stage' = "pass"
    /\ granted' = LeaseGrant
    /\ behind' = TRUE /\ hindered' = TRUE
    /\ UNCHANGED <<timer, waitVars, believed, beat, worldVars>>

\* 401 on an expired lease, 409 on an old revision, or no answer: logged.
RenewFails ==
    /\ stage = "renew"
    /\ ~RenewalAccepted
    /\ stage' = "pass"
    /\ UNCHANGED <<timer, waitVars, leaseVars, beat, worldVars>>

\* The kernel has given a route, its claim and its Request.
Fetched ==
    /\ stage = "pass"
    /\ KernelAnswers
    /\ stage' = "parse"
    /\ UNCHANGED <<timer, waitVars, leaseVars, beat, worldVars>>

\* parse_once gets its connection.
Borrow ==
    /\ stage = "parse"
    /\ databaseUp
    /\ stage' = "store"
    /\ waiting' = 0
    /\ UNCHANGED <<timer, delay, leaseVars, beat, worldVars>>

\* work_once is about to return Ok(_): the kernel's last answer is on its way.
PassSucceeds ==
    /\ KernelAnswers
    /\ stage' = "record"
    /\ UNCHANGED <<timer, waitVars, leaseVars, beat, worldVars>>

\* A healthy answer of the kernel, and a pass that never touched the database:
\* no route, a lost claim, no Request or an unknown action.
NothingEligible == stage = "pass" /\ PassSucceeds

\* Parsed, submitted and completed, or fenced.  The commit is the last thing
\* the database is needed for.
Worked == stage = "store" /\ PassSucceeds

RecordSuccess ==
    /\ stage = "record"
    /\ stage' = "sleep"
    /\ timer' = 0
    /\ beat' = 0
    /\ UNCHANGED <<waitVars, leaseVars, worldVars>>

PassEnds ==
    /\ stage' = "sleep"
    /\ timer' = 0 /\ waiting' = 0
    /\ UNCHANGED <<delay, leaseVars, worldVars>>

\* The kernel does not answer, there is no connection to be had, or the
\* connection is lost under parse_once.
PassIsLost ==
    \/ stage = "pass" /\ ~KernelAnswers
    \/ stage = "parse" /\ PoolTimesOut
    \/ stage = "store" /\ ~(KernelAnswers /\ databaseUp)

\* Mutant: every pass records a heartbeat.
PassFailsRecorded == PassIsLost /\ PassEnds /\ beat' = 0

\* Err(_) is logged and leaves the heartbeat alone.
PassFails == PassIsLost /\ PassEnds /\ beat' = beat

\* The pass met a route that cannot be served, such as a malformed scope, found
\* out before parse_once needs a connection or after it had one.
RouteFails ==
    /\ "route" \in Faults
    /\ stage \in {"pass", "store"}
    /\ KernelAnswers
    /\ PassEnds
    /\ beat' = beat

---------------------------------------------------------------------------
(* The kubelet, the environment and the clock. *)

Kill ==
    /\ LivenessFails
    /\ Gone
    /\ UNCHANGED worldVars

\* A crash or an eviction of a Pod the kubelet has no complaint about.
Evict ==
    /\ "kill" \in Faults
    /\ Served
    /\ ~LivenessFails
    /\ Gone
    /\ UNCHANGED worldVars

KernelFlips ==
    /\ "kernel" \in Faults
    /\ kernelUp' = ~kernelUp
    /\ hindered' = Enrolled
    /\ UNCHANGED <<stage, timer, waitVars, granted, believed, behind, beat>>
    /\ UNCHANGED <<databaseUp, subscribed, challengeSpent, skew>>

DatabaseFlips ==
    /\ "database" \in Faults
    /\ databaseUp' = ~databaseUp
    /\ UNCHANGED <<stage, timer, waitVars, leaseVars, beat, kernelUp, subscribed, challengeSpent, skew>>

\* A pool without a connection makes its caller wait, and tries again at
\* intervals of its own once the database is back.
Waiting == stage \in Connecting /\ (~databaseUp \/ waiting > 0)

\* Nothing takes longer than its bound.
InTime ==
    IF Waiting
    THEN waiting < PoolWait
    ELSE /\ stage \in Startup => timer < MaxStart
         /\ stage \in Busy => timer < MaxPass
         /\ stage = "sleep" => timer < Poll

Left(t) == IF t > -Oldest THEN t - 1 ELSE t

\* Mutants: the age does not saturate; "not yet" ages like any timestamp.
AgeUnsaturated(a) == IF a = Never THEN a ELSE a + 1
AgeFromZero(a) == IF a = Oldest THEN a ELSE a + 1

\* now.saturating_sub(last)
Age(a) == IF a = Never \/ a = Oldest THEN a ELSE a + 1

Tick ==
    /\ InTime
    /\ timer' = IF stage = "down" \/ Waiting THEN timer ELSE timer + 1
    /\ waiting' = IF Waiting THEN waiting + 1 ELSE waiting
    /\ delay' = IF Waiting /\ stage \in Startup THEN delay + 1 ELSE delay
    /\ hindered' = (hindered \/ Waiting)
    /\ granted' = IF Enrolled THEN Left(granted) ELSE granted
    /\ believed' = IF Enrolled THEN Left(believed) ELSE believed
    /\ beat' = Age(beat)
    /\ UNCHANGED <<stage, behind, worldVars>>

Process ==
    \/ Start \/ Enrol \/ EnsureSubscription \/ Connect \/ Migrate \/ StartFails
    \/ Wake \/ Renew \/ RenewFails
    \/ Fetched \/ Borrow \/ NothingEligible \/ Worked \/ RecordSuccess \/ PassFails

Disturbance ==
    \/ EnrolReplyLost \/ RenewReplyLost \/ RouteFails
    \/ Evict \/ KernelFlips \/ DatabaseFlips

LifecycleNext == Process \/ Disturbance \/ Kill \/ Tick

LifecycleSpec == LifecycleInit /\ [][LifecycleNext]_lifecycleVars

\* run() never returns, a stopped container is started again, the kubelet
\* probes periodically and time passes.
LifecycleLiveSpec ==
    /\ LifecycleSpec
    /\ WF_lifecycleVars(Process)
    /\ WF_lifecycleVars(Kill)
    /\ WF_lifecycleVars(Tick)

---------------------------------------------------------------------------
(* Properties. *)

\* Proactive renewal, and what defeats it: an enrolled process loses its lease
\* only if, since the lease was last renewed or found long enough, one of its
\* calls waited for a connection, the kernel was down, or the reply to a renewal
\* was lost.  Failing routes, failing statements, clocks that differ and passes
\* as long as MaxPass never cost it, nor do waits before that.
LeaseHeld == Enrolled /\ ~hindered => granted > 0

\* While nothing goes wrong outside, a Pod that was once ready stays ready:
\* no probe ever falls between two heartbeats.
ReadyStaysReady == [][Ready => Ready']_lifecycleVars

\* A ready answer can be trusted: the Pod held a running lease when the last
\* successful pass had its last answer, at most ReadyStale and the rest of that
\* pass ago, whatever was lost or down since.
ReadyMeansLease == Ready => granted >= -(ReadyStale + MaxPass)

\* A lease that ran out longer than LiveStale and a pass ago has failed the
\* liveness probe of every process that ever completed a pass.
LostLeaseIsNoticed ==
    Served /\ beat # Never /\ granted < -(LiveStale + MaxPass) => LivenessFails

\* Liveness never asks for a restart: what health.rs promises of a database
\* outage.
NeverKilled == ~LivenessFails

Disturbed == []<><<Disturbance>>_lifecycleVars \/ []<>~(kernelUp /\ databaseUp)

\* Once the environment is quiet the Pod becomes ready and stays so: restarts
\* repair what they are meant to repair.
Recovers == Disturbed \/ <>[]Ready

\* The same for every process that has completed one pass.
RecoversOnceWorked == Recovers \/ <>[](Served /\ beat = Never)

---------------------------------------------------------------------------
(* Invariants, and the assumptions under which the first two properties    *)
(* hold for every value of the constants.                                  *)

InBounds ==
    /\ stage = "down" => timer = 0
    /\ stage \in Startup => timer <= MaxStart
    /\ stage \in Busy => timer <= MaxPass
    /\ stage = "sleep" => timer <= Poll

\* The heartbeat is younger than the loss of the lease by at most the time that
\* the last answer of a pass took to reach the process.
HeartbeatInvariant ==
    /\ ~Served => beat = Never
    /\ stage \in Busy => timer <= MaxPass
    /\ stage = "record" => granted > -timer
    /\ Served /\ beat # Never /\ granted <= 0 => beat >= -granted - MaxPass

\* Two passes, a sleep and the clocks' difference fit into the margin, and
\* start-up fits into the lease.
ShortPasses ==
    /\ Poll + 2 * MaxPass + MaxSkew <= Margin
    /\ Margin < LeaseGrant
    /\ MaxStart + MaxPass < LeaseGrant

\* What the process believes of its lease is off by the skew, unless its
\* revision is old or the lease has run out by both clocks.
BeliefIsClose ==
    /\ Enrolled /\ ~behind => believed = granted + skew \/ (believed <= 0 /\ granted <= 0)
    /\ behind => Enrolled /\ hindered /\ believed <= Margin
    /\ stage = "renew" => believed <= Margin

\* At every point of an iteration that nothing hindered, enough of the lease is
\* left to reach the next renewal, and that renewal will be accepted.
EnoughIsLeft ==
    Enrolled /\ ~hindered =>
        /\ kernelUp
        /\ believed = granted + skew
        /\ stage \in Startup => granted >= LeaseGrant - timer
        /\ stage = "renew" => granted > MaxPass - timer
        /\ stage \in Busy \ {"renew"} => granted > Margin - MaxSkew - timer
        /\ stage = "sleep" => granted > Margin - MaxSkew - MaxPass - timer

LeaseInvariant == InBounds /\ BeliefIsClose /\ EnoughIsLeft

\* Besides, nothing goes wrong at all and heartbeats come often enough.
SteadyPasses ==
    /\ ShortPasses
    /\ Faults = {}
    /\ Poll + MaxPass <= ReadyStale
    /\ MaxStart <= StartGrace

SteadyInvariant ==
    /\ LeaseInvariant
    /\ databaseUp /\ waiting = 0 /\ delay = 0 /\ ~hindered
    /\ ~Served => beat = Never
    /\ stage = "sleep" => beat <= timer
    /\ stage \in Busy => beat <= Poll + timer
=============================================================================
