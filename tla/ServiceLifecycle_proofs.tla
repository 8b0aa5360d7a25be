----------------------- MODULE ServiceLifecycle_proofs ----------------------
(***************************************************************************)
(* Theorems about ServiceLifecycle for every lease, margin, poll interval, *)
(* threshold and bound: what a ready answer means, that a lost lease is    *)
(* noticed, what it takes to lose one once two passes and a sleep fit into *)
(* the margin, and when the probes never fail.                             *)
(***************************************************************************)
EXTENDS ServiceLifecycle, TLAPS

LEMMA ConstantTypes ==
    /\ LeaseGrant \in Nat /\ LeaseGrant > 0
    /\ Margin \in Nat /\ Poll \in Nat
    /\ ReadyStale \in Nat /\ LiveStale \in Nat
    /\ PoolWait \in Nat /\ PoolWait > 0 /\ MaxStart \in Nat /\ MaxPass \in Nat /\ StartGrace \in Nat
    /\ MaxSkew \in Nat /\ MaxSkew < LeaseGrant /\ MaxSkew <= LiveStale
    /\ Oldest \in Nat /\ Oldest = LiveStale + MaxPass + 1
    /\ Never = -1
BY LifecycleAssumption DEF LifecycleAssumption, Oldest, Never

\* The values the actions assign.
LEMMA AssignedTypes ==
    /\ 0 \in -Oldest .. LeaseGrant /\ LeaseGrant \in -Oldest .. LeaseGrant
    /\ 0 \in -Oldest .. LeaseGrant + MaxSkew
    /\ \A d \in -MaxSkew .. MaxSkew : LeaseGrant + d \in -Oldest .. LeaseGrant + MaxSkew
    /\ 0 \in Never .. Oldest /\ Never \in Never .. Oldest
BY ConstantTypes

\* Time keeps the saturating distances in their ranges.
LEMMA AgesSaturate ==
    /\ \A t \in -Oldest .. LeaseGrant : Left(t) \in -Oldest .. LeaseGrant
    /\ \A t \in -Oldest .. LeaseGrant + MaxSkew : Left(t) \in -Oldest .. LeaseGrant + MaxSkew
    /\ \A a \in Never .. Oldest : Age(a) \in Never .. Oldest
BY ConstantTypes DEF Left, Age

THEOREM LifecycleTypes == LifecycleSpec => []LifecycleTypeOK
<1>1. LifecycleInit => LifecycleTypeOK
  <2> SUFFICES ASSUME LifecycleInit PROVE LifecycleTypeOK
    OBVIOUS
  <2>1. stage \in Stage /\ timer \in Nat /\ waiting \in 0 .. PoolWait /\ delay \in Nat
    BY ConstantTypes DEF LifecycleInit, Stage
  <2>2. /\ granted \in -Oldest .. LeaseGrant
        /\ believed \in -Oldest .. LeaseGrant + MaxSkew
        /\ beat \in Never .. Oldest
    BY AssignedTypes DEF LifecycleInit
  <2> QED BY <2>1, <2>2 DEF LifecycleInit, LifecycleTypeOK
<1>2. LifecycleTypeOK /\ [LifecycleNext]_lifecycleVars => LifecycleTypeOK'
  <2> SUFFICES ASSUME LifecycleTypeOK, [LifecycleNext]_lifecycleVars
               PROVE  LifecycleTypeOK'
    OBVIOUS
  <2> USE AssignedTypes DEF LifecycleTypeOK, Stage, Startup, Busy, Loop,
      waitVars, leaseVars, worldVars
  <2>w. 0 \in 0 .. PoolWait /\ 0 \in Nat
    BY ConstantTypes
  <2>1. CASE Start BY <2>1 DEF Start
  <2>2. CASE Enrol BY <2>2 DEF Enrol
  <2>3. CASE EnsureSubscription BY <2>3 DEF EnsureSubscription
  <2>4. CASE Connect \/ Migrate
    BY <2>4, <2>w DEF Connect, Migrate, LookAtLease
  <2>5. CASE StartFails \/ EnrolReplyLost \/ Kill \/ Evict
    <3>1. Gone
      BY <2>5 DEF StartFails, EnrolReplyLost, Kill, Evict
    <3>2. /\ kernelUp' \in BOOLEAN /\ databaseUp' \in BOOLEAN
          /\ subscribed' \in BOOLEAN /\ challengeSpent' \in BOOLEAN
          /\ skew' \in -MaxSkew .. MaxSkew
      BY <2>5 DEF StartFails, EnrolReplyLost, Kill, Evict
    <3> QED BY <2>w, <3>1, <3>2 DEF Gone
  <2>6. CASE Wake BY <2>6 DEF Wake, LookAtLease
  <2>7. CASE Renew \/ RenewReplyLost \/ RenewFails
    BY <2>7 DEF Renew, RenewReplyLost, RenewFails
  <2>8. CASE \/ Fetched \/ Borrow \/ NothingEligible \/ Worked
             \/ RecordSuccess \/ PassFails \/ RouteFails
    BY <2>8, <2>w DEF Fetched, Borrow, NothingEligible, Worked, PassSucceeds,
       RecordSuccess, PassFails, RouteFails, PassEnds
  <2>9. CASE KernelFlips \/ DatabaseFlips
    <3>1. Enrolled \in BOOLEAN
      BY DEF Enrolled
    <3> QED BY <2>9, <3>1 DEF KernelFlips, DatabaseFlips
  <2>10. CASE Tick
    <3>1. stage' \in Stage /\ timer' \in Nat /\ delay' \in Nat
      BY <2>10 DEF Tick
    <3>2. waiting' \in 0 .. PoolWait
      <4>1. waiting \in 0 .. PoolWait /\ PoolWait \in Nat
        BY ConstantTypes
      <4>2. CASE Waiting
        <5>1. waiting < PoolWait /\ waiting' = waiting + 1
          BY <2>10, <4>2 DEF Tick, InTime
        <5> QED BY <4>1, <5>1
      <4>3. CASE ~Waiting
        BY <2>10, <4>1, <4>3 DEF Tick
      <4> QED BY <4>2, <4>3
    <3>3. /\ granted' \in -Oldest .. LeaseGrant
          /\ believed' \in -Oldest .. LeaseGrant + MaxSkew
      BY <2>10, AgesSaturate DEF Tick
    <3>4. beat' \in Never .. Oldest
      BY <2>10, AgesSaturate DEF Tick
    <3>5. hindered' \in BOOLEAN
      BY <2>10 DEF Tick, Waiting
    <3> QED BY <2>10, <3>1, <3>2, <3>3, <3>4, <3>5 DEF Tick
  <2>11. CASE UNCHANGED lifecycleVars BY <2>11 DEF lifecycleVars
  <2> QED
    BY <2>1, <2>2, <2>3, <2>4, <2>5, <2>6, <2>7, <2>8, <2>9, <2>10, <2>11
       DEF LifecycleNext, Process, Disturbance
<1> QED BY <1>1, <1>2, PTL DEF LifecycleSpec

---------------------------------------------------------------------------
(* The heartbeat and the lease, in any environment. *)

THEOREM HeartbeatFollowsLease == LifecycleSpec => []HeartbeatInvariant
<1>1. LifecycleInit => HeartbeatInvariant
  BY DEF LifecycleInit, HeartbeatInvariant, Served, Busy, Loop, Never
<1>2. /\ LifecycleTypeOK /\ HeartbeatInvariant
      /\ [LifecycleNext]_lifecycleVars
      => HeartbeatInvariant'
  <2> SUFFICES ASSUME LifecycleTypeOK, HeartbeatInvariant,
                      [LifecycleNext]_lifecycleVars
               PROVE  HeartbeatInvariant'
    OBVIOUS
  <2> USE ConstantTypes DEF HeartbeatInvariant, Served, Startup, Busy, Loop,
      waitVars, leaseVars, worldVars
  <2>t. granted \in Int /\ timer \in Nat /\ LeaseGrant > 0
    BY DEF LifecycleTypeOK
  <2>1. CASE Start BY <2>1 DEF Start
  <2>2. CASE Enrol BY <2>2 DEF Enrol
  <2>3. CASE EnsureSubscription BY <2>3 DEF EnsureSubscription
  <2>4. CASE Connect \/ Migrate
    BY <2>4 DEF Connect, Migrate, LookAtLease
  <2>5. CASE StartFails \/ EnrolReplyLost \/ Kill \/ Evict
    BY <2>5 DEF StartFails, EnrolReplyLost, Kill, Evict, Gone
  <2>6. CASE Wake BY <2>6 DEF Wake, LookAtLease
  <2>7. CASE Renew \/ RenewReplyLost \/ RenewFails
    BY <2>7 DEF Renew, RenewReplyLost, RenewFails
  \* A pass has its last answer while the lease runs.
  <2>8. CASE NothingEligible \/ Worked
    <3>1. /\ granted > 0 /\ stage \in {"pass", "store"} /\ stage' = "record"
          /\ UNCHANGED <<granted, timer, beat>>
      BY <2>8 DEF NothingEligible, Worked, PassSucceeds, KernelAnswers
    <3> QED BY <2>t, <3>1
  \* The heartbeat is recorded when that answer has arrived.
  <2>9. CASE RecordSuccess
    <3>1. /\ stage' = "sleep" /\ beat' = 0 /\ granted' = granted
          /\ granted > -timer /\ timer <= MaxPass
      BY <2>9 DEF RecordSuccess
    <3> QED BY <2>t, <3>1
  <2>10. CASE Fetched \/ Borrow
    BY <2>10 DEF Fetched, Borrow
  <2>11. CASE PassFails \/ RouteFails
    BY <2>11 DEF PassFails, RouteFails, PassEnds
  <2>12. CASE KernelFlips \/ DatabaseFlips
    BY <2>12 DEF KernelFlips, DatabaseFlips
  \* The lease and the heartbeat age together.
  <2>13. CASE Tick
    <3>1. stage' = stage
      BY <2>13 DEF Tick
    <3>2. stage \in Busy => timer' <= MaxPass
      BY <2>13, <2>t DEF Tick, InTime
    \* Nothing waits for a connection any more.
    <3>3. stage = "record" => timer' = timer + 1 /\ granted' >= granted - 1
      BY <2>13, <2>t DEF Tick, Waiting, Connecting, Left
    <3>4. granted' \in Int /\ timer' \in Nat
      BY <2>13, <2>t DEF Tick, Left
    <3>5. stage \in Loop /\ beat # Never /\ granted' <= 0 => beat' >= -granted' - MaxPass
      BY <2>13 DEF Tick, Enrolled, Left, Age, LifecycleTypeOK, Stage
    <3>6. /\ beat = Never <=> beat' = Never
      BY <2>13 DEF Tick, Age, LifecycleTypeOK
    <3>7. stage = "record" => granted' > -timer'
      BY <2>t, <3>3, <3>4
    <3>8. stage \notin Loop => beat' = Never
      BY <3>6
    <3> QED BY <3>1, <3>2, <3>5, <3>6, <3>7, <3>8
  <2>14. CASE UNCHANGED lifecycleVars BY <2>14 DEF lifecycleVars
  <2> QED
    BY <2>1, <2>2, <2>3, <2>4, <2>5, <2>6, <2>7, <2>8, <2>9, <2>10, <2>11, <2>12,
       <2>13, <2>14
       DEF LifecycleNext, Process, Disturbance
<1> QED BY <1>1, <1>2, LifecycleTypes, PTL DEF LifecycleSpec

\* A ready Pod held a running lease at most ReadyStale and a pass ago.
THEOREM ReadyAlwaysMeansLease == LifecycleSpec => []ReadyMeansLease
<1>1. LifecycleTypeOK /\ HeartbeatInvariant => ReadyMeansLease
  BY ConstantTypes DEF LifecycleTypeOK, HeartbeatInvariant, ReadyMeansLease, Ready, Served
<1> QED BY <1>1, LifecycleTypes, HeartbeatFollowsLease, PTL

\* A lease lost for longer than LiveStale and a pass fails the liveness probe
\* of every process that ever completed a pass.
THEOREM LostLeaseIsAlwaysNoticed == LifecycleSpec => []LostLeaseIsNoticed
<1>1. LifecycleTypeOK /\ HeartbeatInvariant => LostLeaseIsNoticed
  BY ConstantTypes DEF LifecycleTypeOK, HeartbeatInvariant, LostLeaseIsNoticed,
     LivenessFails, Served
<1> QED BY <1>1, LifecycleTypes, HeartbeatFollowsLease, PTL

---------------------------------------------------------------------------
(* The lease, whatever fails. *)

\* How far the process is off, and how much of the lease is left at every point
\* of an iteration that nothing hindered.
THEOREM LeaseInvariantHolds ==
    ASSUME ShortPasses PROVE LifecycleSpec => []LeaseInvariant
<1> USE ConstantTypes
<1>a. /\ Poll + 2 * MaxPass + MaxSkew <= Margin /\ Margin < LeaseGrant
      /\ MaxStart + MaxPass < LeaseGrant
  BY DEF ShortPasses
<1>1. LifecycleInit => LeaseInvariant
  BY DEF LifecycleInit, LeaseInvariant, InBounds, BeliefIsClose, EnoughIsLeft,
     Startup, Enrolled, Busy, Loop
<1>2. /\ LifecycleTypeOK /\ LeaseInvariant
      /\ [LifecycleNext]_lifecycleVars
      => LeaseInvariant'
  <2> SUFFICES ASSUME LifecycleTypeOK, LeaseInvariant,
                      [LifecycleNext]_lifecycleVars
               PROVE  LeaseInvariant'
    OBVIOUS
  <2> USE <1>a DEF LeaseInvariant, InBounds, BeliefIsClose, EnoughIsLeft,
      Startup, Enrolled, Busy, Loop, waitVars, leaseVars, worldVars
  <2>t. /\ timer \in Nat /\ granted \in Int /\ believed \in Int
        /\ skew \in Int /\ -MaxSkew <= skew /\ skew <= MaxSkew
        /\ behind \in BOOLEAN /\ hindered \in BOOLEAN
        /\ stage \in {"down"} \cup Startup \cup Loop
    BY DEF LifecycleTypeOK, Stage
  <2> USE <2>t
  <2>1. CASE Start BY <2>1 DEF Start
  <2>2. CASE Enrol BY <2>2 DEF Enrol
  <2>3. CASE EnsureSubscription BY <2>3 DEF EnsureSubscription
  <2>4. CASE Connect BY <2>4 DEF Connect
  <2>5. CASE StartFails \/ EnrolReplyLost \/ Kill \/ Evict
    BY <2>5 DEF StartFails, EnrolReplyLost, Kill, Evict, Gone
  \* A renewal not yet due leaves more than the margin, by the kernel's clock as
  \* by the Pod's, which lasts through this pass, the sleep and the renewal
  \* after it, whatever came before the look.
  <2>6. CASE Migrate \/ Wake
    <3>1. /\ LookAtLease /\ stage \in {"migrate", "sleep"}
      BY <2>6 DEF Migrate, Wake
    <3>2. CASE RenewalDue
      BY <3>1, <3>2 DEF LookAtLease, RenewalDue
    <3>3. CASE ~RenewalDue
      <4>1. believed > Margin
        BY <3>3 DEF RenewalDue
      <4>2. ~behind /\ believed = granted + skew
        BY <3>1, <4>1
      <4>3. granted > Margin - MaxSkew
        BY <4>1, <4>2
      <4> QED BY <3>1, <3>3, <4>2, <4>3 DEF LookAtLease
    <3> QED BY <3>2, <3>3
  <2>7. CASE Renew
    <3>1. KernelAnswers /\ ~behind
      BY <2>7 DEF Renew, RenewalAccepted
    <3> QED BY <2>7, <3>1 DEF Renew, KernelAnswers
  <2>8. CASE RenewReplyLost
    BY <2>8 DEF RenewReplyLost
  \* A renewal that comes in time and finds the kernel up is not refused.
  <2>9. CASE RenewFails
    <3>1. hindered
      BY <2>9 DEF RenewFails, RenewalAccepted, KernelAnswers
    <3> QED BY <2>9, <3>1 DEF RenewFails
  <2>10. CASE Fetched \/ Borrow \/ NothingEligible \/ Worked
    BY <2>10 DEF Fetched, Borrow, NothingEligible, Worked, PassSucceeds
  <2>11. CASE RecordSuccess \/ PassFails \/ RouteFails
    <3>1. /\ stage \in Busy \ {"renew"} /\ stage' = "sleep" /\ timer' = 0
          /\ UNCHANGED <<leaseVars, worldVars>>
      BY <2>11 DEF RecordSuccess, PassFails, PassIsLost, RouteFails, PassEnds
    <3> QED BY <3>1
  <2>12. CASE KernelFlips
    BY <2>12 DEF KernelFlips
  <2>13. CASE DatabaseFlips
    BY <2>13 DEF DatabaseFlips
  <2>14. CASE Tick
    <3>1. /\ UNCHANGED <<stage, behind, kernelUp, skew>> /\ InTime
          /\ hindered' = (hindered \/ Waiting)
      BY <2>14 DEF Tick
    <3>2. timer' = IF stage = "down" \/ Waiting THEN timer ELSE timer + 1
      BY <2>14 DEF Tick
    <3>3. InBounds'
      BY <3>1, <3>2 DEF InTime
    <3>4. /\ granted' \in Int /\ believed' \in Int /\ believed' <= believed
      BY <2>14 DEF Tick, Left
    \* The two clocks run at one speed until an age saturates.
    <3>5. BeliefIsClose'
      <4>1. /\ behind' => Enrolled' /\ hindered' /\ believed' <= Margin
            /\ stage' = "renew" => believed' <= Margin
        BY <3>1, <3>4
      <4>2. Enrolled' /\ ~behind' =>
              believed' = granted' + skew' \/ (believed' <= 0 /\ granted' <= 0)
        <5> SUFFICES ASSUME Enrolled', ~behind'
                     PROVE  believed' = granted' + skew' \/ (believed' <= 0 /\ granted' <= 0)
          OBVIOUS
        <5>1. Enrolled /\ ~behind
          BY <3>1
        <5>2. granted' = Left(granted) /\ believed' = Left(believed)
          BY <2>14, <5>1 DEF Tick
        <5> HIDE DEF Enrolled
        <5>3. believed = granted + skew \/ (believed <= 0 /\ granted <= 0)
          BY <5>1
        <5>4. MaxSkew < Oldest
          OBVIOUS
        <5> QED BY <3>1, <5>2, <5>3, <5>4 DEF Left
      <4> QED BY <4>1, <4>2
    <3>6. EnoughIsLeft'
      <4> SUFFICES ASSUME Enrolled', ~hindered' PROVE EnoughIsLeft'
        OBVIOUS
      <4>1. Enrolled /\ ~hindered /\ ~Waiting /\ stage # "down"
        BY <3>1
      <4>2. granted > 0 /\ believed = granted + skew /\ timer' = timer + 1
        BY <3>1, <3>2, <4>1 DEF InTime
      <4>3. granted' = granted - 1 /\ believed' = believed - 1
        BY <2>14, <4>1, <4>2 DEF Tick, Left
      <4> QED BY <3>1, <4>1, <4>2, <4>3
    <3> QED BY <3>3, <3>5, <3>6
  <2>15. CASE UNCHANGED lifecycleVars BY <2>15 DEF lifecycleVars
  <2> QED
    BY <2>1, <2>2, <2>3, <2>4, <2>5, <2>6, <2>7, <2>8, <2>9, <2>10, <2>11, <2>12,
       <2>13, <2>14, <2>15
       DEF LifecycleNext, Process, Disturbance
<1> QED BY <1>1, <1>2, LifecycleTypes, PTL DEF LifecycleSpec

\* Where two passes, a sleep and the difference of the clocks fit into the
\* renewal margin, an enrolled process loses its lease only if a call waited for
\* a connection, the kernel was down or a renewal's reply was lost since the
\* lease was last renewed or found long enough.
THEOREM LeaseIsAlwaysHeld ==
    ASSUME ShortPasses PROVE LifecycleSpec => []LeaseHeld
<1>1. LifecycleTypeOK /\ LeaseInvariant => LeaseHeld
  BY ConstantTypes DEF LifecycleTypeOK, LeaseInvariant, InBounds, EnoughIsLeft,
     ShortPasses, LeaseHeld, Enrolled, Startup, Busy, Loop
<1> QED BY <1>1, LeaseInvariantHolds, LifecycleTypes, PTL

---------------------------------------------------------------------------
(* The probes in an environment that never fails. *)

\* The last heartbeat of a Pod that has slept and is t into its next pass.
LEMMA HeartbeatsMeet ==
    ASSUME NEW b \in Int, NEW t \in Nat,
           b <= Poll + t, t <= MaxPass, Poll + MaxPass <= ReadyStale
    PROVE  b <= ReadyStale
<1>1. Poll \in Nat /\ MaxPass \in Nat /\ ReadyStale \in Nat
  BY ConstantTypes
<1> QED BY <1>1

LEMMA SteadyInvariantHolds ==
    ASSUME SteadyPasses PROVE LifecycleSpec => []SteadyInvariant
<1> USE ConstantTypes
<1>a. ShortPasses /\ Faults = {}
  BY DEF SteadyPasses
<1>1. LifecycleInit => LeaseInvariant /\ SteadyInvariant
  BY DEF LifecycleInit, SteadyInvariant, LeaseInvariant, InBounds, BeliefIsClose, EnoughIsLeft,
     Startup, Served, Enrolled, Busy, Loop
<1>2. /\ LifecycleTypeOK /\ LeaseInvariant' /\ LeaseHeld /\ SteadyInvariant
      /\ [LifecycleNext]_lifecycleVars
      => SteadyInvariant'
  <2> SUFFICES ASSUME LifecycleTypeOK, LeaseInvariant', LeaseHeld, SteadyInvariant,
                      [LifecycleNext]_lifecycleVars
               PROVE  SteadyInvariant'
    OBVIOUS
  <2>i. /\ databaseUp = TRUE /\ waiting = 0 /\ delay = 0 /\ hindered = FALSE
        /\ stage \notin {"down", "enrol"} => kernelUp = TRUE /\ granted > 0
        /\ stage \notin Loop => beat = Never
        /\ stage = "sleep" => beat <= timer /\ timer <= Poll
        /\ stage \in Busy => beat <= Poll + timer
    BY DEF SteadyInvariant, LeaseInvariant, InBounds, EnoughIsLeft, LeaseHeld, Served,
       Enrolled, LifecycleTypeOK, Stage, Startup
  <2>t. /\ timer \in Nat /\ beat \in Never .. Oldest
        /\ stage \in {"down"} \cup Startup \cup Loop
    BY DEF LifecycleTypeOK, Stage
  <2> SUFFICES /\ databaseUp' = TRUE /\ waiting' = 0 /\ delay' = 0 /\ hindered' = FALSE
               /\ stage' \notin Loop => beat' = Never
               /\ stage' = "sleep" => beat' <= timer'
               /\ stage' \in Busy => beat' <= Poll + timer'
    BY DEF SteadyInvariant, Served
  <2> USE <1>a, <2>i, <2>t DEF Startup, Busy, Loop, waitVars, leaseVars, worldVars
  <2>1. CASE Start BY <2>1 DEF Start
  <2>2. CASE Enrol BY <2>2 DEF Enrol
  <2>3. CASE EnsureSubscription BY <2>3 DEF EnsureSubscription
  <2>4. CASE Connect
    BY <2>4 DEF Connect
  <2>5. CASE StartFails \/ Kill BY <2>5 DEF StartFails, Kill, Gone
  <2>6. CASE Migrate \/ Wake
    <3>1. /\ LookAtLease /\ waiting' = 0 /\ delay' = 0
          /\ stage = "migrate" \/ (stage = "sleep" /\ timer = Poll)
      BY <2>6 DEF Migrate, Wake
    <3>2. hindered' = FALSE
      <4>1. kernelUp = TRUE
        BY <3>1
      <4> QED BY <3>1, <4>1 DEF LookAtLease
    <3>3. /\ stage' \in {"renew", "pass"} /\ timer' = 0
          /\ beat' = beat /\ databaseUp' = databaseUp
      BY <3>1 DEF LookAtLease
    <3>4. beat <= Poll
      BY <3>1
    <3> QED BY <3>1, <3>2, <3>3, <3>4
  <2>7. CASE Renew \/ RenewFails BY <2>7 DEF Renew, RenewFails
  <2>8. CASE Fetched \/ Borrow \/ NothingEligible \/ Worked
    BY <2>8 DEF Fetched, Borrow, NothingEligible, Worked, PassSucceeds
  <2>9. CASE RecordSuccess
    BY <2>9 DEF RecordSuccess
  \* The lease is held and the database is up: no pass fails.
  <2>10. ~PassFails
    BY DEF PassFails, PassIsLost, PoolTimesOut, KernelAnswers
  <2>11. ~Disturbance
    BY DEF Disturbance, EnrolReplyLost, RenewReplyLost, RouteFails, Evict,
       KernelFlips, DatabaseFlips
  <2>12. CASE Tick
    <3>1. Waiting = FALSE
      BY DEF Waiting
    <3>2. /\ stage' = stage /\ waiting' = 0 /\ delay' = 0 /\ hindered' = FALSE
          /\ timer' = IF stage = "down" THEN timer ELSE timer + 1
          /\ beat' = Age(beat) /\ databaseUp' = databaseUp
      BY <2>12, <3>1 DEF Tick
    <3> QED BY <3>2 DEF Age
  <2>13. CASE UNCHANGED lifecycleVars BY <2>13 DEF lifecycleVars
  <2> QED
    BY <2>1, <2>2, <2>3, <2>4, <2>5, <2>6, <2>7, <2>8, <2>9, <2>10, <2>11, <2>12, <2>13
       DEF LifecycleNext, Process
<1> QED
  BY <1>a, <1>1, <1>2, LeaseInvariantHolds, LeaseIsAlwaysHeld, LifecycleTypes, PTL
     DEF LifecycleSpec

\* No liveness probe fails.
THEOREM SteadyPodsAreNeverKilled ==
    ASSUME SteadyPasses PROVE LifecycleSpec => []NeverKilled
<1>1. LifecycleTypeOK /\ SteadyInvariant => NeverKilled
  BY ConstantTypes, LifecycleAssumption DEF LifecycleAssumption, LifecycleTypeOK, SteadyInvariant,
     LeaseInvariant, InBounds, SteadyPasses, NeverKilled, LivenessFails, Served,
     Startup, Busy, Loop
<1> QED BY <1>1, SteadyInvariantHolds, LifecycleTypes, PTL

\* A ready Pod stays ready.
THEOREM SteadyPodsStayReady ==
    ASSUME SteadyPasses PROVE LifecycleSpec => ReadyStaysReady
<1>c. Poll \in Nat /\ MaxPass \in Nat /\ ReadyStale \in Nat
  BY ConstantTypes
<1>1. /\ LifecycleTypeOK /\ LifecycleTypeOK' /\ LeaseHeld /\ NeverKilled
      /\ SteadyInvariant /\ SteadyInvariant'
      /\ [LifecycleNext]_lifecycleVars
      => [Ready => Ready']_lifecycleVars
  <2> SUFFICES ASSUME LifecycleTypeOK, LifecycleTypeOK', LeaseHeld, NeverKilled,
                      SteadyInvariant, SteadyInvariant',
                      [LifecycleNext]_lifecycleVars, Ready
               PROVE  Ready'
    OBVIOUS
  \* The Pod is still served, and it still has a heartbeat.
  <2>1. stage' \in Loop /\ beat' # Never
    <3>1. stage \in Loop /\ beat # Never
      BY DEF Ready, Served
    <3>2. ~StartFails /\ ~Kill /\ ~Disturbance
      BY <3>1 DEF StartFails, Kill, NeverKilled, SteadyPasses, Startup, Busy, Loop, Disturbance,
         EnrolReplyLost, RenewReplyLost, RouteFails, Evict, KernelFlips, DatabaseFlips
    <3>3. ~Start /\ ~Enrol /\ ~EnsureSubscription /\ ~Connect /\ ~Migrate
      BY <3>1 DEF Start, Enrol, EnsureSubscription, Connect, Migrate, Busy, Loop
    <3>4. CASE \/ Wake \/ Renew \/ RenewFails
               \/ Fetched \/ Borrow \/ NothingEligible \/ Worked
      BY <3>1, <3>4 DEF Wake, LookAtLease, Renew, RenewFails, Fetched, Borrow,
         NothingEligible, Worked, PassSucceeds, Busy, Loop
    <3>5. CASE RecordSuccess \/ PassFails
      <4>1. stage' = "sleep" /\ (beat' = 0 \/ beat' = beat)
        BY <3>5 DEF RecordSuccess, PassFails, PassEnds
      <4> QED BY ConstantTypes, <3>1, <4>1 DEF Loop
    <3>6. CASE Tick
      <4>1. beat \in Int /\ (beat' = beat \/ beat' = beat + 1) /\ stage' = stage
        BY <3>6, ConstantTypes DEF Tick, Age, LifecycleTypeOK
      <4>2. beat >= 0
        BY <3>1, ConstantTypes DEF LifecycleTypeOK
      <4> QED BY ConstantTypes, <3>1, <4>1, <4>2
    <3>7. CASE UNCHANGED lifecycleVars
      BY <3>1, <3>7 DEF lifecycleVars
    <3> QED
      BY <3>2, <3>3, <3>4, <3>5, <3>6, <3>7 DEF LifecycleNext, Process
  \* Heartbeats come at most a sleep and a pass apart.
  <2>2. beat' <= ReadyStale
    <3>1. beat' \in Int /\ timer' \in Nat
      BY ConstantTypes DEF LifecycleTypeOK
    <3>2. /\ stage' = "sleep" => beat' <= timer' /\ timer' <= Poll
          /\ stage' \in Busy => beat' <= Poll + timer' /\ timer' <= MaxPass
      BY DEF SteadyInvariant, LeaseInvariant, InBounds
    <3>3. Poll + MaxPass <= ReadyStale
      BY DEF SteadyPasses
    <3>4. CASE stage' = "sleep"
      BY <1>c, <3>1, <3>2, <3>3, <3>4
    <3>5. CASE stage' \in Busy
      <4>1. beat' <= Poll + timer' /\ timer' <= MaxPass
        BY <3>2, <3>5
      <4> QED BY <3>1, <3>3, <4>1, HeartbeatsMeet
    <3> QED BY <2>1, <3>4, <3>5 DEF Loop
  <2> QED BY <2>1, <2>2 DEF Ready, Served, SteadyInvariant
<1> QED
  BY <1>1, SteadyInvariantHolds, SteadyPodsAreNeverKilled, LeaseIsAlwaysHeld,
     LifecycleTypes, PTL DEF LifecycleSpec, ReadyStaysReady, SteadyPasses
=============================================================================
