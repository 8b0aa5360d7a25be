----------------------- MODULE PollScheduling_proofs -------------------------
(***************************************************************************)
(* Theorems about PollScheduling for every lease, poll interval, longest   *)
(* pass and number of Routes: if the passes of all Routes that never       *)
(* succeed fit into one lease, the loop implements FairQueue.              *)
(***************************************************************************)
EXTENDS PollScheduling, FiniteSetTheorems, TLAPS

Cycle == MaxPass + Poll

\* The products of the timing argument, for provers that only add.
LEMMA Products ==
    /\ Cycle \in Nat
    /\ \A a, b \in Nat : a <= b => a * Cycle <= b * Cycle
    /\ \A a \in Nat : (a + 1) * Cycle = a * Cycle + Cycle /\ a * Cycle \in Nat
    /\ 0 * Cycle = 0
    /\ MaxBad * Cycle < Lease
<1>1. Cycle \in Nat /\ MaxBad * Cycle < Lease
  BY SchedulingAssumption DEF SchedulingAssumption, Cycle
<1>2. ASSUME NEW a \in Nat, NEW b \in Nat, a <= b PROVE a * Cycle <= b * Cycle
  <2> DEFINE C == Cycle
  <2>1. C \in Nat BY <1>1
  <2> HIDE DEF C
  <2>2. a * C <= b * C BY <1>2, <2>1
  <2> QED BY <2>2 DEF C
<1>3. ASSUME NEW a \in Nat PROVE (a + 1) * Cycle = a * Cycle + Cycle /\ a * Cycle \in Nat
  <2> DEFINE C == Cycle
  <2>1. C \in Nat BY <1>1
  <2> HIDE DEF C
  <2>2. (a + 1) * C = a * C + C /\ a * C \in Nat BY <2>1
  <2> QED BY <2>2 DEF C
<1> QED BY <1>1, <1>2, <1>3

LEMMA Later ==
    ASSUME NEW e \in Nat, NEW t \in Nat, NEW e1 \in Nat, NEW t1 \in Nat, NEW bound \in Nat,
           e1 + t1 <= e + t
    PROVE  /\ e + t <= bound => e1 + t1 <= bound
           /\ e + t + Poll <= bound => e1 + t1 + Poll <= bound
BY SchedulingAssumption DEF SchedulingAssumption

LEMMA OneMore ==
    ASSUME NEW e \in Nat, NEW t \in Nat, NEW bound \in Nat, e <= bound, t <= MaxPass
    PROVE  e + t + Poll <= bound + Cycle
BY SchedulingAssumption DEF SchedulingAssumption, Cycle

LEMMA Constants ==
    /\ Lease \in Nat /\ Poll \in Nat /\ Poll > 0 /\ MaxPass \in Nat
    /\ MaxRoutes \in Nat /\ MaxBad \in Nat /\ MaxPass < Lease
BY SchedulingAssumption DEF SchedulingAssumption

\* The failing Routes of a streak are finitely many and no more than MaxBad.
LEMMA FailingBounded ==
    ASSUME SchedulingInvariant
    PROVE  /\ IsFiniteSet(Failing) /\ IsFiniteSet(streak)
           /\ Cardinality(Failing) \in Nat /\ Cardinality(streak) \in Nat
           /\ Cardinality(Failing) <= MaxBad /\ Cardinality(streak) <= MaxBad
           /\ Cardinality(bad) \in Nat
           /\ (Failing = {}) <=> (Cardinality(Failing) = 0)
           /\ Failing \subseteq Route
<1>1. IsFiniteSet(bad) /\ Failing \subseteq bad /\ streak \subseteq bad
  BY DEF SchedulingInvariant, SchedulingTypeOK, Failing
<1>2. /\ IsFiniteSet(Failing) /\ Cardinality(Failing) <= Cardinality(bad)
      /\ IsFiniteSet(streak) /\ Cardinality(streak) <= Cardinality(bad)
  BY <1>1, FS_Subset
<1>3. /\ Cardinality(Failing) \in Nat /\ Cardinality(streak) \in Nat
      /\ Cardinality(bad) \in Nat
  BY <1>1, <1>2, FS_CardinalityType
<1>4. (Failing = {}) <=> (Cardinality(Failing) = 0)
  BY <1>2, FS_EmptySet
<1>5. Failing \subseteq Route
  <2>1. 1 .. arrived \subseteq 1 .. MaxRoutes
    BY Constants DEF SchedulingInvariant, SchedulingTypeOK
  <2> QED BY <1>1, <2>1 DEF SchedulingInvariant, SchedulingTypeOK, Route
<1> QED BY <1>2, <1>3, <1>4, <1>5, Constants DEF SchedulingInvariant

\* What every pass relies on: when the loop wakes up, the streak is younger
\* than a lease.
LEMMA AwakeMeansYoung ==
    ASSUME SchedulingInvariant, Awake
    PROVE  \A r \in streak : lease[r] > 0
<1>1. SUFFICES ASSUME NEW r \in streak PROVE lease[r] > 0
  OBVIOUS
<1>2. taken \notin bad /\ taken \notin open \ bad /\ Failing = streak
  BY DEF Awake, SchedulingInvariant, SchedulingTypeOK, Failing
<1>3. elapsed <= Cardinality(streak) * Cycle
  BY <1>2 DEF Awake, SchedulingInvariant, SchedulingTypeOK, StreakIsShort, Cycle
<1>4. elapsed < Lease
  BY <1>3, FailingBounded, Products, Constants DEF SchedulingInvariant, SchedulingTypeOK
<1>5. lease[r] + elapsed >= Lease /\ lease[r] \in Nat
  BY <1>2, FailingBounded DEF SchedulingInvariant, SchedulingTypeOK, ClaimsAreYoung
<1> QED BY <1>4, <1>5, Constants DEF SchedulingInvariant, SchedulingTypeOK

-----------------------------------------------------------------------------
(* One step of each kind. *)

LEMMA ArrivePreserves ==
    ASSUME SchedulingInvariant, Arrive PROVE SchedulingInvariant'
<1> USE Constants DEF SchedulingInvariant, SchedulingTypeOK
<1>1. /\ arrived' = arrived + 1 /\ arrived < MaxRoutes /\ open' = open \cup {arrived + 1}
      /\ bad' = bad \/ (Cardinality(bad) < MaxBad /\ bad' = bad \cup {arrived + 1})
      /\ UNCHANGED <<lease, taken, timer, streak, elapsed>>
  BY DEF Arrive
<1>2. arrived + 1 \notin open /\ arrived + 1 \notin bad /\ taken # arrived + 1
  OBVIOUS
<1>3. SchedulingTypeOK'
  <2>1. arrived' \in 0 .. MaxRoutes /\ 0 .. arrived \subseteq 0 .. arrived'
    BY <1>1
  <2>2. 1 .. arrived' = (1 .. arrived) \cup {arrived + 1}
    BY <1>1
  <2>3. open' \subseteq 1 .. arrived' /\ bad' \subseteq open' /\ streak' \subseteq bad'
    BY <1>1, <2>2
  <2> QED BY <1>1, <2>1, <2>3
<1>4. IsFiniteSet(bad)' /\ (Cardinality(bad) <= MaxBad)'
  <2>1. CASE bad' = bad
    BY <2>1
  <2>2. CASE Cardinality(bad) < MaxBad /\ bad' = bad \cup {arrived + 1}
    <3>1. IsFiniteSet(bad') /\ Cardinality(bad') = Cardinality(bad) + 1
      BY <1>2, <2>2, FS_AddElement
    <3> QED BY <2>2, <3>1, FailingBounded
  <2> QED BY <1>1, <2>1, <2>2
<1>5. Failing' = Failing /\ (taken \notin open \ bad <=> taken' \notin open' \ bad')
  BY <1>1, <1>2 DEF Failing
<1>6. StreakIsShort'
  BY <1>1, <1>5 DEF StreakIsShort
<1>7. ClaimsAreYoung'
  BY <1>1, <1>5 DEF ClaimsAreYoung
<1>8. GoodRoutesWait'
  BY <1>1, <1>2 DEF GoodRoutesWait, Route
<1>9. taken' # 0 => taken' \in open' \ streak' /\ timer' <= MaxPass
  BY <1>1
<1> QED BY <1>3, <1>4, <1>6, <1>7, <1>8, <1>9

LEMMA PassEmptyPreserves ==
    ASSUME SchedulingInvariant, PassEmpty PROVE SchedulingInvariant'
<1> USE Constants DEF SchedulingInvariant, SchedulingTypeOK
<1>1. /\ taken = 0 /\ taken' = 0 /\ timer' = Poll /\ streak' = {} /\ elapsed' = 0
      /\ UNCHANGED <<arrived, open, bad, lease>>
  BY DEF PassEmpty, Awake, Sleep
<1>2. SchedulingTypeOK'
  BY <1>1
<1>3. Failing' = {} /\ Cardinality(Failing') = 0
  <2>1. Failing' = {}
    BY <1>1 DEF Failing
  <2> QED BY <2>1, FS_EmptySet
<1>4. StreakIsShort'
  BY <1>1, <1>3, Products DEF StreakIsShort, Cycle
<1>5. ClaimsAreYoung' /\ GoodRoutesWait'
  BY <1>1, <1>3 DEF ClaimsAreYoung, GoodRoutesWait
<1> QED BY <1>1, <1>2, <1>4, <1>5

LEMMA TakePreserves ==
    ASSUME SchedulingInvariant, NEW r \in Route, Take(r) PROVE SchedulingInvariant'
<1> USE Constants DEF SchedulingInvariant, SchedulingTypeOK
<1>1. /\ taken = 0 /\ timer = 0 /\ r \in open /\ lease[r] = 0
      /\ \A other \in open : lease[other] = 0 => r <= other
      /\ taken' = r /\ timer' \in 0 .. MaxPass
      /\ lease' = [lease EXCEPT ![r] = Lease]
      /\ UNCHANGED <<arrived, open, bad, streak, elapsed>>
  BY DEF Take, Awake, Eligible
<1>2. SchedulingTypeOK'
  BY <1>1
<1>3. r \notin streak /\ Failing = streak
  BY <1>1, AwakeMeansYoung DEF Awake, Failing
<1>4. taken' # 0 => taken' \in open' \ streak' /\ timer' <= MaxPass
  BY <1>1, <1>3
<1>5. StreakIsShort'
  <2>1. CASE r \in bad
    <3>1. Failing' = streak \cup {r}
      BY <1>1, <2>1 DEF Failing
    <3>2. Cardinality(Failing') = Cardinality(streak) + 1
      BY <1>3, <3>1, FailingBounded, FS_AddElement
    <3>3. PICK before \in Nat : before = Cardinality(streak) * Cycle
      BY FailingBounded, Products
    <3>4. elapsed <= before
      <4>1. CASE streak = {}
        BY <1>3, <3>3, <4>1 DEF StreakIsShort
      <4>2. CASE streak # {}
        BY <1>1, <1>3, <3>3, <4>2 DEF StreakIsShort, Cycle
      <4> QED BY <4>1, <4>2
    <3>5. Cardinality(Failing') * Cycle = before + Cycle
      BY <3>2, <3>3, FailingBounded, Products
    <3>6. /\ elapsed' = elapsed /\ elapsed \in Nat
          /\ timer' \in Nat /\ timer' <= MaxPass
      BY <1>1
    <3>7. elapsed + timer' + Poll <= before + Cycle
      <4> HIDE DEF SchedulingInvariant, SchedulingTypeOK
      <4> QED BY <3>4, <3>6, OneMore
    <3>8. elapsed' + timer' + Poll <= Cardinality(Failing') * Cycle
      BY <3>5, <3>6, <3>7
    <3> QED BY <1>1, <2>1, <3>1, <3>8 DEF StreakIsShort, Cycle, Route
  <2>2. CASE r \notin bad
    BY <1>1, <1>3, <2>2 DEF StreakIsShort, Failing
  <2> QED BY <2>1, <2>2
<1>6. ClaimsAreYoung'
  <2>1. \A q \in Failing' : q = r \/ q \in Failing
    BY <1>1, <1>3 DEF Failing
  <2>2. \A q \in Failing' : lease'[q] + elapsed' >= Lease
    <3> SUFFICES ASSUME NEW q \in Failing' PROVE lease'[q] + elapsed' >= Lease
      OBVIOUS
    <3>1. CASE q = r BY <1>1, <3>1
    <3>2. CASE q # r
      BY <1>1, <2>1, <3>2, FailingBounded DEF ClaimsAreYoung
    <3> QED BY <3>1, <3>2
  <2>3. lease'[r] > timer'
    BY <1>1
  <2> QED BY <1>1, <2>2, <2>3 DEF ClaimsAreYoung
<1>7. GoodRoutesWait'
  <2>1. \A q \in Route : (q > arrived \/ q \in open \ bad) => lease[q] = 0
    BY <1>1 DEF GoodRoutesWait, Route
  <2>2. \A other \in open \ bad : other \in Route
    BY DEF Route
  <2> QED BY <1>1, <2>1, <2>2 DEF GoodRoutesWait
<1> QED BY <1>1, <1>2, <1>4, <1>5, <1>6, <1>7

LEMMA PassCompletesPreserves ==
    ASSUME SchedulingInvariant, PassCompletes PROVE SchedulingInvariant'
<1> USE Constants DEF SchedulingInvariant, SchedulingTypeOK
<1>1. /\ taken \in open \ bad /\ open' = open \ {taken}
      /\ taken' = 0 /\ timer' = Poll /\ streak' = {} /\ elapsed' = 0
      /\ UNCHANGED <<arrived, bad, lease>>
  BY DEF PassCompletes, Sleep
<1>2. SchedulingTypeOK'
  BY <1>1
<1>3. Failing' = {} /\ Cardinality(Failing') = 0
  <2>1. Failing' = {}
    BY <1>1 DEF Failing
  <2> QED BY <2>1, FS_EmptySet
<1>4. StreakIsShort'
  BY <1>1, <1>3, Products DEF StreakIsShort, Cycle
<1>5. ClaimsAreYoung' /\ GoodRoutesWait'
  BY <1>1, <1>3 DEF ClaimsAreYoung, GoodRoutesWait
<1> QED BY <1>1, <1>2, <1>4, <1>5

LEMMA PassFailsPreserves ==
    ASSUME SchedulingInvariant, PassFails PROVE SchedulingInvariant'
<1> USE Constants DEF SchedulingInvariant, SchedulingTypeOK
<1>1. /\ taken \in bad /\ timer = 0 /\ taken' = 0 /\ timer' = Poll
      /\ streak' = streak \cup {taken}
      /\ UNCHANGED <<arrived, open, bad, lease, elapsed>>
  BY DEF PassFails, Sleep
<1>2. SchedulingTypeOK'
  BY <1>1
<1>3. Failing' = Failing /\ Failing # {}
  BY <1>1 DEF Failing
<1>4. StreakIsShort'
  BY <1>1, <1>3 DEF StreakIsShort
<1>5. ClaimsAreYoung' /\ GoodRoutesWait'
  BY <1>1, <1>3 DEF ClaimsAreYoung, GoodRoutesWait
<1> QED BY <1>1, <1>2, <1>4, <1>5

LEMMA TickPreserves ==
    ASSUME SchedulingInvariant, Tick PROVE SchedulingInvariant'
<1> USE Constants DEF SchedulingInvariant, SchedulingTypeOK
<1>1. /\ timer > 0 /\ timer' = timer - 1
      /\ lease' = [q \in Route |-> Left(lease[q])]
      /\ UNCHANGED <<arrived, open, bad, taken, streak>>
  BY DEF Tick
<1>2. /\ Failing' = Failing
      /\ Failing = {} <=> (streak = {} /\ taken \notin bad)
  BY <1>1 DEF Failing
<1>3. /\ Failing = {} => elapsed' = 0
      /\ Failing # {} => elapsed' = (IF elapsed < Lease THEN elapsed + 1 ELSE Lease)
  BY <1>2 DEF Tick
<1>4. \A q \in Route : lease'[q] = Left(lease[q]) /\ Left(lease[q]) \in 0 .. Lease
  BY <1>1 DEF Left
<1>5. SchedulingTypeOK'
  BY <1>1, <1>3, <1>4
<1>6. StreakIsShort'
  <2>1. elapsed' + timer' <= elapsed + timer
    BY <1>1, <1>3
  <2>2. PICK bound \in Nat : bound = Cardinality(Failing) * Cycle
    BY FailingBounded, Products
  <2>3. /\ elapsed + timer <= bound => elapsed' + timer' <= bound
        /\ elapsed + timer + Poll <= bound => elapsed' + timer' + Poll <= bound
    <3> DEFINE e == elapsed
               t == timer
               e1 == elapsed'
               t1 == timer'
    <3>1. e1 + t1 <= e + t
      BY <2>1
    <3>2. e \in Nat /\ t \in Nat
      OBVIOUS
    <3>3. e1 \in Nat /\ t1 \in Nat
      BY <1>5
    <3> HIDE DEF e, t, e1, t1
    <3>4. /\ e + t <= bound => e1 + t1 <= bound
          /\ e + t + Poll <= bound => e1 + t1 + Poll <= bound
      BY <3>1, <3>2, <3>3, Later
    <3> QED BY <3>4 DEF e, t, e1, t1
  <2> QED BY <1>1, <1>2, <1>3, <2>2, <2>3 DEF StreakIsShort, Cycle
<1>7. ClaimsAreYoung'
  <2>1. \A q \in Failing' : lease'[q] + elapsed' >= Lease
    <3> SUFFICES ASSUME NEW q \in Failing PROVE lease'[q] + elapsed' >= Lease
      BY <1>2
    <3>1. lease[q] + elapsed >= Lease /\ q \in Route
      BY FailingBounded DEF ClaimsAreYoung
    <3> QED BY <1>3, <1>4, <3>1 DEF Left
  <2>2. taken # 0 => lease'[taken] > timer'
    BY <1>1, <1>4 DEF ClaimsAreYoung, Left, Route
  <2> QED BY <1>1, <2>1, <2>2 DEF ClaimsAreYoung
<1>8. GoodRoutesWait'
  BY <1>1, <1>4 DEF GoodRoutesWait, Left
<1> QED BY <1>1, <1>5, <1>6, <1>7, <1>8

LEMMA InitialScheduling == Init => SchedulingInvariant
<1>1. SUFFICES ASSUME Init PROVE SchedulingInvariant
  OBVIOUS
<1>2. SchedulingTypeOK
  BY <1>1, Constants DEF Init, SchedulingTypeOK, Route
<1>3. Failing = {} /\ IsFiniteSet(bad) /\ Cardinality(bad) = 0 /\ Cardinality(Failing) = 0
  <2>1. Failing = {} /\ bad = {}
    BY <1>1 DEF Init, Failing
  <2> QED BY <2>1, FS_EmptySet
<1>4. StreakIsShort
  BY <1>1, <1>3, Constants, Products DEF Init, StreakIsShort, Cycle
<1>5. ClaimsAreYoung /\ GoodRoutesWait
  BY <1>1, <1>3 DEF Init, ClaimsAreYoung, GoodRoutesWait
<1> QED BY <1>1, <1>2, <1>3, <1>4, <1>5, Constants DEF Init, SchedulingInvariant

LEMMA SchedulingPreserved ==
    ASSUME SchedulingInvariant, [Next]_vars PROVE SchedulingInvariant'
<1>1. CASE Arrive BY <1>1, ArrivePreserves
<1>2. CASE PassEmpty BY <1>2, PassEmptyPreserves
<1>3. CASE \E r \in Route : Take(r) BY <1>3, TakePreserves
<1>4. CASE PassCompletes BY <1>4, PassCompletesPreserves
<1>5. CASE PassFails BY <1>5, PassFailsPreserves
<1>6. CASE Tick BY <1>6, TickPreserves
<1>7. CASE UNCHANGED vars
  BY <1>7
     DEF vars, SchedulingInvariant, SchedulingTypeOK, StreakIsShort, ClaimsAreYoung,
         GoodRoutesWait, Failing
<1> QED BY <1>1, <1>2, <1>3, <1>4, <1>5, <1>6, <1>7 DEF Next, Loop

-----------------------------------------------------------------------------
(* The theorems. *)

\* The inductive invariant of scheduling: a streak of failing Routes is
\* shorter than the leases of its claims.
THEOREM SchedulingInvariantHolds == Spec => []SchedulingInvariant
BY InitialScheduling, SchedulingPreserved, PTL DEF Spec

\* No Route that failed is taken again before one that can succeed has had its
\* pass, if the passes of all that never succeed fit into a lease.
THEOREM NoneEverFailsTwice == Spec => []NoneFailsTwice
<1>1. SchedulingInvariant => NoneFailsTwice
  BY AwakeMeansYoung DEF NoneFailsTwice
<1> QED BY <1>1, SchedulingInvariantHolds, PTL

LEMMA StepIsFair ==
    ASSUME SchedulingInvariant, [Next]_vars PROVE [Fair!Next]_Fair!vars
<1> USE DEF SchedulingInvariant, SchedulingTypeOK, Fair!Next, Fair!vars
<1>1. CASE Arrive
  <2>1. open' \ bad' \in {open \ bad, (open \ bad) \cup {arrived + 1}}
    BY <1>1 DEF Arrive
  <2> QED BY <1>1, <2>1 DEF Arrive, Fair!Arrive
<1>2. CASE PassEmpty
  <2>1. open \ bad = {}
    <3> SUFFICES ASSUME NEW r \in open \ bad PROVE FALSE
      OBVIOUS
    <3>1. r \in Route /\ r # taken
      BY <1>2, Constants DEF PassEmpty, Awake, Route
    <3>2. lease[r] = 0
      BY <3>1 DEF GoodRoutesWait
    <3> QED BY <1>2, <3>2 DEF PassEmpty, Eligible
  <2>2. Cardinality(streak') = 0
    BY <1>2, FS_EmptySet DEF PassEmpty
  <2> QED BY <1>2, <2>1, <2>2 DEF PassEmpty, Fair!Rest
<1>3. CASE \E r \in Route : Take(r)
  BY <1>3 DEF Take
<1>4. CASE PassCompletes
  <2>1. /\ taken \in open \ bad /\ (\A other \in open \ bad : taken <= other)
        /\ open' \ bad' = (open \ bad) \ {taken}
    BY <1>4 DEF PassCompletes, GoodRoutesWait
  <2>2. Cardinality(streak') = 0
    BY <1>4, FS_EmptySet DEF PassCompletes
  <2> QED BY <1>4, <2>1, <2>2 DEF PassCompletes, Fair!Serve
<1>5. CASE PassFails
  <2>1. /\ taken \notin streak /\ streak' = streak \cup {taken} /\ Failing = streak'
        /\ UNCHANGED <<arrived, open, bad>>
    BY <1>5, Constants DEF PassFails, Failing
  <2>2. Cardinality(streak') = Cardinality(streak) + 1
    BY <2>1, FailingBounded, FS_AddElement
  <2>3. Cardinality(streak) < MaxBad
    BY <2>1, <2>2, FailingBounded, Constants
  <2> QED BY <2>1, <2>2, <2>3 DEF Fair!Bypass
<1>6. CASE Tick
  BY <1>6 DEF Tick
<1>7. CASE UNCHANGED vars
  BY <1>7 DEF vars
<1> QED BY <1>1, <1>2, <1>3, <1>4, <1>5, <1>6, <1>7 DEF Next, Loop

\* Routes that can succeed are completed in the order of arrival, and at most
\* MaxBad passes in a row go to others: the loop implements FairQueue.
THEOREM SchedulingImplementsFairQueue == Spec => ImplementsFairQueue
<1>1. Init => Fair!Init
  BY FS_EmptySet DEF Init, Fair!Init
<1> QED
  BY <1>1, StepIsFair, SchedulingInvariantHolds, PTL
     DEF Spec, ImplementsFairQueue, Fair!Spec
=============================================================================
