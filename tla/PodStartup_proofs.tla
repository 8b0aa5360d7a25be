------------------------- MODULE PodStartup_proofs --------------------------
(***************************************************************************)
(* Theorems about PodStartup for any number of Pods and of statements in   *)
(* the migration: subscriptions stay bounded, the schema is whole, and     *)
(* start-up implements ServiceProvision.                                   *)
(***************************************************************************)
EXTENDS PodStartup, FiniteSetTheorems, TLAPS

\* The steps one process takes.
LEMMA StepCases ==
    ASSUME [Next]_vars
    PROVE  \/ \E p \in Pod : Proceed(p) \/ Dies(p) \/ ReplyLost(p)
           \/ UNCHANGED vars
BY DEF Next, Fault, Up

LEMMA StatementTypes ==
    ASSUME StartupTypeOK, NEW p \in Pod
    PROVE  /\ statement[p] \in 1 .. Statements
           /\ Statements \in Nat /\ Statements >= 1
           /\ 1 \in Object
           /\ statement[p] # Statements => statement[p] + 1 \in Object
BY StartupAssumption DEF StartupAssumption, StartupTypeOK, Object

LEMMA StartupTypePreserved ==
    ASSUME StartupTypeOK, [Next]_vars PROVE StartupTypeOK'
<1> USE DEF StartupTypeOK
<1>1. ASSUME NEW p \in Pod, Proceed(p) PROVE StartupTypeOK'
  <2> USE StatementTypes DEF settings, Stage, GoTo
  <2>1. CASE Start(p) BY <2>1 DEF Start
  <2>2. CASE RequestChallenge(p) BY <2>2 DEF RequestChallenge
  <2>3. CASE Enrol(p) BY <2>3 DEF Enrol
  <2>4. CASE EnrolRefused(p) BY <2>4 DEF EnrolRefused, Exit
  <2>5. CASE Look(p) BY <2>5 DEF Look
  <2>6. CASE Create(p) BY <2>6 DEF Create
  <2>7. CASE CreateRefused(p) BY <2>7 DEF CreateRefused, Exit
  <2>8. CASE Connect(p) BY <2>8 DEF Connect
  <2>9. CASE CheckObject(p) BY <2>9 DEF CheckObject, NextStatement
  <2>10. CASE InsertObject(p)
    <3>1. creating' \in [Pod -> SUBSET Object]
      BY <2>10 DEF InsertObject, Exit
    <3>2. statement' \in [Pod -> Object] /\ stage' \in [Pod -> Stage]
      BY <2>10 DEF InsertObject, Exit, NextStatement
    <3> QED BY <2>10, <3>1, <3>2 DEF InsertObject
  <2>11. CASE CommitMigration(p) BY <2>11 DEF CommitMigration
  <2> QED
    BY <1>1, <2>1, <2>2, <2>3, <2>4, <2>5, <2>6, <2>7, <2>8, <2>9, <2>10, <2>11
       DEF Proceed
<1>2. ASSUME NEW p \in Pod, Dies(p) \/ ReplyLost(p) PROVE StartupTypeOK'
  <2>1. Exit(p) /\ UNCHANGED settings
    BY <1>2 DEF Dies, ReplyLost, settings
  <2>2. /\ stage' \in [Pod -> Stage] /\ statement' \in [Pod -> Object]
        /\ creating' \in [Pod -> SUBSET Object]
    BY <2>1, StatementTypes DEF Exit, GoTo, Stage
  <2>3. subscriptions' \in Nat /\ schema' \subseteq Object /\ spent' \in BOOLEAN
    BY <1>2 DEF Dies, ReplyLost
  <2> QED BY <2>1, <2>2, <2>3 DEF settings
<1>3. CASE UNCHANGED vars BY <1>3 DEF vars, settings
<1> QED BY <1>1, <1>2, <1>3, StepCases

LEMMA StartupTypesInit == Init => StartupTypeOK
<1>1. 1 \in Object
  BY StartupAssumption DEF StartupAssumption, Object
<1>2. SUFFICES ASSUME Init PROVE StartupTypeOK
  OBVIOUS
<1>3. stage \in [Pod -> Stage] /\ statement \in [Pod -> Object]
  BY <1>1, <1>2 DEF Init, Stage
<1>4. creating \in [Pod -> SUBSET Object] /\ schema \subseteq Object
  BY <1>2 DEF Init
<1> QED BY <1>2, <1>3, <1>4 DEF Init, StartupTypeOK

\* Type correctness of start-up.
THEOREM StartupTypes == Spec => []StartupTypeOK
BY StartupTypesInit, StartupTypePreserved, PTL DEF Spec

-----------------------------------------------------------------------------
(* The migration. *)

MigrationInvariant ==
    /\ SchemaIsWhole
    /\ BatchInOrder
    /\ ObjectsAreNew
    /\ Serving # {} => schema = Object

\* What a step of another process leaves alone, and what one of its own does
\* to the transaction.
LEMMA MigrationFrame ==
    ASSUME StartupTypeOK, NEW p \in Pod, Proceed(p) \/ Dies(p) \/ ReplyLost(p)
    PROVE  \A q \in Pod \ {p} : /\ stage'[q] = stage[q]
                               /\ statement'[q] = statement[q]
                               /\ creating'[q] = creating[q]
<1> USE DEF StartupTypeOK, GoTo, Exit, NextStatement, settings
<1>1. CASE Dies(p) \/ ReplyLost(p)
  BY <1>1 DEF Dies, ReplyLost
<1>2. CASE Start(p) \/ RequestChallenge(p) \/ Enrol(p) \/ EnrolRefused(p) \/ Look(p)
  BY <1>2 DEF Start, RequestChallenge, Enrol, EnrolRefused, Look
<1>3. CASE Create(p) \/ CreateRefused(p) \/ Connect(p) \/ CheckObject(p)
  BY <1>3 DEF Create, CreateRefused, Connect, CheckObject
<1>4. CASE InsertObject(p)
  BY <1>4 DEF InsertObject
<1>5. CASE CommitMigration(p)
  BY <1>5 DEF CommitMigration
<1> QED BY <1>1, <1>2, <1>3, <1>4, <1>5 DEF Proceed

\* The objects a process has behind it.
Passed(p) == IF stage[p] = "commit" THEN Object ELSE 1 .. statement[p] - 1

LEMMA BatchOf ==
    ASSUME MigrationInvariant, NEW p \in Pod
    PROVE  /\ p \notin Migrating => creating[p] = {}
           /\ p \in Migrating => \/ creating[p] = Passed(p)
                                 \/ creating[p] = {} /\ Passed(p) \cap Object \subseteq schema
           /\ stage[p] = "commit" => creating[p] \in {{}, Object}
<1>1. /\ p \notin Migrating => creating[p] = {}
      /\ p \in Migrating => \/ creating[p] = Passed(p)
                            \/ creating[p] = {} /\ Passed(p) \cap Object \subseteq schema
  BY DEF MigrationInvariant, BatchInOrder, Passed
<1> QED BY <1>1 DEF Passed, Migrating

\* A process in the middle of the batch that has skipped an object skips all.
LEMMA SkippingMeansWhole ==
    ASSUME StartupTypeOK, MigrationInvariant, NEW p \in Pod,
           stage[p] \in {"check", "insert"}, statement[p] \in schema
    PROVE  schema = Object /\ creating[p] = {}
<1>1. schema = Object
  BY DEF MigrationInvariant, SchemaIsWhole
<1>2. creating[p] \subseteq Object /\ creating[p] \cap schema = {}
  BY DEF StartupTypeOK, MigrationInvariant, ObjectsAreNew
<1> QED BY <1>1, <1>2

LEMMA NextStatementPasses ==
    ASSUME StartupTypeOK, NEW p \in Pod, stage[p] \in {"check", "insert"}, NextStatement(p)
    PROVE  /\ stage'[p] \in {"check", "commit"}
           /\ stage'[p] = "commit" => statement'[p] = Statements
           /\ Passed(p)' = Passed(p) \cup {statement[p]}
<1> USE StatementTypes DEF StartupTypeOK, NextStatement, GoTo
<1>1. CASE statement[p] = Statements
  <2>1. stage'[p] = "commit" /\ statement'[p] = Statements
    BY <1>1
  <2>2. Passed(p) = 1 .. Statements - 1 /\ Passed(p)' = Object
    BY <1>1, <2>1 DEF Passed
  <2>3. Object = (1 .. Statements - 1) \cup {Statements}
    BY DEF Object
  <2> QED BY <1>1, <2>1, <2>2, <2>3
<1>2. CASE statement[p] # Statements
  <2>1. stage'[p] = "check" /\ statement'[p] = statement[p] + 1
    BY <1>2
  <2>2. Passed(p) = 1 .. statement[p] - 1 /\ Passed(p)' = 1 .. statement[p]
    BY <2>1 DEF Passed
  <2>3. 1 .. statement[p] = (1 .. statement[p] - 1) \cup {statement[p]}
    OBVIOUS
  <2> QED BY <2>1, <2>2, <2>3
<1> QED BY <1>1, <1>2

\* Every step but the end of a batch leaves the schema alone, so it is enough
\* to look at the process that takes it.
LEMMA SameSchema ==
    ASSUME StartupTypeOK, MigrationInvariant, NEW p \in Pod,
           \A q \in Pod \ {p} : /\ stage'[q] = stage[q]
                                /\ statement'[q] = statement[q]
                                /\ creating'[q] = creating[q],
           schema' = schema,
           stage'[p] = "serve" => stage[p] = "serve",
           p \notin Migrating' => creating'[p] = {},
           p \notin Migrating' \cup Serving' => statement'[p] = 1,
           stage'[p] = "commit" => statement'[p] = Statements,
           p \in Migrating' => \/ creating'[p] = Passed(p)'
                               \/ creating'[p] = {} /\ Passed(p)' \cap Object \subseteq schema,
           creating'[p] \cap schema = {},
           \A q \in Pod \ {p} : creating'[p] \cap creating[q] = {}
    PROVE  MigrationInvariant'
<1>1. SchemaIsWhole'
  BY DEF MigrationInvariant, SchemaIsWhole
<1>2. BatchInOrder'
  BY DEF MigrationInvariant, BatchInOrder, Passed, Migrating, Serving
<1>3. ObjectsAreNew'
  BY DEF MigrationInvariant, ObjectsAreNew
<1>4. Serving' # {} => schema' = Object
  BY DEF MigrationInvariant, Serving
<1> QED BY <1>1, <1>2, <1>3, <1>4 DEF MigrationInvariant

\* The end of a batch leaves the schema whole and no open transaction with an
\* object in its hands.
LEMMA BatchEnds ==
    ASSUME StartupTypeOK, StartupTypeOK', MigrationInvariant, NEW p \in Pod,
           stage[p] = "commit",
           \A q \in Pod \ {p} : /\ stage'[q] = stage[q]
                                /\ statement'[q] = statement[q]
                                /\ creating'[q] = creating[q],
           schema' = schema \cup creating[p],
           \/ stage'[p] = "serve"
           \/ stage'[p] = "down" /\ statement'[p] = 1,
           creating'[p] = {}
    PROVE  MigrationInvariant'
<1>1. schema' = Object
  BY BatchOf DEF Migrating, Passed, StartupTypeOK
<1>2. \A q \in Pod : creating'[q] = {}
  <2> SUFFICES ASSUME NEW q \in Pod \ {p} PROVE creating[q] = {}
    OBVIOUS
  <2>1. /\ creating[q] \cap schema = {} /\ creating[q] \cap creating[p] = {}
        /\ creating[q] \subseteq Object
    BY DEF MigrationInvariant, ObjectsAreNew, StartupTypeOK
  <2> QED BY <1>1, <2>1
<1>3. BatchInOrder'
  <2> SUFFICES ASSUME NEW q \in Pod
               PROVE  /\ q \notin Migrating' \cup Serving' => statement'[q] = 1
                      /\ stage'[q] = "commit" => statement'[q] = Statements
    BY <1>1, <1>2 DEF BatchInOrder
  <2>1. CASE q = p
    BY <2>1 DEF Serving
  <2>2. CASE q # p
    BY <2>2 DEF MigrationInvariant, BatchInOrder, Migrating, Serving
  <2> QED BY <2>1, <2>2
<1> QED
  BY <1>1, <1>2, <1>3 DEF MigrationInvariant, SchemaIsWhole, ObjectsAreNew

LEMMA MigrationPreserved ==
    ASSUME StartupTypeOK, StartupTypeOK', MigrationInvariant, [Next]_vars
    PROVE  MigrationInvariant'
<1>1. ASSUME NEW p \in Pod, Proceed(p) \/ Dies(p) \/ ReplyLost(p)
      PROVE  MigrationInvariant'
  <2>f. \A q \in Pod \ {p} : /\ stage'[q] = stage[q]
                             /\ statement'[q] = statement[q]
                             /\ creating'[q] = creating[q]
    BY <1>1, MigrationFrame
  <2>c. /\ creating[p] \cap schema = {}
        /\ \A q \in Pod \ {p} : creating[p] \cap creating[q] = {}
    BY DEF MigrationInvariant, ObjectsAreNew
  <2>b. p \notin Migrating \cup Serving => creating[p] = {} /\ statement[p] = 1
    BY DEF MigrationInvariant, BatchInOrder
  <2> USE DEF StartupTypeOK, GoTo
  <2>1. CASE \/ Start(p) \/ RequestChallenge(p) \/ Enrol(p) \/ Look(p) \/ Create(p)
    <3>1. /\ stage[p] \in {"down", "challenge", "enrol", "look", "create"}
          /\ stage'[p] \in {"challenge", "enrol", "look", "create", "connect"}
          /\ UNCHANGED <<statement, creating, schema>>
      BY <2>1 DEF Start, RequestChallenge, Enrol, Look, Create
    <3>2. p \notin Migrating \cup Serving /\ p \notin Migrating'
      BY <3>1 DEF Migrating, Serving
    <3> QED BY <2>f, <2>b, <3>1, <3>2, SameSchema
  <2>2. CASE Connect(p)
    <3>1. /\ stage[p] = "connect" /\ stage'[p] = "check"
          /\ UNCHANGED <<statement, creating, schema>>
      BY <2>2 DEF Connect
    <3>2. p \notin Migrating \cup Serving /\ p \in Migrating'
      BY <3>1 DEF Migrating, Serving
    <3>3. Passed(p)' = {}
      BY <2>b, <3>1, <3>2 DEF Passed
    <3> QED BY <2>f, <2>b, <3>1, <3>2, <3>3, SameSchema
  <2>3. CASE CheckObject(p) /\ statement[p] \in schema
    <3>1. /\ stage[p] = "check" /\ NextStatement(p)
          /\ UNCHANGED <<creating, schema>>
      BY <2>3 DEF CheckObject
    <3>2. schema = Object /\ creating[p] = {}
      BY <2>3, <3>1, SkippingMeansWhole
    <3>3. /\ stage'[p] \in {"check", "commit"}
          /\ stage'[p] = "commit" => statement'[p] = Statements
      BY <3>1, NextStatementPasses
    <3>4. p \in Migrating'
      BY <3>3 DEF Migrating
    <3> QED BY <2>f, <3>1, <3>2, <3>3, <3>4, SameSchema
  <2>4. CASE CheckObject(p) /\ statement[p] \notin schema
    <3>1. /\ stage[p] = "check" /\ stage'[p] = "insert"
          /\ UNCHANGED <<statement, creating, schema>>
      BY <2>4 DEF CheckObject
    <3>2. p \in Migrating /\ p \in Migrating' /\ Passed(p)' = Passed(p)
      BY <3>1 DEF Migrating, Passed
    <3> QED BY <2>f, <2>c, <3>1, <3>2, BatchOf, SameSchema
  <2>5. CASE InsertObject(p) /\ statement[p] \notin schema
    <3>1. /\ stage[p] = "insert" /\ NextStatement(p) /\ ~HeldByAnother(p)
          /\ creating'[p] = creating[p] \cup {statement[p]}
          /\ schema' = schema
      BY <2>5 DEF InsertObject
    <3>2. schema = {}
      BY <2>5, StatementTypes DEF MigrationInvariant, SchemaIsWhole, Object
    <3>3. creating[p] = Passed(p)
      <4>1. Passed(p) \subseteq Object
        BY <3>1, StatementTypes DEF Passed, Object
      <4> QED BY <3>1, <3>2, <4>1, BatchOf DEF Migrating
    <3>4. /\ stage'[p] \in {"check", "commit"}
          /\ stage'[p] = "commit" => statement'[p] = Statements
          /\ creating'[p] = Passed(p)'
      BY <3>1, <3>3, NextStatementPasses
    <3>5. \A q \in Pod \ {p} : creating'[p] \cap creating[q] = {}
      BY <2>c, <3>1 DEF HeldByAnother
    <3>6. p \in Migrating'
      BY <3>4 DEF Migrating
    <3> QED BY <2>f, <3>1, <3>2, <3>4, <3>5, <3>6, SameSchema
  <2>6. CASE CommitMigration(p) \/ (ReplyLost(p) /\ stage[p] = "commit")
    <3>1. /\ stage[p] = "commit" /\ schema' = schema \cup creating[p]
          /\ stage'[p] = "serve" \/ (stage'[p] = "down" /\ statement'[p] = 1)
          /\ creating'[p] = {}
      BY <2>6 DEF CommitMigration, ReplyLost, Exit
    <3> QED BY <2>f, <3>1, BatchEnds
  <2>7. CASE \/ EnrolRefused(p) \/ CreateRefused(p) \/ Dies(p)
             \/ (InsertObject(p) /\ statement[p] \in schema)
             \/ (ReplyLost(p) /\ stage[p] # "commit")
    <3>1. Exit(p) /\ schema' = schema
      BY <2>7 DEF EnrolRefused, CreateRefused, Dies, InsertObject, ReplyLost
    <3>2. stage'[p] = "down" /\ statement'[p] = 1 /\ creating'[p] = {}
      BY <3>1 DEF Exit
    <3>3. p \notin Migrating'
      BY <3>2 DEF Migrating
    <3> QED BY <2>f, <3>1, <3>2, <3>3, SameSchema
  <2> QED BY <1>1, <2>1, <2>2, <2>3, <2>4, <2>5, <2>6, <2>7 DEF Proceed
<1>2. CASE UNCHANGED vars
  BY <1>2 DEF vars, MigrationInvariant, SchemaIsWhole, BatchInOrder, ObjectsAreNew,
     Migrating, Serving
<1> QED BY <1>1, <1>2, StepCases

-----------------------------------------------------------------------------
(* The subscription. *)

Subscribed == {"connect", "check", "insert", "commit", "serve"}

SubscriptionInvariant ==
    /\ \A p \in Pod : stage[p] \in Subscribed => subscriptions > 0
    /\ SubscriptionsBounded
    /\ subscriptions > 0 => subscriptions + Cardinality(Looking) <= Cardinality(Pod)

LEMMA LookingFinite ==
    /\ IsFiniteSet(Looking)
    /\ Cardinality(Looking) \in Nat /\ Cardinality(Pod) \in Nat
    /\ Cardinality(Looking) <= Cardinality(Pod)
<1>1. IsFiniteSet(Pod) /\ Looking \subseteq Pod
  BY StartupAssumption DEF StartupAssumption, Looking
<1> QED BY <1>1, FS_Subset, FS_CardinalityType

LEMMA LookingFinitePrimed ==
    /\ IsFiniteSet(Looking')
    /\ Cardinality(Looking') \in Nat
    /\ Cardinality(Looking') <= Cardinality(Pod)
<1>1. IsFiniteSet(Pod) /\ Looking' \subseteq Pod
  BY StartupAssumption DEF StartupAssumption, Looking
<1> QED BY <1>1, FS_Subset, FS_CardinalityType

\* A step that adds no subscription and sends nobody to create one, unless
\* there is none.
LEMMA NothingSubscribed ==
    ASSUME StartupTypeOK, SubscriptionInvariant, NEW p \in Pod,
           \A q \in Pod \ {p} : stage'[q] = stage[q],
           subscriptions' = subscriptions, unique' = unique,
           stage'[p] \in Subscribed => subscriptions > 0,
           stage'[p] = "create" => subscriptions = 0
    PROVE  SubscriptionInvariant'
<1>1. \A q \in Pod : stage'[q] \in Subscribed => subscriptions' > 0
  BY DEF SubscriptionInvariant
<1>2. SubscriptionsBounded'
  BY DEF SubscriptionInvariant, SubscriptionsBounded
<1>3. ASSUME subscriptions > 0
      PROVE  subscriptions + Cardinality(Looking') <= Cardinality(Pod)
  <2>1. Looking' \subseteq Looking
    BY <1>3 DEF Looking
  <2>2. Cardinality(Looking') <= Cardinality(Looking)
    BY <2>1, LookingFinite, FS_Subset
  <2> QED
    BY <1>3, <2>2, LookingFinite, LookingFinitePrimed
       DEF SubscriptionInvariant, StartupTypeOK
<1> QED BY <1>1, <1>2, <1>3 DEF SubscriptionInvariant

\* A creation takes its process out of those that have looked.
LEMMA OneSubscribed ==
    ASSUME StartupTypeOK, SubscriptionInvariant, NEW p \in Pod,
           stage[p] = "create", stage'[p] # "create",
           \A q \in Pod \ {p} : stage'[q] = stage[q],
           SubscriptionAccepted,
           subscriptions' = subscriptions + 1, unique' = unique
    PROVE  SubscriptionInvariant'
<1>1. p \in Looking /\ Looking' = Looking \ {p}
  BY DEF Looking
<1>2. Cardinality(Looking') = Cardinality(Looking) - 1
  BY <1>1, LookingFinite, FS_RemoveElement
<1>3. subscriptions' > 0 /\ subscriptions' + Cardinality(Looking') <= Cardinality(Pod)
  BY <1>2, LookingFinite, LookingFinitePrimed DEF SubscriptionInvariant, StartupTypeOK
<1>4. SubscriptionsBounded'
  BY <1>3, LookingFinitePrimed, LookingFinite
     DEF SubscriptionsBounded, SubscriptionAccepted, StartupTypeOK
<1> QED BY <1>3, <1>4 DEF SubscriptionInvariant

LEMMA SubscriptionPreserved ==
    ASSUME StartupTypeOK, SubscriptionInvariant, [Next]_vars
    PROVE  SubscriptionInvariant'
<1>1. ASSUME NEW p \in Pod, Proceed(p) \/ Dies(p) \/ ReplyLost(p)
      PROVE  SubscriptionInvariant'
  <2>f. \A q \in Pod \ {p} : stage'[q] = stage[q]
    BY <1>1, MigrationFrame
  <2>s. stage[p] \in Subscribed => subscriptions > 0
    BY DEF SubscriptionInvariant
  <2> USE DEF StartupTypeOK, GoTo, settings
  <2>1. CASE Start(p) \/ RequestChallenge(p) \/ Enrol(p) \/ Look(p)
    <3>1. /\ subscriptions' = subscriptions /\ unique' = unique
          /\ \/ stage'[p] \in {"challenge", "enrol", "look"}
             \/ stage'[p] = "connect" /\ subscriptions > 0
             \/ stage'[p] = "create" /\ subscriptions = 0
      BY <2>1 DEF Start, RequestChallenge, Enrol, Look
    <3> QED BY <2>f, <3>1, NothingSubscribed DEF Subscribed
  <2>2. CASE Create(p) \/ (ReplyLost(p) /\ stage[p] = "create")
    <3>1. /\ stage[p] = "create" /\ stage'[p] # "create" /\ SubscriptionAccepted
          /\ subscriptions' = subscriptions + 1 /\ unique' = unique
      BY <2>2 DEF Create, ReplyLost, Exit
    <3> QED BY <2>f, <3>1, OneSubscribed
  <2>3. CASE Connect(p) \/ CheckObject(p) \/ CommitMigration(p)
    <3>1. /\ stage[p] \in Subscribed
          /\ stage'[p] \in Subscribed
          /\ subscriptions' = subscriptions /\ unique' = unique
      BY <2>3 DEF Connect, CheckObject, CommitMigration, NextStatement, Subscribed
    <3> QED BY <2>f, <2>s, <3>1, NothingSubscribed DEF Subscribed
  <2>4. CASE InsertObject(p)
    <3>1. /\ stage[p] \in Subscribed
          /\ stage'[p] \in Subscribed \cup {"down"}
          /\ subscriptions' = subscriptions /\ unique' = unique
      BY <2>4 DEF InsertObject, NextStatement, Exit, Subscribed
    <3> QED BY <2>f, <2>s, <3>1, NothingSubscribed DEF Subscribed
  <2>5. CASE \/ EnrolRefused(p) \/ CreateRefused(p) \/ Dies(p)
             \/ (ReplyLost(p) /\ stage[p] # "create")
    <3>1. Exit(p) /\ subscriptions' = subscriptions /\ unique' = unique
      BY <2>5 DEF EnrolRefused, CreateRefused, Dies, ReplyLost
    <3>2. stage'[p] = "down"
      BY <3>1 DEF Exit
    <3> QED BY <2>f, <3>1, <3>2, NothingSubscribed DEF Subscribed
  <2> QED BY <1>1, <2>1, <2>2, <2>3, <2>4, <2>5 DEF Proceed
<1>2. CASE UNCHANGED vars
  BY <1>2 DEF vars, settings, SubscriptionInvariant, SubscriptionsBounded, Looking
<1> QED BY <1>1, <1>2, StepCases

-----------------------------------------------------------------------------
(* The theorems. *)

LEMMA InvariantParts ==
    StartupInvariant <=> StartupTypeOK /\ MigrationInvariant /\ SubscriptionInvariant
BY DEF StartupInvariant, MigrationInvariant, SubscriptionInvariant, Subscribed

\* The inductive invariant of start-up: what a process has enrolled, looked
\* for and created agrees with what the kernel and the database hold.
THEOREM StartupInvariantHolds == Spec => []StartupInvariant
<1>1. Init => StartupTypeOK
  BY StartupTypesInit
<1>2. Init => MigrationInvariant /\ SubscriptionInvariant
  BY LookingFinite
     DEF Init, MigrationInvariant, SchemaIsWhole, BatchInOrder, ObjectsAreNew, Migrating,
         Serving, SubscriptionInvariant, SubscriptionsBounded, Subscribed
<1>3. StartupInvariant /\ [Next]_vars => StartupInvariant'
  <2>1. SUFFICES ASSUME StartupInvariant, [Next]_vars PROVE StartupInvariant'
    OBVIOUS
  <2>2. StartupTypeOK /\ MigrationInvariant /\ SubscriptionInvariant
    BY <2>1, InvariantParts
  <2>3. StartupTypeOK'
    BY <2>1, <2>2, StartupTypePreserved
  <2>4. MigrationInvariant' /\ SubscriptionInvariant'
    BY <2>1, <2>2, <2>3, MigrationPreserved, SubscriptionPreserved
  <2> QED
    BY <2>3, <2>4
       DEF StartupInvariant, MigrationInvariant, SubscriptionInvariant, Subscribed
<1> QED BY <1>1, <1>2, <1>3, InvariantParts, PTL DEF Spec

\* Two Pods that migrate at once, or a commit whose reply is lost, never leave
\* some of the tables and indices without the others.
THEOREM SchemaIsAlwaysWhole == Spec => []SchemaIsWhole
BY StartupInvariantHolds, PTL DEF StartupInvariant

\* The race between looking for the subscription and creating it leaves at
\* most one subscription a Pod, however often each Pod restarts.
THEOREM SubscriptionsAlwaysBounded == Spec => []SubscriptionsBounded
BY StartupInvariantHolds, PTL DEF StartupInvariant

\* Once there is a subscription and every start that looked before it is over,
\* no process ever creates another.
THEOREM RestartsNeverAdd == Spec => RestartsAddNone
<1> DEFINE Settled == subscriptions > 0 /\ Looking = {}
<1>1. StartupTypeOK /\ Settled /\ [Next]_vars => Settled'
  <2> SUFFICES ASSUME StartupTypeOK, Settled, [Next]_vars PROVE Settled'
    OBVIOUS
  <2>1. ASSUME NEW p \in Pod, Proceed(p) \/ Dies(p) \/ ReplyLost(p) PROVE Settled'
    <3>1. stage[p] # "create"
      BY DEF Looking
    <3>2. subscriptions' = subscriptions
      BY <2>1, <3>1
         DEF Proceed, Start, RequestChallenge, Enrol, EnrolRefused, Look, Create,
             CreateRefused, Connect, CheckObject, InsertObject, CommitMigration, Dies,
             ReplyLost
    <3>3. stage'[p] # "create"
      BY <2>1, <3>1
         DEF StartupTypeOK, Proceed, Start, RequestChallenge, Enrol, EnrolRefused, Look,
             Create, CreateRefused, Connect, CheckObject, InsertObject, CommitMigration,
             Dies, ReplyLost, NextStatement, Exit, GoTo
    <3> QED BY <2>1, <3>2, <3>3, MigrationFrame DEF Looking
  <2>2. CASE UNCHANGED vars
    BY <2>2 DEF vars, Looking
  <2> QED BY <2>1, <2>2, StepCases
<1> QED BY <1>1, StartupTypes, PTL DEF Spec, RestartsAddNone

\* An injected challenge lasts for the process that enrols with it and no
\* other: once that one is gone, every start of every Pod is refused.
THEOREM InjectedServesOnceOnly == Spec => InjectedServesOnce
<1> DEFINE Over == injected /\ spent /\ Enrolled = {}
<1>1. StartupTypeOK /\ Over /\ [Next]_vars => Over'
  <2> SUFFICES ASSUME StartupTypeOK, Over, [Next]_vars PROVE Over'
    OBVIOUS
  <2> USE DEF settings
  <2>1. ASSUME NEW p \in Pod, Proceed(p) \/ Dies(p) \/ ReplyLost(p) PROVE Over'
    <3>1. stage[p] \in {"down", "challenge", "enrol"} /\ ~ChallengeValid
      BY DEF Enrolled, ChallengeValid
    <3>2. \/ Start(p) \/ RequestChallenge(p) \/ EnrolRefused(p) \/ Dies(p)
      BY <2>1, <3>1
         DEF Proceed, Enrol, Look, Create, CreateRefused, Connect, CheckObject,
             InsertObject, CommitMigration, ReplyLost
    <3>3. /\ injected' /\ spent'
          /\ stage'[p] \in {"down", "challenge", "enrol"}
      BY <3>1, <3>2
         DEF Start, RequestChallenge, EnrolRefused, Dies, Exit, GoTo, StartupTypeOK
    <3>4. \A q \in Pod \ {p} : stage'[q] = stage[q]
      BY <2>1, MigrationFrame
    <3> QED BY <3>3, <3>4 DEF Enrolled
  <2>2. CASE UNCHANGED vars
    BY <2>2 DEF vars, Enrolled
  <2> QED BY <2>1, <2>2, StepCases
<1>2. Over => Serving = {}
  BY DEF Enrolled, Serving
<1> QED BY <1>1, <1>2, StartupTypes, PTL DEF Spec, InjectedServesOnce

-----------------------------------------------------------------------------
(* The refinement. *)

\* Who serves after a step of one process.
LEMMA ServingChange ==
    ASSUME StartupTypeOK, NEW p \in Pod, Proceed(p) \/ Dies(p) \/ ReplyLost(p)
    PROVE  /\ stage'[p] = "serve" => Serving' = Serving \cup {p}
           /\ stage'[p] # "serve" => Serving' = Serving \ {p}
BY MigrationFrame DEF Serving

LEMMA StepRefines ==
    ASSUME StartupTypeOK, MigrationInvariant, SubscriptionInvariant,
           NEW p \in Pod, Proceed(p) \/ Dies(p) \/ ReplyLost(p)
    PROVE  [Provision!Next]_Provision!vars
<1> USE DEF StartupTypeOK, GoTo, Provision!vars, Provision!Next
<1>1. CASE Create(p) \/ (ReplyLost(p) /\ stage[p] = "create")
  <2>1. /\ stage[p] = "create" /\ stage'[p] # "serve"
        /\ subscriptions' = subscriptions + 1 /\ schema' = schema
    BY <1>1 DEF Create, ReplyLost, Exit
  <2>2. Serving' = Serving
    BY <2>1, ServingChange DEF Serving
  <2>3. subscriptions' > 0
    BY <2>1
  <2> QED BY <2>1, <2>2, <2>3 DEF Provision!Subscribe
<1>2. CASE CommitMigration(p) \/ (ReplyLost(p) /\ stage[p] = "commit")
  <2>1. /\ stage[p] = "commit" /\ schema' = schema \cup creating[p]
        /\ subscriptions' = subscriptions
        /\ stage'[p] = "serve" \/ (ReplyLost(p) /\ stage'[p] = "down")
    BY <1>2 DEF CommitMigration, ReplyLost, Exit
  <2>2. schema' = Object
    BY <2>1, BatchOf DEF Migrating, Passed
  <2>3. subscriptions > 0 /\ subscriptions' > 0
    BY <2>1 DEF SubscriptionInvariant, Subscribed
  <2>4. Serving' = Serving \cup {p} \/ Serving' = Serving
    BY <2>1, ServingChange DEF Serving
  <2>5. CASE schema = Object
    BY <2>2, <2>3, <2>4, <2>5 DEF Provision!Serve
  <2>6. CASE schema # Object
    BY <2>2, <2>3, <2>4, <2>6 DEF Provision!Migrate
  <2> QED BY <2>5, <2>6
<1>3. CASE Dies(p) /\ stage[p] = "serve"
  <2>1. /\ stage'[p] = "down" /\ subscriptions' = subscriptions /\ schema' = schema
    BY <1>3 DEF Dies, Exit
  <2>2. p \in Serving /\ Serving' = Serving \ {p}
    BY <1>3, <2>1, ServingChange DEF Serving
  <2> QED BY <2>1, <2>2 DEF Provision!Stop
<1>4. CASE /\ stage[p] # "serve" /\ stage'[p] # "serve"
           /\ subscriptions' = subscriptions /\ schema' = schema
  <2>1. Serving' = Serving
    BY <1>4, ServingChange DEF Serving
  <2> QED BY <1>4, <2>1
<1>5. CASE \/ Start(p) \/ RequestChallenge(p) \/ Enrol(p) \/ EnrolRefused(p)
           \/ Look(p) \/ CreateRefused(p) \/ Connect(p)
  BY <1>4, <1>5
     DEF Start, RequestChallenge, Enrol, EnrolRefused, Look, CreateRefused, Connect, Exit
<1>6. CASE CheckObject(p) \/ InsertObject(p)
  BY <1>4, <1>6 DEF CheckObject, InsertObject, NextStatement, Exit
<1>7. CASE \/ (Dies(p) /\ stage[p] # "serve")
           \/ (ReplyLost(p) /\ stage[p] \notin {"create", "commit"})
  BY <1>4, <1>7 DEF Dies, ReplyLost, Exit
<1> QED BY <1>1, <1>2, <1>3, <1>5, <1>6, <1>7 DEF Proceed

\* All Pods together subscribe once and for all, then migrate once and for
\* all, and serve only after both: start-up implements ServiceProvision.
THEOREM StartupImplementsProvision == Spec => ImplementsProvision
<1>1. Init => Provision!Init
  BY StartupAssumption DEF StartupAssumption, Init, Provision!Init, Serving, Object
<1>2. StartupInvariant /\ [Next]_vars => [Provision!Next]_Provision!vars
  <2> SUFFICES ASSUME StartupInvariant, [Next]_vars
               PROVE  [Provision!Next]_Provision!vars
    OBVIOUS
  <2>1. CASE UNCHANGED vars
    BY <2>1 DEF vars, Provision!vars, Serving
  <2>2. CASE \E p \in Pod : Proceed(p) \/ Dies(p) \/ ReplyLost(p)
    BY <2>2, InvariantParts, StepRefines
  <2> QED BY <2>1, <2>2, StepCases
<1> QED
  BY <1>1, <1>2, StartupInvariantHolds, PTL DEF Spec, ImplementsProvision, Provision!Spec
=============================================================================
