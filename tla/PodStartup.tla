----------------------------- MODULE PodStartup -----------------------------
(***************************************************************************)
(* Config::from_env in several Pods at once: each process asks for an      *)
(* enrolment challenge (or takes the injected one), enrols, looks for the  *)
(* service's subscription, creates it if there is none, connects to the    *)
(* database and migrates it.  Any error ends the process, and the kubelet  *)
(* starts another one in its Pod.                                          *)
(*                                                                         *)
(* The migration is one simple query of several CREATE ... IF NOT EXISTS,  *)
(* which PostgreSQL runs as one transaction: each statement looks for its  *)
(* object first and inserts it into the catalogue afterwards, waiting for  *)
(* an open transaction that has inserted it and failing if that one        *)
(* commits.                                                                *)
(*                                                                         *)
(* The kernel is external.  It takes each challenge once; whether it       *)
(* accepts a second subscription to the same action is not said in this    *)
(* repository, so both answers are modelled.                               *)
(***************************************************************************)
EXTENDS Naturals, FiniteSets

CONSTANTS
    Pod,          \* Pods of the Deployment, those of a rolling update included
    Statements    \* the CREATE statements of 0001_init.sql: 4

ASSUME StartupAssumption == IsFiniteSet(Pod) /\ Statements \in Nat \ {0}

Object == 1 .. Statements

VARIABLES
    stage,           \* stage[p]: the next call of p's process
    statement,       \* statement[p]: the statement of the migration p is at
    creating,        \* creating[p]: objects p's open transaction has inserted
    subscriptions,   \* active subscriptions of the service at the kernel
    schema,          \* the committed objects of the database
    spent,           \* the injected challenge has enrolled a process
    injected,        \* ENROLLMENT_CHALLENGE is set
    unique           \* the kernel refuses a second subscription

settings == <<injected, unique>>
vars == <<stage, statement, creating, subscriptions, schema, spent, settings>>

Stage == {"down", "challenge", "enrol", "look", "create", "connect",
          "check", "insert", "commit", "serve"}

Init ==
    /\ stage = [p \in Pod |-> "down"]
    /\ statement = [p \in Pod |-> 1]
    /\ creating = [p \in Pod |-> {}]
    /\ subscriptions = 0
    /\ schema = {}
    /\ spent = FALSE
    /\ injected \in BOOLEAN
    /\ unique \in BOOLEAN

GoTo(p, next) == stage' = [stage EXCEPT ![p] = next]

\* Mutant: the transaction of a failed start is left open.
ExitWithoutRollback(p) ==
    /\ GoTo(p, "down")
    /\ statement' = [statement EXCEPT ![p] = 1]
    /\ UNCHANGED creating

\* main prints the error and exits; an open transaction is rolled back.
Exit(p) ==
    /\ GoTo(p, "down")
    /\ statement' = [statement EXCEPT ![p] = 1]
    /\ creating' = [creating EXCEPT ![p] = {}]

---------------------------------------------------------------------------
(* The kernel's part of start-up. *)

Start(p) ==
    /\ stage[p] = "down"
    /\ GoTo(p, IF injected THEN "enrol" ELSE "challenge")
    /\ UNCHANGED <<statement, creating, subscriptions, schema, spent, settings>>

\* A challenge of the process's own, which nobody else will present.
RequestChallenge(p) ==
    /\ stage[p] = "challenge"
    /\ GoTo(p, "enrol")
    /\ UNCHANGED <<statement, creating, subscriptions, schema, spent, settings>>

ChallengeValid == injected => ~spent

\* Mutant: a refusal is taken for success.
EnrolAnyAnswer(p) ==
    /\ stage[p] = "enrol"
    /\ GoTo(p, "look")
    /\ spent' = injected
    /\ UNCHANGED <<statement, creating, subscriptions, schema, settings>>

Enrol(p) ==
    /\ stage[p] = "enrol"
    /\ ChallengeValid
    /\ GoTo(p, "look")
    /\ spent' = injected
    /\ UNCHANGED <<statement, creating, subscriptions, schema, settings>>

EnrolRefused(p) ==
    /\ stage[p] = "enrol"
    /\ ~ChallengeValid
    /\ Exit(p)
    /\ UNCHANGED <<subscriptions, schema, spent, settings>>

\* Mutant: the subscription is created without being looked for.
LookNowhere(p) ==
    /\ stage[p] = "look"
    /\ GoTo(p, "create")
    /\ UNCHANGED <<statement, creating, subscriptions, schema, spent, settings>>

\* Mutant: a look that finds nothing is taken for success.
LookOnly(p) ==
    /\ stage[p] = "look"
    /\ GoTo(p, "connect")
    /\ UNCHANGED <<statement, creating, subscriptions, schema, spent, settings>>

\* ensure_subscription, the look: active_subscriptions.
Look(p) ==
    /\ stage[p] = "look"
    /\ GoTo(p, IF subscriptions > 0 THEN "connect" ELSE "create")
    /\ UNCHANGED <<statement, creating, subscriptions, schema, spent, settings>>

SubscriptionAccepted == unique => subscriptions = 0

\* ensure_subscription, the creation: 201.
Create(p) ==
    /\ stage[p] = "create"
    /\ SubscriptionAccepted
    /\ GoTo(p, "connect")
    /\ subscriptions' = subscriptions + 1
    /\ UNCHANGED <<statement, creating, schema, spent, settings>>

\* Mutant: a process whose creation is refused tries the same again.
CreateRetried(p) ==
    /\ stage[p] = "create"
    /\ ~SubscriptionAccepted
    /\ UNCHANGED vars

\* Any other status is an error, one that says "there already" included.
CreateRefused(p) ==
    /\ stage[p] = "create"
    /\ ~SubscriptionAccepted
    /\ Exit(p)
    /\ UNCHANGED <<subscriptions, schema, spent, settings>>

---------------------------------------------------------------------------
(* The database's part. *)

\* The pool is built and check_connection succeeds.
Connect(p) ==
    /\ stage[p] = "connect"
    /\ GoTo(p, "check")
    /\ UNCHANGED <<statement, creating, subscriptions, schema, spent, settings>>

\* The statement after i, or the end of the batch.
NextStatement(p) ==
    IF statement[p] = Statements
      THEN GoTo(p, "commit") /\ UNCHANGED statement
      ELSE /\ GoTo(p, "check")
           /\ statement' = [statement EXCEPT ![p] = @ + 1]

\* IF NOT EXISTS: what is committed is skipped.
CheckObject(p) ==
    /\ stage[p] = "check"
    /\ IF statement[p] \in schema
         THEN NextStatement(p)
         ELSE GoTo(p, "insert") /\ UNCHANGED statement
    /\ UNCHANGED <<creating, subscriptions, schema, spent, settings>>

HeldByAnother(p) == \E q \in Pod \ {p} : statement[p] \in creating[q]

\* The catalogue's unique index: wait for an open transaction with the same
\* object, and fail with a unique violation if the object is there by then.
InsertObject(p) ==
    /\ stage[p] = "insert"
    /\ ~HeldByAnother(p)
    /\ IF statement[p] \in schema
         THEN Exit(p)
         ELSE /\ creating' = [creating EXCEPT ![p] = @ \cup {statement[p]}]
              /\ NextStatement(p)
    /\ UNCHANGED <<subscriptions, schema, spent, settings>>

\* Mutant: every statement is a transaction of its own.
StatementCommitted(p) ==
    /\ creating[p] # {}
    /\ schema' = schema \cup creating[p]
    /\ IF stage[p] = "commit" THEN GoTo(p, "serve") ELSE UNCHANGED stage
    /\ creating' = [creating EXCEPT ![p] = {}]
    /\ UNCHANGED <<statement, subscriptions, spent, settings>>

\* The batch ends and main goes on to the health endpoint and to run().
CommitMigration(p) ==
    /\ stage[p] = "commit"
    /\ schema' = schema \cup creating[p]
    /\ GoTo(p, "serve")
    /\ creating' = [creating EXCEPT ![p] = {}]
    /\ UNCHANGED <<statement, subscriptions, spent, settings>>

---------------------------------------------------------------------------
(* What goes wrong. *)

\* A call fails without effect, or the process is killed at any point.
Dies(p) ==
    /\ stage[p] # "down"
    /\ Exit(p)
    /\ UNCHANGED <<subscriptions, schema, spent, settings>>

\* A call takes effect, its reply is lost, and the process exits on that.
ReplyLost(p) ==
    /\ \/ /\ stage[p] = "enrol" /\ ChallengeValid
          /\ spent' = injected
          /\ UNCHANGED <<subscriptions, schema>>
       \/ /\ stage[p] = "create" /\ SubscriptionAccepted
          /\ subscriptions' = subscriptions + 1
          /\ UNCHANGED <<schema, spent>>
       \/ /\ stage[p] = "commit"
          /\ schema' = schema \cup creating[p]
          /\ UNCHANGED <<subscriptions, spent>>
    /\ Exit(p)
    /\ UNCHANGED settings

Fault == \E p \in Pod : Dies(p) \/ ReplyLost(p)

Proceed(p) ==
    \/ Start(p) \/ RequestChallenge(p) \/ Enrol(p) \/ EnrolRefused(p)
    \/ Look(p) \/ Create(p) \/ CreateRefused(p)
    \/ Connect(p) \/ CheckObject(p) \/ InsertObject(p) \/ CommitMigration(p)

\* Nothing is left to start; run() is ServiceLifecycle and AdmissionPipeline.
Up == (\A p \in Pod : stage[p] = "serve") /\ UNCHANGED vars

Next == (\E p \in Pod : Proceed(p)) \/ Fault \/ Up

Spec == Init /\ [][Next]_vars

\* A process makes its next call, and the kubelet restarts a container.
LiveSpec == Spec /\ \A p \in Pod : WF_vars(Proceed(p))

---------------------------------------------------------------------------
(* Properties. *)

StartupTypeOK ==
    /\ stage \in [Pod -> Stage]
    /\ statement \in [Pod -> Object]
    /\ creating \in [Pod -> SUBSET Object]
    /\ subscriptions \in Nat
    /\ schema \subseteq Object
    /\ spent \in BOOLEAN /\ injected \in BOOLEAN /\ unique \in BOOLEAN

Looking == { p \in Pod : stage[p] = "create" }
Enrolled == { p \in Pod : stage[p] \notin {"down", "challenge", "enrol"} }
Serving == { p \in Pod : stage[p] = "serve" }

\* However Pods race, crash and restart, at most one subscription is left by
\* each that looked before the first was there, and just one if the kernel
\* refuses more.
SubscriptionsBounded ==
    /\ subscriptions <= Cardinality(Pod)
    /\ unique => subscriptions <= 1

\* "Already have an active one should be treated as success": once there is a
\* subscription and every start that looked before it is over, no crash,
\* restart or lost reply ever makes a process create another.
RestartsAddNone == [](subscriptions > 0 /\ Looking = {} => [](Looking = {}))

\* No process ever sees some of the tables and indices without the others.
SchemaIsWhole == schema \in {{}, Object}

\* An injected challenge "survives only the first Pod": when the process that
\* enrolled with it is gone, no Pod of the Deployment serves any more.
InjectedServesOnce ==
    [](injected /\ spent /\ Enrolled = {} => [](Serving = {}))

\* "Every Pod of a Deployment enrolls": whoever loses the race for the
\* subscription or for the migration gets through at its next start.
EveryPodServes ==
    \/ injected
    \/ \A p \in Pod : <>[](stage[p] = "serve")
    \/ []<><<Fault>>_vars

\* Start-up is what ServiceProvision says of it, for all Pods together.
Provision == INSTANCE ServiceProvision
    WITH subscribed <- subscriptions > 0,
         migrated <- schema = Object,
         serving <- Serving
ImplementsProvision == Provision!Spec

---------------------------------------------------------------------------
(* The inductive invariant. *)

Migrating == { p \in Pod : stage[p] \in {"check", "insert", "commit"} }

\* Up to its statement a process has created each object or skipped it, and
\* it skips only what is committed.
BatchInOrder ==
    \A p \in Pod :
        /\ p \notin Migrating => creating[p] = {}
        /\ p \notin Migrating \cup Serving => statement[p] = 1
        /\ stage[p] = "commit" => statement[p] = Statements
        /\ p \in Migrating =>
             LET passed == IF stage[p] = "commit" THEN Object ELSE 1 .. statement[p] - 1
             IN  creating[p] = passed \/ (creating[p] = {} /\ passed \cap Object \subseteq schema)

\* Two open transactions never hold the same object, and none holds one that
\* is committed.
ObjectsAreNew ==
    \A p \in Pod :
        /\ creating[p] \cap schema = {}
        /\ \A q \in Pod \ {p} : creating[p] \cap creating[q] = {}

StartupInvariant ==
    /\ StartupTypeOK
    /\ SchemaIsWhole
    /\ BatchInOrder
    /\ ObjectsAreNew
    /\ \A p \in Pod : stage[p] \in {"connect", "check", "insert", "commit", "serve"} =>
         subscriptions > 0
    /\ Serving # {} => schema = Object
    /\ SubscriptionsBounded
    /\ subscriptions > 0 => subscriptions + Cardinality(Looking) <= Cardinality(Pod)
=============================================================================
