# A formal model of infernal-pf2e-parser-simple

TLA+ modules for the parser service of this repository, the TLC configurations
that check them on small instances, and TLAPS proofs of their main properties
for every value of the constants. Paths are relative to the repository's root.

## 1. The system

The service is one process per Pod: a single work loop, plus one thread per
health probe. Several such processes can run at the same time (a rolling
update, more replicas, a Pod being replaced), against one PostgreSQL database
and one kernel.

| Component | State it keeps | Operations | Source |
| --- | --- | --- | --- |
| Candidate repository | tables `parse_runs`, `parsed_candidates`; an open transaction per call | `parse_once`, `load_candidates` | `src/postgres_candidate_repository.rs`, `migrations/0001_init.sql` |
| Work loop and dispatch | the claim, the Request and the candidates of one pass, all on the stack | `work_once`, `dispatch` | `src/lib.rs`, `src/dispatch.rs` |
| Lifecycle | instance lease (revision, expiry), heartbeat | `Config::from_env`, `run`, `renew_lease_if_due`, `health::evaluate`, `health::serve` | `src/lib.rs`, `src/main.rs`, `src/health.rs`, `src/instance_lease.rs`, `k8s/base/deployment.yaml` |
| Block parser | the locals of one `parse_block` | `parse_candidates`, `parse_block` | `src/parser.rs` |
| Scope codec | none | `parse_input_scope`, `admit_scope_for` | `src/dispatch.rs` |
| Book adapter | the entry being read | `convert_page`, `convert_feat_page`, `convert_condition_page` | `src/book_adapter.rs` |
| Kernel client | credential | one signed call per operation, `ensure_subscription` | `src/kernel_client.rs`, `src/claims.rs`, `src/routes.rs`, `src/routed_request.rs`, `src/subscriptions.rs` |
| Database | a connection pool | `connect_from_env`, `check_connection`, `migrate`, `connection` | `src/database.rs` |

The components meet as follows. `run` calls `renew_lease_if_due` and then
`work_once` once per iteration. `work_once` polls the kernel for eligible
routes, claims the first, fetches its Request and hands it to `dispatch`, which
calls `parse_once` and then submits one `pf2e.rules.admit` Request per
candidate; `work_once` completes the claim only after that. `parse_once` calls
`parse_candidates` in the middle of its transaction. The work loop and the
probes share the heartbeat; all processes share the two tables; the kernel
mediates between workers with claims, leases and fencing tokens.

What is hard about it:

* two `parse_once` transactions interleave at READ COMMITTED, statement by
  statement, and their checks do not see each other's uncommitted writes;
* every call to the kernel or the database can take effect and lose its reply;
* a process can die between any two steps, and nothing local survives it;
* a claim's lease can run out under a pass, so that two passes do the same work;
* the instance lease, the heartbeat and the two probes are all about time, and
  a restart is the only repair the design has;
* Pods start together against one kernel and one empty database, and each looks
  for what it needs before it creates it;
* a Route that can never succeed is taken again whenever its claim runs out, in
  front of every younger one;
* the line loop of `parse_block` depends on order: a later line overwrites an
  earlier one, the first line is special;
* both scopes are texts with five delimiters and no escapes, one of them with
  200 characters to spend.

What makes each component correct: the repository answers only with what is
stored, stores a run whole or not at all, and never changes it; the work loop
completes a route only when all its candidates were accepted, under one id
each; the lifecycle keeps the lease, tells the truth in its probes, and comes
back when its environment does; start-up subscribes and migrates once however
many Pods do it; the codec reads back what was written; the parser loses no
line, takes every field from a line of its own block, and does not claim more
confidence than the lines give.

## 2. Modules

| Module | What it is |
| --- | --- |
| `ParserDomain` | sources, run keys, candidates, the outcomes of `parse_once` |
| `CandidateStore` | abstract: the promise of the `CandidateRepository` trait, each call one step |
| `PostgresRepository` | `parse_once`, one action per SQL statement, any number of processes |
| `PostgresRepository_proofs` | its theorems |
| `AdmissionDomain` | routes, Requests, admit scopes |
| `RuleAdmission` | abstract: what the whole service promises, without workers or claims |
| `AdmissionPipeline` | `work_once` and `dispatch` over `PostgresRepository`, with the kernel's claims |
| `AdmissionPipeline_proofs` | its theorems |
| `ServiceLifecycle` | start-up, lease, heartbeat, probes and kubelet in discrete time |
| `ServiceLifecycle_proofs` | its theorems |
| `ServiceProvision` | abstract: what start-up promises, all Pods together |
| `PodStartup` | `Config::from_env` in several Pods: enrolment, subscription, migration |
| `PodStartup_proofs` | its theorems |
| `FairQueue` | abstract: the order in which Routes are completed |
| `PollScheduling` | which Route a pass takes, with poll interval and claim lease in discrete time |
| `PollScheduling_proofs` | its theorems |
| `BlockGrammar` | the labels and fields of a block, and what a set of lines means |
| `BlockParser` | `parse_candidates` and `parse_block`, one action per arm of the `match` |
| `BlockParser_proofs` | its theorems |
| `BookAdapter` | the loop and the scan of the three converters that cut a page of the book into entries |
| `BookRendering` | what the converters make of an entry, over `BlockGrammar` |
| `BookAdapter_proofs` | the theorems of both |
| `ScopeCodec` | the scopes of `pf2e.parse` and `pf2e.rules.admit`, character by character |
| `ScopeCodec_proofs` | its theorems |
| `MCRepository`, `MCPipeline`, `MCLifecycle`, `MCPodStartup`, `MCPollScheduling`, `MCBlockParser`, `MCBookAdapter`, `MCDualFeats` | values of the constants for TLC |

`AdmissionPipeline` EXTENDS `PostgresRepository`: the repository's statements
are steps of the composed system and interleave with the kernel calls of other
workers. Four refinements, each an `INSTANCE ... WITH` and a `PROPERTY`:
`PostgresRepository` implements `CandidateStore`, `AdmissionPipeline`
implements `RuleAdmission`, `PodStartup` implements `ServiceProvision` (the
kernel's subscriptions, the catalogue and the Pods' stages become two flags and
a set), and `PollScheduling` implements `FairQueue` (time and leases become a
count of the Routes that failed; that each of them cost one pass is
`NoneFailsTwice`).

### PostgresRepository

`runs` and `rows` are the committed tables. `pc[w]` is the statement process
`w` sends next, `parsed[w]` the local `candidates`, `holding[w]` and
`staged[w]` the uncommitted rows of its transaction. A statement sees what was
committed when it starts. The INSERT into `parse_runs` waits while another open
transaction holds the same key and inserts nothing if the key is there
afterwards (`ON CONFLICT DO NOTHING`). Returning early drops the transaction,
which rolls it back. `Fail`, `Crash`, `CommitUnacknowledged` and
`CommitThenCrash` are what can go wrong around every statement.

A text is a `Fragment` with a number of blocks; the random UUIDs one run of the
parser draws are a `Batch`, so `<<batch, block>>` is a `candidate_id`. Drawing
a UUID twice is excluded (`Fresh`).

### AdmissionPipeline

`stage[w]` says which call `work_once` makes next. Routes are numbered by age
and the kernel lists the oldest first; the pass takes the first. The kernel is
external: a claim is a lease that may run out (`ExpireAbandoned` once no pass
works under it, `ExpireEarly` under a pass that takes too long), and a fencing
token is compared with the newest claim of the route. The token is abstracted
to the identity of the last claimant: the code never compares tokens itself,
and a worker has one claim at a time. Where the kernel might refuse a
completion or still accept it (the lease is over and nobody has claimed the
route since), both are allowed. `CallFails` and `ReplyLost` fail every call
before or after its effect.

### ServiceLifecycle

`stage` follows `main`: `down`, the calls of `from_env` (`enrol`, `subscribe`,
then `connect`, `check` and `migrate`, each of which borrows a connection), and
the loop: `renew` (only when due), the kernel's part of a pass (`pass`), the
wait for a connection (`parse`), what is done with it (`store`), the moment
between the kernel's last answer and `record_success` (`record`), and `sleep`.
Timestamps are distances from now: `granted` is the time the kernel's lease
still runs, `believed` what the process thinks, `behind` that its revision is
old, `beat` the age of the heartbeat (`Never` is the code's zero). `Tick` lets
one unit of time pass and is bounded by how long a start-up, a pass or a sleep
may last. A new process has a new credential and a lease of its own. The Pod's
clock and the kernel's run at one speed and differ by `skew`, any whole number
within `MaxSkew`: what the process believes of its lease is off by it.

While the database is down, a call that needs a connection waits for one, up to
the pool's own limit (`PoolWait`, r2d2's default of 30 s, which
`src/database.rs` 30 does not change); after the database is back it may wait
some more, as r2d2 tries again at intervals of its own. `waiting` is how long
the call in hand has waited and is not part of `timer`, so `MaxPass` bounds
everything else in a pass; `delay` adds up the waits of a start-up, which the
kubelet's patience does count. `hindered` is history: since the lease was last
renewed or found long enough, a call waited, the kernel was down or a renewal
lost its reply.

### PodStartup

`stage[p]` is the next call of the process in Pod `p`: challenge, enrolment,
the look for a subscription and its creation, the connection, then the batch of
`0001_init.sql`, one object at a time. A `CREATE ... IF NOT EXISTS` looks
(`CheckObject`) before it inserts into the catalogue (`InsertObject`), and the
insertion waits for an open transaction that has the same object and fails if
that one commits. `creating[p]` is what `p`'s transaction has inserted,
`schema` what is committed. Every error ends the process (`Exit`), and the
kubelet starts the next one. `injected` and `unique` are settings: whether
`ENROLLMENT_CHALLENGE` is set, and whether the kernel refuses a second active
subscription, which this repository does not say.

### PollScheduling

One worker, a kernel and a database that answer, and Routes of two kinds: those
that can succeed and those in `bad`, which never do. `Take` claims the oldest
eligible Route for `Lease`; `PassCompletes` or `PassFails` ends the pass; `Sleep`
follows each. `streak` and `elapsed` are history: the Routes that failed since
the last one completed, and for how long that has been going on.

### BlockParser

A line is what `detect_bare_type` and `split_label` make of it: a label, a
value and the `[[names]]` in it. Blank lines are dropped before the loop, so
there are none. A separator within a line cuts the line in two pieces, each of
which is a line of its block: this is what splitting the text at `---` does. A
bracketed name that spans lines counts as one of the line it starts on. Values
are names; a list is one value, `Empty` when it has no items.

`BlockGrammar` states what a block means without reading it in order
(`FieldOf`, `TypeOf`, `ReferencesOf`, `LeftoverOf`). The properties compare the
loop with that.

### BookAdapter and BookRendering

`layout` says which of the three converters reads the page. Each is one loop
over its lines (`index`, `current`, `entries`); in a page of feats a line in
capitals starts `scan`, the locals of `try_read_heading_block`, which reads on
line by line and either becomes an entry or is given up, after which the loop
goes on one line behind where the scan began. A line is what the predicates
tell apart (capitals, level marker, title case, digits, an action cost, the
parser's separator). Text is a set of line positions, since joining keeps their
order. `HeadingLines` and `OpensEntry` say which lines are headings without the
loop and the scan.

`BookRendering` is the rendering of the finished entries, a set of operators.
Its result is a text of `BlockGrammar`, cut at every separator as
`parse_candidates` cuts it, those that came with the book's own lines
included: `FieldText` is a line with its label and, for each separator among
the lines of its value, a separator and a line with no label.

### ScopeCodec

A text is a sequence of characters, five of which are delimiters. `Before` and
`After` are `split_once`. `ParseInputScope` takes the four splits and the four
conversions in the code's order; the conversions of `uuid`, `i64` and `base64`
are constants, functions from the texts they accept. `AdmitScopeFor` is the
`format!` of `admit_scope_for`. The module has no variables.

## 3. Runs

| Run | Bounds | What it shows |
| --- | --- | --- |
| `repository_safety` | 3 processes, 2 releases, 2 digests, texts of 2, 0 and no blocks | every answer is stored and complete, runs are whole, recorded runs never change, and `parse_once` implements `CandidateStore` |
| `digest_skew` (violation) | 2 processes, 2 digests | one version is stored under two digests |
| `pipeline_safety` | 2 workers, 3 routes: a malformed scope and one parse twice; every fault | a completed route has all its candidates admitted, one id per rule, and the service implements `RuleAdmission` |
| `pipeline_live` | 2 workers, an unknown action and a parse; every fault | every route completes and every call of `parse_once` returns, or faults never end |
| `provenance` (violation) | 1 worker, 2 passages of one version | candidates are admitted under a passage they do not come from |
| `lifecycle_faults` | the code's constants in units of 5 s, passes up to 5 s and waits for a connection up to 30 s, clocks one unit apart; everything fails | an enrolled process loses its lease only to such a wait, an unreachable kernel or a lost renewal; the probes tell the truth about the lease; once failures stop the Pod recovers, if its process completed one pass |
| `database_outage` (violation) | the database goes down; a kubelet that bears every start-up (`StartGrace` 22), so that only the heartbeat can fail | liveness fails |
| `pod_startup` | 3 Pods, the 4 statements of the migration, every fault, an injected challenge or not, a kernel that refuses a second subscription or not | one subscription at most for each Pod that looked before the first was there and none added by restarts, a schema all there or not at all, every Pod serves in the end unless the challenge is injected or faults never end, and start-up implements `ServiceProvision` |
| `poll_scheduling` | 4 Routes, 2 of which never succeed, a lease of 7, passes up to 2, sleeps of 1 | no Route fails twice while one that can succeed waits; every such Route completes; the loop implements `FairQueue` |
| `block_parser` | every text of up to 4 lines and separators, 11 kinds of line | the loop computes what the reference says, no line is lost, confidence is earned |
| `book_adapter` | every page of up to 5 lines of 6 to 9 kinds, of feats up to 7 lines of 5 kinds; a heading bound of 2 | the loop finds the headings a loop-free reading finds, every line reaches the entry it belongs to, and the parser reads one typed candidate an entry back, and one untyped fragment more for each `---` of the book |
| `book_orphans` (violation) | pages of one or two feats in the two shapes of `src/book_adapter.rs` 262-281, the name with or without an action's cost | an orphaned trait becomes the name of an entry |

Why the bounds are enough to be interesting. Three processes allow a holder, a
waiter and a bystander of another release; two digests the race of the digest
check; a text of two blocks a crash between two INSERTs; a text of none a run
without candidates. A process stores at most one parse of a version before each
later call is answered from the record or refused, so one `Batch` per process
and version never blocks a step. Two workers suffice for a takeover and for a
waiting INSERT. The lifecycle's constants are the code's own; ages saturate at
`LiveStale + MaxPass + 1`, past which no comparison tells them apart; `MaxStart`
and `MaxPass` are bounds of the model, and what follows from them is stated as
such (section 4). Four lines are one block of one line, a separator and a block of
two, the least in which a block can inherit something from the one before it
and have a line overwritten; the theorems cover every length. Three Pods
are a transaction that holds an object, one that waits for it and one whose
start is over; four statements are the migration's own. With `Lease` 7 the
passes of two Routes that never succeed, at 2 + 1 each, just fit into a lease,
as `SchedulingAssumption` asks; four Routes put a good one before, between and
behind them. Five lines of an
action are a heading and two labelled paragraphs; seven lines of feats are a
run of capitals longer than the bound with its marker and a second heading,
which is why the bound is 2 there and not 8.

Symmetry is used for UUIDs and, where they run the same release, for workers,
and only in runs without liveness.

`ScopeCodec` has no run: there is nothing to step through, and its theorems
cover every text.

Fairness. `run` is a loop that never returns and makes every call it comes to,
so `Pass(w)`, `Process` and `Loop` are weakly fair, and so is the start-up of
each Pod (`Proceed(p)`). The kernel lets the lease of an
abandoned claim run out, the kubelet probes periodically and restarts a stopped
container, and time passes; each of these is weakly fair too. No fault is fair,
and the liveness properties say "or faults never end": `RoutesComplete`,
`CallsReturn` and `EveryPodServes` allow infinitely many faults,
`RecoversOnceWorked` infinitely many disturbances or an environment that is
never healthy for good. `GoodRoutesComplete` needs no such way out, as its
module has no faults but Routes that fail for ever.

The type invariants of the pipeline, of start-up, of scheduling and of the book
adapter are checked as conjuncts of their inductive invariants.

Deadlock is checked in every run. The runs of the parser and of the book
adapter end in `Done`, the caller having its result.

Every property of a passing run has a mutant: a definition marked "Mutant" in
the module stands for a plausible mistake (a lock taken too early, a reset
forgotten, an expiry not remembered), and the property fails when it replaces
the definition it is a mutant of.

## 4. Proofs

All theorems hold for every value of the constants that satisfies the modules'
named assumptions: `DomainAssumption`, `WorkerAssumption`, `RequestAssumption`,
`NobodyAssumption`, `LifecycleAssumption`, `StartupAssumption`,
`SchedulingAssumption`, `ParserAssumption`, `AdapterAssumption`,
`RenderingAssumption`. These only type the constants, except that
`SchedulingAssumption` wants the passes of all Routes that never succeed to fit
into one claim lease, and `AdapterAssumption` that a label of one word does not
end in a full stop. `RenderingAssumption` keeps the marks apart that stand for
the separator, for an absent value and for an empty one: none is a line or a
set of lines. The theorems that need more say so: `NoDigestRace` and
`OnePassagePerDigest`, `ShortPasses` and `SteadyPasses` below, the lengths of
`RoomInAnAdmitScope` and a location without a tilde in
`AdmitScopesAreUnambiguous`.

**Repository.** `InductiveInvariant` says what each process has in its hands at
each statement: an uncommitted run is held by one process and not on record
(`HeldRunsAreNew`); what is staged is part of what was parsed, and all of it
when the commit is next (`StagedIsParsed`); what is about to be stored has ids
nobody else has (`ParsesAreFresh`); a process that did not store its own parse
holds the stored one (`LoadedIsStored`). `AnswersAreStored` and `RunsAreWhole`
are not inductive without these: a commit is only whole because of what was
staged before. From the invariant follow `AnswersAreAlwaysStored`,
`RunsAreAlwaysWhole`, `CandidatesAreAlwaysStable` and
`RepositoryImplementsStore`, where every statement but the commit that decides
a call maps to a stutter.

What the violation run `digest_skew` shows is the only way it can happen:
`OneDigestUnlessCallsRace` proves one digest for each version in every
behaviour in which no two calls with different digests of it are past the digest
check at the same time (`NoDigestRace`), whatever fails or crashes; the
invariant is that a check that has passed still stands (`CheckStands`). With one
process there is no such race (`OneDigestWithOneWorker`).

**Pipeline.** `PipelineDrivesTheRepository` shows that every step of the
pipeline is a step of the repository or leaves it alone, so the repository's
invariant holds in it. `PipelineInvariant` adds that a pass in `submit` has
submitted or still has to do every candidate of its answer (`NothingSkipped`)
and that a pass in `complete` has done the work (`ReadyMeansAdmitted`); the
latter survives other workers because stored runs never change. From it follow
`CompletedAlwaysMeansAdmitted`, `AlwaysOneIdPerRule` and
`PipelineImplementsRuleAdmission`, and `PipelineTypes`. The theorems cover what
the runs leave out: scopes too long to be admitted, several documents, any
number of workers. `AdmissionsNameTheirSourceIfKeyed` is the other side of the
run `provenance`: if no two passages of a version have the same digest, every
admission names the location its candidate was parsed from. The invariant says
that every admission's location is one that some source with its key has
(`LocationsAreRequested`).

**Lifecycle.** Without any assumption about the environment: the heartbeat is
younger than the loss of the lease by at most the rest of the pass that it is
the heartbeat of (`HeartbeatFollowsLease`: the lease ran when the kernel gave
its last answer, and `record_success` comes after it), hence
`ReadyAlwaysMeansLease` and `LostLeaseIsAlwaysNoticed`, both up to `MaxPass`.
If two passes, a sleep and the difference of the clocks fit into the margin
(`ShortPasses`: `Poll + 2 * MaxPass + MaxSkew <= Margin`, which is about
numbers only and rules out no failure), `LeaseIsAlwaysHeld`: whatever fails, an
enrolled process loses its lease only if it was `hindered` since the last
renewal, or since the last look that found the lease long enough.
`LeaseInvariant` says how much of the lease is left at each point of an
iteration that was not hindered, and that what the process believes of it is
off by the skew alone unless its revision is old. The hindrances are what the
code does not survive: a wait of 30 s is longer than the margin of 20 s
(section 5). If nothing fails and start-up fits into the probe's grace
(`SteadyPasses`), `SteadyPodsAreNeverKilled` and `SteadyPodsStayReady`, which
no run repeats. With the code's constants and clocks three seconds apart
`ShortPasses` allows passes of six seconds.

**Start-up.** `StartupInvariant` says that a migration goes through its
statements in order and skips only what is committed (`BatchInOrder`), that open
transactions hold no object twice and none that is committed (`ObjectsAreNew`),
and that subscriptions plus the Pods still about to create one are never more
than the Pods. `SchemaIsAlwaysWhole` needs the first two: a commit is whole only
because the transaction skipped everything or nothing. From it follow
`SubscriptionsAlwaysBounded`, `RestartsNeverAdd`, `InjectedServesOnceOnly` and
`StartupImplementsProvision`.

**Scheduling.** `SchedulingInvariant` accounts for time: `n` Routes that failed
in a row took at most `n * (MaxPass + Poll)` (`StreakIsShort`), and what is left
of each one's lease is at least a lease less that time (`ClaimsAreYoung`).
Hence `NoneEverFailsTwice` and `SchedulingImplementsFairQueue`.

**Scopes.** `InputScopesReadBack` and `OnlyInputScopesParse` make
`parse_input_scope` the exact inverse of the documented format: each field is
what stands before the first of its delimiter, and joining the parts again
gives the scope. `AdmitScopesAreUnambiguous` compares two admit scopes from the
left, field by field. `RoomInAnAdmitScope` adds up the lengths.

**Book adapter.** `AdapterInvariant` says that a scan has read one run of
capitals and markers and has them all (`ScanReadsOneRun`), that the anchor is
remembered, that names and traits are lines of the page (`EntriesAreOnThePage`),
and that no heading found so far reaches past the next line
(`HeadingsAreBehind`). A scan that stops stands behind the longest run its first
line begins (`ScanStopsBehindRun`), so that it found a heading exactly if the
loop-free reading has one (`FoundIsHeading`, `NotFoundIsNone`). The entries then
change in three ways, each a lemma about any page: a line is skipped
(`LineSkipped`), kept (`LineKept`) or opens an entry (`EntryOpened`). With this
`EveryHeadingIsFound` and `EveryEntryIsWhole`. `LeastLine`, that a set of line
numbers has a least member, comes from the well-foundedness of `<` on the
naturals.

**The rendered page.** `OneCandidateForEachEntry` and `BlocksAreParsedBack` take
the page from there to the parser. The text is built up three times over, from
the values of a field (`FieldAdded`), from the fields of an entry (`EntryText`)
and from the entries of a page (`OutputText`), and each time the same things
are kept: the text is `Formed` (a heading stands at the beginning of a block,
its name in the line behind it, a line without a label at the beginning of a
block of its own, and no label twice in a block); no line of the page is said
twice (`Apart`); and its separators and headings are counted. The counting
gives the number of candidates: there are no more blocks than separators and
one (`BlocksAreCounted`), and as many blocks with a type as headings
(`TypedAreCounted`). The shape gives the values: in a well-formed text a field
is what its only line says (`BlockReads`, `FieldReads`), so that the parser
reads exactly what was rendered (`AllIsRead`, `ReadOnce`), and the only lines
that were not are those whose label a later paragraph repeats (`LinesKept`).
`EntriesOfConverted` takes from the conversion that no two entries have a line
in common, which is why the adapter's invariant is needed here as well.
`FlattenSeq` of the community modules is a recursive function; `JoinExists`,
`JoinsAgree` and `OneMoreJoined` say what it returns for one member more, and
the lemmas above go through the first `n` members with `LeastLine` in place of
an induction.

**Parser.** Lemmas say what one more line adds to the meaning of a block
(`TypeOfLastLine`, `FieldOfLastLine`, `ReferencesOfLastLine`,
`LeftoverOfLastLine`), using that a block's lines come before the current
position. `LoopReadsTheBlock` is the loop's invariant; with it, for every text,
`FieldsAlwaysComeFromLabels`, `ConfidenceIsAlwaysEarned` and
`NoLineIsEverLost`. `ConfidenceIsAlwaysEarned` is about the code, not about its
module doc: full confidence takes a type that is known or, against that doc, any
other word behind `Type:` (`UnknownTypeWord`; section 5), and anything above the
floor takes a known type or a labelled field.

Only model-checked: `RoutesComplete`, `CallsReturn`, `RecoversOnceWorked`,
`EveryPodServes` and `GoodRoutesComplete`, which are about liveness under
fairness. Liveness, `ENABLED` and induction over data are out of the prover's
reach. Every invariant, every action property and every refinement that a
passing run checks is proved as well.

## 5. Divergences

Each violation run checks a statement of the repository that the code does not
keep; the traces are short.

* `digest_skew`: the digest check and the INSERT are separate statements and
  the primary key contains the digest, so two concurrent parses of one version
  under different digests both commit. Every later call for that version is
  then refused, the retry of a recorded run included, because the digest loop
  comes before the look-up.
* `provenance`: the location of a passage is not in the key of a run, so a
  second passage of a document version is answered with the first one's
  candidates and its text is never parsed.
* `database_outage`: the heartbeat is fed by whole passes, so a database outage
  with work to do fails liveness after 150 s although the policy excludes the
  database on purpose.
* `book_orphans`: a feat that is an action too and has two traits leaves a
  trait, a marker and a trait behind; the first trait opens a scan that finds
  the marker and becomes the name of an entry, where `src/book_adapter.rs` 46-48
  says the orphaned lines are "silently absorbed into whatever entry precedes
  it". The guard at 334 covers an orphan that begins with its marker.
  `HeadingsAreFound`, which `book_adapter` checks, compares the loop with the
  code's own notion of a heading and does not speak of this.

Met while reading, with no run of their own:

* Liveness answers "starting" for ever before the first successful pass
  (`src/health.rs` 87), so a lease lost that early is never repaired, where
  lines 16-17 and 236 speak of a restart that repairs an expired lease. This is
  why `RecoversOnceWorked` and `LostLeaseIsNoticed` suppose one completed pass.
* A renewal that takes effect and loses its reply leaves the process with the
  old revision (`src/lib.rs` 267), so every retry is refused, where
  `src/instance_lease.rs` 16-18 leaves "several poll cycles' worth of retry
  room if a renewal call transiently fails". A lost reply is therefore one of the
  hindrances of `LeaseHeld`; that the loss is noticed and repaired by a restart
  is `LostLeaseIsNoticed` and `RecoversOnceWorked`.
* `README.md` 270-274 says that an unset `ENROLLMENT_CHALLENGE` "skips
  enrollment and lease renewal both"; `src/lib.rs` 96-112 enrols whenever
  `SERVICE_ENDPOINT` and `POD_UID` are set and asks for a challenge of its own.
* Routes that never succeed are never given up. With a claim lease of 300 s and
  a poll interval of 5 s, 60 of them keep the loop busy for a whole lease, and
  nothing younger is served again (`SchedulingAssumption` is what excludes it).
* Two Pods that migrate an empty database at once: the later one fails with a
  unique violation in spite of `IF NOT EXISTS` and serves only after a restart
  (`InsertObject`).
* A kernel that refuses a second subscription makes the Pod that lost the race
  exit, where `src/subscriptions.rs` 46 asks to treat "already have an active one"
  as success; its next start finds it.
* A `---` in the text of the book ends the entry's block there; what follows is
  a candidate with no type and no name (`OneCandidatePerEntry` counts them).
* A location with `~` in it makes admit scopes ambiguous (`src/dispatch.rs`
  126-129).
* An admit scope has 56 characters for the rule type, the document version, the
  location and the name, so an input within its own 200 characters can ask for
  a candidate that is never admitted, and its route never completes.
* The lease is looked at only between passes (`src/lib.rs` 242). A pass that
  needs the database while it is down waits 30 s for a connection, longer than
  the margin of 20 s, so a database outage alone can cost the process its lease,
  and from then on every call to the kernel fails until liveness does. The same
  holds of a pass longer than `ShortPasses` allows, such as a Request with many
  rules. `src/README.md` 211-213 promises renewal "well before the kernel's
  default 60-second grant expires", and `src/instance_lease.rs` 16-18 room for
  several retries.
* With `ENROLLMENT_CHALLENGE` set, a process that replaces another presents a
  spent challenge (`src/lib.rs` 111) and can never enrol.
* A `Type:` line with an unknown word gives an unclassified candidate at full
  confidence (`src/parser.rs` 104-110; `UnknownTypeWord` in the property
  `ConfidenceIsEarned`), where lines 18-19 say "lower whenever
  the source's structure was incomplete or unrecognized".
* `---` within a line separates candidates (`src/parser.rs` 51), where lines
  35-36 speak of a line containing only `---`.
* `MAX_HEADING_BLOCK_LINES` is 8 and a heading may take 9 lines in capitals
  and any number of markers (`src/book_adapter.rs` 368), while line 353 counts
  both kinds of line.
* A second `Requirements` paragraph of one action overwrites the first, whose
  clause is then in no field (`src/book_adapter.rs` 175).

## 6. Not modelled

* The wire: TLS, signatures, JSON, HTTP statuses beyond the outcomes the callers
  tell apart. They keep no state.
* The Rules Service: it is only told of admissions.
* The connection pool beyond its waits (`ServiceLifecycle`): its size and its
  retries belong to r2d2. The probes' threads share the pool with the work loop,
  and a probe that waits for a connection is a probe that fails.
* In `PodStartup` a request takes effect before its process is gone or never.
  One that the kernel handles only after the next process of that Pod has looked
  may add a subscription more than `SubscriptionsBounded` and `RestartsAddNone`
  allow.
* In `pipeline_live` every Route can succeed; what one that never does costs the
  others is `poll_scheduling`. In `pipeline_safety` no scope is too long
  (`Oversized` is empty): that case is covered by the theorems alone.
* A process without `SERVICE_ENDPOINT` or `POD_UID` skips enrolment and has no
  lease; it is the lifecycle without the lease, and its restart repairs nothing.
* The characters outside the scopes: trimming, case, the 32-character limit of
  a label, `is_shouty` and strict title case, the JSON of stored lists.
* Building and signing requests (`src/kernel_client.rs`) and the texts of errors
  (`src/error.rs`): no state, and no decision that a caller sees.

## 7. Plan

Written in this order, the most important behaviour first: repository,
pipeline, lifecycle, parser, book adapter, then start-up, scheduling and the
scopes. What is left:

1. `ScopeCodec` inside the pipeline, in place of its abstraction of a scope, so
   that a Request's length decides whether its route can complete.
2. The lifecycle composed with the pipeline: a lease that runs out in the middle
   of a pass, whose every later call the kernel then refuses. Either module
   already allows it on its own (`KernelAnswers` needs a running lease,
   `CallFails`).
3. The probes' threads: how long a readiness probe may wait for a connection
   that the work loop holds.
4. In-flight requests in `PodStartup`, taking effect after their sender is gone.
