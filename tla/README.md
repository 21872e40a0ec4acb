# A TLA+ model of the world-model runtime

This directory models the stateful core of `swm/world_model_v2`: the durable
event store (Phase 8), the event-by-event runtime of one simulated branch, the
way an item reaches an actor in it, the way a branch is absorbed into its answer,
and the lean engine: its weighted worlds and the threads that decide for actors.
TLC checks the modules on small instances; TLAPS proves the main properties for
every value of the constants.
Paths below are relative to `swm/world_model_v2/` unless they say otherwise;
`PROJECT.json` maps every definition to the lines it stands for.

## 1. Inventory

The repository is a research system that answers forecasting questions by
simulating small social worlds. Most of it is statistics, prompt construction
and recorded experiments. What keeps state over several steps, and can therefore
be wrong in ways a test hardly reaches, is the following.

| Component | State | Operations | Hard behaviour |
|---|---|---|---|
| Event store: `phase8_events.py`, `phase8_storage.py`, `phase8_service.py` | in-memory log (`_events`, `_seq`, `_watermark`) of each process; event and checkpoint rows | `append`, `correct`, `retract`, `relink_identity`, `effective_events`, `events_as_of`; `replay`, `checkpoint`, `commit_checkpoint`, `compact`, `verify_integrity` | crash between memory and row, retry, several processes on one database, threads around a checkpoint, revision chains |
| Pipeline and provider: `phase8_pipeline.py`, `phase8_provider.py` | one store per scenario | load, ingest, run, checkpoint, commit | restart between any two |
| Branch runtime: `events.py`, `temporal_runtime.py`, `temporal_hazards.py` | clock, heap, batch, microstep, write ledger, watches, conditionals, generations | `pop_batch`, `next_event`, `process_timestamp`, `check_state_watches`, `check_conditionals`, `reproject_hazards`, the resume of a process, `run_branch_temporal` | events of one time, descendants, deferral, stale crossings, endless causation, halts, budgets |
| Attention and invocation: `generated_world.py`, `temporal_runtime.py` | available items and scheduled checks of each actor, pending reconsiderations, budgets, `branch_halted` | deliver, attend, run, defer, record a truncation, re-queue missed items | checks that are overtaken, budgets between noticing and deciding, a decision that fails in a batch, a condition that already happened |
| Absorption: `event_time.py`, `world_dynamics.py`, `phase_consumers.py`, `materialize.py` | `absorbing_state_reached`, `absorbing_mode`, `absorbed_at`, `provisional_absorbing_mode`, each process's `fired` and `generation` | `FirstPassageOperator`, `HazardRoundOperator`, `InstitutionalDecisionOperator`, `PersistenceCheckOperator`, `break_provisional_state`, `AbsorptionMonitorOperator`, `readout` | operator order, races of writers, a check that outlives its claim, resumption |
| Causal waves: `lean_v2/engine.py`, `worlds.py`, `consequences.py`, `obligations.py` | weighted world nodes (clock, private states, deliveries, queue, votes, past decisions, outcome), promotable actors, consequence templates, truncated mass | deliver, split, request, apply, compile, evaluate, coalesce, cap | one answer for many worlds, late splits, decisions of the morning applied in a changed world, templates compiled by one world for all, waits at deadlines, a budget stop |
| Decisions of threads: `lean_decision_cache.py`, `lean_controller.py`, `lean_v2/gateway.py`, `budget.py` | templates, in-flight keys and their events, call and retry counts, wall clock | `get`, `begin`, `wait`, `store`, `finish`; `allow_call`, `record_call`, the retry | single flight, failing leaders, timeouts, caps checked apart from their counters |
| Rest of the lean line: `lean_v2/` (`runtime`, `checkpoints`, `compile_cache`, `deliberation`, `challenger`), `lean_invalidation.py`, `lean_runtime.py`, `lean_cognition.py` | checkpoint files, dependency sets | stages of one run | a restart between stages |
| Institutions: `institutions_v2/` | procedure stage, ballots, authority | advance, vote, veto, delegate | order of stages, ties, deadlines |
| Recompilation: `phase11/` | plan versions, cooldown, lineage | trigger, recompile, migrate, roll back | a revision during a cooldown, a failed migration |
| Compilers, evidence, cognition, phases 3-7, 9, 12, 13, registry, older packages | the plan or posterior being built | pipelines | none that is concurrent or persisted |

How they interact. A pipeline opens a store (a process of `EventStore`), replays
it, compiles a plan and runs many branches, each with its own copy of the world
(a behaviour of `TemporalBranch`). A branch pops events, its operators write
fields and return follow-up events. Two kinds of operator matter beyond the
queue: those that invoke an actor, which may defer or halt the branch, and those
that absorb it, which `FirstPassage` models over the same queue. When the
branches are done the pipeline appends what happened and commits a checkpoint.
Branches share nothing but the decision cache: when they roll out in parallel
threads (`materialize.py`, `run_branches`) equal contexts of different branches
share one decision. The lean engine does not roll out branches: it moves a list
of weighted nodes forward day by day and asks for each distinct context of a day
once, in a pool of threads, over the same cache and through a gateway with one
compute ledger.

What makes each correct:

- *store*: an event is applied once; what was acknowledged survives; a restart
  rebuilds what was there; a checkpoint is a function of a stored prefix; the
  integrity check accepts an honest history; the views show what they should.
- *branch*: nothing scheduled is lost or handled twice, the clock never passes
  an event or moves after a halt, causes run before effects, superseded
  crossings never fire, the branch ends.
- *absorption*: one answer, stamped when and with what it happened, only by a
  state that held for as long as the criterion asks; a provisional state is
  always resolved.
- *attention*: every item is noticed by the time computed for it; none vanishes
  between delivery and presentation unless the branch says it is truncated (section
  6: two caps and a repetition do make items vanish).
- *causal waves*: the weighted nodes say what the simulation of each particle
  would; no mass is lost or counted twice; an unknown stays unknown; a required
  voter is asked again; a resolved world stays as it is.
- *decisions of threads*: no waiter is left behind, a template that was reused is
  never replaced, caps are exceeded by less than the number of workers.
- *institutions*: no outcome without the authority and the stages it needs.
- *recompilation*: one live version; a rolled back one leaves no trace.

## 2. Plan

| # | Module | Composes | Abstract specification | State |
|---|---|---|---|---|
| 1 | `EventLog`, `EventStore` | log, backends, checkpoints, processes | what the docstrings promise of the views | done, proved |
| 2 | `TemporalBranch` | queue, batch engine, monitors, actor | `EventSim`, discrete-event simulation | done, proved |
| 3 | `FirstPassage` | the writers, checks and monitor over `EventSim`'s order | `AnswerRegister`, a write-once register | done but hazard integration, proved |
| 4 | `SingleFlight`, `LeanGateway`, `LeanDecisions` | cache, single flight, ledger, provider, threads | none: the properties are about threads | done, proved |
| 5 | `CausalWorld`, `WaveEngine` | a world's handlers, nodes, splits, coalescing, the cap | `ParticleWorlds`, every particle alone | done, proved |
| 6 | `Attention` | deliveries, checks and invocations over `EventSim` | `EventSim` again | done, proved |
| 7 | `Recompile` | plan versions, branches, migration | one live version | not done |
| 8 | `Procedure` | stages, ballots, authority, `FirstPassage`'s vote | an outcome has its authority | not done |
| 9 | `Truncation` | pure functions over statuses | reference definition by sets | not done |

Each system gets one passing run and, where the code contradicts one of its own
comments, a run that shows it or a line in section 6. Theorem still worth
proving: that a passage runs out of events at one time, as it is proved for the
branch, its attention, the waves and the threads.

## 3. Modules

**`EventLog`** is the data: what an event is (its id, a hash of its content),
which kinds revise which events, and the two views. **`EventStore`** is the
system: processes `Proc` start (`_load`), append, fail to append, append again,
derive a checkpoint in two halves (`Replay`, `Seal`), commit it, compact, and
stop, by a crash or otherwise, at any point. The watermark is the sequence of
ids it hashes. A behaviour runs in one *deployment*: the backend, whether
processes exclude each other, whether an insert may raise, whether threads share
the store. Properties name the discipline they need and hold in all the others.

**`EventSim`** is the abstract specification of a branch: a clock, pending
events, a count of handled ones, a status. **`TemporalBranch`** is the code: the
loop (`Begin`, `Complete`, `Truncate`), the layers of a batch (`Layer`,
`Cancel`, `Defer`), running an event (`RunEvent`, `Decide`, `Await`,
`DecisionFails`), the end of a microstep (`EndMicrostep`, `Overflow`) and the
monitors after it (`Monitors`: re-projection, watches, conditionals, and the
recursion into a batch of their own). `Resume` is the persistence check of a
process that finds its state broken: like a re-projection it raises the
generation and schedules a crossing, but in the middle of a batch. An operator is abstracted to what its
delta carries for the queue: the paths it touches, the follow-ups it schedules.
The ready events of a layer run in any order, since the code orders them by a
hash.

**`FirstPassage`** is absorption. An event is its source, its time, its
generation, and whether it is a persistence check. There is one action per
operator, each with the whole handler: the guard of `applicable`, the write, the
follow-up, and the monitor when it comes after the operator in the list (`Late`
holds the operators that come after the monitor instead). Events are handled one
at a time in the order of time, those of one time in any order. This is what
`TemporalBranch` amounts to by its theorem `Implementation`; `FirstPassage` does
not repeat batches. The cumulative hazard is abstracted: a crossing falls at any
time not before now, or beyond the horizon. **`AnswerRegister`** is its abstract
specification: a source claims its mode, a claim is withdrawn, settled when it
has held, or written at once, and after that only time passes. Claims are known
by their mode, as in the code: a mode that two sources claim may be settled
before the end of the window, never after it. `Register` maps the provisional mode to
the claim and what `readout` and `_mode_of` return to the answer.

**`CausalWorld`** is one world of the lean engine and what a wave does to it:
`Morning` (delivery, promotion, private states) and `Evening` (decisions,
terminal evaluation, the end of the day). A decision is a record of what the
model's reply says that the engine acts on: to wait and for which fact, a vote,
an action. What an action does is in its template: who may take it, whom it
writes to, which vote options it lists. **`WaveEngine`** is the engine: a
node is a world and the set of *particles* it stands for, where a particle is a
shared world with one private state for every actor. Its weight is theirs. The
code never has particles; it has fractions. A set of particles says which mass a
node has as well as how much. The templates are one registry for all nodes: an
action that has none is compiled by the first node that executes it, if the cap
of the run allows and the call succeeds (`Recompiled`), and is found by the nodes
that come later in the list (`Found`). `Wave` is one action: within a wave only calls of
the provider run in parallel, and they are answered per context. **`ParticleWorlds`**
is the abstract specification: each particle's world goes through its own days
alone, with no split, no merge, no cap, with the templates of the blueprint, and
equal contexts get equal answers.

**`SingleFlight`** and **`LeanGateway`** are the two locked objects.
**`LeanDecisions`** is the threads that use them, one program counter each, on
two routes: `controller` (branch threads, which may share contexts and time out)
and `wave` (a pool over distinct contexts, each with up to three calls).

**`Attention`** follows items to one actor: `Deliver` records an item and
schedules a check or relies on one; `Attend` takes the bundle of a channel;
`Decide` presents it, and what the actor missed on a persistent channel goes
back. An invocation carries the first items of a bundle (`BundleCap`) and shows
the actor the first of those (`ViewCap`); `cut` holds the rest. `keys` are the
semantic events that already led to an invocation, of which the oldest are
forgotten (`KeysCap`). Its events are events of `EventSim`, so that `TemporalBranch`'s theorem
and `LoopHolds` meet in one abstract loop.

**`MC...`** modules give the constants. **`...Proofs`** modules hold theorems;
`CausalWorldProofs` holds the lemmas about one world that `WaveEngineProofs` uses.

## 4. Runs

| Run | States | What it shows |
|---|---|---|
| `store` | two processes, three events, two checkpoints, seven deployments | the nine store properties |
| `two_writers` | two processes, sqlite | *violation*: the integrity check rejects an honest history of two writers |
| `failed_insert` | one writer, an insert may raise | *violation*: the retry succeeds and nothing is stored |
| `retracted_chain` | a correction of a correction, a retraction | *violation*: the second correction stays effective |
| `as_of_view` | a late correction | *violation*: the earlier view loses its observation |
| `branch` | 612,961 | the engine implements `EventSim`; layers, hazards, crossings and resumes, halts, termination |
| `awaited_condition` | one message and an actor | *violation*: a deferral is met by an event before it |
| `passage` | 201,149 | stamps, claims, windows, modes that are shared, the final answer, resolution |
| `repaired_order` | a vote after the monitor | *violation*: the stamp is one event late |
| `waves` | 75,458 | the nodes implement `ParticleWorlds`; mass, own states, unknowns, waits, resolution, end of the run |
| `decisions` | 298,566 | wakeups, templates, caps, and that every thread ends |
| `attention` | 127,862 | checks that come in time, items that are kept or named as cut, eventual notice |

The six violations are quoted with the comments they contradict in
`PROJECT.json` under `findings`. Two of them bear on how the store is used. Two
writers lose no event (`AckedIsDurable`, `StartKnowsAll` hold for them), but
`verify_integrity` then reports damage. A failed insert loses an event that a
retry reports as stored. Three are about meaning: revisions of revisions, what
was knowable, and a condition that refers to the past. `repaired_order` needs a
plan whose institutional writer was dropped; it shifts the answer's time and
never its mode.

### Bounds

- *store*: three events suffice for a revision and an unrelated event between
  its halves; two processes for every race of two writers; two checkpoints for
  a replacement and, with `KeepCheckpoints` 1, a compaction. `AsOf` has one
  value before and one after the correction becomes known.
- *branch*: `MicrostepLimit` 2 stands for 64, `SafetyMax` 6 for 2000,
  `MaxInvocations` 2 for 40, `MaxFires` 2 for 24: each is reached and exceeded
  within the run. `MaxGeneration` 2 bounds how often a process is re-projected or
  resumed (unbounded in the code): one re-projection makes a stale crossing, and
  a resume may come while that is pending.
  `Horizon` 2 gives a time before, at and beyond it. The initial queues hold
  events of one time, a dependent, and a cycle.
- *passage*: windows of 2, 1 and 0 within a horizon of 5 let a claim be
  reached, broken, resumed, reached again and confirmed. The facts `truce` and
  `pact` have one mode and different windows: one is broken, the other reaches
  the mode again, and the check of the first confirms it. `MaxGeneration` bounds
  re-projections only, a collapse always raises the generation.
- *waves*: shared worlds with different tables, an actor with two private states
  and one with an unmodelled one, a pruned actor that a message reaches, a
  required voter and a deadline; a cap of three nodes, which is enforced. The
  three replies are to gather information for want of a fact, to vote (at a
  deadline that allows it, to abstain), and to act without naming an option. Two
  actions have no template. `MaxNovel` 1 allows one to be compiled, for one of the
  actors that take it: to a vote that is announced to others, a pruned actor
  among them. Five schedules place triggers before, at and after the deadline and
  the evaluation; one has an anchor between. The run takes every choice of nodes of equal weight to cut and
  every node that may take a promoted actor.
- *decisions*: four threads in one context, so that one waits for a leader that
  fails, another leads again and a third waits twice; in a wave four contexts on
  two workers, so that contexts stay queued.
  `MaxCalls` and `MaxRetries` are small enough to be met by two threads at once.
- *attention*: two messages, and a call about the event of the first, which a
  check of another channel brings; an item on the empty channel, whose check
  covers all. `BundleCap` 3 stands for 24, `ViewCap` 2 for 16, `KeysCap` 1 for
  256: the first is exceeded by the bundle of all four items, the second by one of
  three, the third by the second key. `MaxInvocations` 2 and `MaxEvents` 8 are
  reached; times are up to the horizon and one beyond.
- The theorems need none of these bounds.

`ProcSymmetry` is sound in `store`: processes are model values, no constant
distinguishes them, and the run's only temporal formula is an action property.
Deadlock is not checked where the system stops of itself: a branch that ended, a
passage with nothing left before the horizon, waves, threads and actors that are
done. A store whose events, checkpoints
and acknowledgements are used up can always stop and start again; the violation
runs share its configuration.

### Fairness

A branch is one loop in one thread; nothing it calls blocks for ever (a provider
failure is `DecisionFails`), so `TemporalBranch` has `WF_vars(Next)`.
`FirstPassage` has weak fairness on handling some event: the loop pops until the
horizon. Re-projection has no fairness, it need never happen.
`WaveEngine` and `Attention` are one loop of one thread each: `WF_vars(Next)`.
In `LeanDecisions` every thread has weak fairness on its own steps: the scheduler
runs it and the provider's client returns or raises (it has timeouts of its own).
A timeout of a wait has no fairness, nor has the wall clock: `AllAnswered` holds
although no timeout ever helps. The store has
none and no liveness property: a process may stay down.

## 5. Proofs

Assumptions are those the modules name: `EventAssumption`, `StoreAssumption`
(a revision names an event and copies its time); `BranchAssumption`,
`SourceAssumption` (only the process itself makes crossings: `schedule_crossing`,
then its re-projections and resumes; only `next_event` makes arrivals),
`CheckAssumption` (a persistence check is neither an actor's event nor an
arrival); `PassageAssumption`, `PlanAssumption` (a plan schedules one event of
each process and fact; sources may share a mode); `WorldAssumption` (finitely many
actors, with distinct ids in an order; what templates and replies are),
`EngineAssumption` (every actor has a table of private states under every shared
world, or none; triggers are requests, anchors and the evaluation have a day); `FlightAssumption`,
`GatewayAssumption`, `DecisionsAssumption` (the contexts of a wave are distinct,
as the keys of a dictionary are); `AttentionAssumption`, `CapsAssumption`,
`RankAssumption` (items have ids of their own, in an order); and in `TemporalBranch`
and `Attention` a `FiniteAssumption`: what a branch is built from are lists and
dictionaries.

*`EventStoreProofs`*. Types first. `LoadFaithful` is the lemma the rest hangs on:
whatever seqs concurrent writers left, there is exactly one list a start can
load, with every stored event once. Durability needs `DurableInv`: without
failing inserts every log holds only stored events, hence what it acknowledges
or revises is stored. `OrderlyInv` is the invariant of one writer: rows carry
seqs 1, 2, ... and the chain of those before; a running log is the rows; every
watermark held in memory or stored is a prefix. From it follow `MemoryIsDisk`,
`CheckpointIsHistory` and, computing `verify_integrity` on such rows,
`OrderlyVerifies`. `ReplayInv` carries the posterior from the half that replays
to the half that seals: no append falls between when no thread shares the store.

*`TemporalBranchProofs`*. `TimeInv` says where events may be: what the engine
holds is due now, the queue is never in the past, nothing is left at this time
when the loop is reached after an event, a halted branch is never at the loop.
From it every step of the engine is a step of `EventSim` or changes nothing
`EventSim` sees (`Implementation`), and a halted clock stands still (`HaltHolds`;
the rest of the batch still runs and schedules). Layering, renewal (until a
microstep overflows, at most one arrival of a hazard queued or held) and crossings
(`CrossingInv`: of no process is a crossing of a later generation pending, and
at most one of the present one) have an invariant each; they are not inductive
as stated because the present generation is the one a re-projection or a resume will make;
the resume comes with crossings of older generations still in the layer that runs.
`BranchRunsOut` is what `Termination` rests on besides the scheduler, without the
safety budget: every step lowers the first that it changes of five finite
measures. They are the times that the clock may still take (`BatchInv`: after a
batch nothing is due, so the loop never takes a time twice); the invocations
that actors have left, since a condition is armed by an invocation; what
monitors may still schedule, since a batch that follows a batch at the same time
uses up a fire, a generation or an armed condition, and a resume a generation; the phases of the batch up to
the microstep limit; and the events of the layer. The code has no counterpart of
`MaxGeneration`: there the theorem is about runs with finitely many re-projections and resumes.
`BranchCanStep` says that nothing the next step needs is ever missing; TLC finds
`CanStep` equal to ENABLED of the next step.

*`FirstPassageProofs`*. `CheckInv` ties checks to claims: one check of a source
pending, that of a process only while it has fired, the one of a state that holds
and whose mode no other writer claims exactly where its window ends. With it a
check that confirms such a state does so at the window's end (`HeldHolds`) and no
open claim is without a check (`ClaimHolds`). When writers share a mode the check
of one may confirm the state of another; `WindowInv` says what is left: the
writer of the state still has its check pending at the end of its window, so a
confirmation never comes after it.
`StampInv` says the predicate is written exactly when the answer is stamped; it
needs `WritersFirst`, that no absorbing operator comes after the monitor, which
is what `repaired_order` breaks. `StampHolds`, `AnswerHolds` and `RegisterHolds`
state it as their assumption. `RegisterHolds` is the refinement of
`AnswerRegister`: with `CheckInv` and `StampInv`, and since events are handled in
the order of time and cause none in the past (`QueueInv`), every operator's step
is a claim, a withdrawal, a settlement at the end of the window (or, when another
source claims the same mode, no later than it), an immediate write or nothing. The assumption is needed: TLC refutes the refinement when the
persistence check comes after the monitor.

*`CausalWorldProofs`*. What a day does to one world. `Decide` folds over the
day's requests in the code's order. The library's induction theorems take an
operator and cannot be used, so `SetInduction` says it without one: a family of
subsets of a finite set that holds the empty set, and with some element of every
other set follows it, holds them all (a set outside it
with no proper subset outside would be in it). With it the fold exists
(`FoldIsDefined`) and any set of worlds closed under one decision of the day
holds its result (`FoldStays`). The
`...Touches` lemmas go through `_apply_decision` branch by branch and say what a
decision may change: its own actor's votes, past and facts, the queue and
messages by additions, a resolved world not at all. `DecideEffect`,
`MorningEffect` and `EveningEffect` put the day together.

*`WaveEngineProofs`*. `MassHolds` is the partition of the particles over nodes
and truncated mass: a split partitions a node by the private state assigned, and
coalescing unites. `OwnStatesHolds` and `NodesDifferHolds` are about what was
assigned: a node assigns each actor once, and two nodes that came out of one
differ in an assigned state, which later steps keep. With them two nodes have
different keys, so `Coalesce` never merges (it is modelled in full all the
same). `ExactWorldsHolds` is the refinement: a particle's world in its node's
morning is the one it would have alone, since the split assigns what the particle
has, and equal contexts have equal answers. It says
nothing from the moment an actor is promoted, a novel action is compiled or the
budget is spent (`astray`); section 6 says why. Until then the registry is the
blueprint's, which `RegistryInv` carries with the cap on compilations; every
other theorem about waves holds whatever is compiled, since the lemmas about a
decision are for any registry.
`UnknownHolds`, `WaitHolds` and `ResolvedHolds` are about decisions and rest on
`CausalWorldProofs` and `WorldInv`. No node's clock is past a queued event of any
node, since a wave takes the earliest day of all; so a wave's day is not before
any node's, and a deadline that lies ahead after it lay ahead before it. Nobody
in the unmodelled state has decided: this is said of *particles*, because the
private state is assigned only when a decision is due, and until then a node may
hold particles that differ in it. In every unresolved world before its deadline
those who waited and have not voted have their mandatory decision queued
(`AskedAgain`), which every decision and the end of a day keep. `DaysPass` says
of waves what `RunEnds` needs besides fairness: each consumes its whole day and
queues nothing before the next, so days increase and no run has more than
`Horizon + 1` waves.

*`LeanDecisionsProofs`*. `WakeupHolds` rests on an invariant that ties flights to
threads: the event registered for a key belongs to a thread that will finish, and
a finish that removes the flight of another is about to set its event.
`CapsHolds` counts: recorded calls and admitted threads together stay below the
cap plus the workers, since a thread was admitted below the cap and at most
`Workers` run. `TemplateHolds` is an action property of every step. Two theorems
are what `AllAnswered` rests on besides the scheduler. `NobodyIsStuck`: until
all are done some thread's next step lacks nothing (`CanStep`, which TLC finds
equal to ENABLED of its step): a waiter's event is rung or has a thread before
its ring, and the first of a queue waits only for a worker that runs.
`StepsRunOut`: the program counter is numbered by its distance from the end and
each failed call leaves fewer calls to make, so that every thread has at most 20
steps, whatever the others do to the cache.

*`AttentionProofs`*. `ComingHolds` needs three facts at once: an entry of
`scheduled_attention` stands for a check that is pending at that time
(`EntriesStand`); what is available was delivered before now, so that a check
takes all of its channel (`Delivered`); and an item is covered by a check by its
notice time (`AttentionIsComing`). When an earlier check pops the entry of a
later one, the later event stays in the queue. `KeptHolds` adds that bundles of
two invocations share no item. It says that an item that is in no place was heard,
or noticed with a newest item that repeats an event, or cut off by a cap, or the
branch is halted: there is no other way to lose one. `LoopHolds` shows that every step is a step of
`EventSim`. `NothingUnseenHolds` follows from `AttentionIsComing`, since a
complete branch has only events beyond the horizon. `AttentionRunsOut` and
`AttentionCanStep` are the rest of what `Noticed` needs besides the scheduler.

Only model-checked: `Termination`, `ProvisionalResolves`, `RunEnds`,
`AllAnswered` and `Noticed`, which are liveness under fairness and out of the
prover's reach. What they rest on besides fairness is proved in part: of the
branch, the waves, the threads and attention that their steps run out
(`BranchRunsOut`, `DaysPass`, `StepsRunOut`, `AttentionRunsOut`); of the branch,
the threads and attention that the next step is never missing (`BranchCanStep`,
`NobodyIsStuck`, `AttentionCanStep`); and that a complete branch has left nothing
unseen (`NothingUnseenHolds`). Every invariant
and every other action property of a passing run is a theorem.
`NoRetractedLineage` and `OnlyKnowable` are false and are shown so by runs.

## 6. Disagreements found while modelling

Besides the six that runs show, the models made these visible. They are facts
of the code read against its own words; no run is devoted to them.

*Causal waves*
- Coalescing never merges nodes (`NodesDifferHolds`): a split assigns private
  states that stay in the key. The merge log is empty in every run; what saves
  calls is the sharing of contexts.
- Promotion (`lean_v2/engine.py` 425-446) takes the actor out of the one
  `promotable` set for all nodes. The first node that a message reaches promotes
  it; in the others the same message is dropped and the actor never acts. The
  worlds of different nodes then interfere. `ExactWorlds` excludes such runs.
- "A wait never leaves the vote missing" (`engine.py` 781-783) has exceptions: a
  wait at an ordinary trigger on the deadline day reopens nothing, and any
  earlier trigger suppresses the mandatory one that seeding would add (270-282).
- An action without a template is compiled by the first node that executes it
  (`engine.py` 841-847, `consequences.py` 218-256), into a registry that all nodes
  share. From then on worlds interfere, and `ExactWorlds` promises nothing:
  - Failures are not cached. Of two worlds with one context, in one wave, one may
    find no template and the next get one: the same decision has two effects.
  - The template is compiled for the actor that asked. Another actor that chooses
    the same action finds it and is refused by `validate`.
  - A template with vote options changes what its actor may vote at the deadline,
    and the option an unclear choice becomes (832-833), in every world.
  - Before the deadline an unclear vote whose action has a template with options
    is recorded as the first of them (`consequences.py` 144-158).
  - The cap (222-226) is looked at before the cache of compilations: at the cap a
    compilation that would cost nothing is refused.
  - A compilation whose provider fails twice raises through `_apply_decision` and
    ends the stage, where a decision whose provider fails leaves one context
    without an answer.
- A mandatory wait with abstention allowed overwrites a vote cast the same day.
- The terminal event is consumed when it is evaluated; an unresolved world is not
  evaluated again.
- Contexts of resolved nodes are still asked for; the answer is then unused.
- A refused call in a wave ends with no nodes at all (`lean_v2/runtime.py`
  201-208), while lines 4-5 of `lean_v2/budget.py` say that completed
  simulation state is preserved.

*Absorption*
- A provisional state "CONFIRMS iff it still holds" (`world_dynamics.py` 29-31,
  and "held_full_window" at 166), but the check compares the names of modes (129).
  Facts of one kind have one mode (`event_time.py` 1095), and the votes of one plan
  have one (880). When a fact's state is broken and another fact of its kind
  reaches the mode again, the check of the first confirms the second before its
  window is over. TLC shows it when `HeldWholeWindow` is stated without `Sole`.

*Decisions of threads*
- A controller thread that misses `get` before the leader stores, and calls
  `begin` after it finished, leads again: a second provider call where
  `lean_decision_cache.py` 69-71 promises exactly one. The wave route looks
  again after `begin` (`engine.py` 645).
- A thread that has waited twice runs without a flight of its own, and its
  `finally` removes the flight of another. `WakeupIsComing` shows that no waiter
  is lost by it, `TemplateStays` that no template is.
- A call that fails twice is recorded nowhere, and a retry is counted only if it
  succeeds: against a provider that is down, neither `max_calls` nor
  `max_provider_retries` bounds the calls, though `lean_v2/budget.py` 28 says
  "capped globally".

*Attention*
- `_notice_reattempts` is lost when a bundle is reduced to seven keys
  (`generated_world.py` 1200-1204), so that re-attempts are not bounded as line
  1246 says.
- A missed item goes back without a check (1270) and without its semantic event.
  All such items have one key, so after the first bundle whose newest item is of
  this kind, no later one leads to an invocation.
- A bundle whose newest item repeats an event (991) is presented to nobody, also
  when it contains news. `ItemsAreKept` names the case (`repeated`).
- "The actor sees the WHOLE noticed bundle at once" (`generated_world.py` 1320),
  "decides ONCE from the full noticed bundle" (1182): the invocation carries 24
  items (1015), its availability set is of 16 (`qualitative_actor.py` 1115,
  `lean_controller.py` 160) and
  the lines that present it name 8 (1321). The rest have left the buffer and are
  recorded nowhere; the ledger counts the whole bundle as exposed
  (`temporal_runtime.py` 387-394). The newest item, which decides whether the actor
  is invoked, is last in the order and the first to be cut. `ItemsAreKept` names
  the case (`cut`).
- Checks remain in the queue after their entry was popped by another; they are
  harmless (`AttentionIsComing`).

## 7. What is not modelled

- *attention*: who receives an event (routing and the causal frontier); how a
  notice time is computed, which may be any time from availability on; the eight
  lines of text that name a bundle's items to the actor; the fixed-v1 mode; microsteps that
  postpone an event; several actors, which share the clock, the halt and the list of keys: those
  of the others are modelled by forgetting any number of this actor's oldest.
  Deferrals are in `TemporalBranch`.
- *causal waves*: meetings, windows, world state and transfers of authority;
  events that a template emits; a compiled template whose id is that of another,
  which overwrites it; a cache of compilations that an earlier run filled, whose
  hits do not count toward the cap; the fuzzy part of `find`, which may take another action's
  template for a similar name; a template that records a vote and lists no
  options; `authority_required`, which is folded into `actor_ids`; what a
  template that one wave compiles for a node means for its later decisions of the
  same wave (a node finds it for all of them or for none); terminal questions other than a vote; recusal, absence and delegation, which
  have the form of abstention; `max_waves`; weight ranges and sensitivity
  readouts; deliberation, which is part of an answer. A meeting whose day is no
  date would sort after all dates.
- *decisions of threads*: the caps on characters, which have the form of the cap
  on calls; `can_afford`; hit counts and reuse records; the waiter of a wave and
  a hit of its first look, which distinct contexts exclude; a pool of one worker;
  a ledger that persists from wave to wave, whose counts may start anywhere.
- *the rest of the lean line*: stages in sequence and their files.
- *the integration of hazards* and the drawing of times: numbers; a time is a
  choice.
- *fidelity records, metrics and logging* of the branch; no property reads them.
- *file checkpoints, the smoothing view and tampering* of the store: a file
  written in place, a view that differs only in its filter, and an adversary.
- *exceptions of operators*: the engine does not catch them; a run ends.
- *institutions, recompilation, truncation eligibility*: planned, modules 7-9.
- *statistical code, prompts, evidence retrieval, visualisation and
  experiments*, the largest part of the repository: their correctness is not
  about states and steps. This is why the models cover a small share of its
  lines.

Known simplifications. Events that are pending at once with the same id, time
and parents are one (sets instead of a heap): their content is the same, so the
code handles one twice where the model handles it once. In production
first-passage processes declare no reads, so `reproject_hazards` finds none to
move; it is modelled because it is there and tests use it.
`break_provisional_state` has callers only in tests and experiments; it is
modelled as an event of its own. A node of `WaveEngine` with the sets of messages
and events of another is the same node: lists of deliveries and of the queue are
sets, with what the code orders by kept in the elements.
