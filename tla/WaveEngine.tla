----------------------------- MODULE WaveEngine -----------------------------
(***************************************************************************)
(* The causal-wave engine over weighted world nodes (lean_v2/engine.py,    *)
(* worlds.py).  A node is a world and the particles it stands for; its     *)
(* weight is theirs.  A wave takes the next event day of any unresolved    *)
(* node and is one action: nothing else runs on the nodes, and the calls   *)
(* it makes in parallel are answered per context (LeanGateway models how). *)
(*                                                                         *)
(* The consequence templates are shared by all nodes.  An action that has  *)
(* none is compiled when the first node executes it; the compilation may   *)
(* fail, for one node and not for the next, since failures are not cached, *)
(* and there is a cap for the whole run.  A compiled template is found     *)
(* under the action it was compiled for.                                   *)
(*                                                                         *)
(* Deliberation is part of an answer.  The budget may end the run in any   *)
(* wave that asks for a decision.                                          *)
(***************************************************************************)
EXTENDS CausalWorld

CONSTANTS
  Support,      \* the private states an actor may have under a shared world
  Schedule,     \* the seeds: decision triggers, anchors, and the evaluation day
  Blueprint,    \* the templates that are compiled before the run
  MaxNovel,     \* max_novel_consequence_compiles
  Weight,       \* weight of a particle
  Horizon,
  MaxNodes      \* max_weighted_nodes

VARIABLES
  nodes,        \* the weighted world nodes
  promotable,   \* self.promotable: one set for all nodes
  templates,    \* executor.templates: one registry for all nodes
  decisions,    \* the decisions of the last wave, by context
  cut,          \* the particles of truncated nodes
  status        \* "running", then "done" or "exhausted"
vars == <<nodes, promotable, templates, decisions, cut, status>>

Particle == {p \in [shared : Shared, variant : [Actor -> Variant \cup {None}]] :
               \A x \in Actor : p.variant[x] \in Support[p.shared][x]}

Node == [atoms : SUBSET Particle, w : World]

ASSUME EngineAssumption ==
  /\ Support \in [Shared -> [Actor -> SUBSET (Variant \cup {None})]]
  /\ \A c \in Shared, x \in Actor :
       Support[c][x] # {} /\ (None \in Support[c][x] => Support[c][x] = {None})
  /\ \A s \in Schedule :
       s.triggers \subseteq Request /\ s.anchors \subseteq Nat /\ s.evaluation \in Nat
  /\ Blueprint \in Registry /\ MaxNovel \in Nat
  /\ Horizon \in Nat /\ MaxNodes \in Nat \ {0}

\* nd.weight
MassOf(n) == MapThenSumSet(LAMBDA p : Weight[p], n.atoms)

-----------------------------------------------------------------------------

Init ==
  /\ \E s \in Schedule :
       nodes = {[atoms |-> {p \in Particle : p.shared = c}, w |-> SeedRoot(c, s)] : c \in Shared}
  /\ promotable = Promotable
  /\ templates = Blueprint
  /\ decisions = <<>>
  /\ cut = {}
  /\ status = "running"

Days == UNION {OpenDays(n.w) : n \in nodes}

\* A mutant of Finished: the horizon is passed over, and the loop spins.
FinishedWhenEmpty == Days = {}

Finished == \A day \in Days : day > Horizon

-----------------------------------------------------------------------------
(* The steps of a wave on the nodes.                                        *)

\* Pruned actors that a pending message reaches in node n.
Reached(n) == {x \in promotable : n.w.pending[x] # {} /\ x \notin n.w.present}

Promoted == UNION {Reached(n) : n \in nodes}

\* The first node that delivers to a pruned actor takes it: which one
\* depends on the order of the node list.
Takers == {f \in [Promoted -> nodes] : \A x \in Promoted : x \in Reached(f[x])}

\* Mutants of Split: unmodelled states get no part; a part keeps all of the
\* node's weight.
SplitModelled(n, day, promoted) ==
  LET part(p) == Morning(n.w, day, promoted, p.variant)
      modelled == {p \in n.atoms : \A x \in Actor : part(p).variant[x] # UnknownState}
  IN {[atoms |-> {q \in n.atoms : part(q) = part(p)}, w |-> part(p)] : p \in modelled}

SplitWhole(n, day, promoted) ==
  LET part(p) == Morning(n.w, day, promoted, p.variant)
  IN {[atoms |-> n.atoms, w |-> part(p)] : p \in n.atoms}

\* Node n after steps 1 and 2 of a wave: split on the private states of all
\* the actors that decide today, into one part for every way to assign them.
Split(n, day, promoted) ==
  LET part(p) == Morning(n.w, day, promoted, p.variant)
  IN {[atoms |-> {q \in n.atoms : part(q) = part(p)}, w |-> part(p)] : p \in n.atoms}

Mornings(day) ==
  {UNION {Split(n, day, {x \in Reached(n) : taker[x] = n}) : n \in nodes} : taker \in Takers}

AllContexts(N, day) == UNION {Contexts(n.w, day) : n \in N}

\* Novel actions of the day, each with an actor that asks for it.
NovelRequests(N, day, answers) ==
  UNION {{[actor |-> e.actor, action |-> answers[BuildContext(n.w, e)].action] :
            e \in {f \in Requests(n.w, day) :
                     Novel(n.w, f, answers[BuildContext(n.w, f)], templates)}} : n \in N}

\* The templates compiled so far.
Compiled(registry) == {a \in Action : registry[a] # Blueprint[a]}

\* The registry with the templates of f for the actions of new.
With(new, f) == [a \in Action |-> IF a \in new THEN f[a] ELSE templates[a]]

\* compile_novel_action: what the registry may be after the wave.  A template
\* is compiled for an actor that asked, and for no other.
Recompiled(requests) ==
  LET fits(new) == {f \in [new -> Template] : \A a \in new :
                      \E q \in requests : q.action = a /\ f[a].actor_ids = {q.actor}}
      affordable == {new \in SUBSET {q.action : q \in requests} :
                       Cardinality(Compiled(templates) \cup new) <= MaxNovel}
  IN UNION {{With(new, f) : f \in fits(new)} : new \in affordable}

\* What a node finds while it applies its decisions: of the templates that
\* this wave compiles, those that an earlier node or itself got compiled.
Found(registry) ==
  {With(new, registry) : new \in SUBSET (Compiled(registry) \ Compiled(templates))}

Evenings(N, day, answers, found) ==
  {[atoms |-> n.atoms, w |-> Evening(n.w, day, answers, found[n])] : n \in N}

\* A mutant of Key: private states are left out.
KeyNoVariant(w) == [w EXCEPT !.variant = {}]

\* The equivalence key: all of a node's dynamic state.
Key(w) == w

\* Nodes of one key become one node with the particles of all.
Coalesce(N) ==
  {[atoms |-> UNION {n.atoms : n \in {m \in N : Key(m.w) = k}},
    w |-> (CHOOSE n \in N : Key(n.w) = k).w] : k \in {Key(n.w) : n \in N}}

\* _enforce_cap: the nodes that stay.  Beyond the cap the lightest are cut,
\* equal weights in any order.
Kept(N) ==
  IF Cardinality(N) <= MaxNodes THEN {N}
  ELSE {K \in kSubset(MaxNodes, N) : \A n \in K, m \in N \ K : MassOf(n) >= MassOf(m)}

-----------------------------------------------------------------------------

NextDay(day) == day <= Horizon /\ \A d \in Days : day <= d

Wave(day) ==
  /\ status = "running" /\ NextDay(day)
  /\ \E morning \in Mornings(day) :
       /\ decisions' \in [AllContexts(morning, day) -> Reply \cup {NoReply}]
       /\ templates' \in Recompiled(NovelRequests(morning, day, decisions'))
       /\ \E found \in [morning -> Found(templates')] :
            \E merged \in {Coalesce(Evenings(morning, day, decisions', found))} :
              /\ nodes' \in Kept(merged)
              /\ cut' = cut \cup UNION {n.atoms : n \in merged \ nodes'}
  /\ promotable' = promotable \ Promoted
  /\ UNCHANGED status

\* The budget refuses a call of the wave, be it a decision or a compilation:
\* the exception leaves run, and the result is finalized with no nodes at all.
Exhaust(day) ==
  /\ status = "running" /\ NextDay(day)
  /\ \E morning \in Mornings(day) : AllContexts(morning, day) # {}
  /\ promotable' = promotable \ Promoted
  /\ status' = "exhausted"
  /\ nodes' = {}
  /\ UNCHANGED <<templates, decisions, cut>>

Finish ==
  /\ status = "running"
  /\ Finished
  /\ status' = "done"
  /\ UNCHANGED <<nodes, promotable, templates, decisions, cut>>

Next == Finish \/ \E day \in Days : Exhaust(day) \/ Wave(day)

\* run is one loop of one thread: it goes on while it can.
Spec == Init /\ [][Next]_vars /\ WF_vars(Next)

-----------------------------------------------------------------------------
(* The particles of the nodes, each with the world of its node.             *)

NodeOf(p) == CHOOSE n \in nodes : p \in n.atoms
WorldOf == [p \in UNION {n.atoms : n \in nodes} |-> NodeOf(p).w]

\* A particle alone has the templates of the blueprint.
EveningAlone(w, day, answers) == Evening(w, day, answers, Blueprint)

Astray == promotable # Promotable \/ templates # Blueprint \/ status = "exhausted"

Alone == INSTANCE ParticleWorlds
  WITH Evening <- EveningAlone, world <- WorldOf, astray <- Astray

-----------------------------------------------------------------------------
(* Properties.                                                              *)

\* Type invariant.
TypeOK ==
  /\ nodes \subseteq Node
  /\ promotable \subseteq Promotable
  /\ templates \in Registry /\ Cardinality(Compiled(templates)) <= MaxNovel
  /\ cut \subseteq Particle
  /\ status \in {"running", "done", "exhausted"}

\* No probability mass is lost, duplicated or renormalized away: every
\* particle is in exactly one node or in the truncated mass.
MassIsKept ==
  status # "exhausted" =>
    /\ (UNION {n.atoms : n \in nodes}) \cup cut = Particle
    /\ \A n \in nodes : n.atoms # {} /\ n.atoms \cap cut = {}
    /\ \A n, m \in nodes : n.atoms \cap m.atoms # {} => n = m

\* A node holds no particle that disagrees with its shared world or with a
\* private state it has assigned.
OwnStates ==
  \A n \in nodes : \A p \in n.atoms :
    /\ n.w.shared = p.shared
    /\ \A x \in Actor : n.w.variant[x] \in {None, p.variant[x]}

\* Two nodes always differ in the shared world or in an assigned private
\* state, so that coalescing never merges any.
NodesDiffer ==
  \A n, m \in nodes : n # m =>
    \/ n.w.shared # m.w.shared
    \/ \E x \in Actor : /\ None \notin {n.w.variant[x], m.w.variant[x]}
                        /\ n.w.variant[x] # m.w.variant[x]

\* An actor in an unmodelled private state decides nothing, and no world in
\* which a member is in one gets an answer.
UnknownStaysOpen ==
  \A n \in nodes : \A x \in Actor : n.w.variant[x] = UnknownState =>
    /\ n.w.past[x] = <<>>
    /\ n.w.votes[x] = None
    /\ x \in Member => ~Resolved(n.w)

\* A required participant whose last decision was to wait, and who has not
\* voted, is asked again at the deadline.
WaitReopens ==
  \A n \in nodes : \A x \in Required :
    /\ ~Resolved(n.w)
    /\ n.w.votes[x] = None
    /\ n.w.past[x] # <<>>
    /\ LastDecision(n.w, x).reply.act # "act"
    /\ n.w.day < Deadline
    => Mandatory(x) \in n.w.queue

\* A resolved world takes no more decisions, whatever is still due in later
\* waves: it keeps its answer and the votes and decisions it rests on.
ResolvedIsFinal ==
  [][\A n \in nodes, m \in nodes' : Resolved(n.w) /\ n.atoms \cap m.atoms # {} =>
       <<m.w.outcome, m.w.votes, m.w.past>> = <<n.w.outcome, n.w.votes, n.w.past>>]_vars

\* Splitting late, merging and sharing answers are exact as long as no pruned
\* actor is promoted and no action compiled: the nodes go through what each
\* of their particles would go through alone.
ExactWorlds == Alone!ParticleSpec

\* The run ends.
RunEnds == <>(status # "running")
=============================================================================
