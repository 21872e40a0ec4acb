---------------------------- MODULE CausalWorld ----------------------------
(***************************************************************************)
(* One weighted world of the causal-wave engine and what a wave does to    *)
(* it: lean_v2/engine.py (the handlers of a node), worlds.py (the fields   *)
(* of a node), consequences.py (what an executed action changes).          *)
(*                                                                         *)
(* An answer of the language model is a record: whether the actor waits,   *)
(* gathers information or acts, the decisive fact it misses, the option it *)
(* names, whether it abstains, and the action it chooses, with its target. *)
(* NoReply is a context whose call or validation failed.  The wording of   *)
(* contents and the state update of a reply are folded into the actor's    *)
(* past replies, which the next context holds.                             *)
(*                                                                         *)
(* What an action does is what its template says.  The templates are the   *)
(* engine's, and shared by all worlds (WaveEngine): here they are a        *)
(* parameter.  authority_required is folded into actor_ids.                *)
(*                                                                         *)
(* The terminal question is an institution's vote.  Not modelled: other    *)
(* institutions, meetings, windows, world state, transfers of authority    *)
(* and the events a template emits.                                        *)
(***************************************************************************)
EXTENDS Naturals, Sequences, FiniteSets, FiniteSetsExt, Functions

CONSTANTS
  Shared,         \* the joint states of what no actor owns
  Actor,
  Promotable,     \* pruned actors: no part of the world until a message reaches them
  Member,         \* members of the institution whose vote is the terminal question
  Required,       \* required participants of its obligation
  ActorOrder,     \* the order of actor ids
  Option, OptionOrder,    \* vote options, and the order of their names
  AbstentionAllowed,
  Unanimity,      \* the decision rule: unanimity, else majority
  Deadline,       \* deadline_day of the obligation
  MissingFact,    \* decisive facts that a waiting actor may name
  Action,         \* what an actor may choose to do
  Template, NoTemplate,
  Reply, NoReply, \* valid answers; a context whose decision is unavailable
  Variant, UnknownState,  \* private-state variants; the unmodelled one
  None

Kind == {"trigger", "mandatory_terminal", "promoted", "reconsideration"}
Request == [day : Nat, kind : Kind, actor : Actor]
Event == Request \cup [day : Nat, kind : {"anchor", "terminal_eval"}]
Message == [from : Actor, day : Nat]
Ballot == Option \cup {None, "abstain"}
Decided == [reply : Reply, day : Nat, known : Nat]

Reason == {"", "decision_unavailable", "required_participant_no_terminal_action",
           "unknown_state", "votes_missing"}

\* The template of each action, if it has one.
Registry == [Action -> Template \cup {NoTemplate}]

World == [day : Nat, shared : Shared, variant : [Actor -> Variant \cup {None}],
          present : SUBSET Actor,
          delivered : [Actor -> SUBSET Message], pending : [Actor -> SUBSET Message],
          queue : SUBSET Event, votes : [Actor -> Ballot],
          past : [Actor -> Seq(Decided)], asked : [Actor -> SUBSET MissingFact],
          outcome : {None, "YES", "NO"}, reason : Reason]

ASSUME WorldAssumption ==
  /\ Promotable \subseteq Actor /\ Member \subseteq Actor /\ Required \subseteq Actor
  /\ Promotable \cap Member = {}
  /\ IsFiniteSet(Actor)
  /\ ActorOrder \in [Actor -> Nat]
  /\ \A x, y \in Actor : ActorOrder[x] = ActorOrder[y] => x = y
  /\ {None, "abstain"} \cap Option = {}
  /\ OptionOrder \in [Option -> Nat]
  /\ NoTemplate \notin Template
  /\ Template \subseteq [actor_ids : SUBSET Actor, targets : SUBSET Actor, options : Seq(Option)]
  /\ UnknownState \in Variant /\ None \notin Variant
  /\ NoReply \notin Reply
  /\ Reply \subseteq [act : {"wait", "gather_information", "act"},
                      fact : MissingFact \cup {None}, vote : Option \cup {None},
                      abstains : BOOLEAN, action : Action]
  /\ AbstentionAllowed \in BOOLEAN /\ Unanimity \in BOOLEAN /\ Deadline \in Nat

-----------------------------------------------------------------------------
(* Seeding.  A schedule is the blueprint's decision triggers, the days of   *)
(* its temporal anchors, and the day the terminal question is evaluated.    *)

Mandatory(x) == [day |-> Deadline, kind |-> "mandatory_terminal", actor |-> x]

\* A required participant whom the blueprint gave no trigger gets one at the
\* deadline.  An anchor does nothing on its day, but it has one.
SeedRoot(c, schedule) ==
  LET triggers == {e \in schedule.triggers : e.actor \notin Promotable}
      silent == {m \in Required \ Promotable : \A e \in triggers : e.actor # m}
  IN [day |-> 0, shared |-> c, variant |-> [x \in Actor |-> None],
      present |-> Actor \ Promotable,
      delivered |-> [x \in Actor |-> {}], pending |-> [x \in Actor |-> {}],
      queue |-> triggers \cup {Mandatory(m) : m \in silent}
                 \cup {[day |-> d, kind |-> "anchor"] : d \in schedule.anchors}
                 \cup {[day |-> schedule.evaluation, kind |-> "terminal_eval"]},
      votes |-> [x \in Actor |-> None], past |-> [x \in Actor |-> <<>>],
      asked |-> [x \in Actor |-> {}], outcome |-> None, reason |-> ""]

Resolved(w) == w.outcome # None

-----------------------------------------------------------------------------
(* Delivery and the lazy assignment of private states.                      *)

\* Pending messages reach the actors that are present and the pruned ones
\* that this world promotes; the others' are dropped.
Deliver(w, day, promoted) ==
  [w EXCEPT !.present = @ \cup promoted,
            !.delivered = [x \in Actor |->
               IF x \in w.present \cup promoted THEN @[x] \cup w.pending[x] ELSE @[x]],
            !.pending = [x \in Actor |-> {}],
            !.queue = @ \cup {[day |-> day, kind |-> "promoted", actor |-> x] : x \in promoted}]

Due(w, day) == {e \in w.queue : e.day = day /\ e.kind \in Kind}
DueActors(w, day) == {e.actor : e \in Due(w, day)}

\* A mutant of Assign: the unmodelled state is not recorded.
AssignModelled(w, day, variant) ==
  [w EXCEPT !.variant = [x \in Actor |->
     IF x \in DueActors(w, day) /\ variant[x] # UnknownState THEN variant[x] ELSE w.variant[x]]]

\* Every actor that decides today and has no private state yet gets the one
\* of the given assignment.
Assign(w, day, variant) ==
  [w EXCEPT !.variant = [x \in Actor |->
     IF x \in DueActors(w, day) /\ w.variant[x] = None THEN variant[x] ELSE w.variant[x]]]

-----------------------------------------------------------------------------
(* Contexts.                                                                *)

LastDecision(w, x) == w.past[x][Len(w.past[x])]

\* Nothing arrived since the actor deferred its decision.
SkipReask(w, e) ==
  /\ e.kind = "reconsideration"
  /\ Cardinality(w.delivered[e.actor])
       <= IF w.past[e.actor] = <<>> THEN 0 ELSE LastDecision(w, e.actor).known

\* A mutant of Requests: an actor in an unmodelled state is asked as well.
RequestsOfAll(w, day) == {e \in Due(w, day) : ~SkipReask(w, e)}

\* Decisions asked of a world today: never of an actor whose state is unknown.
Requests(w, day) ==
  {e \in Due(w, day) : w.variant[e.actor] # UnknownState /\ ~SkipReask(w, e)}

\* The decision-relevant context, as far as it differs from world to world.
\* What else the actor sees, the menu of its templates and the public facts,
\* is the same in all the contexts of a wave, which are built before any
\* decision is applied; contexts of different days differ by the day.
BuildContext(w, e) ==
  [actor |-> e.actor, variant |-> w.variant[e.actor], kind |-> e.kind, day |-> e.day,
   delivered |-> w.delivered[e.actor], past |-> w.past[e.actor],
   voted |-> IF e.actor \in Member THEN {m \in Actor : w.votes[m] # None} ELSE {}]

Contexts(w, day) == {BuildContext(w, e) : e \in Requests(w, day)}

-----------------------------------------------------------------------------
(* Applying a decision.                                                     *)

\* A mutant of Reopens: only a deadline that has come counts.
ReopensAtDeadline(e) == e.actor \in Required /\ e.kind = "mandatory_terminal"

\* _schedule_mandatory_terminal: true at an ordinary trigger before the
\* deadline, and at the mandatory one.
Reopens(e) == e.actor \in Required /\ (e.day < Deadline \/ e.kind = "mandatory_terminal")

ReopenAtDeadline(w, e) ==
  IF e.day < Deadline THEN [w EXCEPT !.queue = @ \cup {Mandatory(e.actor)}]
  ELSE IF AbstentionAllowed THEN [w EXCEPT !.votes[e.actor] = "abstain"]
  ELSE [w EXCEPT !.reason = "required_participant_no_terminal_action"]

\* A wait for a fact is reconsidered when the next event is due, once per fact.
Reconsider(w, e, r) ==
  LET later == {f.day : f \in {g \in w.queue : g.day > e.day}} IN
  IF r.fact \in MissingFact \ w.asked[e.actor] /\ later # {}
  THEN [w EXCEPT !.asked[e.actor] = @ \cup {r.fact},
                 !.queue = @ \cup {[day |-> Min(later), kind |-> "reconsideration",
                                    actor |-> e.actor]}]
  ELSE w

\* A message reaches its targets, present or not, when the next wave delivers.
Send(w, e, targets) ==
  [w EXCEPT !.pending = [x \in Actor |->
     @[x] \cup IF x \in targets THEN {[from |-> e.actor, day |-> e.day]} ELSE {}]]

Waits(w, e, r) ==
  LET u == IF Reopens(e) THEN ReopenAtDeadline(w, e) ELSE Reconsider(w, e, r) IN
  IF r.act = "gather_information" THEN Send(u, e, w.present \ {e.actor}) ELSE u

\* The options that the templates of actor x list.
Allowed(registry, x) ==
  UNION {Range(registry[a].options) :
           a \in {b \in Action : registry[b] # NoTemplate /\ x \in registry[b].actor_ids}}

Lowest(options) == CHOOSE o \in options : \A q \in options : OptionOrder[o] <= OptionOrder[q]

\* What a member's decision puts on the terminal tally without a template:
\* at the deadline an unclear or a forbidden choice becomes the lowest option.
DirectBallot(e, r, registry) ==
  LET final == e.kind = "mandatory_terminal"
      allowed == Allowed(registry, e.actor)
  IN IF e.actor \notin Member \/ allowed = {} THEN None
     ELSE IF r.abstains /\ final /\ AbstentionAllowed THEN "abstain"
     ELSE IF r.vote \in allowed THEN r.vote
     ELSE IF final THEN Lowest(allowed) ELSE None

\* validate refuses an actor that the template does not empower and an
\* option that it does not list.
Valid(e, r, t) ==
  /\ t.actor_ids = {} \/ e.actor \in t.actor_ids
  /\ t.options = <<>> \/ r.vote \in Range(t.options) \cup {None}

\* execute: a template with options records a vote, the first option unless
\* another is named, and sends to its targets.
Execute(w, e, r, t) ==
  LET vote == IF r.vote = None THEN Head(t.options) ELSE r.vote
      v == IF t.options = <<>> THEN w ELSE [w EXCEPT !.votes[e.actor] = vote]
  IN Send(v, e, t.targets)

\* An action with no template, and none that could be compiled, does nothing.
Acts(w, e, r, registry) ==
  LET ballot == DirectBallot(e, r, registry)
      t == registry[r.action]
  IN IF ballot # None THEN [w EXCEPT !.votes[e.actor] = ballot]
     ELSE IF t # NoTemplate /\ Valid(e, r, t) THEN Execute(w, e, r, t) ELSE w

\* The action of this decision has to be compiled.
Novel(w, e, r, registry) ==
  /\ ~Resolved(w)
  /\ r # NoReply /\ r.act = "act"
  /\ DirectBallot(e, r, registry) = None
  /\ registry[r.action] = NoTemplate

Remember(w, e, r) ==
  [w EXCEPT !.past[e.actor] =
     Append(@, [reply |-> r, day |-> e.day, known |-> Cardinality(w.delivered[e.actor])])]

\* A mutant of ApplyDecision: a resolved world is not looked at.
ApplyToAny(w, e, r, registry) ==
  IF r = NoReply THEN [w EXCEPT !.reason = IF @ = "" THEN "decision_unavailable" ELSE @]
  ELSE LET u == Remember(w, e, r) IN
       IF r.act = "act" THEN Acts(u, e, r, registry) ELSE Waits(u, e, r)

ApplyDecision(w, e, r, registry) ==
  IF Resolved(w) THEN w
  ELSE IF r = NoReply
  THEN [w EXCEPT !.reason = IF @ = "" THEN "decision_unavailable" ELSE @]
  ELSE LET u == Remember(w, e, r) IN
       IF r.act = "act" THEN Acts(u, e, r, registry) ELSE Waits(u, e, r)

KindOrder(k) == CASE k = "trigger" -> 0 [] k = "mandatory_terminal" -> 1
                  [] k = "promoted" -> 2 [] OTHER -> 3

\* Decisions of one world are applied by actor, then in the order of its queue.
NotAfter(e, f) ==
  \/ ActorOrder[e.actor] < ActorOrder[f.actor]
  \/ e.actor = f.actor /\ KindOrder(e.kind) <= KindOrder(f.kind)

\* All of today's decisions, each taken in the context of the morning.
Decide(w, day, decisions, registry) ==
  LET Apply(e, v) == ApplyDecision(v, e, decisions[BuildContext(w, e)], registry)
      Last(S) == CHOOSE e \in S : \A f \in S : NotAfter(f, e)
      v == MapThenFoldSet(Apply, w, LAMBDA e : e, Last, Requests(w, day))
  IN [w EXCEPT !.queue = v.queue, !.votes = v.votes, !.past = v.past,
               !.asked = v.asked, !.pending = v.pending, !.reason = v.reason]

-----------------------------------------------------------------------------
(* The end of the day.                                                      *)

UnknownMembers(w) == {m \in Member : w.variant[m] = UnknownState}
MissingVotes(w) == {m \in Member : w.votes[m] = None}

Carries(w, o) ==
  LET for == {m \in Member : w.votes[m] = o} IN
  IF Unanimity THEN for = Member ELSE 2 * Cardinality(for) > Cardinality(Member)

\* A mutant of EvaluateTerminal: the reason goes where the outcome does.
EvaluateUnresolved(w) ==
  IF UnknownMembers(w) # {} THEN [w EXCEPT !.outcome = "unknown_state"]
  ELSE IF MissingVotes(w) # {} THEN [w EXCEPT !.outcome = "votes_missing"]
  ELSE [w EXCEPT !.outcome = IF \E o \in Option : Carries(w, o) THEN "YES" ELSE "NO"]

EvaluateTerminal(w) ==
  IF UnknownMembers(w) # {} THEN [w EXCEPT !.reason = "unknown_state"]
  ELSE IF MissingVotes(w) # {} THEN [w EXCEPT !.reason = "votes_missing"]
  ELSE [w EXCEPT !.outcome = IF \E o \in Option : Carries(w, o) THEN "YES" ELSE "NO"]

\* The terminal question is put once; the day's events are consumed.
CloseDay(w, day) ==
  LET asks == \E e \in w.queue : e.day = day /\ e.kind = "terminal_eval"
      v == IF asks /\ ~Resolved(w) THEN EvaluateTerminal(w) ELSE w
  IN [v EXCEPT !.queue = {e \in @ : e.day > day}, !.day = day]

-----------------------------------------------------------------------------
(* A day of one world.                                                      *)

OpenDays(w) == IF Resolved(w) THEN {} ELSE {e.day : e \in w.queue}

Morning(w, day, promoted, variant) == Assign(Deliver(w, day, promoted), day, variant)

Evening(w, day, decisions, registry) == CloseDay(Decide(w, day, decisions, registry), day)
=============================================================================
