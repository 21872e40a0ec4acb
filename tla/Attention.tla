----------------------------- MODULE Attention -----------------------------
(***************************************************************************)
(* How an item reaches an actor: delivered on a channel, noticed when the  *)
(* actor attends to that channel, presented to the actor in an invocation. *)
(* temporal_runtime.py: record_available_observation, schedule_attention,  *)
(* collect_attention_bundle; generated_world.py: the three operators that  *)
(* call them.  One actor of one branch: actors share nothing but the clock *)
(* and the halt of their branch.  The three steps are events of the branch *)
(* loop, in the terms of EventSim, which TemporalBranch implements; events *)
(* of one timestamp run in any order.                                      *)
(***************************************************************************)
EXTENDS Integers, Sequences, FiniteSets

CONSTANTS
  Item,             \* what is delivered to the actor
  Channel,
  Semantic,         \* the semantic events the items are about
  NoEvent,          \* stands for the id of an item without a semantic event
  ChannelOf,        \* the channel an item is delivered on
  EventOf,          \* the semantic event an item is about
  Rank,             \* the place of an item in the order of the iids
  General,          \* a set of at most the empty channel id
  Persistent,       \* the channels that keep what was missed
  Deep,             \* the events at max_cascade_depth
  BundleCap,        \* how many items of a bundle an invocation carries
  ViewCap,          \* how many of those are put before the actor
  KeysCap,          \* how many keys pending_reconsiderations keeps
  MaxInvocations,
  MaxEvents,        \* safety_max_events
  Horizon

ASSUME AttentionAssumption ==
  /\ ChannelOf \in [Item -> Channel] /\ EventOf \in [Item -> Semantic]
  /\ NoEvent \notin Semantic
  /\ General \subseteq Channel /\ Persistent \subseteq Channel
  /\ Deep \subseteq Semantic
  /\ MaxInvocations \in Nat /\ MaxEvents \in Nat /\ Horizon \in Nat

ASSUME CapsAssumption ==
  BundleCap \in Nat /\ ViewCap \in Nat /\ KeysCap \in Nat

\* A branch delivers finitely many items.
ASSUME FiniteAssumption == IsFiniteSet(Item)

\* Items have iids of their own.
ASSUME RankAssumption ==
  /\ Rank \in [Item -> 1..Cardinality(Item)]
  /\ \A i, j \in Item : Rank[i] = Rank[j] => i = j

VARIABLES
  now, pending, handled, status,   \* of the branch loop
  available,    \* what is delivered and not noticed
  scheduled,    \* scheduled_attention: the next check of each channel
  keys,         \* pending_reconsiderations: the keys of this actor, oldest first
  used,         \* the invocations so far
  halted,       \* branch_halted
  heard,        \* the items presented to the actor
  repeated,     \* the items noticed with a newest item that repeats an event
  cut           \* the items beyond a cap of their bundle

attentionVars == <<available, scheduled, keys, used, halted, heard, repeated, cut>>
vars == <<now, pending, handled, status, attentionVars>>

\* Times up to the horizon, and one that stands for all later ones.
Time == 0..(Horizon + 1)
NoTime == Horizon + 2

\* An available item: when it became available, by when it is to be noticed,
\* and whether the actor missed it before.
Entry == [item : Item, at : Time, by : Time, again : BOOLEAN]

\* A check stands on the channel of the item it was scheduled for.
Event == [kind : {"delivery", "check", "invocation"}, at : Time,
          item : Item, bundle : SUBSET Entry]

Sim == INSTANCE EventSim

Init ==
  /\ now = 0 /\ handled = 0 /\ status = "running"
  /\ \E at \in [Item -> 0..Horizon] :
       pending = {[kind |-> "delivery", at |-> at[i], item |-> i,
                   bundle |-> {}] : i \in Item}
  /\ available = {}
  /\ scheduled = [c \in Channel |-> NoTime]
  /\ keys = <<>> /\ used = 0 /\ halted = FALSE
  /\ heard = {} /\ repeated = {} /\ cut = {}

Checks == {e \in pending : e.kind = "check"}
Invocations == {e \in pending : e.kind = "invocation"}

\* Handling e replaces it by the events of caused.
Replace(e, caused) ==
  /\ status = "running"
  /\ pending' = (pending \ {e}) \cup caused
  /\ Sim!Handle(e)

-----------------------------------------------------------------------------
(* Delivery: the item waits for the actor's attention.                      *)

\* A mutant of Coalesces: any check to come is enough.
CoalescesAny(c, notice) == scheduled[c] # NoTime

\* A check at or before the notice time will collect this item too.
Coalesces(c, notice) == scheduled[c] <= notice

\* GeneratedObservationDeliveryOperator; compute_notice_ts may answer any time
\* that is not in the past.
Deliver(e) ==
  /\ e.kind = "delivery"
  /\ \E notice \in now..(Horizon + 1) :
       LET c == ChannelOf[e.item]
       IN  /\ available' = available \cup
                {[item |-> e.item, at |-> now, by |-> notice, again |-> FALSE]}
           /\ \/ /\ Coalesces(c, notice)
                 /\ Replace(e, {})
                 /\ UNCHANGED scheduled
              \/ /\ ~Coalesces(c, notice)
                 /\ Replace(e, {[kind |-> "check", at |-> notice,
                                 item |-> e.item, bundle |-> {}]})
                 /\ scheduled' = [scheduled EXCEPT ![c] = notice]
  /\ UNCHANGED <<keys, used, halted, heard, repeated, cut>>

-----------------------------------------------------------------------------
(* Attention: everything available on the channel is noticed as one bundle. *)

\* A check of the empty channel is one of all channels.
Covers(c, d) == c = d \/ c \in General

Bundle(c) == {x \in available : x.at <= now /\ Covers(c, ChannelOf[x.item])}

\* A bundle is sorted by availability and iid.
Before(x, y) ==
  \/ x.at < y.at
  \/ x.at = y.at /\ Rank[x.item] < Rank[y.item]

Newest(bundle) == {x \in bundle : \A y \in bundle : ~Before(x, y)}

\* The first n entries of a bundle.
First(bundle, n) ==
  {x \in bundle : Cardinality({y \in bundle : Before(y, x)}) < n}

\* An item that was missed comes back without its semantic event.
KeyOf(x) == IF x.again THEN NoEvent ELSE EventOf[x.item]

Items(entries) == {x.item : x \in entries}

\* A mutant of Refuse: the invocation is dropped and nothing is recorded.
RefuseQuietly(e) == Replace(e, {}) /\ UNCHANGED <<keys, halted, repeated, cut>>

\* _record_truncation: the branch is to halt.
Refuse(e) ==
  /\ Replace(e, {})
  /\ halted' = TRUE
  /\ UNCHANGED <<keys, repeated, cut>>

\* del pending[:-256]: the last keys stay.  The list is that of the branch, so
\* the keys of other actors may have pushed out more of the oldest of this one.
Remembered(s) ==
  {SubSeq(s, k, Len(s)) : k \in {l \in 1..(Len(s) + 1) : Len(s) - l < KeysCap}}

Known(key) == \E k \in DOMAIN keys : keys[k] = key

\* _invocation_event: at most one for each remembered event of a newest item.
\* It carries the first items of the bundle, so a newest item that is cut off
\* makes the actor decide and is not shown to it.
Reconsider(e, newest, bundle) ==
  \/ /\ Known(KeyOf(newest))
     /\ Replace(e, {})
     /\ repeated' = repeated \cup Items(bundle)
     /\ UNCHANGED <<keys, halted, cut>>
  \/ /\ ~Known(KeyOf(newest))
     /\ used >= MaxInvocations \/ KeyOf(newest) \in Deep
     /\ Refuse(e)
  \/ /\ ~Known(KeyOf(newest))
     /\ used < MaxInvocations /\ KeyOf(newest) \notin Deep
     /\ Replace(e, {[kind |-> "invocation", at |-> now, item |-> newest.item,
                     bundle |-> First(bundle, BundleCap)]})
     /\ keys' \in Remembered(Append(keys, KeyOf(newest)))
     /\ cut' = cut \cup Items(bundle \ First(bundle, BundleCap))
     /\ UNCHANGED <<halted, repeated>>

\* A mutant of Popped: the entry of the channel stays.
PoppedNever(c) == scheduled

\* The check of the channel, or the checks of all, count as done, also a later
\* one that is still to come.
Popped(c) == [d \in Channel |-> IF Covers(c, d) THEN NoTime ELSE scheduled[d]]

\* GeneratedAttentionOperator
Attend(e) ==
  /\ e.kind = "check"
  /\ LET c == ChannelOf[e.item]
     IN  /\ available' = available \ Bundle(c)
         /\ scheduled' = Popped(c)
         /\ \/ /\ Bundle(c) = {}
               /\ Replace(e, {})
               /\ UNCHANGED <<keys, halted, repeated, cut>>
            \/ \E newest \in Newest(Bundle(c)) :
                 Reconsider(e, newest, Bundle(c))
  /\ UNCHANGED <<used, heard>>

-----------------------------------------------------------------------------
(* Invocation: the bundle is presented to the actor, who may miss a part.   *)

\* _requeue_missed, of what was missed on a channel that keeps it; no check is
\* scheduled for it, and its count of attempts is lost with the bundle.
Requeued(bundle, missed) ==
  {[x EXCEPT !.again = TRUE] :
     x \in {y \in bundle : /\ EventOf[y.item] \in missed
                           /\ ChannelOf[y.item] \in Persistent}}

\* The availability set of the actor's bounded cognition.
View(bundle) == First(bundle, ViewCap)

\* A mutant of Decide: only the scheduling of an invocation looks at the budget.
DecideScheduled(e) ==
  /\ e.kind = "invocation"
  /\ Replace(e, {})
  /\ available' = available \cup Requeued(View(e.bundle), Semantic)
  /\ used' = used + 1
  /\ heard' = heard \cup Items(View(e.bundle))
  /\ cut' = cut \cup Items(e.bundle \ View(e.bundle))
  /\ UNCHANGED <<scheduled, keys, halted, repeated>>

\* GeneratedActorInvocationOperator, when the actor decides.
Decide(e) ==
  /\ e.kind = "invocation"
  /\ used < MaxInvocations
  /\ Replace(e, {})
  /\ \E missed \in SUBSET {EventOf[i] : i \in Items(View(e.bundle))} :
       available' = available \cup Requeued(View(e.bundle), missed)
  /\ used' = used + 1
  /\ heard' = heard \cup Items(View(e.bundle))
  /\ cut' = cut \cup Items(e.bundle \ View(e.bundle))
  /\ UNCHANGED <<scheduled, keys, halted, repeated>>

\* And when it cannot: the budget of invocations or of calls is used up, or
\* the decision is unavailable.
CannotDecide(e) ==
  /\ e.kind = "invocation"
  /\ Refuse(e)
  /\ \/ UNCHANGED used
     \/ used < MaxInvocations /\ used' = used + 1
  /\ UNCHANGED <<available, scheduled, heard>>

-----------------------------------------------------------------------------
(* The branch loop.                                                         *)

Running == status = "running" /\ ~halted /\ handled < MaxEvents

Advance ==
  /\ Running
  /\ UNCHANGED pending
  /\ \E e \in pending : now' = e.at
  /\ Sim!Advance
  /\ UNCHANGED attentionVars

Complete ==
  /\ Running
  /\ Sim!Complete
  /\ UNCHANGED attentionVars

Truncate ==
  /\ status = "running"
  /\ \/ halted /\ status' = "halted"
     \/ ~halted /\ handled >= MaxEvents /\ status' = "event_budget"
  /\ UNCHANGED pending
  /\ Sim!Truncate
  /\ UNCHANGED attentionVars

Next ==
  \/ \E e \in pending : Deliver(e) \/ Attend(e) \/ Decide(e) \/ CannotDecide(e)
  \/ Advance \/ Complete \/ Truncate

\* One thread runs the loop until it breaks.
Spec == Init /\ [][Next]_vars /\ WF_vars(Next)

-----------------------------------------------------------------------------
(* Properties                                                               *)

\* The type invariant of the attention store and of the events around it.
TypeOK ==
  /\ now \in Time /\ handled \in Nat
  /\ pending \subseteq Event
  /\ status \in {"running", "completed", "event_budget", "halted"}
  /\ available \subseteq Entry
  /\ scheduled \in [Channel -> Time \cup {NoTime}]
  /\ keys \in Seq(Semantic \cup {NoEvent})
  /\ used \in 0..MaxInvocations
  /\ halted \in BOOLEAN
  /\ heard \subseteq Item /\ repeated \subseteq Item /\ cut \subseteq Item

\* An item that waits for its first notice has a check to come that covers it,
\* no later than the notice time computed at its delivery: coalescing into a
\* scheduled check never delays an item (schedule_attention), although entries
\* of scheduled_attention are overwritten by earlier checks, popped by checks
\* that they do not stand for and cleared by a check of all channels.
AttentionIsComing ==
  \A x \in available : ~x.again =>
    \E e \in Checks : e.at <= x.by /\ Covers(ChannelOf[e.item], ChannelOf[x.item])

\* An item is in one place: to be delivered, available, or in the bundle of one
\* invocation; and one that has left these places was presented to the actor,
\* or the branch is halted: a budget that refuses or breaks off an invocation is
\* never a silent drop (_invocation_event, _record_truncation).  There are two
\* silent drops, and no third: a bundle whose newest item repeats an event, and
\* what is beyond a cap of its bundle.
Places(i) ==
  {e \in pending : e.kind = "delivery" /\ e.item = i}
    \cup {x \in available : x.item = i}
    \cup {e \in Invocations : i \in Items(e.bundle)}

ItemsAreKept ==
  \A i \in Item :
    /\ \A p, q \in Places(i) : p = q
    /\ Places(i) = {} => i \in heard \cup repeated \cup cut \/ halted

\* What should be noticed within the horizon is noticed, unless the branch is
\* truncated: a complete branch has left nothing unseen.
Noticed ==
  \A i \in Item :
    (\E x \in available : x.item = i /\ ~x.again /\ x.by <= Horizon)
      ~> \/ \A x \in available : x.item = i => x.again
         \/ status \in {"event_budget", "halted"}
=============================================================================
