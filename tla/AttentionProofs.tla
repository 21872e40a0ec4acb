-------------------------- MODULE AttentionProofs --------------------------
(***************************************************************************)
(* Proofs about Attention: its types; a check is to come for everything    *)
(* that waits; no item is lost; its events obey the branch loop, which     *)
(* runs out of them with nothing left unseen.                              *)
(***************************************************************************)
EXTENDS Attention, FiniteSetTheorems, SequenceTheorems, TLAPS

\* What is available, or was noticed, was delivered before.
Delivered ==
  /\ \A x \in available : x.at <= now
  /\ \A e \in pending : \A x \in e.bundle : x.at <= now

\* Every entry of scheduled_attention stands for a check to come; a check need
\* not have an entry.
EntriesStand ==
  \A c \in Channel : scheduled[c] # NoTime =>
    \E e \in Checks : e.at = scheduled[c] /\ ChannelOf[e.item] = c

Inv == TypeOK /\ Delivered /\ EntriesStand /\ AttentionIsComing

-----------------------------------------------------------------------------
(* What every step does to the loop's variables.                            *)

LEMMA Replacing ==
  ASSUME NEW e \in pending, NEW caused, Replace(e, caused)
  PROVE  /\ status = "running" /\ e.at <= now
         /\ pending' = (pending \ {e}) \cup caused
         /\ handled' = handled + 1
         /\ UNCHANGED <<now, status>>
BY DEF Replace, Sim!Handle, Sim!Due

LEMMA Advancing ==
  ASSUME TypeOK, Advance
  PROVE  /\ now' \in Time /\ now <= now'
         /\ UNCHANGED <<pending, handled, status, attentionVars>>
<1>1. PICK e \in pending : now' = e.at
  BY DEF Advance
<1>2. e.at \in Time /\ ~(e.at <= now) /\ now \in Time
  BY <1>1 DEF Advance, Sim!Advance, Sim!Due, TypeOK, Event
<1>3. e.at \in Int /\ now \in Int
  BY <1>2 DEF Time
<1> QED
  BY <1>1, <1>2, <1>3 DEF Advance, Sim!Advance

LEMMA Stopping ==
  ASSUME TypeOK, Complete \/ Truncate
  PROVE  /\ UNCHANGED <<now, pending, handled, attentionVars>>
         /\ status' \in {"completed", "event_budget", "halted"}
<1>1. CASE Complete
  BY <1>1 DEF Complete, Sim!Complete
<1>2. CASE Truncate
  BY <1>2 DEF Truncate, Sim!Truncate
<1> QED
  BY <1>1, <1>2

-----------------------------------------------------------------------------
(* Type correctness.                                                        *)

LEMMA DeliverTypes ==
  ASSUME TypeOK, NEW e \in pending, Deliver(e)
  PROVE  TypeOK'
<1> USE AttentionAssumption
<1>1. e \in Event /\ e.item \in Item /\ now \in Time
  BY DEF TypeOK, Event
<1>2. PICK notice \in now..(Horizon + 1) :
        LET c == ChannelOf[e.item]
        IN  /\ available' = available \cup
                 {[item |-> e.item, at |-> now, by |-> notice, again |-> FALSE]}
            /\ \/ /\ Replace(e, {})
                  /\ UNCHANGED scheduled
               \/ /\ Replace(e, {[kind |-> "check", at |-> notice,
                                  item |-> e.item, bundle |-> {}]})
                  /\ scheduled' = [scheduled EXCEPT ![c] = notice]
  BY DEF Deliver
<1>3. notice \in Time
  BY <1>1 DEF Time
<1>4. [item |-> e.item, at |-> now, by |-> notice, again |-> FALSE] \in Entry
  BY <1>1, <1>3 DEF Entry
<1>5. [kind |-> "check", at |-> notice, item |-> e.item, bundle |-> {}] \in Event
  BY <1>1, <1>3 DEF Event
<1>6. available' \subseteq Entry
  BY <1>2, <1>4 DEF TypeOK
<1>7. /\ pending' \subseteq Event /\ now' \in Time /\ handled' \in Nat
      /\ status' = status /\ scheduled' \in [Channel -> Time \cup {NoTime}]
  <2>1. CASE Replace(e, {}) /\ UNCHANGED scheduled
    BY <2>1, Replacing DEF TypeOK
  <2>2. CASE /\ Replace(e, {[kind |-> "check", at |-> notice,
                             item |-> e.item, bundle |-> {}]})
             /\ scheduled' = [scheduled EXCEPT ![ChannelOf[e.item]] = notice]
    <3>1. scheduled' \in [Channel -> Time \cup {NoTime}]
      BY <2>2, <1>3 DEF TypeOK
    <3> DEFINE check == [kind |-> "check", at |-> notice, item |-> e.item, bundle |-> {}]
    <3>2. /\ pending' = (pending \ {e}) \cup {check} /\ check \in Event
          /\ now' = now /\ handled' = handled + 1 /\ status' = status
      BY <2>2, <1>5, Replacing
    <3> HIDE DEF check
    <3> QED
      BY <3>1, <3>2, <1>1 DEF TypeOK
  <2> QED
    BY <2>1, <2>2, <1>2
<1> QED
  BY <1>6, <1>7 DEF TypeOK, Deliver

\* A bundle is of entries, and so are its items.
LEMMA BundleTypes ==
  ASSUME TypeOK, NEW c \in Channel
  PROVE  Bundle(c) \subseteq Entry /\ Items(Bundle(c)) \subseteq Item
BY DEF TypeOK, Bundle, Items, Entry

\* What is carried and shown of a bundle is a part of it.
LEMMA FirstIsPart ==
  ASSUME NEW bundle, NEW n
  PROVE  First(bundle, n) \subseteq bundle
BY DEF First

\* The list of keys stays a list of keys.
LEMMA RememberedTypes ==
  ASSUME NEW S, NEW s \in Seq(S), NEW t \in Remembered(s)
  PROVE  t \in Seq(S)
<1>1. PICK k \in 1..(Len(s) + 1) : t = SubSeq(s, k, Len(s))
  BY DEF Remembered
<1>2. \A i \in k..Len(s) : i \in DOMAIN s /\ s[i] \in S
  BY <1>1
<1> QED
  BY <1>1, <1>2, SubSeqProperties

LEMMA ReconsiderTypes ==
  ASSUME TypeOK, NEW e \in pending, NEW bundle \in SUBSET Entry, NEW newest \in bundle,
         Reconsider(e, newest, bundle)
  PROVE  /\ pending' \subseteq Event /\ now' = now /\ handled' = handled + 1
         /\ status' = status /\ keys' \in Seq(Semantic \cup {NoEvent})
         /\ halted' \in BOOLEAN /\ repeated' \subseteq Item /\ cut' \subseteq Item
<1> USE AttentionAssumption
<1>1. Items(bundle) \subseteq Item /\ newest.item \in Item
  BY DEF Items, Entry
<1>2. KeyOf(newest) \in Semantic \cup {NoEvent}
  BY <1>1 DEF KeyOf
<1> DEFINE carried == First(bundle, BundleCap)
<1>3. /\ [kind |-> "invocation", at |-> now, item |-> newest.item, bundle |-> carried]
           \in Event
      /\ Items(bundle \ carried) \subseteq Item
  BY <1>1, FirstIsPart DEF Event, TypeOK, Items
<1>4. CASE /\ Replace(e, {})
           /\ repeated' = repeated \cup Items(bundle)
           /\ UNCHANGED <<keys, halted, cut>>
  BY <1>1, <1>4, Replacing DEF TypeOK
<1>5. CASE Refuse(e)
  BY <1>5, Replacing DEF TypeOK, Refuse
<1>6. CASE /\ Replace(e, {[kind |-> "invocation", at |-> now,
                           item |-> newest.item, bundle |-> carried]})
           /\ keys' \in Remembered(Append(keys, KeyOf(newest)))
           /\ cut' = cut \cup Items(bundle \ carried)
           /\ UNCHANGED <<halted, repeated>>
  <2>1. Append(keys, KeyOf(newest)) \in Seq(Semantic \cup {NoEvent})
    BY <1>2, AppendProperties DEF TypeOK
  <2>2. keys' \in Seq(Semantic \cup {NoEvent})
    BY <1>6, <2>1, RememberedTypes
  <2>3. cut' \subseteq Item /\ halted' \in BOOLEAN /\ repeated' \subseteq Item
    BY <1>3, <1>6 DEF TypeOK
  <2>4. /\ pending' \subseteq Event /\ now' = now /\ handled' = handled + 1
        /\ status' = status
    BY <1>3, <1>6, Replacing DEF TypeOK
  <2> QED
    BY <2>2, <2>3, <2>4
<1> QED
  BY <1>4, <1>5, <1>6 DEF Reconsider

LEMMA AttendTypes ==
  ASSUME TypeOK, NEW e \in pending, Attend(e)
  PROVE  TypeOK'
<1> USE AttentionAssumption
<1> DEFINE c == ChannelOf[e.item]
<1>1. c \in Channel
  BY DEF TypeOK, Event
<1>2. Bundle(c) \subseteq Entry
  BY <1>1, BundleTypes
<1>3. available' \subseteq Entry /\ scheduled' \in [Channel -> Time \cup {NoTime}]
  BY DEF Attend, TypeOK, Popped
<1>4. /\ pending' \subseteq Event /\ now' = now /\ handled' = handled + 1
      /\ status' = status /\ keys' \in Seq(Semantic \cup {NoEvent})
      /\ halted' \in BOOLEAN /\ repeated' \subseteq Item /\ cut' \subseteq Item
  <2>1. CASE Replace(e, {}) /\ UNCHANGED <<keys, halted, repeated, cut>>
    BY <2>1, Replacing DEF TypeOK
  <2>2. CASE \E newest \in Newest(Bundle(c)) : Reconsider(e, newest, Bundle(c))
    BY <2>2, <1>2, ReconsiderTypes DEF Newest
  <2> QED
    BY <2>1, <2>2 DEF Attend
<1> QED
  BY <1>3, <1>4 DEF TypeOK, Attend

LEMMA RequeuedTypes ==
  ASSUME NEW bundle \in SUBSET Entry, NEW missed
  PROVE  /\ Requeued(bundle, missed) \subseteq Entry
         /\ \A x \in Requeued(bundle, missed) :
              x.again /\ \E y \in bundle : x.item = y.item /\ x.at = y.at
BY DEF Requeued, Entry

LEMMA DecideTypes ==
  ASSUME TypeOK, NEW e \in pending, Decide(e)
  PROVE  TypeOK'
<1> USE AttentionAssumption
<1>1. /\ View(e.bundle) \subseteq Entry /\ Items(View(e.bundle)) \subseteq Item
      /\ Items(e.bundle \ View(e.bundle)) \subseteq Item
  BY FirstIsPart DEF TypeOK, Event, Items, Entry, View
<1>2. PICK missed : available' = available \cup Requeued(View(e.bundle), missed)
  BY DEF Decide
<1>3. available' \subseteq Entry
  BY <1>1, <1>2, RequeuedTypes DEF TypeOK
<1>4. heard' \subseteq Item /\ cut' \subseteq Item
  BY <1>1 DEF TypeOK, Decide
<1>6. used' \in 0..MaxInvocations
  BY DEF TypeOK, Decide
<1>5. pending' \subseteq Event /\ now' = now /\ status' = status /\ handled' = handled + 1
  BY Replacing DEF TypeOK, Decide
<1>7. scheduled' = scheduled /\ keys' = keys /\ halted' = halted /\ repeated' = repeated
  BY DEF Decide
<1> QED
  BY <1>3, <1>4, <1>5, <1>6, <1>7 DEF TypeOK

LEMMA CannotTypes ==
  ASSUME TypeOK, NEW e \in pending, CannotDecide(e)
  PROVE  TypeOK'
<1> USE AttentionAssumption
<1>1. used' \in 0..MaxInvocations
  BY DEF TypeOK, CannotDecide
<1>2. pending' \subseteq Event /\ now' = now /\ status' = status /\ handled' = handled + 1
  BY Replacing DEF TypeOK, CannotDecide, Refuse
<1> QED
  BY <1>1, <1>2 DEF TypeOK, CannotDecide, Refuse

LEMMA InitTypes ==
  ASSUME Init
  PROVE  TypeOK
<1> USE AttentionAssumption
<1>1. PICK at \in [Item -> 0..Horizon] :
        pending = {[kind |-> "delivery", at |-> at[i], item |-> i,
                    bundle |-> {}] : i \in Item}
  BY DEF Init
<1>2. pending \subseteq Event
  BY <1>1 DEF Event, Time
<1>3. 0 \in Time /\ 0 \in 0..MaxInvocations
  BY DEF Time
<1>4. scheduled \in [Channel -> Time \cup {NoTime}]
  BY DEF Init
<1>5. keys \in Seq(Semantic \cup {NoEvent})
  BY EmptySeq DEF Init
<1> QED
  BY <1>2, <1>3, <1>4, <1>5 DEF Init, TypeOK

LEMMA NextTypes ==
  ASSUME TypeOK, [Next]_vars
  PROVE  TypeOK'
<1>1. ASSUME NEW e \in pending, Deliver(e) \/ Attend(e) \/ Decide(e) \/ CannotDecide(e)
      PROVE  TypeOK'
  BY <1>1, DeliverTypes, AttendTypes, DecideTypes, CannotTypes
<1>2. CASE Advance
  BY <1>2, Advancing DEF TypeOK, attentionVars
<1>3. CASE Complete \/ Truncate
  BY <1>3, Stopping DEF TypeOK, attentionVars
<1>4. CASE UNCHANGED vars
  BY <1>4 DEF TypeOK, vars, attentionVars
<1> QED
  BY <1>1, <1>2, <1>3, <1>4 DEF Next

\* Type correctness of the attention store and of the events around it.
THEOREM TypeCorrect == Spec => []TypeOK
BY InitTypes, NextTypes, PTL DEF Spec

-----------------------------------------------------------------------------
(* A check is to come for everything that waits.                            *)

\* A step keeps the checks that it does not handle.
LEMMA DeliverComes ==
  ASSUME Inv, NEW e \in pending, Deliver(e)
  PROVE  Delivered' /\ EntriesStand' /\ AttentionIsComing'
<1> USE AttentionAssumption
<1> DEFINE c == ChannelOf[e.item]
           new(notice) == [item |-> e.item, at |-> now, by |-> notice, again |-> FALSE]
           check(notice) == [kind |-> "check", at |-> notice, item |-> e.item,
                             bundle |-> {}]
<1>1. e \in Event /\ e.item \in Item /\ c \in Channel /\ now \in Time
      /\ e.kind = "delivery" /\ e \notin Checks
  BY DEF Inv, TypeOK, Event, Deliver, Checks
<1>2. PICK notice \in now..(Horizon + 1) :
        /\ available' = available \cup {new(notice)}
        /\ \/ /\ Coalesces(c, notice)
              /\ Replace(e, {})
              /\ UNCHANGED scheduled
           \/ /\ Replace(e, {check(notice)})
              /\ scheduled' = [scheduled EXCEPT ![c] = notice]
  BY DEF Deliver
<1>3. now' = now /\ Checks \subseteq Checks'
      /\ \A f \in pending' : f \in pending \/ f = check(notice)
  BY <1>1, <1>2, Replacing DEF Checks
<1>4. now \in Int /\ notice \in Int /\ Horizon \in Nat
      /\ scheduled[c] \in Time \cup {NoTime}
      /\ scheduled \in [Channel -> Time \cup {NoTime}]
  BY <1>1 DEF Inv, TypeOK, Time
<1>5. Delivered'
  BY <1>2, <1>3, <1>4 DEF Delivered, Inv
<1>6. \E f \in Checks' : f.at <= notice /\ ChannelOf[f.item] = c
  <2>1. CASE Coalesces(c, notice) /\ UNCHANGED scheduled
    <3>1. scheduled[c] # NoTime /\ scheduled[c] <= notice
      BY <2>1, <1>4 DEF Coalesces, NoTime, Time
    <3>2. PICK f \in Checks : f.at = scheduled[c] /\ ChannelOf[f.item] = c
      BY <3>1, <1>1 DEF Inv, EntriesStand
    <3> QED
      BY <3>1, <3>2, <1>3
  <2>2. CASE Replace(e, {check(notice)})
    <3>1. check(notice) \in Checks' /\ notice <= notice
      BY <2>2, <1>4, Replacing DEF Checks
    <3> QED
      BY <3>1
  <2> QED
    BY <2>1, <2>2, <1>2
<1>7. AttentionIsComing'
  <2> SUFFICES ASSUME NEW x \in available', ~x.again
               PROVE  \E f \in Checks' : f.at <= x.by
                        /\ Covers(ChannelOf[f.item], ChannelOf[x.item])
    BY DEF AttentionIsComing, Covers
  <2>1. CASE x \in available
    BY <2>1, <1>3 DEF Inv, AttentionIsComing, Covers
  <2>2. CASE x = new(notice)
    <3>1. x.by = notice /\ x.item = e.item
      BY <2>2
    <3> QED
      BY <3>1, <1>6 DEF Covers
  <2> QED
    BY <2>1, <2>2, <1>2
<1>8. EntriesStand'
  <2> SUFFICES ASSUME NEW d \in Channel, scheduled'[d] # NoTime
               PROVE  \E f \in Checks' : f.at = scheduled'[d] /\ ChannelOf[f.item] = d
    BY DEF EntriesStand
  <2>1. CASE scheduled'[d] = scheduled[d]
    BY <2>1, <1>3 DEF Inv, EntriesStand
  <2>2. CASE scheduled'[d] # scheduled[d]
    <3>1. d = c /\ scheduled'[d] = notice /\ Replace(e, {check(notice)})
      BY <2>2, <1>2, <1>4
    <3>2. check(notice) \in Checks'
      BY <3>1, Replacing DEF Checks
    <3> QED
      BY <3>1, <3>2
  <2> QED
    BY <2>1, <2>2
<1> QED
  BY <1>5, <1>7, <1>8

\* What an attention event causes carries no more than its bundle.
LEMMA ReconsiderCauses ==
  ASSUME NEW e \in pending, NEW bundle, NEW newest \in bundle,
         Reconsider(e, newest, bundle)
  PROVE  /\ now' = now
         /\ pending \ {e} \subseteq pending'
         /\ \A f \in pending' : \/ f \in pending \ {e}
                                \/ f.kind = "invocation" /\ f.bundle \subseteq bundle
<1>1. CASE Replace(e, {})
  BY <1>1, Replacing
<1>2. CASE Replace(e, {[kind |-> "invocation", at |-> now, item |-> newest.item,
                        bundle |-> First(bundle, BundleCap)]})
  BY <1>2, Replacing, FirstIsPart
<1> QED
  BY <1>1, <1>2 DEF Reconsider, Refuse

LEMMA AttendCauses ==
  ASSUME NEW e \in pending, Attend(e)
  PROVE  /\ now' = now
         /\ pending \ {e} \subseteq pending'
         /\ \A f \in pending' : \/ f \in pending \ {e}
                                \/ /\ f.kind = "invocation"
                                   /\ f.bundle \subseteq Bundle(ChannelOf[e.item])
<1> DEFINE c == ChannelOf[e.item]
<1>1. CASE Replace(e, {})
  BY <1>1, Replacing
<1>2. CASE \E newest \in Newest(Bundle(c)) : Reconsider(e, newest, Bundle(c))
  BY <1>2, ReconsiderCauses DEF Newest
<1> QED
  BY <1>1, <1>2 DEF Attend

LEMMA AttendComes ==
  ASSUME Inv, NEW e \in pending, Attend(e)
  PROVE  Delivered' /\ EntriesStand' /\ AttentionIsComing'
<1> USE AttentionAssumption
<1> DEFINE c == ChannelOf[e.item]
<1>1. c \in Channel /\ now' = now /\ available' = available \ Bundle(c)
      /\ scheduled' = Popped(c)
  BY AttendCauses DEF Attend, Inv, TypeOK, Event
<1>2. \A f \in Checks : f # e => f \in Checks'
  BY AttendCauses DEF Checks
<1>3. Delivered'
  BY <1>1, AttendCauses DEF Delivered, Inv, Bundle
<1>4. EntriesStand'
  <2> SUFFICES ASSUME NEW d \in Channel, scheduled'[d] # NoTime
               PROVE  \E f \in Checks' : f.at = scheduled'[d] /\ ChannelOf[f.item] = d
    BY DEF EntriesStand
  <2>1. ~Covers(c, d) /\ scheduled'[d] = scheduled[d]
    BY <1>1 DEF Popped
  <2>2. PICK f \in Checks : f.at = scheduled[d] /\ ChannelOf[f.item] = d
    BY <2>1 DEF Inv, EntriesStand
  <2>3. f # e
    BY <2>1, <2>2 DEF Covers
  <2> QED
    BY <2>1, <2>2, <2>3, <1>2
<1>5. AttentionIsComing'
  <2> SUFFICES ASSUME NEW x \in available', ~x.again
               PROVE  \E f \in Checks' : f.at <= x.by
                        /\ Covers(ChannelOf[f.item], ChannelOf[x.item])
    BY DEF AttentionIsComing, Covers
  <2>1. x \in available /\ ~Covers(c, ChannelOf[x.item])
    BY <1>1 DEF Bundle, Inv, Delivered
  <2>2. PICK f \in Checks : f.at <= x.by /\ Covers(ChannelOf[f.item], ChannelOf[x.item])
    BY <2>1 DEF Inv, AttentionIsComing
  <2> QED
    BY <2>1, <2>2, <1>2
<1> QED
  BY <1>3, <1>4, <1>5

\* An invocation takes no check away, and gives back what was missed.
LEMMA InvocationComes ==
  ASSUME Inv, NEW e \in pending, Decide(e) \/ CannotDecide(e)
  PROVE  Delivered' /\ EntriesStand' /\ AttentionIsComing'
<1> USE AttentionAssumption
<1>1. /\ now' = now /\ scheduled' = scheduled
      /\ pending' = pending \ {e} /\ Checks' = Checks
  BY Replacing DEF Decide, CannotDecide, Refuse, Checks
<1>2. \A x \in available' : \/ x \in available
                            \/ x.again /\ \E y \in e.bundle : x.at = y.at
  <2>1. e.bundle \subseteq Entry
    BY DEF Inv, TypeOK, Event
  <2>2. CASE Decide(e)
    <3>1. PICK missed : available' = available \cup Requeued(View(e.bundle), missed)
      BY <2>2 DEF Decide
    <3>2. View(e.bundle) \subseteq e.bundle
      BY FirstIsPart DEF View
    <3> QED
      BY <2>1, <3>1, <3>2, RequeuedTypes
  <2>3. CASE CannotDecide(e)
    BY <2>3 DEF CannotDecide
  <2> QED
    BY <2>2, <2>3
<1>3. Delivered'
  BY <1>1, <1>2 DEF Inv, Delivered
<1>4. EntriesStand'
  BY <1>1 DEF Inv, EntriesStand
<1>5. AttentionIsComing'
  BY <1>1, <1>2 DEF Inv, AttentionIsComing, Covers
<1> QED
  BY <1>3, <1>4, <1>5

LEMMA LoopComes ==
  ASSUME Inv, Advance \/ Complete \/ Truncate \/ UNCHANGED vars
  PROVE  Delivered' /\ EntriesStand' /\ AttentionIsComing'
<1>1. /\ now \in Int /\ now' \in Int /\ now <= now'
      /\ UNCHANGED <<pending, available, scheduled>>
  BY Advancing, Stopping, AttentionAssumption DEF Inv, TypeOK, Time, vars, attentionVars
<1>2. Delivered'
  <2>1. /\ \A x \in available : x.at \in Int
        /\ \A e \in pending : \A x \in e.bundle : x.at \in Int
    BY AttentionAssumption DEF Inv, TypeOK, Event, Entry, Time
  <2> QED
    BY <1>1, <2>1 DEF Inv, Delivered
<1> QED
  BY <1>1, <1>2 DEF Inv, EntriesStand, AttentionIsComing, Checks, Covers

LEMMA InvHolds == Spec => []Inv
<1>1. Init => Inv
  <2> SUFFICES ASSUME Init
               PROVE  Inv
    OBVIOUS
  <2>1. available = {} /\ \A c \in Channel : scheduled[c] = NoTime
    BY DEF Init
  <2>2. \A e \in pending : e.bundle = {}
    BY DEF Init
  <2> QED
    BY <2>1, <2>2, InitTypes DEF Inv, Delivered, EntriesStand, AttentionIsComing
<1>2. Inv /\ [Next]_vars => Inv'
  <2> SUFFICES ASSUME Inv, [Next]_vars
               PROVE  Inv'
    OBVIOUS
  <2>1. TypeOK'
    BY NextTypes DEF Inv
  <2>2. Delivered' /\ EntriesStand' /\ AttentionIsComing'
    BY DeliverComes, AttendComes, InvocationComes, LoopComes DEF Next
  <2> QED
    BY <2>1, <2>2 DEF Inv
<1> QED
  BY <1>1, <1>2, PTL DEF Spec

\* A check comes for every item that waits for its first notice, no later than
\* its own notice time: coalescing (schedule_attention) never delays an item.
THEOREM ComingHolds == Spec => []AttentionIsComing
BY InvHolds, PTL DEF Inv

-----------------------------------------------------------------------------
(* No item is lost.                                                         *)

\* No bundle holds an item twice.
BundlesDiffer ==
  \A e \in Invocations : \A x, y \in e.bundle : x.item = y.item => x = y

KeptInv == TypeOK /\ BundlesDiffer /\ ItemsAreKept

\* What a place of an item is.
LEMMA PlacesMean ==
  ASSUME NEW i, NEW p
  PROVE  p \in Places(i) <=> \/ p \in pending /\ p.kind = "delivery" /\ p.item = i
                             \/ p \in available /\ p.item = i
                             \/ /\ p \in pending /\ p.kind = "invocation"
                                /\ \E x \in p.bundle : x.item = i
BY DEF Places, Invocations, Items

\* The places of an item after a step that moves it elsewhere or leaves it.
LEMMA DeliverKeeps ==
  ASSUME KeptInv, NEW e \in pending, Deliver(e)
  PROVE  BundlesDiffer' /\ ItemsAreKept'
<1> USE AttentionAssumption
<1>1. PICK notice : available' = available \cup
        {[item |-> e.item, at |-> now, by |-> notice, again |-> FALSE]}
  BY DEF Deliver
<1> DEFINE new == [item |-> e.item, at |-> now, by |-> notice, again |-> FALSE]
<1>2. /\ e.kind = "delivery"
      /\ pending \ {e} \subseteq pending'
      /\ \A f \in pending' : f \in pending \ {e} \/ f.kind = "check"
  <2>1. CASE Replace(e, {})
    BY <2>1, Replacing DEF Deliver
  <2>2. ASSUME NEW t, Replace(e, {[kind |-> "check", at |-> t, item |-> e.item,
                                   bundle |-> {}]})
        PROVE  /\ pending \ {e} \subseteq pending'
               /\ \A f \in pending' : f \in pending \ {e} \/ f.kind = "check"
    BY <2>2, Replacing
  <2> QED
    BY <2>1, <2>2 DEF Deliver
<1>3. Invocations' = Invocations
  BY <1>2 DEF Invocations
<1>4. BundlesDiffer'
  BY <1>3 DEF BundlesDiffer, KeptInv
<1>5. ASSUME NEW i \in Item, i # e.item
      PROVE  Places(i)' = Places(i)
  BY <1>1, <1>2, <1>3, <1>5 DEF Places
<1>6. ASSUME NEW i \in Item, i = e.item
      PROVE  Places(i)' = {new}
  <2>1. \A p \in Places(i) : p = e
    BY <1>2, <1>6, PlacesMean DEF KeptInv, ItemsAreKept
  <2>2. {f \in pending' : f.kind = "delivery" /\ f.item = i} = {}
    <3> SUFFICES ASSUME NEW f \in pending', f.kind = "delivery", f.item = i
                 PROVE  FALSE
      OBVIOUS
    <3>1. f \in pending \ {e}
      BY <1>2
    <3> QED
      BY <3>1, <2>1, PlacesMean
  <2>3. {x \in available : x.item = i} = {}
    <3> SUFFICES ASSUME NEW x \in available, x.item = i
                 PROVE  FALSE
      OBVIOUS
    <3>1. x = e
      BY <2>1, PlacesMean
    <3> QED
      BY <3>1, <1>2 DEF KeptInv, TypeOK, Entry, Event
  <2>4. {f \in Invocations : i \in Items(f.bundle)} = {}
    BY <2>1, <1>2 DEF Places, Invocations
  <2>5. {x \in available' : x.item = i} = {new}
    BY <2>3, <1>1, <1>6
  <2> QED
    BY <2>2, <2>4, <2>5, <1>3 DEF Places
<1>7. ItemsAreKept'
  <2>1. heard' = heard /\ repeated' = repeated /\ cut' = cut /\ halted' = halted
    BY DEF Deliver
  <2>2. ASSUME NEW i \in Item
        PROVE  /\ \A p, q \in Places(i)' : p = q
               /\ Places(i)' = {} => i \in heard' \cup repeated' \cup cut' \/ halted'
    <3>1. CASE i = e.item
      BY <3>1, <1>6
    <3>2. CASE i # e.item
      BY <3>2, <1>5, <2>1 DEF KeptInv, ItemsAreKept
    <3> QED
      BY <3>1, <3>2
  <2> QED
    BY <2>2 DEF ItemsAreKept
<1> QED
  BY <1>4, <1>7

\* What is noticed goes into the bundle of the invocation, or is accounted for.
LEMMA ReconsiderKeeps ==
  ASSUME NEW e \in pending, NEW bundle, NEW newest \in bundle, e.kind = "check",
         Reconsider(e, newest, bundle)
  PROVE  \/ /\ pending' = pending \ {e}
            /\ Items(bundle) \subseteq repeated' \/ halted'
            /\ repeated \subseteq repeated' /\ cut' = cut /\ (halted => halted')
         \/ /\ \E new : /\ new.kind = "invocation" /\ new.bundle \subseteq bundle
                        /\ pending' = (pending \ {e}) \cup {new}
                        /\ Items(bundle) \subseteq Items(new.bundle) \cup cut'
            /\ cut \subseteq cut' /\ UNCHANGED <<repeated, halted>>
<1> DEFINE carried == First(bundle, BundleCap)
           new == [kind |-> "invocation", at |-> now, item |-> newest.item,
                   bundle |-> carried]
<1>1. CASE Replace(e, {}) /\ repeated' = repeated \cup Items(bundle)
           /\ UNCHANGED <<keys, halted, cut>>
  BY <1>1, Replacing
<1>2. CASE Refuse(e)
  <2>1. /\ halted' /\ pending' = pending \ {e}
        /\ repeated' = repeated /\ cut' = cut
    BY <1>2, Replacing DEF Refuse
  <2> QED
    BY <2>1
<1>3. CASE Replace(e, {new}) /\ UNCHANGED <<halted, repeated>>
           /\ cut' = cut \cup Items(bundle \ carried)
  <2>1. new.kind = "invocation" /\ new.bundle = carried /\ carried \subseteq bundle
    BY FirstIsPart
  <2>2. Items(bundle) \subseteq Items(carried) \cup cut'
    BY <1>3 DEF Items
  <2> QED
    BY <1>3, <2>1, <2>2, Replacing
<1> QED
  BY <1>1, <1>2, <1>3 DEF Reconsider

LEMMA AttendKeeps ==
  ASSUME KeptInv, NEW e \in pending, Attend(e)
  PROVE  BundlesDiffer' /\ ItemsAreKept'
<1> USE AttentionAssumption
<1> DEFINE B == Bundle(ChannelOf[e.item])
<1>1. /\ e.kind = "check" /\ heard' = heard
      /\ available' = available \ B /\ B \subseteq available
  BY DEF Attend, Bundle
<1>2. \/ /\ pending' = pending \ {e}
         /\ Items(B) \subseteq repeated' \/ halted'
         /\ repeated \subseteq repeated' /\ cut' = cut /\ (halted => halted')
      \/ /\ \E new : /\ new.kind = "invocation" /\ new.bundle \subseteq B
                     /\ pending' = (pending \ {e}) \cup {new}
                     /\ Items(B) \subseteq Items(new.bundle) \cup cut'
         /\ cut \subseteq cut' /\ UNCHANGED <<repeated, halted>>
  <2>1. CASE B = {} /\ Replace(e, {}) /\ UNCHANGED <<keys, halted, repeated, cut>>
    BY <2>1, Replacing DEF Items
  <2>2. CASE \E newest \in Newest(B) : Reconsider(e, newest, B)
    <3>1. PICK newest \in B : Reconsider(e, newest, B)
      BY <2>2 DEF Newest
    <3> QED
      BY <3>1, <1>1, ReconsiderKeeps
  <2> QED
    BY <2>1, <2>2 DEF Attend
<1>3. \A x, y \in B : x.item = y.item => x = y
  <2> SUFFICES ASSUME NEW x \in B, NEW y \in B, x.item = y.item
               PROVE  x = y
    OBVIOUS
  <2>1. x \in Places(x.item) /\ y \in Places(x.item) /\ x.item \in Item
    BY <1>1, PlacesMean DEF KeptInv, TypeOK, Entry
  <2> QED
    BY <2>1 DEF KeptInv, ItemsAreKept
<1>4. ASSUME NEW i \in Item, i \notin Items(B)
      PROVE  Places(i)' = Places(i)
  <2>1. {x \in available' : x.item = i} = {x \in available : x.item = i}
    BY <1>1, <1>4 DEF Items
  <2>2. {f \in pending' : f.kind = "delivery" /\ f.item = i}
           = {f \in pending : f.kind = "delivery" /\ f.item = i}
    BY <1>1, <1>2
  <2>3. {f \in Invocations' : i \in Items(f.bundle)}
           = {f \in Invocations : i \in Items(f.bundle)}
    <3>1. CASE pending' = pending \ {e}
      BY <1>1, <3>1 DEF Invocations
    <3>2. ASSUME NEW new, new.bundle \subseteq B, pending' = (pending \ {e}) \cup {new}
          PROVE  {f \in Invocations' : i \in Items(f.bundle)}
                   = {f \in Invocations : i \in Items(f.bundle)}
      BY <1>1, <1>4, <3>2 DEF Invocations, Items
    <3> QED
      BY <1>2, <3>1, <3>2
  <2> QED
    BY <2>1, <2>2, <2>3 DEF Places
<1>5. ASSUME NEW i \in Items(B), NEW p \in Places(i)'
      PROVE  p \in pending' /\ p \notin pending
  <2>1. PICK x \in B : x.item = i
    BY DEF Items
  <2>2. x \in Places(i) /\ i \in Item
    BY <1>1, <2>1, PlacesMean DEF KeptInv, TypeOK, Entry
  <2>3. \A q \in Places(i) : q = x
    BY <2>2 DEF KeptInv, ItemsAreKept
  <2>4. \A f \in pending : f # x
    BY <1>1 DEF KeptInv, TypeOK, Entry, Event
  <2>5. p \notin Places(i)
    <3> SUFFICES ASSUME p = x
                 PROVE  FALSE
      BY <2>3
    <3>1. x \notin available'
      BY <1>1
    <3>2. x \in pending'
      BY <3>1 DEF Places, Invocations
    <3>3. x \in Event /\ x \in Entry
      BY <3>2, <1>1, AttendTypes DEF KeptInv, TypeOK
    <3> QED
      BY <3>3 DEF Event, Entry
  <2> QED
    BY <2>5, <1>1, <1>2 DEF Places, Invocations
<1>6. BundlesDiffer'
  BY <1>2, <1>3 DEF KeptInv, BundlesDiffer, Invocations
<1>7. ASSUME NEW i \in Items(B)
      PROVE  /\ \A p, q \in Places(i)' : p = q
             /\ Places(i)' = {} => i \in heard' \cup repeated' \cup cut' \/ halted'
  <2>1. \A p, q \in pending' : p \notin pending /\ q \notin pending => p = q
    BY <1>2
  <2>2. CASE Items(B) \subseteq repeated' \/ halted'
    BY <2>1, <2>2, <1>5
  <2>3. CASE \E new : /\ new.kind = "invocation"
                      /\ pending' = (pending \ {e}) \cup {new}
                      /\ Items(B) \subseteq Items(new.bundle) \cup cut'
    <3>1. PICK new : /\ new.kind = "invocation"
                     /\ pending' = (pending \ {e}) \cup {new}
                     /\ Items(B) \subseteq Items(new.bundle) \cup cut'
      BY <2>3
    <3>2. new \in Places(i)' \/ i \in cut'
      BY <3>1 DEF Places, Invocations
    <3> QED
      BY <2>1, <3>2, <1>5
  <2> QED
    BY <2>2, <2>3, <1>2
<1>8. ASSUME NEW i \in Item, i \notin Items(B)
      PROVE  /\ \A p, q \in Places(i)' : p = q
             /\ Places(i)' = {} => i \in heard' \cup repeated' \cup cut' \/ halted'
  <2>1. repeated \subseteq repeated' /\ cut \subseteq cut' /\ (halted => halted')
    BY <1>2
  <2> QED
    BY <2>1, <1>1, <1>4, <1>8 DEF KeptInv, ItemsAreKept
<1> QED
  BY <1>6, <1>7, <1>8 DEF ItemsAreKept

\* A decision presents the bundle; what was missed returns.
LEMMA InvocationKeeps ==
  ASSUME KeptInv, NEW e \in pending, Decide(e) \/ CannotDecide(e)
  PROVE  BundlesDiffer' /\ ItemsAreKept'
<1> USE AttentionAssumption
<1> DEFINE V == View(e.bundle)
<1>1. /\ e.kind = "invocation" /\ e \in Invocations
      /\ pending' = pending \ {e} /\ repeated' = repeated
      /\ e.bundle \subseteq Entry /\ V \subseteq e.bundle
  BY Replacing, FirstIsPart DEF View, Decide, CannotDecide, Refuse, Invocations, KeptInv, TypeOK, Event
<1>2. BundlesDiffer'
  BY <1>1 DEF KeptInv, BundlesDiffer, Invocations
<1>3. CASE CannotDecide(e)
  <2>1. available' = available /\ cut' = cut /\ halted'
    BY <1>3 DEF CannotDecide, Refuse
  <2>2. \A i : Places(i)' \subseteq Places(i)
    BY <1>1, <2>1 DEF Places, Invocations
  <2> QED
    BY <1>2, <2>1, <2>2 DEF KeptInv, ItemsAreKept
<1>4. CASE Decide(e)
  <2>1. PICK missed : available' = available \cup Requeued(V, missed)
    BY <1>4 DEF Decide
  <2>2. /\ heard' = heard \cup Items(V) /\ halted' = halted
        /\ cut' = cut \cup Items(e.bundle \ V)
    BY <1>4 DEF Decide
  <2>3. ASSUME NEW i \in Item, i \notin Items(e.bundle)
        PROVE  Places(i)' = Places(i)
    <3>1. {x \in available' : x.item = i} = {x \in available : x.item = i}
      BY <1>1, <2>1, <2>3, RequeuedTypes DEF Items
    <3>2. {f \in Invocations' : i \in Items(f.bundle)}
            = {f \in Invocations : i \in Items(f.bundle)}
      BY <1>1, <2>3 DEF Invocations
    <3> QED
      BY <1>1, <3>1, <3>2 DEF Places
  <2>4. ASSUME NEW i \in Item, i \in Items(e.bundle)
        PROVE  \A p, q \in Places(i)' : p = q
    <3>1. e \in Places(i)
      BY <1>1, <2>4 DEF Places
    <3>2. \A q \in Places(i) : q = e
      BY <3>1 DEF KeptInv, ItemsAreKept
    <3>3. Places(i)' \subseteq {x \in Requeued(V, missed) : x.item = i}
      <4> SUFFICES ASSUME NEW p \in Places(i)'
                   PROVE  p \in Requeued(V, missed) /\ p.item = i
        OBVIOUS
      <4>1. e \notin available
        BY <1>1 DEF KeptInv, TypeOK, Entry, Event
      <4>2. p \notin pending'
        <5> SUFFICES ASSUME p \in pending'
                     PROVE  FALSE
          OBVIOUS
        <5>1. p \in Event /\ p # e /\ p \in pending
          BY <1>1 DEF KeptInv, TypeOK
        <5>2. p \notin available'
          BY <5>1, <4>1, <2>1, <1>1, RequeuedTypes DEF KeptInv, TypeOK, Entry, Event
        <5>3. p \in Places(i)
          BY <5>1, <5>2 DEF Places, Invocations
        <5> QED
          BY <5>1, <5>3, <3>2
      <4>3. p \in available' /\ p.item = i
        BY <4>2 DEF Places, Invocations
      <4>4. p \notin available
        <5> SUFFICES ASSUME p \in available
                     PROVE  FALSE
          OBVIOUS
        <5>1. p \in Places(i)
          BY <4>3 DEF Places
        <5> QED
          BY <5>1, <3>2, <4>1
      <4> QED
        BY <4>3, <4>4, <2>1
    <3>4. \A x, y \in Requeued(V, missed) : x.item = y.item => x = y
      <4> SUFFICES ASSUME NEW x \in Requeued(V, missed),
                          NEW y \in Requeued(V, missed), x.item = y.item
                   PROVE  x = y
        OBVIOUS
      <4>1. PICK a \in V : x = [a EXCEPT !.again = TRUE]
        BY DEF Requeued
      <4>2. PICK b \in V : y = [b EXCEPT !.again = TRUE]
        BY DEF Requeued
      <4>3. a.item = b.item
        BY <4>1, <4>2, <1>1 DEF Entry
      <4> QED
        BY <4>1, <4>2, <4>3, <1>1 DEF KeptInv, BundlesDiffer
    <3> QED
      BY <3>3, <3>4
  <2>5. ItemsAreKept'
    <3>1. ASSUME NEW i \in Item
          PROVE  /\ \A p, q \in Places(i)' : p = q
                 /\ Places(i)' = {} => i \in heard' \cup repeated' \cup cut' \/ halted'
      <4>1. CASE i \in Items(e.bundle)
        <5>1. i \in heard' \cup cut'
          BY <4>1, <2>2 DEF Items
        <5> QED
          BY <4>1, <5>1, <2>4
      <4>2. CASE i \notin Items(e.bundle)
        BY <4>2, <2>2, <2>3, <1>1 DEF KeptInv, ItemsAreKept
      <4> QED
        BY <4>1, <4>2
    <3> QED
      BY <3>1 DEF ItemsAreKept
  <2> QED
    BY <1>2, <2>5
<1> QED
  BY <1>3, <1>4

LEMMA LoopKeeps ==
  ASSUME KeptInv, Advance \/ Complete \/ Truncate \/ UNCHANGED vars
  PROVE  BundlesDiffer' /\ ItemsAreKept'
<1>1. UNCHANGED <<pending, available, heard, repeated, cut, halted>>
  BY Advancing, Stopping DEF KeptInv, vars, attentionVars
<1>2. \A i : Places(i)' = Places(i)
  BY <1>1 DEF Places, Invocations
<1> QED
  BY <1>1, <1>2 DEF KeptInv, BundlesDiffer, ItemsAreKept, Invocations

LEMMA InitKeeps ==
  ASSUME Init
  PROVE  BundlesDiffer /\ ItemsAreKept
<1>1. PICK at \in [Item -> 0..Horizon] :
        pending = {[kind |-> "delivery", at |-> at[i], item |-> i,
                    bundle |-> {}] : i \in Item}
  BY DEF Init
<1> DEFINE sent(i) == [kind |-> "delivery", at |-> at[i], item |-> i, bundle |-> {}]
<1>2. \A f \in pending : f.kind = "delivery" /\ f = sent(f.item)
  BY <1>1
<1>3. Invocations = {} /\ available = {}
  BY <1>2 DEF Init, Invocations
<1>4. ASSUME NEW i \in Item
      PROVE  Places(i) = {sent(i)}
  <2>1. sent(i) \in pending /\ sent(i).kind = "delivery" /\ sent(i).item = i
    BY <1>1
  <2> QED
    BY <2>1, <1>2, <1>3 DEF Places
<1>5. ItemsAreKept
  BY <1>4 DEF ItemsAreKept
<1> QED
  BY <1>3, <1>5 DEF BundlesDiffer

\* An item is in one place until it was presented, came with a repetition or was
\* beyond a cap of its bundle, unless the branch is halted (_invocation_event,
\* _record_truncation).
THEOREM KeptHolds == Spec => []ItemsAreKept
<1>1. Init => KeptInv
  BY InitTypes, InitKeeps DEF KeptInv
<1>2. KeptInv /\ [Next]_vars => KeptInv'
  <2> SUFFICES ASSUME KeptInv, [Next]_vars
               PROVE  KeptInv'
    OBVIOUS
  <2>1. TypeOK'
    BY NextTypes DEF KeptInv
  <2>2. BundlesDiffer' /\ ItemsAreKept'
    BY DeliverKeeps, AttendKeeps, InvocationKeeps, LoopKeeps DEF Next
  <2> QED
    BY <2>1, <2>2 DEF KeptInv
<1>3. KeptInv => ItemsAreKept
  BY DEF KeptInv
<1> QED
  BY <1>1, <1>2, <1>3, PTL DEF Spec

-----------------------------------------------------------------------------
(* The events of attention obey the branch loop.                            *)

\* Every step is a step of discrete-event simulation: attention schedules no
\* event in the past of the clock, and handles none before or after its time.
THEOREM LoopHolds == Spec => Sim!Spec
<1>1. Init => Sim!Init
  <2> SUFFICES ASSUME Init
               PROVE  Sim!Init
    OBVIOUS
  <2>1. \A e \in pending : e.at >= now
    BY AttentionAssumption DEF Init
  <2>2. \A e \in pending : e \in Event
    BY InitTypes DEF TypeOK
  <2> QED
    BY <2>1, <2>2 DEF Init, Sim!Init
<1>2. TypeOK /\ [Next]_vars => [Sim!Next]_(Sim!simVars)
  <2> SUFFICES ASSUME TypeOK, [Next]_vars
               PROVE  [Sim!Next]_(Sim!simVars)
    OBVIOUS
  <2>1. ASSUME NEW e \in pending, NEW caused, Replace(e, caused)
        PROVE  Sim!Next
    BY <2>1 DEF Replace, Sim!Next
  <2>2. ASSUME NEW e \in pending, Deliver(e) \/ Attend(e) \/ Decide(e) \/ CannotDecide(e)
        PROVE  \E caused : Replace(e, caused)
    BY <2>2 DEF Deliver, Attend, Decide, CannotDecide, Reconsider, Refuse
  <2>3. CASE Advance
    BY <2>3 DEF Advance, Running, Sim!Next
  <2>4. CASE Complete
    BY <2>4 DEF Complete, Running, Sim!Next
  <2>5. CASE Truncate
    BY <2>5 DEF Truncate, Sim!Next
  <2>6. CASE UNCHANGED vars
    BY <2>6 DEF vars, Sim!simVars
  <2> QED
    BY <2>1, <2>2, <2>3, <2>4, <2>5, <2>6 DEF Next
<1> QED
  BY <1>1, <1>2, TypeCorrect, PTL DEF Spec, Sim!Spec
-----------------------------------------------------------------------------
(* Progress: what Noticed rests on besides the scheduler.                   *)

\* When the branch is complete, what the actor has never noticed was not to
\* be noticed by the horizon.
NothingUnseen ==
  status = "completed" => \A x \in available : x.again \/ x.by > Horizon

DeliveriesLeft == {e \in pending : e.kind = "delivery"}

Shrinks(T, S) == T \subseteq S /\ T # S

\* One step less: a delivery turns into at most a check, a check into at most
\* an invocation, an invocation into nothing; between them the clock moves on,
\* or the branch ends.
StepsLess ==
  \/ Shrinks(DeliveriesLeft', DeliveriesLeft)
  \/ DeliveriesLeft' = DeliveriesLeft /\ Shrinks(Checks', Checks)
  \/ /\ DeliveriesLeft' = DeliveriesLeft /\ Checks' = Checks
     /\ Shrinks(Invocations', Invocations)
  \/ pending' = pending /\ now' = now /\ status = "running" /\ status' # "running"
  \/ pending' = pending /\ status' = status /\ now < now' /\ now' <= Horizon

\* Nothing that the next step needs is missing: an event is due, and if it is
\* a check what it takes has a newest item; or the loop can go on or break.
CanStep ==
  \/ \E e \in pending :
       /\ e.at <= now
       /\ e.kind = "check" /\ Bundle(ChannelOf[e.item]) # {}
            => Newest(Bundle(ChannelOf[e.item])) # {}
  \/ /\ \A e \in pending : e.at > now
     /\ \/ ~Running
        \/ \A e \in pending : e.at > Horizon
        \/ \E e \in pending : e.at <= Horizon /\ \A f \in pending : e.at <= f.at

\* What remains pending when the branch is complete is beyond the horizon.
CompleteInv == status = "completed" => \A e \in pending : e.at > Horizon

LEMMA CompleteStep ==
  ASSUME TypeOK, CompleteInv, [Next]_vars
  PROVE  CompleteInv'
<1>1. CASE \E e \in pending : Deliver(e) \/ Attend(e) \/ Decide(e) \/ CannotDecide(e)
  <2>1. PICK e \in pending : \E caused : Replace(e, caused)
    BY <1>1 DEF Deliver, Attend, Decide, CannotDecide, Reconsider, Refuse
  <2>2. status' = "running"
    BY <2>1, Replacing
  <2>3. QED BY <2>2 DEF CompleteInv
<1>2. CASE Advance
  BY <1>2 DEF Advance, Running, Sim!Advance, CompleteInv
<1>3. CASE Complete
  BY <1>3 DEF Complete, Sim!Complete, CompleteInv
<1>4. CASE Truncate
  BY <1>4 DEF Truncate, Sim!Truncate, CompleteInv
<1>5. CASE UNCHANGED vars
  BY <1>5 DEF vars, CompleteInv
<1>6. QED BY <1>1, <1>2, <1>3, <1>4, <1>5 DEF Next

\* A complete branch has left nothing unseen (schedule_attention,
\* run_branch_temporal): every item that was to be noticed by the horizon was.
THEOREM NothingUnseenHolds == Spec => []NothingUnseen
<1>1. Init => CompleteInv
  BY DEF Init, CompleteInv
<1>2. TypeOK /\ CompleteInv /\ [Next]_vars => CompleteInv'
  BY CompleteStep
<1>3. ASSUME Inv, CompleteInv PROVE NothingUnseen
  <2> SUFFICES ASSUME status = "completed", NEW x \in available, ~x.again
               PROVE  x.by > Horizon
    BY DEF NothingUnseen
  <2>1. PICK e \in pending : e.at <= x.by
    BY <1>3 DEF Inv, AttentionIsComing, Checks
  <2>2. e.at > Horizon
    BY <1>3 DEF CompleteInv
  <2>3. e.at \in Time /\ x.by \in Time
    BY <1>3 DEF Inv, TypeOK, Event, Entry
  <2>4. QED BY <2>1, <2>2, <2>3, AttentionAssumption DEF Time
<1>4. QED BY <1>1, <1>2, <1>3, InvHolds, TypeCorrect, PTL DEF Spec

\* What is pending stays finite.
LEMMA PendingFinite ==
  Spec => []IsFiniteSet(pending)
<1>1. ASSUME Init PROVE IsFiniteSet(pending)
  <2>1. PICK at \in [Item -> 0..Horizon] :
          pending = {[kind |-> "delivery", at |-> at[i], item |-> i, bundle |-> {}] : i \in Item}
    BY <1>1 DEF Init
  <2> DEFINE f == [i \in Item |-> [kind |-> "delivery", at |-> at[i], item |-> i, bundle |-> {}]]
  <2>2. f \in Surjection(Item, pending)
    BY <2>1 DEF Surjection
  <2>3. QED BY <2>2, FS_Surjection, FiniteAssumption
<1>2. ASSUME IsFiniteSet(pending), [Next]_vars PROVE IsFiniteSet(pending)'
  <2>1. ASSUME NEW e \in pending, NEW caused, IsFiniteSet(caused), Replace(e, caused)
        PROVE  IsFiniteSet(pending')
    <3>1. pending' = (pending \ {e}) \cup caused BY <2>1, Replacing
    <3>2. QED BY <1>2, <2>1, <3>1, FS_RemoveElement, FS_Union
  <2>2. \A x : IsFiniteSet({x})
    BY FS_Singleton
  <2>3. ASSUME NEW e \in pending, Deliver(e) \/ Attend(e) \/ Decide(e) \/ CannotDecide(e)
        PROVE  Replace(e, {}) \/ \E x : Replace(e, {x})
    BY <2>3 DEF Deliver, Attend, Decide, CannotDecide, Reconsider, Refuse
  <2>4. CASE \E e \in pending : Deliver(e) \/ Attend(e) \/ Decide(e) \/ CannotDecide(e)
    BY <2>1, <2>2, <2>3, <2>4, FS_EmptySet
  <2>5. CASE Advance \/ Complete \/ Truncate \/ UNCHANGED vars
    <3>1. pending' = pending
      BY <2>5 DEF Advance, Complete, Sim!Complete, Truncate, vars
    <3>2. QED BY <1>2, <3>1
  <2>6. QED BY <1>2, <2>4, <2>5 DEF Next
<1>3. QED BY <1>1, <1>2, PTL DEF Spec

\* Handling an event.
LEMMA EventsShrink ==
  ASSUME NEW e \in pending, Deliver(e) \/ Attend(e) \/ Decide(e) \/ CannotDecide(e)
  PROVE  StepsLess
<1>1. CASE Deliver(e)
  <2>1. e.kind = "delivery"
    BY <1>1 DEF Deliver
  <2>2. \/ Replace(e, {})
        \/ \E x : x.kind = "check" /\ Replace(e, {x})
    <3>1. \A notice : [kind |-> "check", at |-> notice, item |-> e.item, bundle |-> {}].kind = "check"
      OBVIOUS
    <3>2. QED BY <1>1, <3>1 DEF Deliver
  <2>3. \A f \in pending' : f \in pending \ {e} \/ f.kind = "check"
    <3>1. PICK S : (\A x \in S : x.kind = "check") /\ Replace(e, S)
      <4>1. CASE Replace(e, {}) BY <4>1
      <4>2. ASSUME NEW x, x.kind = "check", Replace(e, {x})
            PROVE  \E S : (\A y \in S : y.kind = "check") /\ Replace(e, S)
        BY <4>2
      <4>3. QED BY <2>2, <4>1, <4>2
    <3>2. QED BY <3>1, Replacing
  <2>4. pending \ {e} \subseteq pending' /\ e \notin DeliveriesLeft' /\ e \in DeliveriesLeft
    BY <2>1, <2>2, <2>3, Replacing DEF DeliveriesLeft
  <2>5. DeliveriesLeft' \subseteq DeliveriesLeft
    BY <2>3 DEF DeliveriesLeft
  <2>6. QED BY <2>4, <2>5 DEF StepsLess, Shrinks
<1>2. CASE Attend(e)
  <2>1. e.kind = "check"
    BY <1>2 DEF Attend
  <2>2. /\ pending \ {e} \subseteq pending'
        /\ \A f \in pending' : f \in pending \ {e} \/ f.kind = "invocation"
    BY <1>2, AttendCauses
  <2>3. DeliveriesLeft' = DeliveriesLeft
    BY <2>1, <2>2 DEF DeliveriesLeft
  <2>4. Checks' \subseteq Checks /\ e \in Checks /\ e \notin Checks'
    BY <2>1, <2>2 DEF Checks
  <2>5. QED BY <2>3, <2>4 DEF StepsLess, Shrinks
<1>3. CASE Decide(e) \/ CannotDecide(e)
  <2>1. e.kind = "invocation" /\ pending' = pending \ {e}
    BY <1>3, Replacing DEF Decide, CannotDecide, Refuse
  <2>2. DeliveriesLeft' = DeliveriesLeft /\ Checks' = Checks
    BY <2>1 DEF DeliveriesLeft, Checks
  <2>3. Invocations' \subseteq Invocations /\ e \in Invocations /\ e \notin Invocations'
    BY <2>1 DEF Invocations
  <2>4. QED BY <2>2, <2>3 DEF StepsLess, Shrinks
<1>4. QED BY <1>1, <1>2, <1>3

\* Attention runs out of steps: whatever actors miss and whatever comes back,
\* finitely many events are handled before the clock moves on, and it moves on
\* finitely often (_requeue_missed schedules no check).
THEOREM AttentionRunsOut == Spec => []IsFiniteSet(pending) /\ [][StepsLess]_vars
<1>1. ASSUME TypeOK, Next PROVE StepsLess
  <2>1. CASE Advance
    <3>1. /\ pending' = pending /\ status' = status /\ now' <= Horizon
          /\ \A e \in pending : ~(e.at <= now)
      BY <2>1 DEF Advance, Sim!Advance, Sim!Due
    <3>2. PICK e \in pending : now' = e.at
      BY <2>1 DEF Advance
    <3>3. e.at \in Int /\ now \in Int
      BY <1>1, <3>2, AttentionAssumption DEF TypeOK, Event, Time
    <3>4. now < now'
      BY <3>1, <3>2, <3>3
    <3>5. QED BY <3>1, <3>4 DEF StepsLess
  <2>2. CASE Complete \/ Truncate
    <3>1. status = "running" BY <2>2 DEF Complete, Truncate, Running
    <3>2. QED BY <1>1, <2>2, <3>1, Stopping DEF StepsLess
  <2>3. QED BY <1>1, <2>1, <2>2, EventsShrink DEF Next
<1>2. TypeOK /\ [Next]_vars => [StepsLess]_vars
  BY <1>1
<1>3. QED BY <1>2, TypeCorrect, PendingFinite, PTL DEF Spec

\* A set of events or entries has an earliest and a latest one.
LEMMA HasEarliest ==
  ASSUME NEW S, S # {}, \A x \in S : x.at \in Nat
  PROVE  \E x \in S : \A y \in S : x.at <= y.at
<1> DEFINE T == {x.at : x \in S}
<1>1. T \subseteq Nat /\ T # {}
  OBVIOUS
<1>2. PICK t \in T : \A u \in T : <<u, t>> \notin OpToRel(<, Nat)
  <2> HIDE DEF T
  <2> QED BY <1>1, WFMin, NatLessThanWellFounded
<1>3. \A u \in T : u \in Nat /\ t \in Nat /\ ~(u < t)
  BY <1>1, <1>2 DEF OpToRel
<1>4. \A u \in T : t <= u
  BY <1>3
<1>5. QED BY <1>4

LEMMA HasLargest ==
  ASSUME NEW S, S # {}, NEW t \in Nat, NEW f, \A x \in S : f[x] \in Nat /\ f[x] <= t
  PROVE  \E x \in S : \A y \in S : f[y] <= f[x]
<1> DEFINE g == [x \in S |-> t - f[x]]
           T == {g[x] : x \in S}
<1>1. \A x \in S : g[x] = t - f[x] /\ g[x] \in Nat
  OBVIOUS
<1> HIDE DEF g
<1>2. T \subseteq Nat /\ T # {}
  BY <1>1
<1>3. PICK u \in T : \A v \in T : <<v, u>> \notin OpToRel(<, Nat)
  <2> HIDE DEF T
  <2> QED BY <1>2, WFMin, NatLessThanWellFounded
<1>4. PICK x \in S : u = g[x]
  OBVIOUS
<1>5. \A y \in S : g[y] \in Nat /\ g[x] \in Nat /\ ~(g[y] < g[x])
  BY <1>1, <1>3, <1>4 DEF OpToRel
<1>6. \A y \in S : f[y] <= f[x]
  BY <1>1, <1>5
<1>7. QED BY <1>6

\* A bundle that takes something has a newest entry: of the latest ones, the one
\* of the highest rank.
LEMMA HasNewest ==
  ASSUME NEW B \in SUBSET Entry, B # {}, NEW t \in Nat,
         \A x \in B : x.at \in Nat /\ x.at <= t
  PROVE  Newest(B) # {}
<1> DEFINE at == [x \in B |-> x.at]
<1>1. \A x \in B : at[x] \in Nat /\ at[x] <= t
  OBVIOUS
<1>2. PICK latest \in B : \A y \in B : at[y] <= at[latest]
  <2> HIDE DEF at
  <2> QED BY <1>1, HasLargest
<1> DEFINE L == {x \in B : x.at = latest.at}
           rank == [x \in L |-> Rank[x.item]]
<1>3. Cardinality(Item) \in Nat
  BY FiniteAssumption, FS_CardinalityType
<1>4. L # {} /\ \A x \in L : rank[x] \in Nat /\ rank[x] <= Cardinality(Item)
  BY <1>3, RankAssumption DEF Entry
<1>5. PICK x \in L : \A y \in L : rank[y] <= rank[x]
  <2> HIDE DEF L, rank
  <2> QED BY <1>3, <1>4, HasLargest
<1>6. ASSUME NEW y \in B, Before(x, y) PROVE FALSE
  <2>1. y.at <= latest.at /\ x.at = latest.at /\ x.at \in Nat /\ y.at \in Nat
    BY <1>2
  <2>2. y.at = latest.at /\ Rank[x.item] < Rank[y.item]
    BY <1>6, <2>1 DEF Before
  <2>3. rank[y] <= rank[x] /\ rank[y] = Rank[y.item] /\ rank[x] = Rank[x.item]
    BY <1>5, <2>2
  <2>4. Rank[x.item] \in Nat /\ Rank[y.item] \in Nat
    BY RankAssumption, <1>3 DEF Entry
  <2>5. QED BY <2>2, <2>3, <2>4
<1>7. QED BY <1>6 DEF Newest

\* The loop is never stuck while it runs.
THEOREM AttentionCanStep == Spec => [](status = "running" => CanStep)
<1>1. ASSUME TypeOK PROVE CanStep
  <2> USE AttentionAssumption
  <2>1. /\ now \in Nat /\ Horizon \in Nat
        /\ \A e \in pending : e.at \in Nat
        /\ \A x \in available : x.at \in Nat
    BY <1>1 DEF TypeOK, Event, Entry, Time
  <2>2. CASE \E e \in pending : e.at <= now
    <3>1. PICK e \in pending : e.at <= now BY <2>2
    <3> DEFINE B == Bundle(ChannelOf[e.item])
    <3>2. \A x \in B : x.at \in Nat /\ x.at <= now
      BY <2>1 DEF Bundle
    <3>3. B # {} => Newest(B) # {}
      <4>1. B \subseteq Entry
        BY <1>1 DEF TypeOK, Bundle
      <4> HIDE DEF B
      <4>2. QED BY <2>1, <3>2, <4>1, HasNewest
    <3>4. QED BY <3>1, <3>3 DEF CanStep
  <2>3. CASE \A e \in pending : ~(e.at <= now)
    <3>1. \A e \in pending : e.at > now
      BY <2>1, <2>3
    <3>2. CASE \A e \in pending : e.at > Horizon
      BY <3>1, <3>2 DEF CanStep
    <3>3. CASE \E e \in pending : ~(e.at > Horizon)
      <4>1. PICK e \in pending : \A f \in pending : e.at <= f.at
        BY <2>1, <3>3, HasEarliest
      <4>2. e.at <= Horizon
        BY <2>1, <3>3, <4>1
      <4>3. QED BY <3>1, <4>1, <4>2 DEF CanStep
    <3>4. QED BY <3>2, <3>3
  <2>4. QED BY <2>2, <2>3
<1>2. QED BY <1>1, TypeCorrect, PTL
=============================================================================
