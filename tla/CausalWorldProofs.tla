------------------------- MODULE CausalWorldProofs -------------------------
(***************************************************************************)
(* Lemmas about what a day does to one world.  The decisions of a day are  *)
(* applied in a fold over its requests; SetInduction, a first-order form   *)
(* of induction over a finite set, shows that the fold is a function       *)
(* (FoldIsDefined) and that it stays in every set of worlds that a single  *)
(* decision does not leave (DecideKeeps).                                  *)
(***************************************************************************)
EXTENDS CausalWorld, FiniteSetTheorems, TLAPS

-----------------------------------------------------------------------------
(* Induction over a finite set.                                             *)

\* A family that holds the empty set, and every set that it holds without
\* some element, holds every finite set.
LEMMA SetInduction ==
  ASSUME NEW S, IsFiniteSet(S), NEW T, {} \in T,
         \A U \in SUBSET S : U # {} => \E x \in U : U \ {x} \in T => U \in T
  PROVE  S \in T
<1> SUFFICES ASSUME S \notin T PROVE FALSE
  OBVIOUS
<1> DEFINE B == {U \in SUBSET S : U \notin T}
<1>1. B # {} /\ B \subseteq FiniteSubsetsOf(S)
  BY FS_Subset DEF FiniteSubsetsOf
<1>2. PICK U \in B : \A V \in B : <<V, U>> \notin StrictSubsetOrdering(S)
  <2> HIDE DEF B
  <2> QED BY <1>1, WFMin, FS_StrictSubsetOrderingWellFounded
<1>3. U \subseteq S /\ U \notin T /\ U # {}
  <2>1. U \subseteq S /\ U \notin T OBVIOUS
  <2>2. ASSUME U = {} PROVE FALSE
    <3>1. {} \in T OBVIOUS
    <3>2. QED BY <2>1, <2>2, <3>1
  <2>3. QED BY <2>1, <2>2
<1>4. PICK x \in U : U \ {x} \in T => U \in T
  BY <1>3
<1>5. U \ {x} \in B
  BY <1>3, <1>4
<1>6. <<U \ {x}, U>> \in StrictSubsetOrdering(S)
  BY <1>3, <1>4 DEF StrictSubsetOrdering
<1>7. QED BY <1>2, <1>5, <1>6

\* A nonempty set of naturals has a least element, and Min chooses it.
LEMMA MinIsLeast ==
  ASSUME NEW S \in SUBSET Nat, S # {}
  PROVE  Min(S) \in S /\ \A y \in S : Min(S) <= y
<1>1. PICK x \in S : \A y \in S : <<y, x>> \notin OpToRel(<, Nat)
  BY WFMin, NatLessThanWellFounded
<1>2. \A y \in S : y < x => <<y, x>> \in OpToRel(<, Nat)
  BY DEF OpToRel
<1>3. x \in Nat /\ \A y \in S : y \in Nat /\ ~(y < x)
  BY <1>1, <1>2
<1>4. \A y \in S : x <= y
  BY <1>3
<1>5. QED BY <1>4 DEF Min

-----------------------------------------------------------------------------
(* The order in which decisions are applied.                                *)

\* The last of a set of requests, as Decide takes it.
Last(S) == CHOOSE e \in S : \A f \in S : NotAfter(f, e)

LEMMA KindOrderType == \A k \in Kind : KindOrder(k) \in 0..3
BY DEF Kind, KindOrder

LEMMA NotAfterIsTotal ==
  ASSUME NEW e \in Request, NEW f \in Request
  PROVE  /\ NotAfter(e, e)
         /\ NotAfter(e, f) \/ NotAfter(f, e)
         /\ NotAfter(e, f) /\ NotAfter(f, e) /\ e.day = f.day => e = f
<1>1. /\ e.actor \in Actor /\ f.actor \in Actor /\ e.kind \in Kind /\ f.kind \in Kind
      /\ ActorOrder[e.actor] \in Nat /\ ActorOrder[f.actor] \in Nat
  BY WorldAssumption DEF Request
<1>2. KindOrder(e.kind) \in 0..3 /\ KindOrder(f.kind) \in 0..3
  BY <1>1, KindOrderType
<1>3. e.actor = f.actor \/ ActorOrder[e.actor] < ActorOrder[f.actor] \/ ActorOrder[f.actor] < ActorOrder[e.actor]
  BY <1>1, WorldAssumption
<1>4. NotAfter(e, e) /\ (NotAfter(e, f) \/ NotAfter(f, e))
  BY <1>2, <1>3 DEF NotAfter
<1>5. ASSUME NotAfter(e, f), NotAfter(f, e), e.day = f.day PROVE e = f
  <2>1. e.actor = f.actor /\ KindOrder(e.kind) = KindOrder(f.kind)
    BY <1>1, <1>2, <1>5 DEF NotAfter
  <2>2. e.kind = f.kind BY <1>1, <2>1 DEF Kind, KindOrder
  <2>3. QED BY <1>5, <2>1, <2>2 DEF Request
<1>6. QED BY <1>4, <1>5

LEMMA NotAfterIsTransitive ==
  ASSUME NEW e \in Request, NEW f \in Request, NEW g \in Request, NotAfter(e, f), NotAfter(f, g)
  PROVE  NotAfter(e, g)
<1>1. \A h \in {e, f, g} : ActorOrder[h.actor] \in Nat /\ KindOrder(h.kind) \in 0..3
  BY WorldAssumption, KindOrderType DEF Request
<1>2. QED BY <1>1 DEF NotAfter

\* Requests of one day.
OfOneDay(S) == S \subseteq Request /\ \A e, f \in S : e.day = f.day

\* A finite set of requests of one day has exactly one last request.
LEMMA LastIsLast ==
  ASSUME NEW S, OfOneDay(S), IsFiniteSet(S), S # {}
  PROVE  /\ Last(S) \in S
         /\ \A f \in S : NotAfter(f, Last(S))
         /\ \A e \in S : (\A f \in S : NotAfter(f, e)) => e = Last(S)
<1> DEFINE T == {U \in SUBSET S : U = {} \/ \E m \in U : \A f \in U : NotAfter(f, m)}
<1>1. {} \in T
  OBVIOUS
<1>2. ASSUME NEW U \in SUBSET S, U # {} PROVE \E x \in U : U \ {x} \in T => U \in T
  <2>1. PICK x \in U : TRUE BY <1>2
  <2>2. SUFFICES ASSUME U \ {x} \in T PROVE \E m \in U : \A f \in U : NotAfter(f, m)
    BY <2>1
  <2>3. CASE U \ {x} = {}
    BY <2>1, <2>3, NotAfterIsTotal DEF OfOneDay
  <2>4. CASE U \ {x} # {}
    <3>1. PICK m \in U \ {x} : \A f \in U \ {x} : NotAfter(f, m) BY <2>2, <2>4
    <3>2. \A f \in U : f \in Request BY DEF OfOneDay
    <3>3. CASE NotAfter(x, m) BY <3>1, <3>3
    <3>4. CASE NotAfter(m, x)
      <4>1. \A f \in U \ {x} : NotAfter(f, x) BY <2>1, <3>1, <3>2, <3>4, NotAfterIsTransitive
      <4>2. NotAfter(x, x) BY <3>2, NotAfterIsTotal
      <4>3. QED BY <2>1, <4>1, <4>2
    <3>5. QED BY <2>1, <3>1, <3>2, <3>3, <3>4, NotAfterIsTotal
  <2>5. QED BY <2>3, <2>4
<1>3. S \in T
  <2> HIDE DEF T
  <2> QED BY <1>1, <1>2, SetInduction
<1>4. PICK m \in S : \A f \in S : NotAfter(f, m)
  BY <1>3
<1>5. Last(S) \in S /\ \A f \in S : NotAfter(f, Last(S))
  BY <1>4 DEF Last
<1>6. ASSUME NEW e \in S, \A f \in S : NotAfter(f, e) PROVE e = Last(S)
  <2>1. e \in Request /\ Last(S) \in Request /\ e.day = Last(S).day BY <1>5 DEF OfOneDay
  <2>2. NotAfter(e, Last(S)) /\ NotAfter(Last(S), e) BY <1>5, <1>6
  <2>3. QED BY <2>1, <2>2, NotAfterIsTotal
<1>7. QED BY <1>5, <1>6

-----------------------------------------------------------------------------
(* The fold over the requests of a day.                                     *)

\* What the decision asked in w for request e makes of world v.
After(w, decisions, registry, v, e) == ApplyDecision(v, e, decisions[BuildContext(w, e)], registry)

\* it[s] is w after the decisions of the requests s of S.
IsFold(it, w, decisions, registry, S) ==
  it = [s \in SUBSET S |-> IF s = {} THEN w ELSE After(w, decisions, registry, it[s \ {Last(s)}], Last(s))]

\* The fold over the requests of a day, last first, is a function of the
\* set of requests: applying what was decided in the order of the code has
\* one result.
LEMMA FoldIsDefined ==
  ASSUME NEW w, NEW decisions, NEW registry, NEW S, OfOneDay(S), IsFiniteSet(S)
  PROVE  \E it : IsFold(it, w, decisions, registry, S)
<1> DEFINE T == {U \in SUBSET S : \E it : IsFold(it, w, decisions, registry, U)}
<1>1. {} \in T
  <2> DEFINE it == [s \in SUBSET {} |-> w]
  <2>1. IsFold(it, w, decisions, registry, {}) BY DEF IsFold
  <2>2. QED BY <2>1
<1>2. ASSUME NEW U \in SUBSET S, U # {} PROVE \E x \in U : U \ {x} \in T => U \in T
  <2> DEFINE x == Last(U)
             A(v, e) == After(w, decisions, registry, v, e)
  <2>1. \A s \in SUBSET U : OfOneDay(s) /\ IsFiniteSet(s)
    BY FS_Subset DEF OfOneDay
  <2>2. x \in U
    BY <1>2, <2>1, LastIsLast
  <2>3. \A s \in SUBSET U : s # {} => Last(s) \in s /\ (x \in s => Last(s) = x)
    <3>1. SUFFICES ASSUME NEW s \in SUBSET U, s # {}
                   PROVE  Last(s) \in s /\ (x \in s => Last(s) = x)
      OBVIOUS
    <3>2. \A f \in U : NotAfter(f, x) BY <1>2, <2>1, LastIsLast
    <3>3. QED BY <2>1, <3>1, <3>2, LastIsLast
  <2> HIDE DEF x
  <2>4. SUFFICES ASSUME U \ {x} \in T PROVE \E it : IsFold(it, w, decisions, registry, U)
    BY <1>2, <2>2
  <2>5. PICK g : IsFold(g, w, decisions, registry, U \ {x})
    BY <2>4
  <2> DEFINE it == [s \in SUBSET U |-> IF x \in s THEN A(g[s \ {x}], x) ELSE g[s]]
             new == [s \in SUBSET U |-> IF s = {} THEN w ELSE A(it[s \ {Last(s)}], Last(s))]
  <2>6. \A s \in SUBSET U : x \notin s => it[s] = g[s] /\ s \in SUBSET (U \ {x})
    OBVIOUS
  <2>7. \A s \in SUBSET (U \ {x}) : g[s] = IF s = {} THEN w ELSE A(g[s \ {Last(s)}], Last(s))
    BY <2>5 DEF IsFold
  <2> HIDE DEF A
  <2>8. ASSUME NEW s \in SUBSET U PROVE it[s] = new[s]
    <3>1. CASE x \in s
      <4>1. Last(s) = x /\ s # {} BY <2>3, <3>1
      <4>2. it[s \ {x}] = g[s \ {x}] BY <2>6
      <4>3. QED BY <3>1, <4>1, <4>2
    <3>2. CASE x \notin s
      <4>1. it[s] = g[s] /\ s \in SUBSET (U \ {x}) BY <2>6, <3>2
      <4>2. it[s \ {Last(s)}] = g[s \ {Last(s)}] BY <2>6, <3>2
      <4>3. QED BY <2>7, <4>1, <4>2
    <3>3. QED BY <3>1, <3>2
  <2>9. it = new
    BY <2>8
  <2>10. IsFold(it, w, decisions, registry, U)
    BY <2>9 DEF IsFold, A
  <2>11. QED BY <2>10
<1>3. S \in T
  <2> HIDE DEF T
  <2> QED BY <1>1, <1>2, SetInduction
<1>4. QED BY <1>3

\* The fold stays in every set of worlds that a decision of the day does not
\* leave.
LEMMA FoldStays ==
  ASSUME NEW w, NEW decisions, NEW registry, NEW S, OfOneDay(S), IsFiniteSet(S),
         NEW it, IsFold(it, w, decisions, registry, S),
         NEW X, w \in X, \A v \in X, e \in S : After(w, decisions, registry, v, e) \in X
  PROVE  it[S] \in X
<1> DEFINE T == {U \in SUBSET S : it[U] \in X}
<1>1. \A U \in SUBSET S : it[U] = IF U = {} THEN w ELSE After(w, decisions, registry, it[U \ {Last(U)}], Last(U))
  BY DEF IsFold
<1>2. {} \in T
  BY <1>1
<1>3. ASSUME NEW U \in SUBSET S, U # {} PROVE \E x \in U : U \ {x} \in T => U \in T
  <2>1. OfOneDay(U) /\ IsFiniteSet(U) BY FS_Subset DEF OfOneDay
  <2>2. Last(U) \in U /\ Last(U) \in S BY <1>3, <2>1, LastIsLast
  <2>3. ASSUME U \ {Last(U)} \in T PROVE U \in T
    <3>1. it[U \ {Last(U)}] \in X BY <2>3
    <3>2. it[U] = After(w, decisions, registry, it[U \ {Last(U)}], Last(U)) BY <1>1, <1>3
    <3>3. QED BY <2>2, <3>1, <3>2
  <2>4. QED BY <2>2, <2>3
<1>4. S \in T
  <2> HIDE DEF T
  <2> QED BY <1>2, <1>3, SetInduction
<1>5. QED BY <1>4

-----------------------------------------------------------------------------
(* The decisions of a day.                                                  *)

LEMMA RequestsOfDay ==
  ASSUME NEW w, w.queue \subseteq Event, NEW day
  PROVE  /\ OfOneDay(Requests(w, day))
         /\ IsFiniteSet(Requests(w, day))
         /\ \A e \in Requests(w, day) : e.day = day /\ e.kind \in Kind /\ e.actor \in Actor
<1> DEFINE S == Requests(w, day)
<1>1. \A e \in S : e \in w.queue /\ e.day = day /\ e.kind \in Kind
  BY DEF Requests, Due
<1>2. \A e \in S : e \in Request
  BY <1>1 DEF Event, Kind
<1>3. OfOneDay(S)
  BY <1>1, <1>2 DEF OfOneDay
<1>4. IsFiniteSet(S)
  <2> DEFINE R == Kind \X Actor
             f == [e \in S |-> <<e.kind, e.actor>>]
  <2> HIDE DEF S
  <2>1. IsFiniteSet(Kind)
    <3>1. IsFiniteSet({"trigger"}) BY FS_Singleton
    <3>2. IsFiniteSet({"trigger"} \cup {"mandatory_terminal"}) BY <3>1, FS_AddElement
    <3>3. IsFiniteSet({"trigger"} \cup {"mandatory_terminal"} \cup {"promoted"}) BY <3>2, FS_AddElement
    <3> DEFINE K == {"trigger"} \cup {"mandatory_terminal"} \cup {"promoted"} \cup {"reconsideration"}
    <3>4. IsFiniteSet(K) BY <3>3, FS_AddElement
    <3>5. K = Kind BY DEF Kind
    <3> HIDE DEF K
    <3>6. QED BY <3>4, <3>5
  <2>2. IsFiniteSet(R)
    BY <2>1, WorldAssumption, FS_Product
  <2>3. f \in [S -> R]
    BY <1>2 DEF Request
  <2>4. \A e, g \in S : f[e] = f[g] => e = g
    BY <1>1, <1>2 DEF Request
  <2>5. f \in Injection(S, R)
    BY <2>3, <2>4 DEF Injection, IsInjective
  <2>6. QED BY <2>2, <2>5, FS_Injection
<1>5. QED BY <1>1, <1>2, <1>3, <1>4 DEF Request

\* World w with what Decide copies from v.
Copy(w, v) ==
  [w EXCEPT !.queue = v.queue, !.votes = v.votes, !.past = v.past,
            !.asked = v.asked, !.pending = v.pending, !.reason = v.reason]

\* The world after the decisions of a day is in every set of worlds that
\* holds the morning's and that no decision of the day leaves.
LEMMA DecideKeeps ==
  ASSUME NEW w, w.queue \subseteq Event, NEW day, NEW decisions, NEW registry,
         NEW X, w \in X, \A v \in X, e \in Requests(w, day) : After(w, decisions, registry, v, e) \in X
  PROVE  \E v \in X : Decide(w, day, decisions, registry) = Copy(w, v)
<1> DEFINE S == Requests(w, day)
           Body(it) == [s \in SUBSET S |-> IF s = {} THEN w
                          ELSE ApplyDecision(it[s \ {Last(s)}], Last(s), decisions[BuildContext(w, Last(s))], registry)]
           fold == CHOOSE it : it = Body(it)
<1>1. Decide(w, day, decisions, registry) = Copy(w, fold[S])
  BY DEF Decide, MapThenFoldSet, Last, Copy
<1>2. OfOneDay(S) /\ IsFiniteSet(S)
  BY RequestsOfDay
<1> HIDE DEF S
<1>3. IsFold(fold, w, decisions, registry, S)
  <2>1. \A it : IsFold(it, w, decisions, registry, S) <=> it = Body(it)
    BY DEF IsFold, After
  <2> HIDE DEF Body
  <2>2. \E it : it = Body(it) BY <1>2, <2>1, FoldIsDefined
  <2>3. QED BY <2>1, <2>2
<1> HIDE DEF fold
<1>4. fold[S] \in X
  <2>1. \A v \in X, e \in S : After(w, decisions, registry, v, e) \in X BY DEF S
  <2>2. QED BY <1>2, <1>3, <2>1, FoldStays
<1>5. QED BY <1>1, <1>4

-----------------------------------------------------------------------------
(* Types.                                                                   *)

\* Worlds in which an actor has had finitely many messages.
Worlds == {w \in World : \A x \in Actor : IsFiniteSet(w.delivered[x]) /\ IsFiniteSet(w.pending[x])}

\* A field may be set to any value of its type.
LEMMA SetField ==
  ASSUME NEW w \in World
  PROVE  /\ \A t \in Nat : [w EXCEPT !.day = t] \in World
         /\ \A f \in [Actor -> Variant \cup {None}] : [w EXCEPT !.variant = f] \in World
         /\ \A S \in SUBSET Actor : [w EXCEPT !.present = S] \in World
         /\ \A f \in [Actor -> SUBSET Message] : /\ [w EXCEPT !.delivered = f] \in World
                                                 /\ [w EXCEPT !.pending = f] \in World
         /\ \A S \in SUBSET Event : [w EXCEPT !.queue = S] \in World
         /\ \A f \in [Actor -> Ballot] : [w EXCEPT !.votes = f] \in World
         /\ \A f \in [Actor -> Seq(Decided)] : [w EXCEPT !.past = f] \in World
         /\ \A f \in [Actor -> SUBSET MissingFact] : [w EXCEPT !.asked = f] \in World
         /\ \A o \in {None, "YES", "NO"} : [w EXCEPT !.outcome = o] \in World
         /\ \A t \in Reason : [w EXCEPT !.reason = t] \in World
BY DEF World

LEMMA WorldFields ==
  ASSUME NEW w \in World
  PROVE  /\ w.day \in Nat /\ w.shared \in Shared
         /\ w.variant \in [Actor -> Variant \cup {None}]
         /\ w.present \in SUBSET Actor
         /\ w.delivered \in [Actor -> SUBSET Message]
         /\ w.pending \in [Actor -> SUBSET Message]
         /\ w.queue \in SUBSET Event
         /\ w.votes \in [Actor -> Ballot]
         /\ w.past \in [Actor -> Seq(Decided)]
         /\ w.asked \in [Actor -> SUBSET MissingFact]
         /\ w.outcome \in {None, "YES", "NO"}
         /\ w.reason \in Reason
BY DEF World

\* World u comes from v by a decision of actor x, which changes no other
\* actor's decisions or vote, and takes nothing from the queue.
Touches(v, u, x) ==
  /\ u \in Worlds
  /\ <<u.outcome, u.delivered>> = <<v.outcome, v.delivered>>
  /\ v.queue \subseteq u.queue
  /\ \A y \in Actor \ {x} : u.past[y] = v.past[y] /\ u.votes[y] = v.votes[y]

LEMMA RememberTouches ==
  ASSUME NEW w \in Worlds, NEW e \in Request, NEW r \in Reply
  PROVE  LET u == Remember(w, e, r) IN
         /\ Touches(w, u, e.actor)
         /\ u.past[e.actor] # <<>> /\ LastDecision(u, e.actor).reply = r
<1> DEFINE x == e.actor
           d == [reply |-> r, day |-> e.day, known |-> Cardinality(w.delivered[x])]
           f == [w.past EXCEPT ![x] = Append(@, d)]
           u == Remember(w, e, r)
<1>1. w \in World /\ x \in Actor /\ e.day \in Nat
  BY DEF Worlds, Request
<1>2. Cardinality(w.delivered[x]) \in Nat
  BY <1>1, FS_CardinalityType DEF Worlds
<1>3. d \in Decided
  BY <1>1, <1>2 DEF Decided
<1>4. w.past \in [Actor -> Seq(Decided)] /\ w.past[x] \in Seq(Decided)
  BY <1>1, WorldFields
<1>5. u = [w EXCEPT !.past = f]
  BY <1>1 DEF Remember, World
<1> HIDE DEF d
<1>6. f \in [Actor -> Seq(Decided)]
  BY <1>1, <1>3, <1>4
<1>7. f[x] = Append(w.past[x], d) /\ \A y \in Actor \ {x} : f[y] = w.past[y]
  BY <1>1, <1>4
<1>8. f[x] # <<>> /\ f[x][Len(f[x])] = d
  BY <1>3, <1>4, <1>7
<1> HIDE DEF f
<1>9. u \in World
  <2>1. [w EXCEPT !.past = f] \in World BY <1>1, <1>6, SetField
  <2> HIDE DEF u
  <2>2. QED BY <1>5, <2>1
<1>10. /\ u.past = f /\ u.queue = w.queue /\ u.votes = w.votes
       /\ u.outcome = w.outcome /\ u.delivered = w.delivered /\ u.pending = w.pending
  BY <1>1, <1>5 DEF World
<1>11. d.reply = r
  BY DEF d
<1> HIDE DEF u
<1>12. Touches(w, u, x)
  BY <1>7, <1>9, <1>10 DEF Touches, Worlds
<1>13. QED BY <1>8, <1>10, <1>11, <1>12 DEF LastDecision, u

LEMMA SendTouches ==
  ASSUME NEW w \in Worlds, NEW e \in Request, NEW targets
  PROVE  LET u == Send(w, e, targets) IN
         Touches(w, u, e.actor) /\ <<u.past, u.votes>> = <<w.past, w.votes>>
<1> DEFINE m == [from |-> e.actor, day |-> e.day]
           f == [x \in Actor |-> w.pending[x] \cup IF x \in targets THEN {m} ELSE {}]
           u == Send(w, e, targets)
<1>1. w \in World /\ m \in Message
  BY DEF Worlds, Request, Message
<1>2. u = [w EXCEPT !.pending = f]
  BY <1>1 DEF Send, World
<1> HIDE DEF m
<1>3. \A x \in Actor : f[x] = w.pending[x] \/ f[x] = w.pending[x] \cup {m}
  OBVIOUS
<1>4. f \in [Actor -> SUBSET Message]
  BY <1>1, WorldFields
<1> HIDE DEF f
<1>5. u \in World
  BY <1>1, <1>2, <1>4, SetField
<1>6. /\ u.pending = f /\ u.queue = w.queue /\ u.votes = w.votes /\ u.past = w.past
      /\ u.outcome = w.outcome /\ u.delivered = w.delivered
  BY <1>1, <1>2 DEF World
<1>7. \A x \in Actor : IsFiniteSet(f[x]) /\ IsFiniteSet(w.delivered[x])
  <2>1. \A x \in Actor : IsFiniteSet(w.pending[x]) /\ IsFiniteSet(w.delivered[x]) BY DEF Worlds
  <2>2. \A x \in Actor : IsFiniteSet(w.pending[x] \cup {m}) BY <2>1, FS_AddElement
  <2>3. QED BY <1>3, <2>1, <2>2
<1> HIDE DEF u
<1>8. u \in Worlds
  BY <1>5, <1>6, <1>7 DEF Worlds
<1>9. QED BY <1>6, <1>8 DEF Touches, u

\* Recording a vote, an event or a reason changes nothing else.
LEMMA VoteTouches ==
  ASSUME NEW w \in Worlds, NEW x \in Actor, NEW b \in Ballot
  PROVE  LET u == [w EXCEPT !.votes[x] = b] IN Touches(w, u, x) /\ u.past = w.past
<1> DEFINE f == [w.votes EXCEPT ![x] = b]
           u == [w EXCEPT !.votes[x] = b]
<1>1. w \in World /\ w.votes \in [Actor -> Ballot]
  BY WorldFields DEF Worlds
<1>2. u = [w EXCEPT !.votes = f]
  BY <1>1 DEF World
<1>3. f \in [Actor -> Ballot] /\ \A y \in Actor \ {x} : f[y] = w.votes[y]
  BY <1>1
<1> HIDE DEF f, u
<1>4. u \in World
  <2>1. [w EXCEPT !.votes = f] \in World BY <1>1, <1>3, SetField
  <2>2. QED BY <1>2, <2>1
<1>5. /\ u.votes = f /\ u.past = w.past /\ u.queue = w.queue
      /\ u.outcome = w.outcome /\ u.delivered = w.delivered /\ u.pending = w.pending
  BY <1>1, <1>2 DEF World
<1>6. QED BY <1>3, <1>4, <1>5 DEF Touches, Worlds, u

LEMMA QueueTouches ==
  ASSUME NEW w \in Worlds, NEW x \in Actor, NEW e \in Event
  PROVE  LET u == [w EXCEPT !.queue = @ \cup {e}] IN
         Touches(w, u, x) /\ u.past = w.past /\ e \in u.queue
<1> DEFINE f == w.queue \cup {e}
           u == [w EXCEPT !.queue = @ \cup {e}]
<1>1. w \in World /\ f \in SUBSET Event
  BY WorldFields DEF Worlds
<1>2. u = [w EXCEPT !.queue = f]
  BY <1>1 DEF World
<1>3. w.queue \subseteq f /\ e \in f
  OBVIOUS
<1> HIDE DEF f, u
<1>4. u \in World
  <2>1. [w EXCEPT !.queue = f] \in World BY <1>1, SetField
  <2>2. QED BY <1>2, <2>1
<1>5. /\ u.queue = f /\ u.votes = w.votes /\ u.past = w.past
      /\ u.outcome = w.outcome /\ u.delivered = w.delivered /\ u.pending = w.pending
  BY <1>1, <1>2 DEF World
<1>6. QED BY <1>3, <1>4, <1>5 DEF Touches, Worlds, u

LEMMA ReasonTouches ==
  ASSUME NEW w \in Worlds, NEW x \in Actor, NEW t \in Reason
  PROVE  LET u == [w EXCEPT !.reason = t] IN
         Touches(w, u, x) /\ <<u.past, u.votes>> = <<w.past, w.votes>>
<1> DEFINE u == [w EXCEPT !.reason = t]
<1>1. w \in World
  BY DEF Worlds
<1>2. u \in World
  BY <1>1, SetField
<1>3. /\ u.queue = w.queue /\ u.votes = w.votes /\ u.past = w.past
      /\ u.outcome = w.outcome /\ u.delivered = w.delivered /\ u.pending = w.pending
  BY <1>1 DEF World
<1> HIDE DEF u
<1>4. QED BY <1>2, <1>3 DEF Touches, Worlds, u

LEMMA TouchesChain ==
  ASSUME NEW w \in Worlds, NEW v, NEW u, NEW x, Touches(w, v, x), Touches(v, u, x)
  PROVE  Touches(w, u, x)
BY DEF Touches

LEMMA TouchesNothing == ASSUME NEW w \in Worlds, NEW x PROVE Touches(w, w, x)
BY DEF Touches

\* A required participant who waits before the deadline is asked again at it.
LEMMA ReopenTouches ==
  ASSUME NEW w \in Worlds, NEW e \in Request
  PROVE  LET u == ReopenAtDeadline(w, e) IN
         /\ Touches(w, u, e.actor) /\ u.past = w.past
         /\ e.day < Deadline => Mandatory(e.actor) \in u.queue
<1>1. e.actor \in Actor
  BY DEF Request
<1>2. Mandatory(e.actor) \in Event
  BY <1>1, WorldAssumption DEF Mandatory, Event, Request, Kind
<1>3. "abstain" \in Ballot
  BY DEF Ballot
<1>4. "required_participant_no_terminal_action" \in Reason
  BY DEF Reason
<1>5. CASE e.day < Deadline
  BY <1>1, <1>2, <1>5, QueueTouches DEF ReopenAtDeadline
<1>6. CASE ~(e.day < Deadline) /\ AbstentionAllowed
  BY <1>1, <1>3, <1>6, VoteTouches DEF ReopenAtDeadline
<1>7. CASE ~(e.day < Deadline) /\ ~AbstentionAllowed
  BY <1>1, <1>4, <1>7, ReasonTouches DEF ReopenAtDeadline
<1>8. QED BY <1>5, <1>6, <1>7

LEMMA ReconsiderTouches ==
  ASSUME NEW w \in Worlds, NEW e \in Request, NEW r \in Reply
  PROVE  LET u == Reconsider(w, e, r) IN Touches(w, u, e.actor) /\ u.past = w.past
<1> DEFINE x == e.actor
           later == {f.day : f \in {g \in w.queue : g.day > e.day}}
           again == [day |-> Min(later), kind |-> "reconsideration", actor |-> x]
           f == [w.asked EXCEPT ![x] = @ \cup {r.fact}]
           v == [w EXCEPT !.asked[x] = @ \cup {r.fact}]
           u == Reconsider(w, e, r)
<1>1. w \in World /\ x \in Actor /\ w.queue \subseteq Event
  BY WorldFields DEF Worlds, Request
<1>2. CASE ~(r.fact \in MissingFact \ w.asked[x] /\ later # {})
  <2>1. u = w BY <1>2 DEF Reconsider
  <2>2. QED BY <2>1, TouchesNothing
<1>3. CASE r.fact \in MissingFact \ w.asked[x] /\ later # {}
  <2>1. again \in Event
    <3>1. \A g \in w.queue : g.day \in Nat BY <1>1 DEF Event, Request
    <3>2. later \in SUBSET Nat /\ later # {} BY <1>3, <3>1
    <3> HIDE DEF later
    <3>3. Min(later) \in Nat BY <3>2, MinIsLeast
    <3>4. QED BY <1>1, <3>3 DEF Event, Request, Kind
  <2>2. f \in [Actor -> SUBSET MissingFact]
    <3>1. w.asked \in [Actor -> SUBSET MissingFact] BY <1>1, WorldFields
    <3>2. QED BY <1>1, <1>3, <3>1
  <2>3. u = [v EXCEPT !.queue = @ \cup {again}]
    BY <1>1, <1>3 DEF Reconsider, World
  <2>4. v = [w EXCEPT !.asked = f]
    BY <1>1 DEF World
  <2> HIDE DEF f, v, u, again, later
  <2>5. v \in World
    <3>1. [w EXCEPT !.asked = f] \in World BY <1>1, <2>2, SetField
    <3>2. QED BY <2>4, <3>1
  <2>6. /\ v.queue = w.queue /\ v.votes = w.votes /\ v.past = w.past
        /\ v.outcome = w.outcome /\ v.delivered = w.delivered /\ v.pending = w.pending
    BY <1>1, <2>4 DEF World
  <2>7. Touches(w, v, x) /\ v \in Worlds
    BY <2>5, <2>6 DEF Touches, Worlds
  <2>8. Touches(v, u, x) /\ u.past = v.past
    BY <1>1, <2>1, <2>3, <2>7, QueueTouches
  <2>9. QED BY <2>6, <2>7, <2>8, TouchesChain DEF u
<1>4. QED BY <1>2, <1>3

LEMMA ReplyFields ==
  ASSUME NEW r \in Reply
  PROVE  /\ r.act \in {"wait", "gather_information", "act"}
         /\ r.vote \in Option \cup {None} /\ r.action \in Action
BY WorldAssumption

LEMMA TemplateFields ==
  ASSUME NEW t \in Template
  PROVE  t.actor_ids \subseteq Actor /\ t.targets \subseteq Actor /\ t.options \in Seq(Option)
BY WorldAssumption

LEMMA RangeOfOptions == ASSUME NEW s \in Seq(Option) PROVE Range(s) \subseteq Option
BY DEF Range

LEMMA LowestIsOne ==
  ASSUME NEW S \in SUBSET Option, S # {}
  PROVE  Lowest(S) \in S
<1> DEFINE T == {OptionOrder[o] : o \in S}
<1>1. T \in SUBSET Nat /\ T # {}
  BY WorldAssumption
<1>2. \A t : t \in T => \E o \in S : OptionOrder[o] = t
  OBVIOUS
<1>3. \A o \in S : OptionOrder[o] \in T
  OBVIOUS
<1> HIDE DEF T
<1>4. Min(T) \in T /\ \A t \in T : Min(T) <= t
  BY <1>1, MinIsLeast
<1>5. PICK o \in S : OptionOrder[o] = Min(T)
  BY <1>2, <1>4
<1>6. \A q \in S : OptionOrder[o] <= OptionOrder[q]
  BY <1>3, <1>4, <1>5
<1>7. QED BY <1>6 DEF Lowest

\* What a member's decision puts on the tally is a ballot.
LEMMA DirectBallotType ==
  ASSUME NEW e, NEW r, NEW registry \in Registry
  PROVE  DirectBallot(e, r, registry) \in Ballot
<1> DEFINE allowed == Allowed(registry, e.actor)
<1>1. allowed \subseteq Option
  <2> DEFINE A == {b \in Action : registry[b] # NoTemplate /\ e.actor \in registry[b].actor_ids}
  <2>1. \A a \in A : registry[a] \in Template BY DEF Registry
  <2>2. \A a \in A : Range(registry[a].options) \subseteq Option
    BY <2>1, TemplateFields, RangeOfOptions
  <2>3. allowed = UNION {Range(registry[a].options) : a \in A} BY DEF Allowed
  <2> HIDE DEF A, allowed
  <2>4. QED BY <2>2, <2>3
<1>2. allowed # {} => Lowest(allowed) \in Option
  <2> HIDE DEF allowed
  <2>1. QED BY <1>1, LowestIsOne
<1> HIDE DEF allowed
<1>3. QED BY <1>1, <1>2 DEF DirectBallot, Ballot, allowed

LEMMA ExecuteTouches ==
  ASSUME NEW w \in Worlds, NEW e \in Request, NEW r \in Reply, NEW t \in Template, Valid(e, r, t)
  PROVE  LET u == Execute(w, e, r, t) IN Touches(w, u, e.actor) /\ u.past = w.past
<1> DEFINE vote == IF r.vote = None THEN Head(t.options) ELSE r.vote
           v == IF t.options = <<>> THEN w ELSE [w EXCEPT !.votes[e.actor] = vote]
           u == Execute(w, e, r, t)
<1>1. e.actor \in Actor
  BY DEF Request
<1>2. t.options \in Seq(Option) /\ r.vote \in Option \cup {None}
  BY TemplateFields, ReplyFields
<1>3. Touches(w, v, e.actor) /\ v.past = w.past
  <2>1. CASE t.options = <<>>
    BY <2>1, TouchesNothing
  <2>2. CASE t.options # <<>>
    <3>1. vote \in Ballot BY <1>2, <2>2 DEF Ballot
    <3> HIDE DEF vote
    <3>2. QED BY <1>1, <2>2, <3>1, VoteTouches
  <2>3. QED BY <2>1, <2>2
<1>4. u = Send(v, e, t.targets)
  BY DEF Execute
<1> HIDE DEF v, u
<1>5. v \in Worlds
  BY <1>3 DEF Touches
<1>6. Touches(v, u, e.actor) /\ u.past = v.past
  BY <1>4, <1>5, SendTouches
<1>7. QED BY <1>3, <1>6, TouchesChain DEF u

LEMMA ActsTouches ==
  ASSUME NEW w \in Worlds, NEW e \in Request, NEW r \in Reply, NEW registry \in Registry
  PROVE  LET u == Acts(w, e, r, registry) IN Touches(w, u, e.actor) /\ u.past = w.past
<1> DEFINE ballot == DirectBallot(e, r, registry)
           t == registry[r.action]
<1>1. e.actor \in Actor
  BY DEF Request
<1>2. ballot \in Ballot
  BY DirectBallotType
<1>3. t \in Template \cup {NoTemplate}
  BY ReplyFields DEF Registry
<1> HIDE DEF ballot, t
<1>4. CASE ballot # None
  <2>1. Acts(w, e, r, registry) = [w EXCEPT !.votes[e.actor] = ballot]
    BY <1>4 DEF Acts, ballot
  <2>2. QED BY <1>1, <1>2, <2>1, VoteTouches
<1>5. CASE ballot = None /\ t # NoTemplate /\ Valid(e, r, t)
  <2>1. Acts(w, e, r, registry) = Execute(w, e, r, t)
    BY <1>5 DEF Acts, ballot, t
  <2>2. QED BY <1>3, <1>5, <2>1, ExecuteTouches
<1>6. CASE ballot = None /\ ~(t # NoTemplate /\ Valid(e, r, t))
  <2>1. Acts(w, e, r, registry) = w BY <1>6 DEF Acts, ballot, t
  <2>2. QED BY <2>1, TouchesNothing
<1>7. QED BY <1>4, <1>5, <1>6

LEMMA WaitsTouches ==
  ASSUME NEW w \in Worlds, NEW e \in Request, NEW r \in Reply
  PROVE  LET u == Waits(w, e, r) IN
         /\ Touches(w, u, e.actor) /\ u.past = w.past
         /\ e.actor \in Required /\ e.day < Deadline => Mandatory(e.actor) \in u.queue
<1> DEFINE v == IF Reopens(e) THEN ReopenAtDeadline(w, e) ELSE Reconsider(w, e, r)
           u == Waits(w, e, r)
<1>1. Touches(w, v, e.actor) /\ v.past = w.past
  BY ReopenTouches, ReconsiderTouches
<1>2. e.actor \in Required /\ e.day < Deadline => Mandatory(e.actor) \in v.queue
  BY ReopenTouches DEF Reopens
<1>3. u = v \/ u = Send(v, e, w.present \ {e.actor})
  BY DEF Waits
<1> HIDE DEF u, v
<1>4. v \in Worlds
  BY <1>1 DEF Touches
<1>5. Touches(v, u, e.actor) /\ u.past = v.past
  BY <1>3, <1>4, SendTouches, TouchesNothing
<1>6. v.queue \subseteq u.queue
  BY <1>5 DEF Touches
<1>7. QED BY <1>1, <1>2, <1>5, <1>6, TouchesChain DEF u

\* What one decision does to a world: nothing once the world is resolved;
\* else it touches only its own actor, who remembers the reply if there is
\* one, and is asked again at the deadline if it is a required participant
\* that waits.
LEMMA DecisionTouches ==
  ASSUME NEW w \in Worlds, NEW e \in Request, NEW r \in Reply \cup {NoReply}, NEW registry \in Registry
  PROVE  LET u == ApplyDecision(w, e, r, registry) IN
         /\ Touches(w, u, e.actor)
         /\ Resolved(w) => u = w
         /\ \/ <<u.past, u.votes>> = <<w.past, w.votes>>
            \/ /\ u.past[e.actor] # <<>>
               /\ \/ LastDecision(u, e.actor).reply.act = "act"
                  \/ e.actor \in Required /\ e.day < Deadline => Mandatory(e.actor) \in u.queue
<1> DEFINE u == ApplyDecision(w, e, r, registry)
<1>1. CASE Resolved(w)
  BY <1>1, TouchesNothing DEF ApplyDecision
<1>2. CASE ~Resolved(w) /\ r = NoReply
  <2> DEFINE t == IF w.reason = "" THEN "decision_unavailable" ELSE w.reason
  <2>1. w.reason \in Reason /\ w \in World BY WorldFields DEF Worlds
  <2>2. t \in Reason BY <2>1 DEF Reason
  <2>3. u = [w EXCEPT !.reason = t] BY <1>2, <2>1 DEF ApplyDecision, World
  <2> HIDE DEF t
  <2>4. e.actor \in Actor BY DEF Request
  <2>5. QED BY <1>2, <2>2, <2>3, <2>4, ReasonTouches
<1>3. CASE ~Resolved(w) /\ r # NoReply
  <2> DEFINE v == Remember(w, e, r)
  <2>1. r \in Reply
    BY <1>3
  <2>2. Touches(w, v, e.actor) /\ v.past[e.actor] # <<>> /\ LastDecision(v, e.actor).reply = r
    BY <2>1, RememberTouches
  <2>3. v \in Worlds
    BY <2>2 DEF Touches
  <2>4. u = IF r.act = "act" THEN Acts(v, e, r, registry) ELSE Waits(v, e, r)
    BY <1>3 DEF ApplyDecision
  <2> HIDE DEF u, v
  <2>5. /\ Touches(v, u, e.actor) /\ u.past = v.past
        /\ r.act # "act" /\ e.actor \in Required /\ e.day < Deadline => Mandatory(e.actor) \in u.queue
    BY <2>1, <2>3, <2>4, ActsTouches, WaitsTouches
  <2>6. u.past[e.actor] # <<>> /\ LastDecision(u, e.actor).reply = r
    BY <2>2, <2>5 DEF LastDecision
  <2>7. Touches(w, u, e.actor)
    BY <2>2, <2>5, TouchesChain
  <2>8. QED BY <1>3, <2>5, <2>6, <2>7 DEF u
<1>4. QED BY <1>1, <1>2, <1>3

-----------------------------------------------------------------------------
(* What a day does to a world.                                              *)

\* Every required participant who waited last and has not voted has its
\* mandatory decision in the queue.
AskedAgain(w) ==
  \A x \in Required :
    /\ w.votes[x] = None
    /\ w.past[x] # <<>>
    /\ LastDecision(w, x).reply.act # "act"
    => Mandatory(x) \in w.queue

\* World v comes from w by some of the decisions of the day.
Decides(w, day, v) ==
  /\ v \in Worlds
  /\ <<v.outcome, v.delivered>> = <<w.outcome, w.delivered>>
  /\ w.queue \subseteq v.queue
  /\ Resolved(w) => v = w
  /\ \A x \in Actor : (\A e \in Requests(w, day) : e.actor # x) =>
       v.past[x] = w.past[x] /\ v.votes[x] = w.votes[x]
  /\ day < Deadline /\ AskedAgain(w) => AskedAgain(v)

\* One more decision.
LEMMA DecidesStep ==
  ASSUME NEW w \in Worlds, NEW day, NEW v, Decides(w, day, v),
         NEW e \in Requests(w, day), e \in Request, e.day = day, NEW r \in Reply \cup {NoReply},
         NEW registry \in Registry
  PROVE  Decides(w, day, ApplyDecision(v, e, r, registry))
<1> DEFINE u == ApplyDecision(v, e, r, registry)
           x == e.actor
<1>1. v \in Worlds /\ x \in Actor
  BY DEF Decides, Request
<1>2. /\ Touches(v, u, x)
      /\ Resolved(v) => u = v
      /\ \/ <<u.past, u.votes>> = <<v.past, v.votes>>
         \/ /\ u.past[x] # <<>>
            /\ \/ LastDecision(u, x).reply.act = "act"
               \/ x \in Required /\ day < Deadline => Mandatory(x) \in u.queue
  BY <1>1, DecisionTouches
<1> HIDE DEF u
<1>3. Resolved(w) => u = w
  BY <1>2 DEF Decides, Resolved
<1>4. \A y \in Actor : (\A f \in Requests(w, day) : f.actor # y) =>
        u.past[y] = w.past[y] /\ u.votes[y] = w.votes[y]
  BY <1>2 DEF Touches, Decides
<1>5. ASSUME day < Deadline, AskedAgain(w) PROVE AskedAgain(u)
  <2>1. AskedAgain(v) BY <1>5 DEF Decides
  <2>2. SUFFICES ASSUME NEW y \in Required, u.votes[y] = None, u.past[y] # <<>>,
                        LastDecision(u, y).reply.act # "act"
                 PROVE  Mandatory(y) \in u.queue
    BY DEF AskedAgain
  <2>3. v.queue \subseteq u.queue /\ y \in Actor BY <1>2, WorldAssumption DEF Touches
  <2>4. CASE <<u.past, u.votes>> = <<v.past, v.votes>>
    BY <2>1, <2>2, <2>3, <2>4 DEF AskedAgain, LastDecision
  <2>5. CASE y # x
    <3>1. u.past[y] = v.past[y] /\ u.votes[y] = v.votes[y] BY <1>2, <2>3, <2>5 DEF Touches
    <3>2. LastDecision(v, y) = LastDecision(u, y) BY <3>1 DEF LastDecision
    <3>3. QED BY <2>1, <2>2, <2>3, <3>1, <3>2 DEF AskedAgain
  <2>6. CASE y = x /\ <<u.past, u.votes>> # <<v.past, v.votes>>
    BY <1>2, <1>5, <2>2, <2>6
  <2>7. QED BY <2>4, <2>5, <2>6
<1>6. u \in Worlds /\ <<u.outcome, u.delivered>> = <<w.outcome, w.delivered>> /\ w.queue \subseteq u.queue
  BY <1>2 DEF Touches, Decides
<1>7. Decides(w, day, u)
  BY <1>3, <1>4, <1>5, <1>6 DEF Decides
<1>8. QED BY <1>7 DEF u

\* All the decisions of the day (_apply_decision for each request): what
\* Decide copies back is as after some decisions, and the rest is as in the
\* morning.
LEMMA DecideEffect ==
  ASSUME NEW w \in Worlds, NEW day, NEW decisions, NEW registry \in Registry,
         \A e \in Requests(w, day) : decisions[BuildContext(w, e)] \in Reply \cup {NoReply}
  PROVE  LET u == Decide(w, day, decisions, registry) IN
         /\ Decides(w, day, u)
         /\ <<u.variant, u.shared, u.day, u.present>> = <<w.variant, w.shared, w.day, w.present>>
<1> DEFINE X == {v \in Worlds : Decides(w, day, v)}
           u == Decide(w, day, decisions, registry)
<1>1. w \in World /\ w.queue \subseteq Event
  BY WorldFields DEF Worlds
<1>2. /\ OfOneDay(Requests(w, day))
      /\ \A e \in Requests(w, day) : e.day = day /\ e \in Request
  BY <1>1, RequestsOfDay DEF OfOneDay
<1>3. w \in X
  BY DEF Decides
<1>4. ASSUME NEW v \in X, NEW e \in Requests(w, day) PROVE After(w, decisions, registry, v, e) \in X
  <2>1. Decides(w, day, ApplyDecision(v, e, decisions[BuildContext(w, e)], registry))
    BY <1>2, DecidesStep
  <2>2. QED BY <2>1 DEF After, Decides
<1>5. PICK v \in X : u = Copy(w, v)
  <2> HIDE DEF X
  <2>1. \A v \in X, e \in Requests(w, day) : After(w, decisions, registry, v, e) \in X BY <1>4
  <2>2. QED BY <1>1, <1>3, <2>1, DecideKeeps
<1>6. v \in World /\ Decides(w, day, v)
  BY DEF Worlds
<1> HIDE DEF X, u
<1>7. /\ u.queue = v.queue /\ u.votes = v.votes /\ u.past = v.past /\ u.pending = v.pending
      /\ u.outcome = w.outcome /\ u.delivered = w.delivered
      /\ u.variant = w.variant /\ u.shared = w.shared /\ u.day = w.day /\ u.present = w.present
  BY <1>1, <1>5 DEF World, Copy
<1>8. u \in World
  <2>1. /\ v.queue \in SUBSET Event /\ v.votes \in [Actor -> Ballot]
        /\ v.past \in [Actor -> Seq(Decided)] /\ v.asked \in [Actor -> SUBSET MissingFact]
        /\ v.pending \in [Actor -> SUBSET Message] /\ v.reason \in Reason
    BY <1>6, WorldFields
  <2>2. QED BY <1>1, <1>5, <2>1 DEF World, Copy
<1>9. u \in Worlds
  BY <1>6, <1>7, <1>8 DEF Worlds, Decides
<1>10. Resolved(w) => u = w
  <2>1. ASSUME v = w PROVE u = w BY <1>1, <1>5, <2>1 DEF World, Copy
  <2>2. QED BY <1>6, <2>1 DEF Decides
<1>11. AskedAgain(v) => AskedAgain(u)
  BY <1>7 DEF AskedAgain, LastDecision
<1>12. Decides(w, day, u)
  BY <1>6, <1>7, <1>9, <1>10, <1>11 DEF Decides
<1>13. QED BY <1>7, <1>12 DEF u

\* The morning brings messages, promotes and assigns private states; it
\* decides nothing and takes nothing from the queue.
LEMMA MorningEffect ==
  ASSUME NEW w \in Worlds, NEW day \in Nat, NEW promoted \in SUBSET Actor,
         NEW variant \in [Actor -> Variant \cup {None}]
  PROVE  LET u == Morning(w, day, promoted, variant) IN
         /\ u \in Worlds
         /\ <<u.outcome, u.past, u.votes, u.shared, u.day>> = <<w.outcome, w.past, w.votes, w.shared, w.day>>
         /\ w.queue \subseteq u.queue
         /\ \A x \in Actor : u.variant[x] = IF x \in DueActors(u, day) /\ w.variant[x] = None
                                            THEN variant[x] ELSE w.variant[x]
<1> DEFINE d == Deliver(w, day, promoted)
           given == [x \in Actor |-> IF x \in DueActors(d, day) /\ w.variant[x] = None
                                     THEN variant[x] ELSE w.variant[x]]
           u == Morning(w, day, promoted, variant)
           queue == w.queue \cup {[day |-> day, kind |-> "promoted", actor |-> x] : x \in promoted}
           all == [x \in Actor |-> IF x \in w.present \cup promoted
                                   THEN w.delivered[x] \cup w.pending[x] ELSE w.delivered[x]]
           none == [x \in Actor |-> {}]
           here == w.present \cup promoted
<1>1. w \in World /\ \A x \in Actor : IsFiniteSet(w.delivered[x]) /\ IsFiniteSet(w.pending[x])
  BY DEF Worlds
<1>2. queue \in SUBSET Event /\ w.queue \subseteq queue
  BY <1>1, WorldFields DEF Event, Request, Kind
<1>3. /\ all \in [Actor -> SUBSET Message] /\ none \in [Actor -> SUBSET Message] /\ here \in SUBSET Actor
      /\ given \in [Actor -> Variant \cup {None}]
  <2> HIDE DEF d
  <2> QED BY <1>1, WorldFields
<1>4. \A x \in Actor : IsFiniteSet(all[x]) /\ IsFiniteSet(none[x])
  BY <1>1, FS_Union, FS_EmptySet
<1>5. /\ d.present = here /\ d.delivered = all /\ d.pending = none /\ d.queue = queue
      /\ d.outcome = w.outcome /\ d.past = w.past /\ d.votes = w.votes
      /\ d.shared = w.shared /\ d.day = w.day /\ d.variant = w.variant
  BY <1>1 DEF Deliver, World
<1> HIDE DEF all, none, here, queue
<1>6. d \in World
  BY <1>1, <1>2, <1>3 DEF Deliver, World, all, none, here, queue
<1> HIDE DEF d
<1>7. u = [d EXCEPT !.variant = given]
  BY <1>5 DEF Morning, Assign, d
<1> HIDE DEF given
<1>8. u \in World
  <2>1. [d EXCEPT !.variant = given] \in World BY <1>3, <1>6, SetField
  <2> HIDE DEF u
  <2>2. QED BY <1>7, <2>1
<1> HIDE DEF u
<1>9. /\ u.variant = given /\ u.queue = queue /\ u.delivered = all /\ u.pending = none
      /\ u.outcome = w.outcome /\ u.past = w.past /\ u.votes = w.votes
      /\ u.shared = w.shared /\ u.day = w.day
  BY <1>5, <1>6, <1>7 DEF World
<1>10. DueActors(u, day) = DueActors(d, day)
  BY <1>5, <1>9 DEF DueActors, Due
<1>11. u \in Worlds
  BY <1>4, <1>8, <1>9 DEF Worlds
<1>12. \A x \in Actor : u.variant[x] = IF x \in DueActors(u, day) /\ w.variant[x] = None
                                       THEN variant[x] ELSE w.variant[x]
  BY <1>9, <1>10 DEF given
<1>13. QED BY <1>2, <1>9, <1>11, <1>12 DEF u

\* The end of the day consumes its events, and may resolve a world that has
\* all the votes.
LEMMA CloseDayEffect ==
  ASSUME NEW w \in Worlds, NEW day \in Nat
  PROVE  LET u == CloseDay(w, day) IN
         /\ u \in Worlds /\ u.day = day
         /\ u.queue = {e \in w.queue : e.day > day}
         /\ <<u.past, u.votes, u.variant, u.shared>> = <<w.past, w.votes, w.variant, w.shared>>
         /\ IF Resolved(w) THEN u.outcome = w.outcome
            ELSE Resolved(u) => \A m \in Member : w.votes[m] # None
<1> DEFINE t == EvaluateTerminal(w)
           v == IF (\E e \in w.queue : e.day = day /\ e.kind = "terminal_eval") /\ ~Resolved(w)
                THEN t ELSE w
           queue == {e \in v.queue : e.day > day}
           u == CloseDay(w, day)
<1>1. w \in World /\ \A x \in Actor : IsFiniteSet(w.delivered[x]) /\ IsFiniteSet(w.pending[x])
  BY DEF Worlds
<1>2. /\ t \in World
      /\ <<t.past, t.votes, t.variant, t.shared, t.queue, t.delivered, t.pending>>
           = <<w.past, w.votes, w.variant, w.shared, w.queue, w.delivered, w.pending>>
      /\ t.outcome = w.outcome \/ MissingVotes(w) = {}
  <2> DEFINE o == IF \E o \in Option : Carries(w, o) THEN "YES" ELSE "NO"
  <2>1. CASE UnknownMembers(w) # {}
    <3>1. t = [w EXCEPT !.reason = "unknown_state"] BY <2>1 DEF EvaluateTerminal
    <3>2. "unknown_state" \in Reason BY DEF Reason
    <3>3. [w EXCEPT !.reason = "unknown_state"] \in World BY <1>1, <3>2, SetField
    <3>4. QED BY <1>1, <3>1, <3>3 DEF World
  <2>2. CASE UnknownMembers(w) = {} /\ MissingVotes(w) # {}
    <3>1. t = [w EXCEPT !.reason = "votes_missing"] BY <2>2 DEF EvaluateTerminal
    <3>2. "votes_missing" \in Reason BY DEF Reason
    <3>3. [w EXCEPT !.reason = "votes_missing"] \in World BY <1>1, <3>2, SetField
    <3>4. QED BY <1>1, <3>1, <3>3 DEF World
  <2>3. CASE UnknownMembers(w) = {} /\ MissingVotes(w) = {}
    <3>1. t = [w EXCEPT !.outcome = o] BY <2>3 DEF EvaluateTerminal
    <3>2. o \in {None, "YES", "NO"} OBVIOUS
    <3> HIDE DEF o
    <3>3. t \in World BY <1>1, <3>1, <3>2, SetField
    <3>4. QED BY <1>1, <2>3, <3>1, <3>3 DEF World
  <2>4. QED BY <2>1, <2>2, <2>3
<1> HIDE DEF t
<1>3. /\ v \in World
      /\ <<v.past, v.votes, v.variant, v.shared, v.queue, v.delivered, v.pending>>
           = <<w.past, w.votes, w.variant, w.shared, w.queue, w.delivered, w.pending>>
      /\ v = w \/ (~Resolved(w) /\ (v.outcome = w.outcome \/ MissingVotes(w) = {}))
  BY <1>1, <1>2
<1>4. u = [v EXCEPT !.queue = queue, !.day = day]
  BY DEF CloseDay, t
<1> HIDE DEF v
<1>5. queue \in SUBSET Event
  BY <1>3, WorldFields
<1>6. queue = {e \in w.queue : e.day > day}
  BY <1>3
<1> HIDE DEF queue, u
<1>7. u \in World
  BY <1>3, <1>4, <1>5 DEF World
<1>8. /\ u.queue = queue /\ u.day = day /\ u.past = v.past /\ u.votes = v.votes
      /\ u.variant = v.variant /\ u.shared = v.shared /\ u.outcome = v.outcome
      /\ u.delivered = v.delivered /\ u.pending = v.pending
  BY <1>3, <1>4 DEF World
<1>9. u \in Worlds
  BY <1>1, <1>3, <1>7, <1>8 DEF Worlds
<1>10. IF Resolved(w) THEN u.outcome = w.outcome
       ELSE Resolved(u) => \A m \in Member : w.votes[m] # None
  BY <1>3, <1>8 DEF Resolved, MissingVotes
<1>11. QED BY <1>3, <1>6, <1>8, <1>9, <1>10 DEF u

\* From the morning to the end of the day.
LEMMA EveningEffect ==
  ASSUME NEW w \in Worlds, NEW day \in Nat, NEW decisions, NEW registry \in Registry,
         \A e \in Requests(w, day) : decisions[BuildContext(w, e)] \in Reply \cup {NoReply}
  PROVE  LET u == Evening(w, day, decisions, registry) IN
         /\ u \in Worlds /\ u.day = day /\ \A e \in u.queue : e.day > day
         /\ <<u.variant, u.shared>> = <<w.variant, w.shared>>
         /\ Resolved(w) => <<u.outcome, u.votes, u.past>> = <<w.outcome, w.votes, w.past>>
         /\ ~Resolved(w) /\ Resolved(u) => \A m \in Member : u.votes[m] # None
         /\ \A x \in Actor : (\A e \in Requests(w, day) : e.actor # x) =>
              u.past[x] = w.past[x] /\ u.votes[x] = w.votes[x]
         /\ day < Deadline /\ AskedAgain(w) => AskedAgain(u)
<1> DEFINE v == Decide(w, day, decisions, registry)
           u == CloseDay(v, day)
<1>1. Decides(w, day, v) /\ <<v.variant, v.shared>> = <<w.variant, w.shared>>
  BY DecideEffect
<1>2. v \in Worlds
  BY <1>1 DEF Decides
<1> HIDE DEF v
<1>3. /\ u \in Worlds /\ u.day = day
      /\ u.queue = {e \in v.queue : e.day > day}
      /\ <<u.past, u.votes, u.variant, u.shared>> = <<v.past, v.votes, v.variant, v.shared>>
      /\ IF Resolved(v) THEN u.outcome = v.outcome
         ELSE Resolved(u) => \A m \in Member : v.votes[m] # None
  BY <1>2, CloseDayEffect
<1>4. Evening(w, day, decisions, registry) = u
  BY DEF Evening, v
<1> HIDE DEF u
<1>5. Resolved(v) <=> Resolved(w)
  BY <1>1 DEF Decides, Resolved
<1>6. Resolved(w) => <<u.outcome, u.votes, u.past>> = <<w.outcome, w.votes, w.past>>
  BY <1>1, <1>3, <1>5 DEF Decides
<1>7. \A x \in Actor : (\A e \in Requests(w, day) : e.actor # x) =>
        u.past[x] = w.past[x] /\ u.votes[x] = w.votes[x]
  BY <1>1, <1>3 DEF Decides
<1>8. ASSUME day < Deadline, AskedAgain(w) PROVE AskedAgain(u)
  <2>1. AskedAgain(v) BY <1>1, <1>8 DEF Decides
  <2>2. \A x : Mandatory(x) \in v.queue => Mandatory(x) \in u.queue
    BY <1>3, <1>8, WorldAssumption DEF Mandatory
  <2>3. QED BY <1>3, <2>1, <2>2 DEF AskedAgain, LastDecision
<1>9. \A e \in u.queue : e.day > day
  BY <1>3
<1>10. QED BY <1>1, <1>3, <1>4, <1>5, <1>6, <1>7, <1>8, <1>9

\* The world a node starts from.
LEMMA SeedRootType ==
  ASSUME NEW c \in Shared, NEW schedule, schedule.triggers \subseteq Request,
         schedule.anchors \subseteq Nat, schedule.evaluation \in Nat
  PROVE  LET w == SeedRoot(c, schedule) IN
         /\ w \in Worlds
         /\ w.day = 0 /\ ~Resolved(w)
         /\ \A x \in Actor : w.past[x] = <<>> /\ w.votes[x] = None /\ w.variant[x] = None
<1> DEFINE triggers == {e \in schedule.triggers : e.actor \notin Promotable}
           silent == {m \in Required \ Promotable : \A e \in triggers : e.actor # m}
           queue == triggers \cup {Mandatory(m) : m \in silent}
                      \cup {[day |-> d, kind |-> "anchor"] : d \in schedule.anchors}
                      \cup {[day |-> schedule.evaluation, kind |-> "terminal_eval"]}
           w == SeedRoot(c, schedule)
<1>1. queue \in SUBSET Event
  <2>1. triggers \subseteq Event BY DEF Event
  <2>2. \A m \in silent : Mandatory(m) \in Event
    BY WorldAssumption DEF Mandatory, Event, Request, Kind
  <2>3. [day |-> schedule.evaluation, kind |-> "terminal_eval"] \in Event BY DEF Event
  <2>4. \A d \in schedule.anchors : [day |-> d, kind |-> "anchor"] \in Event BY DEF Event
  <2> HIDE DEF triggers, silent
  <2>5. QED BY <2>1, <2>2, <2>3, <2>4
<1>2. w = [day |-> 0, shared |-> c, variant |-> [x \in Actor |-> None],
           present |-> Actor \ Promotable,
           delivered |-> [x \in Actor |-> {}], pending |-> [x \in Actor |-> {}],
           queue |-> queue,
           votes |-> [x \in Actor |-> None], past |-> [x \in Actor |-> <<>>],
           asked |-> [x \in Actor |-> {}], outcome |-> None, reason |-> ""]
  BY DEF SeedRoot
<1> HIDE DEF queue, w
<1>3. w \in World
  <2>1. [x \in Actor |-> <<>>] \in [Actor -> Seq(Decided)] OBVIOUS
  <2>2. [x \in Actor |-> None] \in [Actor -> Ballot] BY DEF Ballot
  <2>3. [x \in Actor |-> None] \in [Actor -> Variant \cup {None}] OBVIOUS
  <2>4. "" \in Reason BY DEF Reason
  <2>5. 0 \in Nat /\ Actor \ Promotable \in SUBSET Actor OBVIOUS
  <2>6. QED BY <1>1, <1>2, <2>1, <2>2, <2>3, <2>4, <2>5 DEF World
<1>4. \A x \in Actor : w.delivered[x] = {} /\ w.pending[x] = {}
  BY <1>2
<1>5. w \in Worlds
  BY <1>3, <1>4, FS_EmptySet DEF Worlds
<1>6. /\ w.day = 0 /\ ~Resolved(w)
      /\ \A x \in Actor : w.past[x] = <<>> /\ w.votes[x] = None /\ w.variant[x] = None
  BY <1>2 DEF Resolved
<1>7. QED BY <1>5, <1>6 DEF w
=============================================================================
