-------------------------- MODULE EventStoreProofs --------------------------
(***************************************************************************)
(* Theorems about EventStore, for any number of processes, events and      *)
(* deployments.  The first part is about a load: each row that loads has a *)
(* place of its own and the places are 1..n.  The second part holds one    *)
(* invariant per question and the theorems the runs of MCEventStore check. *)
(***************************************************************************)
EXTENDS EventStore, TLAPS, FiniteSetTheorems

-----------------------------------------------------------------------------
(* Loads *)

LEMMA UpTo ==
  ASSUME NEW n \in Nat
  PROVE  IsFiniteSet(1..n) /\ Cardinality(1..n) = n
BY FS_Interval

\* The rows that load are finitely many.
LEMMA FirstFinite ==
  ASSUME NEW r \in Seq(Row)
  PROVE  /\ First(r) \subseteq 1..Len(r)
         /\ IsFiniteSet(First(r))
         /\ Cardinality(First(r)) \in Nat
<1>1. First(r) \subseteq 1..Len(r)
  BY DEF First
<1>2. Len(r) \in Nat
  OBVIOUS
<1>3. IsFiniteSet(1..Len(r))
  BY <1>2, UpTo
<1>4. IsFiniteSet(First(r))
  BY <1>1, <1>3, FS_Subset
<1> QED
  BY <1>1, <1>4, FS_CardinalityType

\* Of two rows that load, one is strictly below the other in load order.
LEMMA LoadOrder ==
  ASSUME NEW r \in Seq(Row), NEW i \in 1..Len(r), NEW j \in 1..Len(r)
  PROVE  /\ NotAfter(r, i, i)
         /\ NotAfter(r, i, j) \/ NotAfter(r, j, i)
         /\ NotAfter(r, i, j) /\ NotAfter(r, j, i) => i = j
         /\ \A k \in 1..Len(r) :
              NotAfter(r, i, j) /\ NotAfter(r, j, k) => NotAfter(r, i, k)
<1>1. \A k \in 1..Len(r) : r[k] \in Row
  OBVIOUS
<1>2. \A k \in 1..Len(r) : r[k].seq \in Nat
  BY <1>1 DEF Row
<1> QED
  BY <1>2 DEF NotAfter

\* A row's place is a number from 1 to the number of rows that load.
LEMMA PlaceType ==
  ASSUME NEW r \in Seq(Row), NEW i \in First(r)
  PROVE  Place(r, i) \in 1..Cardinality(First(r))
<1> DEFINE B == {j \in First(r) : NotAfter(r, j, i)}
<1>1. IsFiniteSet(First(r)) /\ Cardinality(First(r)) \in Nat
  BY FirstFinite
<1>2. B \in SUBSET First(r)
  OBVIOUS
<1>3. i \in B
  BY FirstFinite, LoadOrder
<1>4. IsFiniteSet(B) /\ Cardinality(B) <= Cardinality(First(r))
  BY <1>1, <1>2, FS_Subset
<1>5. Cardinality(B) \in Nat /\ Cardinality(B) # 0
  BY <1>3, <1>4, FS_CardinalityType, FS_EmptySet
<1>6. Place(r, i) = Cardinality(B)
  BY DEF Place
<1> HIDE DEF B
<1> QED
  BY <1>1, <1>4, <1>5, <1>6

\* No two rows that load have one place.
LEMMA PlaceBelow ==
  ASSUME NEW r \in Seq(Row), NEW i \in First(r), NEW j \in First(r),
         i # j, NotAfter(r, i, j)
  PROVE  Place(r, i) # Place(r, j)
<1> DEFINE B(k) == {l \in First(r) : NotAfter(r, l, k)}
<1>1. i \in 1..Len(r) /\ j \in 1..Len(r) /\ First(r) \subseteq 1..Len(r)
  BY FirstFinite
<1>2. B(i) \in SUBSET B(j)
  BY <1>1, LoadOrder
<1>3. j \in B(j) /\ j \notin B(i)
  BY <1>1, LoadOrder
<1>4. IsFiniteSet(B(j))
  BY FirstFinite, FS_Subset
<1>5. B(j) # B(i)
  BY <1>3
<1>6. Cardinality(B(j)) # Cardinality(B(i))
  <2> HIDE DEF B
  <2> QED
    BY <1>2, <1>4, <1>5, FS_Subset
<1>7. Place(r, i) = Cardinality(B(i)) /\ Place(r, j) = Cardinality(B(j))
  BY DEF Place
<1> QED
  BY <1>6, <1>7

LEMMA PlaceInjective ==
  ASSUME NEW r \in Seq(Row), NEW i \in First(r), NEW j \in First(r),
         Place(r, i) = Place(r, j)
  PROVE  i = j
<1>1. NotAfter(r, i, j) \/ NotAfter(r, j, i)
  BY FirstFinite, LoadOrder
<1> QED
  BY <1>1, PlaceBelow

\* Every place is taken.
LEMMA PlaceOnto ==
  ASSUME NEW r \in Seq(Row), NEW k \in 1..Cardinality(First(r))
  PROVE  \E i \in First(r) : Place(r, i) = k
<1> DEFINE n == Cardinality(First(r))
           f == [i \in First(r) |-> Place(r, i)]
<1>1. n \in Nat /\ IsFiniteSet(First(r))
  BY FirstFinite
<1>2. f \in [First(r) -> 1..n]
  BY PlaceType
<1>3. \A i, j \in First(r) : f[i] = f[j] => i = j
  BY PlaceInjective
<1>4. f \in Injection(First(r), 1..n)
  BY <1>2, <1>3 DEF Injection, IsInjective
<1>5. IsFiniteSet(1..n) /\ Cardinality(1..n) = n
  BY <1>1, UpTo
<1>6. f \in Surjection(First(r), 1..n)
  <2> HIDE DEF f
  <2> QED
    BY <1>4, <1>5, FS_Injection
<1>7. \E i \in First(r) : f[i] = k
  BY <1>6 DEF Surjection
<1> QED
  BY <1>7

\* Of the rows of one event, one comes first.
LEMMA FirstExists ==
  ASSUME NEW r \in Seq(Row), NEW i \in 1..Len(r)
  PROVE  \E j \in First(r) : r[j].ev = r[i].ev
<1> DEFINE T == {j \in 1..Len(r) : r[j].ev = r[i].ev}
<1>1. T \subseteq Nat /\ T # {}
  OBVIOUS
<1>2. PICK j \in T : \A k \in T : ~(<<k, j>> \in OpToRel(<, Nat))
  <2> HIDE DEF T
  <2> QED
    BY <1>1, NatLessThanWellFounded, WFMin
<1>3. \A k \in T : ~(k < j)
  BY <1>1, <1>2 DEF OpToRel
<1>4. j \in First(r)
  BY <1>3 DEF First
<1> QED
  BY <1>4

\* A log that loads rows is a sequence of events without repetition and holds
\* the rows' events.
LEMMA LoadFaithful ==
  ASSUME NEW r \in Seq(Row), NEW s \in Loads(r)
  PROVE  /\ s \in Seq(Event)
         /\ Ids(s) = RowEvents(r)
         /\ \A k, l \in 1..Len(s) : s[k] = s[l] => k = l
<1> DEFINE n == Cardinality(First(r))
<1>1. n \in Nat /\ First(r) \subseteq 1..Len(r)
  BY FirstFinite
<1>2. s \in [1..n -> Event] /\ \A i \in First(r) : s[Place(r, i)] = r[i].ev
  BY DEF Loads
<1>3. s \in Seq(Event) /\ Len(s) = n
  <2> HIDE DEF n
  <2> QED
    BY <1>1, <1>2
<1>4. \A k \in 1..n : \E i \in First(r) : Place(r, i) = k /\ s[k] = r[i].ev
  BY <1>2, PlaceOnto
<1>5. Ids(s) \subseteq RowEvents(r)
  BY <1>1, <1>3, <1>4 DEF Ids, RowEvents
<1>6. RowEvents(r) \subseteq Ids(s)
  <2> SUFFICES ASSUME NEW i \in 1..Len(r)
               PROVE  r[i].ev \in Ids(s)
    BY DEF RowEvents
  <2>1. PICK j \in First(r) : r[j].ev = r[i].ev
    BY FirstExists
  <2>2. Place(r, j) \in 1..n /\ s[Place(r, j)] = r[i].ev
    BY <1>2, <2>1, PlaceType
  <2> QED
    BY <1>3, <2>2 DEF Ids
<1>7. ASSUME NEW k \in 1..n, NEW l \in 1..n, s[k] = s[l]
      PROVE  k = l
  <2>1. PICK i \in First(r) : Place(r, i) = k /\ s[k] = r[i].ev
    BY <1>4
  <2>2. PICK j \in First(r) : Place(r, j) = l /\ s[l] = r[j].ev
    BY <1>4
  <2>3. i <= j /\ j <= i
    BY <1>1, <1>7, <2>1, <2>2 DEF First
  <2>4. i = j
    BY <1>1, <2>3
  <2> QED
    BY <2>1, <2>2, <2>4
<1> QED
  BY <1>3, <1>5, <1>6, <1>7

-----------------------------------------------------------------------------
(* Types *)

LEMMA RowType ==
  ASSUME TypeOK, NEW p \in Proc, NEW e \in Event
  PROVE  /\ Append(log[p], e) \in Seq(Event)
         /\ NewRow(p, e) \in Row
         /\ Insert(rows, NewRow(p, e)) \in Seq(Row)
<1>1. log[p] \in Seq(Event) /\ rows \in Seq(Row)
  BY DEF TypeOK
<1>2. Append(log[p], e) \in Seq(Event) /\ Len(log[p]) + 1 \in Nat
  BY <1>1
<1>3. NewRow(p, e) \in Row
  BY <1>2 DEF NewRow, Row
<1>4. Insert(rows, NewRow(p, e)) \in Seq(Row)
  BY <1>1, <1>3 DEF Insert
<1> QED
  BY <1>2, <1>3, <1>4

\* What is known of the checkpoint in work by its phase.
LEMMA WorkType ==
  ASSUME TypeOK, NEW p \in Proc
  PROVE  /\ work[p].phase = "idle" => work[p] = Idle
         /\ work[p].phase = "replayed" =>
              work[p].asOf \in AsOf /\ work[p].seen \in SUBSET Event
         /\ work[p].phase = "sealed" =>
              /\ work[p].asOf \in AsOf
              /\ work[p].seen \in SUBSET Event
              /\ work[p].wm \in Seq(Event)
<1>1. work[p] \in Work
  BY DEF TypeOK
<1>2. CASE work[p] = Idle
  BY <1>2 DEF Idle
<1>3. CASE work[p] \in [phase : {"replayed"}, asOf : AsOf, seen : SUBSET Event]
  BY <1>3
<1>4. CASE work[p] \in [phase : {"sealed"}, asOf : AsOf, seen : SUBSET Event,
                        wm : Seq(Event)]
  BY <1>4
<1> QED
  BY <1>1, <1>2, <1>3, <1>4 DEF Work

LEMMA TypeStep == TypeOK /\ [Next]_vars => TypeOK'
<1> SUFFICES ASSUME TypeOK, [Next]_vars
             PROVE  TypeOK'
  OBVIOUS
<1> USE DEF TypeOK
<1>1. ASSUME NEW p \in Proc, Start(p)
      PROVE  TypeOK'
  <2>1. PICK s \in Loads(rows) : log' = [log EXCEPT ![p] = s]
    BY <1>1 DEF Start
  <2>2. s \in Seq(Event)
    BY LoadFaithful
  <2> QED
    BY <1>1, <2>1, <2>2 DEF Start
<1>2. ASSUME NEW p \in Proc, Stop(p)
      PROVE  TypeOK'
  BY <1>2 DEF Stop, Work
<1>3. ASSUME NEW p \in Proc, NEW e \in Event, AppendNew(p, e)
      PROVE  TypeOK'
  BY <1>3, RowType DEF AppendNew, CanAppend
<1>4. ASSUME NEW p \in Proc, NEW e \in Event, AppendFails(p, e)
      PROVE  TypeOK'
  BY <1>4, RowType DEF AppendFails, CanAppend
<1>5. ASSUME NEW p \in Proc, NEW e \in Event, AppendAgain(p, e)
      PROVE  TypeOK'
  BY <1>5 DEF AppendAgain
<1>6. ASSUME NEW p \in Proc, NEW t \in AsOf, Replay(p, t)
      PROVE  TypeOK'
  <2>1. KnownAsOf(Ids(log[p]), t) \subseteq Event
    BY DEF KnownAsOf, Effective, Ids
  <2>2. [phase |-> "replayed", asOf |-> t,
         seen |-> KnownAsOf(Ids(log[p]), t)] \in Work
    BY <2>1 DEF Work
  <2> QED
    BY <1>6, <2>2 DEF Replay
<1>7. ASSUME NEW p \in Proc, Seal(p)
      PROVE  TypeOK'
  <2>1. [phase |-> "sealed", asOf |-> work[p].asOf, seen |-> work[p].seen,
         wm |-> log[p]] \in Work
    BY <1>7, WorkType DEF Work, Seal
  <2> QED
    BY <1>7, <2>1 DEF Seal
<1>8. ASSUME NEW p \in Proc, Commit(p)
      PROVE  TypeOK'
  <2>1. [asOf |-> work[p].asOf, wm |-> work[p].wm, seen |-> work[p].seen,
         created |-> Len(log[p])] \in Checkpoint
    BY <1>8, WorkType DEF Checkpoint, Commit
  <2>2. cps' \subseteq Checkpoint
    BY <1>8, <2>1 DEF Commit
  <2> QED
    BY <1>8, <2>2 DEF Commit, Work
<1>9. ASSUME NEW p \in Proc, Compact(p)
      PROVE  TypeOK'
  BY <1>9 DEF Compact
<1>10. CASE UNCHANGED vars
  BY <1>10 DEF vars
<1> QED
  BY <1>1, <1>2, <1>3, <1>4, <1>5, <1>6, <1>7, <1>8, <1>9, <1>10 DEF Next

\* Every variable keeps its type and a process that is down holds nothing.
THEOREM TypeCorrect == Spec => []TypeOK
<1>1. Init => TypeOK
  BY DEF Init, TypeOK, Work
<1> QED
  BY <1>1, TypeStep, PTL DEF Spec

-----------------------------------------------------------------------------
(* Idempotence *)

\* What Insert adds to the database.
LEMMA InsertEvents ==
  ASSUME TypeOK, NEW p \in Proc, NEW e \in Event
  PROVE  RowEvents(Insert(rows, NewRow(p, e))) = RowEvents(rows) \cup {e}
<1>1. rows \in Seq(Row) /\ NewRow(p, e) \in Row /\ NewRow(p, e).ev = e
  BY RowType DEF TypeOK, NewRow
<1>2. RowEvents(Append(rows, NewRow(p, e))) = RowEvents(rows) \cup {e}
  BY <1>1 DEF RowEvents
<1>3. CASE deploy.backend = "sqlite" /\ e \in RowEvents(rows)
  BY <1>1, <1>3 DEF Insert
<1>4. CASE ~(deploy.backend = "sqlite" /\ e \in RowEvents(rows))
  BY <1>1, <1>2, <1>4 DEF Insert
<1> QED
  BY <1>3, <1>4

\* What an append adds to a log.
LEMMA AppendIds ==
  ASSUME NEW s \in Seq(Event), NEW e \in Event
  PROVE  Ids(Append(s, e)) = Ids(s) \cup {e}
BY DEF Ids

\* An append of an event the log does not hold repeats nothing.
LEMMA AppendDistinct ==
  ASSUME NEW s \in Seq(Event), NEW e \in Event, e \notin Ids(s),
         \A k, l \in 1..Len(s) : s[k] = s[l] => k = l
  PROVE  LET t == Append(s, e)
         IN  \A k, l \in 1..Len(t) : t[k] = t[l] => k = l
BY DEF Ids

LEMMA NoDoubleApplyStep ==
  TypeOK /\ NoDoubleApply /\ [Next]_vars => NoDoubleApply'
<1> SUFFICES ASSUME TypeOK, NoDoubleApply, [Next]_vars
             PROVE  NoDoubleApply'
  OBVIOUS
<1> DEFINE Distinct(s) == \A k, l \in 1..Len(s) : s[k] = s[l] => k = l
           Unique(r) == \A k, l \in 1..Len(r) : r[k].ev = r[l].ev => k = l
<1>a. /\ log \in [Proc -> Seq(Event)] /\ rows \in Seq(Row)
      /\ \A p \in Proc : Distinct(log[p])
      /\ deploy.backend = "sqlite" => Unique(rows)
  BY DEF TypeOK, NoDoubleApply
<1>b. ASSUME deploy' = deploy, \A p \in Proc : Distinct(log'[p]),
             deploy.backend = "sqlite" => Unique(rows')
      PROVE  NoDoubleApply'
  BY <1>b DEF NoDoubleApply
<1>c. ASSUME NEW p \in Proc, NEW s, Distinct(s), log' = [log EXCEPT ![p] = s]
      PROVE  \A q \in Proc : Distinct(log'[q])
  BY <1>a, <1>c
<1>1. ASSUME NEW p \in Proc, Start(p)
      PROVE  NoDoubleApply'
  <2>1. PICK s \in Loads(rows) : log' = [log EXCEPT ![p] = s]
    BY <1>1 DEF Start
  <2>2. Distinct(s)
    BY <1>a, LoadFaithful
  <2> HIDE DEF Distinct, Unique
  <2> QED
    BY <1>1, <1>a, <1>b, <1>c, <2>1, <2>2 DEF Start
<1>2. ASSUME NEW p \in Proc, Stop(p)
      PROVE  NoDoubleApply'
  <2>1. Distinct(<<>>)
    OBVIOUS
  <2> HIDE DEF Distinct, Unique
  <2> QED
    BY <1>2, <1>a, <1>b, <1>c, <2>1 DEF Stop
<1>d. ASSUME NEW p \in Proc, NEW e \in Event, CanAppend(p, e)
      PROVE  Distinct(Append(log[p], e))
  <2>1. log[p] \in Seq(Event) /\ e \notin Ids(log[p]) /\ Distinct(log[p])
    BY <1>a, <1>d DEF CanAppend
  <2> QED
    BY <2>1, AppendDistinct
<1>3. ASSUME NEW p \in Proc, NEW e \in Event, AppendNew(p, e)
      PROVE  NoDoubleApply'
  <2>1. Distinct(Append(log[p], e))
    BY <1>3, <1>d DEF AppendNew
  <2>2. deploy.backend = "sqlite" => Unique(Insert(rows, NewRow(p, e)))
    <3>1. NewRow(p, e) \in Row /\ NewRow(p, e).ev = e
      BY RowType DEF NewRow
    <3> QED
      BY <1>a, <3>1 DEF Insert, RowEvents
  <2> HIDE DEF Distinct, Unique
  <2> QED
    BY <1>3, <1>b, <1>c, <1>a, <2>1, <2>2 DEF AppendNew
<1>4. ASSUME NEW p \in Proc, NEW e \in Event, AppendFails(p, e)
      PROVE  NoDoubleApply'
  <2>1. Distinct(Append(log[p], e))
    BY <1>4, <1>d DEF AppendFails
  <2> HIDE DEF Distinct, Unique
  <2> QED
    BY <1>4, <1>b, <1>c, <1>a, <2>1 DEF AppendFails
<1>5. CASE UNCHANGED <<deploy, log, rows>>
  BY <1>5 DEF NoDoubleApply
<1> QED
  BY <1>1, <1>2, <1>3, <1>4, <1>5
     DEF Next, vars, AppendAgain, Replay, Seal, Commit, Compact

\* No log and no sqlite database ever holds an event twice, whatever the
\* retries, crashes, failed inserts and concurrent writers.
THEOREM AppliedOnce == Spec => []NoDoubleApply
<1>1. Init => NoDoubleApply
  BY DEF Init, NoDoubleApply
<1> QED
  BY <1>1, TypeCorrect, NoDoubleApplyStep, PTL DEF Spec

-----------------------------------------------------------------------------
(* Durability *)

\* Without failing inserts no log runs ahead of the database.
LogIsStored ==
  ~deploy.failing => \A p \in Proc : Ids(log[p]) \subseteq RowEvents(rows)

DurableInv == LogIsStored /\ AckedIsDurable /\ RevisedIsDurable

LEMMA DurableStep == TypeOK /\ DurableInv /\ [Next]_vars => DurableInv'
<1> SUFFICES ASSUME TypeOK, DurableInv, [Next]_vars
             PROVE  DurableInv'
  OBVIOUS
<1> USE DEF DurableInv, LogIsStored, AckedIsDurable, RevisedIsDurable
<1>a. /\ log \in [Proc -> Seq(Event)] /\ rows \in Seq(Row)
      /\ Ids(<<>>) = {}
  BY DEF TypeOK, Ids
<1>1. ASSUME NEW p \in Proc, Start(p)
      PROVE  DurableInv'
  <2>1. PICK s \in Loads(rows) : log' = [log EXCEPT ![p] = s]
    BY <1>1 DEF Start
  <2>2. Ids(s) = RowEvents(rows)
    BY <1>a, LoadFaithful
  <2> QED
    BY <1>1, <1>a, <2>1, <2>2 DEF Start
<1>2. ASSUME NEW p \in Proc, Stop(p)
      PROVE  DurableInv'
  BY <1>2, <1>a DEF Stop
<1>3. ASSUME NEW p \in Proc, NEW e \in Event, AppendNew(p, e)
      PROVE  DurableInv'
  <2>1. RowEvents(rows') = RowEvents(rows) \cup {e}
    BY <1>3, InsertEvents DEF AppendNew
  <2>2. Ids(log'[p]) = Ids(log[p]) \cup {e}
    BY <1>3, <1>a, AppendIds DEF AppendNew
  <2>3. \A q \in Proc \ {p} : log'[q] = log[q]
    BY <1>3, <1>a DEF AppendNew
  <2>4. Revises[e] # NoEvent => Revises[e] \in Ids(log[p])
    BY <1>3 DEF AppendNew, CanAppend
  <2>5. deploy' = deploy /\ acked' = acked \cup {e}
    BY <1>3 DEF AppendNew
  <2> QED
    BY <2>1, <2>2, <2>3, <2>4, <2>5
<1>4. ASSUME NEW p \in Proc, NEW e \in Event, AppendFails(p, e)
      PROVE  DurableInv'
  BY <1>4 DEF AppendFails
<1>5. ASSUME NEW p \in Proc, NEW e \in Event, AppendAgain(p, e)
      PROVE  DurableInv'
  BY <1>5 DEF AppendAgain
<1>6. CASE UNCHANGED <<deploy, log, rows, acked>>
  BY <1>6
<1> QED
  BY <1>1, <1>2, <1>3, <1>4, <1>5, <1>6
     DEF Next, vars, Replay, Seal, Commit, Compact

LEMMA DurableInit == Init => DurableInv
BY DEF Init, DurableInv, LogIsStored, AckedIsDurable, RevisedIsDurable, Ids,
       RowEvents

\* Unless the backend can fail between the memory write and the row, an append
\* that returned is in the database, also after the crash of its process and
\* whatever other processes append.
THEOREM AckedStored == Spec => []AckedIsDurable
<1>1. DurableInv => AckedIsDurable
  BY DEF DurableInv
<1> QED
  BY <1>1, TypeCorrect, DurableInit, DurableStep, PTL DEF Spec

\* The database never holds a revision without the event it revises, so no
\* process ever loads one it cannot attach.
THEOREM RevisedStored == Spec => []RevisedIsDurable
<1>1. DurableInv => RevisedIsDurable
  BY DEF DurableInv
<1> QED
  BY <1>1, TypeCorrect, DurableInit, DurableStep, PTL DEF Spec

-----------------------------------------------------------------------------
(* Restart *)

\* A starting process knows every stored event and none besides, whatever seqs
\* concurrent writers gave the rows.
THEOREM StartComplete == Spec => StartKnowsAll
<1> DEFINE A == \A p \in Proc :
                  ~up[p] /\ up'[p] => Ids(log'[p]) = RowEvents(rows)
<1>1. TypeOK /\ [Next]_vars => [A]_vars
  <2> SUFFICES ASSUME TypeOK, Next, NEW p \in Proc, ~up[p], up'[p]
               PROVE  Ids(log'[p]) = RowEvents(rows)
    OBVIOUS
  <2>1. up \in [Proc -> BOOLEAN] /\ log \in [Proc -> Seq(Event)]
        /\ rows \in Seq(Row)
    BY DEF TypeOK
  <2>2. PICK q \in Proc : up'[q] # up[q] /\ Start(q)
    BY <2>1 DEF Next, Start, Stop, AppendNew, AppendFails, AppendAgain,
                Replay, Seal, Commit, Compact
  <2>3. p = q
    BY <2>1, <2>2 DEF Start
  <2>4. log'[p] \in Loads(rows)
    BY <2>1, <2>2, <2>3 DEF Start
  <2> QED
    BY <2>1, <2>4, LoadFaithful
<1> QED
  BY <1>1, TypeCorrect, PTL DEF Spec, StartKnowsAll

-----------------------------------------------------------------------------
(* One process at a time *)

\* s is the beginning of the history the rows r store.
IsHistory(s, r) ==
  /\ Len(s) <= Len(r)
  /\ \A k \in 1..Len(s) : s[k] = r[k].ev

\* Each row carries the seq and the watermark of its place.
InOrder(r) ==
  /\ \A i \in 1..Len(r) :
       /\ r[i].seq = i
       /\ Len(r[i].wm) = i
       /\ IsHistory(r[i].wm, r)
  /\ \A i, j \in 1..Len(r) : r[i].ev = r[j].ev => i = j

\* What makes the claims about one process at a time inductive: nobody else
\* writes, memory and rows agree, and so do all watermarks taken from memory.
OrderlyInv ==
  Orderly =>
    /\ \A p, q \in Proc : up[p] /\ up[q] => p = q
    /\ InOrder(rows)
    /\ \A p \in Proc :
         up[p] => Len(log[p]) = Len(rows) /\ IsHistory(log[p], rows)
    /\ \A p \in Proc : work[p].phase = "sealed" => IsHistory(work[p].wm, rows)
    /\ \A c \in cps : IsHistory(c.wm, rows)

\* Rows in order load in that order.
LEMMA OrderedLoad ==
  ASSUME NEW r \in Seq(Row), InOrder(r)
  PROVE  /\ First(r) = 1..Len(r)
         /\ \A i \in 1..Len(r) : Place(r, i) = i
         /\ \A i, j \in 1..Len(r) : NotAfter(r, j, i) <=> j <= i
<1>1. First(r) = 1..Len(r)
  BY DEF First, InOrder
<1>2. \A i, j \in 1..Len(r) : NotAfter(r, j, i) <=> j <= i
  BY DEF NotAfter, InOrder
<1>3. ASSUME NEW i \in 1..Len(r)
      PROVE  Place(r, i) = i
  <2>1. {j \in First(r) : NotAfter(r, j, i)} = 1..i
    BY <1>1, <1>2
  <2>2. Cardinality(1..i) = i
    BY UpTo
  <2> QED
    BY <2>1, <2>2 DEF Place
<1> QED
  BY <1>1, <1>2, <1>3

\* A process that starts on rows in order rebuilds the history.
LEMMA OrderedStart ==
  ASSUME NEW r \in Seq(Row), InOrder(r), NEW s \in Loads(r)
  PROVE  Len(s) = Len(r) /\ IsHistory(s, r)
<1>1. Cardinality(First(r)) = Len(r)
  <2>1. Len(r) \in Nat
    OBVIOUS
  <2>2. Cardinality(1..Len(r)) = Len(r)
    BY <2>1, UpTo
  <2>3. First(r) = 1..Len(r)
    BY OrderedLoad
  <2> QED
    BY <2>2, <2>3
<1>2. s \in [1..Len(r) -> Event] /\ \A i \in 1..Len(r) : s[i] = r[i].ev
  BY <1>1, OrderedLoad DEF Loads
<1>3. Len(s) = Len(r)
  BY <1>2
<1> QED
  BY <1>2, <1>3 DEF IsHistory

\* A history stays one when a row is added.
LEMMA HistoryGrows ==
  ASSUME NEW r \in Seq(Row), NEW row \in Row, NEW s \in Seq(Event),
         IsHistory(s, r)
  PROVE  IsHistory(s, Append(r, row))
BY DEF IsHistory

\* The whole history, extended by the event of the added row.
LEMMA HistoryExtends ==
  ASSUME NEW r \in Seq(Row), NEW row \in Row, NEW s \in Seq(Event),
         IsHistory(s, r), Len(s) = Len(r)
  PROVE  IsHistory(Append(s, row.ev), Append(r, row))
<1>1. row.ev \in Event
  BY DEF Row
<1> QED
  BY <1>1 DEF IsHistory

\* Rows stay in order when a process that knows them all adds the next one.
LEMMA OrderKept ==
  ASSUME NEW r \in Seq(Row), NEW row \in Row, InOrder(r),
         row.seq = Len(r) + 1, Len(row.wm) = Len(r) + 1,
         IsHistory(row.wm, Append(r, row)), row.ev \notin RowEvents(r)
  PROVE  InOrder(Append(r, row))
<1> DEFINE t == Append(r, row)
<1>1. /\ Len(r) \in Nat /\ Len(t) = Len(r) + 1
      /\ t[Len(r) + 1] = row
      /\ \A i \in 1..Len(r) : t[i] = r[i] /\ r[i] \in Row
  OBVIOUS
<1>2. \A i \in 1..Len(r) : r[i].wm \in Seq(Event)
  BY <1>1 DEF Row
<1>3. \A i \in 1..Len(r) : IsHistory(r[i].wm, t)
  BY <1>2, HistoryGrows DEF InOrder
<1>4. \A i \in 1..Len(r) : r[i].ev # row.ev
  BY DEF RowEvents
<1> HIDE DEF t
<1> QED
  BY <1>1, <1>3, <1>4 DEF InOrder, t

LEMMA OrderlyStep == TypeOK /\ OrderlyInv /\ [Next]_vars => OrderlyInv'
<1> SUFFICES ASSUME TypeOK, OrderlyInv, [Next]_vars
             PROVE  OrderlyInv'
  OBVIOUS
<1>0. deploy' = deploy
  BY DEF Next, vars, Start, Stop, AppendNew, AppendFails, AppendAgain,
         Replay, Seal, Commit, Compact
<1> SUFFICES ASSUME Orderly
             PROVE  OrderlyInv'
  BY <1>0 DEF OrderlyInv, Orderly
<1>a. /\ up \in [Proc -> BOOLEAN] /\ log \in [Proc -> Seq(Event)]
      /\ rows \in Seq(Row) /\ cps \subseteq Checkpoint
      /\ work \in [Proc -> Work]
  BY DEF TypeOK
<1>b. deploy.exclusive /\ ~deploy.failing
  BY DEF Orderly
<1>c. /\ \A p, q \in Proc : up[p] /\ up[q] => p = q
      /\ InOrder(rows)
      /\ \A p \in Proc :
           up[p] => Len(log[p]) = Len(rows) /\ IsHistory(log[p], rows)
      /\ \A p \in Proc : work[p].phase = "sealed" => IsHistory(work[p].wm, rows)
      /\ \A c \in cps : IsHistory(c.wm, rows)
  BY DEF OrderlyInv
<1>1. ASSUME NEW p \in Proc, Start(p)
      PROVE  OrderlyInv'
  <2>1. PICK s \in Loads(rows) : log' = [log EXCEPT ![p] = s]
    BY <1>1 DEF Start
  <2>2. Len(s) = Len(rows) /\ IsHistory(s, rows)
    BY <1>a, <1>c, OrderedStart
  <2>3. \A q \in Proc : up'[q] => q = p
    BY <1>1, <1>a, <1>b DEF Start
  <2>4. rows' = rows /\ cps' = cps /\ work' = work
    BY <1>1 DEF Start
  <2>5. \A q \in Proc :
          up'[q] => Len(log'[q]) = Len(rows) /\ IsHistory(log'[q], rows)
    BY <1>a, <2>1, <2>2, <2>3
  <2> QED
    BY <1>c, <2>3, <2>4, <2>5 DEF OrderlyInv
<1>2. ASSUME NEW p \in Proc, Stop(p)
      PROVE  OrderlyInv'
  <2>1. rows' = rows /\ cps' = cps
    BY <1>2 DEF Stop
  <2>2. \A q \in Proc : up'[q] => up[q] /\ log'[q] = log[q]
    BY <1>2, <1>a DEF Stop
  <2>3. \A q \in Proc : work'[q].phase = "sealed" =>
                        work[q].phase = "sealed" /\ work'[q].wm = work[q].wm
    BY <1>2, <1>a DEF Stop, Idle
  <2> QED
    BY <1>c, <2>1, <2>2, <2>3 DEF OrderlyInv
<1>3. ASSUME NEW p \in Proc, NEW e \in Event, AppendNew(p, e)
      PROVE  OrderlyInv'
  <2> DEFINE row == NewRow(p, e)
  <2>1. /\ up[p] /\ e \notin Ids(log[p])
        /\ up' = up /\ cps' = cps /\ work' = work
        /\ log' = [log EXCEPT ![p] = Append(log[p], e)]
        /\ rows' = Insert(rows, row)
    BY <1>3 DEF AppendNew, CanAppend
  <2>2. log[p] \in Seq(Event) /\ Len(log[p]) = Len(rows)
        /\ IsHistory(log[p], rows)
    BY <1>a, <1>c, <2>1
  <2>3. e \notin RowEvents(rows)
    BY <2>1, <2>2 DEF Ids, RowEvents, IsHistory
  <2>4. row \in Row /\ row.ev = e /\ row.seq = Len(rows) + 1
        /\ row.wm = Append(log[p], e) /\ Len(row.wm) = Len(rows) + 1
    BY <2>2, RowType DEF NewRow
  <2>5. rows' = Append(rows, row)
    BY <2>1, <2>3, <2>4 DEF Insert
  <2>6. IsHistory(Append(log[p], e), rows')
    BY <1>a, <2>2, <2>4, <2>5, HistoryExtends
  <2>7. InOrder(rows')
    BY <1>a, <1>c, <2>3, <2>4, <2>5, <2>6, OrderKept
  <2>8. Len(rows') = Len(rows) + 1
    BY <1>a, <2>4, <2>5
  <2>9. \A q \in Proc :
          up'[q] => Len(log'[q]) = Len(rows') /\ IsHistory(log'[q], rows')
    BY <1>a, <1>c, <2>1, <2>4, <2>6, <2>8
  <2>10. ASSUME NEW q \in Proc, work[q].phase = "sealed"
         PROVE  IsHistory(work[q].wm, rows')
    BY <1>a, <1>c, <2>4, <2>5, <2>10, WorkType, HistoryGrows
  <2>11. ASSUME NEW c \in cps
         PROVE  IsHistory(c.wm, rows')
    <3>1. c.wm \in Seq(Event)
      BY <1>a DEF Checkpoint
    <3> QED
      BY <1>a, <1>c, <2>4, <2>5, <3>1, HistoryGrows
  <2> QED
    BY <1>c, <2>1, <2>7, <2>9, <2>10, <2>11 DEF OrderlyInv
<1>4. ASSUME NEW p \in Proc, NEW e \in Event, AppendFails(p, e)
      PROVE  OrderlyInv'
  BY <1>4, <1>b DEF AppendFails
<1>5. ASSUME NEW p \in Proc, NEW t \in AsOf, Replay(p, t)
      PROVE  OrderlyInv'
  <2>1. up' = up /\ log' = log /\ rows' = rows /\ cps' = cps
    BY <1>5 DEF Replay
  <2>2. \A q \in Proc : work'[q].phase = "sealed" =>
                        work[q].phase = "sealed" /\ work'[q].wm = work[q].wm
    BY <1>5, <1>a DEF Replay
  <2> QED
    BY <1>c, <2>1, <2>2 DEF OrderlyInv
<1>6. ASSUME NEW p \in Proc, Seal(p)
      PROVE  OrderlyInv'
  <2>1. up[p] /\ up' = up /\ log' = log /\ rows' = rows /\ cps' = cps
    BY <1>6 DEF Seal
  <2>2. work'[p].wm = log[p] /\ \A q \in Proc \ {p} : work'[q] = work[q]
    BY <1>6, <1>a DEF Seal
  <2> QED
    BY <1>c, <2>1, <2>2 DEF OrderlyInv
<1>7. ASSUME NEW p \in Proc, Commit(p)
      PROVE  OrderlyInv'
  <2>1. /\ work[p].phase = "sealed"
        /\ up' = up /\ log' = log /\ rows' = rows
        /\ work' = [work EXCEPT ![p] = Idle]
    BY <1>7 DEF Commit
  <2>2. \A c \in cps' : c \in cps \/ c.wm = work[p].wm
    BY <1>7 DEF Commit
  <2>3. \A q \in Proc : work'[q].phase = "sealed" => work'[q] = work[q]
    BY <1>a, <2>1 DEF Idle
  <2>4. \A c \in cps' : IsHistory(c.wm, rows)
    BY <1>c, <2>1, <2>2
  <2> QED
    BY <1>c, <2>1, <2>3, <2>4 DEF OrderlyInv
<1>8. ASSUME NEW p \in Proc, Compact(p)
      PROVE  OrderlyInv'
  BY <1>8, <1>c DEF Compact, OrderlyInv
<1>9. CASE UNCHANGED <<up, log, rows, cps, work>>
  BY <1>9, <1>c DEF OrderlyInv
<1> QED
  BY <1>1, <1>2, <1>3, <1>4, <1>5, <1>6, <1>7, <1>8, <1>9
     DEF Next, vars, AppendAgain

LEMMA OrderlyHolds == Spec => []OrderlyInv
<1>1. Init => OrderlyInv
  BY DEF Init, OrderlyInv, InOrder, IsHistory, Idle
<1> QED
  BY <1>1, TypeCorrect, OrderlyStep, PTL DEF Spec

\* With one process at a time a running process's memory is, event by event and
\* seq by seq, what a restart would rebuild.
THEOREM MemoryStored == Spec => []MemoryIsDisk
<1>1. OrderlyInv => MemoryIsDisk
  BY DEF OrderlyInv, MemoryIsDisk, InOrder, IsHistory
<1> QED
  BY <1>1, OrderlyHolds, PTL

\* With one process at a time no committed checkpoint is ahead of the history.
THEOREM CheckpointsAreHistory == Spec => []CheckpointIsHistory
<1>1. OrderlyInv => CheckpointIsHistory
  BY DEF OrderlyInv, CheckpointIsHistory, IsHistory
<1> QED
  BY <1>1, OrderlyHolds, PTL

\* With one process at a time and no failing inserts, the integrity check of
\* the production backend passes in every state.
THEOREM IntegrityHolds == Spec => []OrderlyVerifies
<1>1. ASSUME TypeOK, OrderlyInv
      PROVE  OrderlyVerifies
  <2> SUFFICES ASSUME Orderly
               PROVE  ChainOK /\ CheckpointOK
    BY DEF OrderlyVerifies
  <2>1. rows \in Seq(Row) /\ InOrder(rows) /\ cps \subseteq Checkpoint
        /\ \A c \in cps : IsHistory(c.wm, rows)
    BY <1>1 DEF TypeOK, OrderlyInv
  <2>2. ChainOK
    BY <2>1, OrderedLoad DEF ChainOK, InOrder, IsHistory
  <2>3. ASSUME NEW c \in cps, c.wm # <<>>
        PROVE  \E i \in 1..Len(rows) : rows[i].wm = c.wm
    <3>1. c.wm \in Seq(Event) /\ Len(c.wm) \in 1..Len(rows)
      <4>1. c.wm \in Seq(Event)
        BY <2>1 DEF Checkpoint
      <4>2. Len(c.wm) # 0 /\ Len(c.wm) <= Len(rows)
        BY <2>1, <2>3, <4>1 DEF IsHistory
      <4> QED
        BY <2>1, <4>1, <4>2
    <3> DEFINE w == rows[Len(c.wm)].wm
    <3>2. w \in Seq(Event)
      <4>1. rows[Len(c.wm)] \in Row
        BY <2>1, <3>1
      <4> QED
        BY <4>1 DEF Row
    <3>3. Len(w) = Len(c.wm) /\ \A k \in 1..Len(w) : w[k] = c.wm[k]
      BY <2>1, <3>1 DEF InOrder, IsHistory
    <3>4. w = c.wm
      <4> HIDE DEF w
      <4> QED
        BY <3>1, <3>2, <3>3
    <3> QED
      BY <3>1, <3>4
  <2> QED
    BY <2>2, <2>3 DEF CheckpointOK
<1> QED
  BY <1>1, TypeCorrect, OrderlyHolds, PTL

-----------------------------------------------------------------------------
(* Determinism *)

\* A checkpoint on its way, too, is the replay of the log it was taken from.
ReplayInv ==
  ~deploy.shared =>
    /\ \A p \in Proc :
         /\ work[p].phase = "replayed" =>
              work[p].seen = KnownAsOf(Ids(log[p]), work[p].asOf)
         /\ work[p].phase = "sealed" =>
              work[p].seen = KnownAsOf(Ids(work[p].wm), work[p].asOf)
    /\ \A c \in cps : c.seen = KnownAsOf(Ids(c.wm), c.asOf)

LEMMA ReplayStep == TypeOK /\ ReplayInv /\ [Next]_vars => ReplayInv'
<1> SUFFICES ASSUME TypeOK, ReplayInv, [Next]_vars
             PROVE  ReplayInv'
  OBVIOUS
<1>0. deploy' = deploy
  BY DEF Next, vars, Start, Stop, AppendNew, AppendFails, AppendAgain,
         Replay, Seal, Commit, Compact
<1> SUFFICES ASSUME ~deploy.shared
             PROVE  ReplayInv'
  BY <1>0 DEF ReplayInv
<1>a. /\ log \in [Proc -> Seq(Event)] /\ work \in [Proc -> Work]
      /\ \A p \in Proc : ~up[p] => work[p] = Idle
      /\ Idle.phase = "idle"
  BY DEF TypeOK, Idle
<1> USE DEF ReplayInv
<1>1. ASSUME NEW p \in Proc, Start(p)
      PROVE  ReplayInv'
  BY <1>1, <1>a DEF Start
<1>2. ASSUME NEW p \in Proc, Stop(p)
      PROVE  ReplayInv'
  BY <1>2, <1>a DEF Stop
<1>3. ASSUME NEW p \in Proc, NEW e \in Event,
             AppendNew(p, e) \/ AppendFails(p, e)
      PROVE  ReplayInv'
  <2>1. work' = work /\ cps' = cps /\ work[p].phase # "replayed"
        /\ \A q \in Proc \ {p} : log'[q] = log[q]
    BY <1>3, <1>a DEF AppendNew, AppendFails, CanAppend
  <2> QED
    BY <2>1
<1>4. ASSUME NEW p \in Proc, NEW t \in AsOf, Replay(p, t)
      PROVE  ReplayInv'
  BY <1>4, <1>a DEF Replay
<1>5. ASSUME NEW p \in Proc, Seal(p)
      PROVE  ReplayInv'
  BY <1>5, <1>a DEF Seal
<1>6. ASSUME NEW p \in Proc, Commit(p)
      PROVE  ReplayInv'
  <2>1. /\ work[p].phase = "sealed" /\ log' = log
        /\ work' = [work EXCEPT ![p] = Idle]
    BY <1>6 DEF Commit
  <2>2. \A c \in cps' : \/ c \in cps
                       \/ /\ c.wm = work[p].wm /\ c.asOf = work[p].asOf
                          /\ c.seen = work[p].seen
    BY <1>6 DEF Commit
  <2> QED
    BY <2>1, <2>2, <1>a
<1>7. ASSUME NEW p \in Proc, Compact(p)
      PROVE  ReplayInv'
  BY <1>7 DEF Compact
<1>8. CASE UNCHANGED <<log, work, cps>>
  BY <1>8
<1> QED
  BY <1>1, <1>2, <1>3, <1>4, <1>5, <1>6, <1>7, <1>8
     DEF Next, vars, AppendAgain

\* Unless threads share the store, a committed checkpoint holds what its
\* watermark and its as_of replay to.
THEOREM CheckpointsReplay == Spec => []CheckpointIsReplay
<1>1. Init => ReplayInv
  BY DEF Init, ReplayInv, Idle
<1>2. ReplayInv => CheckpointIsReplay
  BY DEF ReplayInv, CheckpointIsReplay
<1> QED
  BY <1>1, <1>2, TypeCorrect, ReplayStep, PTL DEF Spec
=============================================================================
