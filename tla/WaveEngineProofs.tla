-------------------------- MODULE WaveEngineProofs --------------------------
(***************************************************************************)
(* Proofs about WaveEngine, for every set of actors, private states,       *)
(* shared worlds and schedules.  Splitting, a day and coalescing each turn *)
(* nodes that partition the live particles into nodes that partition them  *)
(* (SplitParts ... CoalesceParts) and give each particle's node the world  *)
(* that the particle alone would have; the safety of the mass and the      *)
(* refinement of ParticleWorlds both rest on that, whatever an answer does *)
(* to a world.  That enters the last section only, through the lemmas of   *)
(* CausalWorldProofs.                                                      *)
(***************************************************************************)
EXTENDS WaveEngine, CausalWorldProofs, TLAPS

\* The nodes of N partition the particles of A.
Partitions(N, A) ==
  /\ \A n \in N : n.atoms # {} /\ n.atoms \subseteq A
  /\ \A n, m \in N : \A p \in A : p \in n.atoms /\ p \in m.atoms => n = m
  /\ \A p \in A : \E n \in N : p \in n.atoms

\* Splitting a node partitions its particles, and gives each part the world
\* of its particles.
LEMMA SplitParts ==
  ASSUME NEW n, NEW day, NEW promoted
  PROVE  /\ Partitions(Split(n, day, promoted), n.atoms)
         /\ \A k \in Split(n, day, promoted) : \A p \in k.atoms :
              k.w = Morning(n.w, day, promoted, p.variant)
         /\ \A p, q \in n.atoms :
              Morning(n.w, day, promoted, p.variant) = Morning(n.w, day, promoted, q.variant) =>
                \A k \in Split(n, day, promoted) : p \in k.atoms => q \in k.atoms
<1> DEFINE part(p) == Morning(n.w, day, promoted, p.variant)
           K(p) == [atoms |-> {q \in n.atoms : part(q) = part(p)}, w |-> part(p)]
<1>1. Split(n, day, promoted) = {K(p) : p \in n.atoms}
  BY DEF Split
<1>2. \A p \in n.atoms : p \in K(p).atoms /\ K(p).atoms \subseteq n.atoms
  OBVIOUS
<1>3. \A p, q \in n.atoms : q \in K(p).atoms => part(q) = part(p) /\ K(q) = K(p)
  OBVIOUS
<1>4. \A p \in n.atoms : \A q \in K(p).atoms : q \in n.atoms /\ K(p).w = part(q)
  OBVIOUS
<1> HIDE DEF K
<1>5. \A k \in Split(n, day, promoted) : \A p \in k.atoms :
              k.w = Morning(n.w, day, promoted, p.variant)
  BY <1>1, <1>4
<1>6. \A k, l \in Split(n, day, promoted) : \A p \in n.atoms : p \in k.atoms /\ p \in l.atoms => k = l
  BY <1>1, <1>3
<1>7. \A k \in Split(n, day, promoted) : k.atoms # {} /\ k.atoms \subseteq n.atoms
  BY <1>1, <1>2
<1>8. \A p \in n.atoms : \E k \in Split(n, day, promoted) : p \in k.atoms
  BY <1>1, <1>2
<1>9. \A p, q \in n.atoms : part(p) = part(q) =>
        \A k \in Split(n, day, promoted) : p \in k.atoms => q \in k.atoms
  <2>1. \A r, p, q \in n.atoms : part(p) = part(q) /\ p \in K(r).atoms => q \in K(r).atoms
    BY DEF K
  <2>2. QED BY <1>1, <2>1
<1>10. QED BY <1>5, <1>6, <1>7, <1>8, <1>9 DEF Partitions

\* The actors that node n promotes when taker says which node takes whom.
Takes(n, taker) == {x \in Reached(n) : taker[x] = n}

\* Particles p and q of n have the same morning: no split tells them apart.
SameMorning(day, taker, n, p, q) ==
  Morning(n.w, day, Takes(n, taker), p.variant) = Morning(n.w, day, Takes(n, taker), q.variant)

\* After delivery and splitting the nodes still partition their particles.
LEMMA MorningParts ==
  ASSUME NEW A, Partitions(nodes, A), NEW day, NEW M \in Mornings(day)
  PROVE  /\ Partitions(M, A)
         /\ \E taker \in Takers :
              /\ \A m \in M : \A p \in m.atoms :
                   \E n \in nodes : p \in n.atoms /\ m.w = Morning(n.w, day, Takes(n, taker), p.variant)
              /\ \A n \in nodes : \A p, q \in n.atoms : SameMorning(day, taker, n, p, q) =>
                   \A m \in M : p \in m.atoms => q \in m.atoms
<1>1. PICK taker \in Takers : M = UNION {Split(n, day, Takes(n, taker)) : n \in nodes}
  BY DEF Mornings, Takes
<1> DEFINE S(n) == Split(n, day, Takes(n, taker))
<1>2. \A n : /\ Partitions(S(n), n.atoms)
             /\ \A k \in S(n) : \A p \in k.atoms : k.w = Morning(n.w, day, Takes(n, taker), p.variant)
             /\ \A p, q \in n.atoms : SameMorning(day, taker, n, p, q) =>
                  \A k \in S(n) : p \in k.atoms => q \in k.atoms
  BY SplitParts DEF SameMorning
<1>3. \A m \in M : \E n \in nodes : m \in S(n)
  BY <1>1
<1>4. \A n \in nodes : S(n) \subseteq M
  BY <1>1
<1> HIDE DEF S
<1>5. ASSUME NEW m \in M
      PROVE  \E n \in nodes : m \in S(n) /\ m.atoms # {} /\ m.atoms \subseteq n.atoms
  BY <1>2, <1>3 DEF Partitions
<1>6. \A m \in M : m.atoms # {} /\ m.atoms \subseteq A
  BY <1>5 DEF Partitions
<1>7. ASSUME NEW m \in M, NEW l \in M, NEW p \in A, p \in m.atoms, p \in l.atoms
      PROVE  m = l
  <2>1. PICK n \in nodes : m \in S(n) /\ m.atoms \subseteq n.atoms BY <1>5
  <2>2. PICK k \in nodes : l \in S(k) /\ l.atoms \subseteq k.atoms BY <1>5
  <2>3. p \in n.atoms /\ p \in k.atoms BY <1>7, <2>1, <2>2
  <2>4. n = k BY <2>3 DEF Partitions
  <2>5. QED BY <1>2, <1>7, <2>1, <2>2, <2>3, <2>4 DEF Partitions
<1>8. ASSUME NEW p \in A PROVE \E m \in M : p \in m.atoms
  <2>1. PICK n \in nodes : p \in n.atoms BY DEF Partitions
  <2>2. QED BY <1>2, <1>4, <2>1 DEF Partitions
<1>9. \A m \in M : \A p \in m.atoms :
        \E n \in nodes : p \in n.atoms /\ m.w = Morning(n.w, day, Takes(n, taker), p.variant)
  BY <1>2, <1>5
<1>10. ASSUME NEW n \in nodes, NEW p \in n.atoms, NEW q \in n.atoms, SameMorning(day, taker, n, p, q),
              NEW m \in M, p \in m.atoms
       PROVE  q \in m.atoms
  <2>1. PICK k \in nodes : m \in S(k) /\ m.atoms \subseteq k.atoms BY <1>5
  <2>2. p \in k.atoms /\ p \in A BY <1>6, <1>10, <2>1
  <2>3. k = n BY <1>10, <2>2 DEF Partitions
  <2>4. QED BY <1>2, <1>10, <2>1, <2>3
<1>11. QED BY <1>6, <1>7, <1>8, <1>9, <1>10 DEF Partitions

\* A day leaves every node its particles.
LEMMA EveningParts ==
  ASSUME NEW A, NEW N, Partitions(N, A), NEW day, NEW answers, NEW found
  PROVE  /\ Partitions(Evenings(N, day, answers, found), A)
         /\ \A k \in Evenings(N, day, answers, found) :
              \E n \in N : k.atoms = n.atoms /\ k.w = Evening(n.w, day, answers, found[n])
<1> DEFINE K(n) == [atoms |-> n.atoms, w |-> Evening(n.w, day, answers, found[n])]
<1>1. Evenings(N, day, answers, found) = {K(n) : n \in N}
  BY DEF Evenings
<1>2. \A n : K(n).atoms = n.atoms /\ K(n).w = Evening(n.w, day, answers, found[n])
  OBVIOUS
<1> HIDE DEF K
<1>3. QED BY <1>1, <1>2 DEF Partitions

\* Coalescing leaves every particle the world of its node.
LEMMA CoalesceParts ==
  ASSUME NEW A, NEW N, Partitions(N, A)
  PROVE  /\ Partitions(Coalesce(N), A)
         /\ \A k \in Coalesce(N) : \A p \in k.atoms : \E n \in N : p \in n.atoms /\ k.w = n.w
<1> DEFINE Group(k) == {m \in N : m.w = k}
           K(k) == [atoms |-> UNION {n.atoms : n \in Group(k)}, w |-> (CHOOSE n \in N : n.w = k).w]
           Keys == {n.w : n \in N}
<1>1. Coalesce(N) = {K(k) : k \in Keys}
  BY DEF Coalesce, Key
<1>2. \A k \in Keys : K(k).w = k
  OBVIOUS
<1>3. \A k : \A p : p \in K(k).atoms <=> \E n \in N : n.w = k /\ p \in n.atoms
  OBVIOUS
<1>4. \A n \in N : n.w \in Keys
  OBVIOUS
<1>5. \A k \in Keys : \E n \in N : n.w = k
  OBVIOUS
<1> HIDE DEF K, Group, Keys
<1>6. \A k \in Coalesce(N) : \A p \in k.atoms : \E n \in N : p \in n.atoms /\ k.w = n.w
  BY <1>1, <1>2, <1>3
<1>7. ASSUME NEW k \in Keys PROVE K(k).atoms # {} /\ K(k).atoms \subseteq A
  <2>1. PICK n \in N : n.w = k BY <1>5
  <2>2. PICK p : p \in n.atoms BY DEF Partitions
  <2>3. p \in K(k).atoms BY <1>3, <2>1, <2>2
  <2>4. \A q \in K(k).atoms : q \in A BY <1>3 DEF Partitions
  <2>5. QED BY <2>3, <2>4
<1>8. ASSUME NEW k \in Keys, NEW l \in Keys, NEW p \in A, p \in K(k).atoms, p \in K(l).atoms
      PROVE  k = l
  <2>1. PICK n \in N : n.w = k /\ p \in n.atoms BY <1>3, <1>8
  <2>2. PICK m \in N : m.w = l /\ p \in m.atoms BY <1>3, <1>8
  <2>3. QED BY <2>1, <2>2 DEF Partitions
<1>9. ASSUME NEW p \in A PROVE \E k \in Keys : p \in K(k).atoms
  BY <1>3, <1>4 DEF Partitions
<1>10. QED BY <1>1, <1>6, <1>7, <1>8, <1>9 DEF Partitions

\* Coalescing never parts the particles of a node.
LEMMA CoalesceCovers ==
  ASSUME NEW N, NEW n \in N
  PROVE  \E k \in Coalesce(N) : n.atoms \subseteq k.atoms
<1> DEFINE atoms == UNION {m.atoms : m \in {l \in N : l.w = n.w}}
           k == [atoms |-> atoms, w |-> (CHOOSE m \in N : m.w = n.w).w]
<1>1. k \in Coalesce(N)
  BY DEF Coalesce, Key
<1>2. n.atoms \subseteq k.atoms
  OBVIOUS
<1>3. QED BY <1>1, <1>2

\* The nodes that stay under the cap are nodes there were.
LEMMA KeptParts == ASSUME NEW N, NEW K \in Kept(N) PROVE K \subseteq N
BY DEF Kept, kSubset

-----------------------------------------------------------------------------
(* What a wave does to the particles.                                       *)

MassInv ==
  /\ cut \subseteq Particle
  /\ IF status = "exhausted" THEN nodes = {} ELSE Partitions(nodes, Particle \ cut)

\* World u is what the day makes of particle p of node n, with the templates
\* that its part of n finds.
DayMakes(day, taker, n, p, u) ==
  \E f \in Found(templates') :
    u = Evening(Morning(n.w, day, Takes(n, taker), p.variant), day, decisions', f)

\* What a wave does to the particles and their worlds, without how.
WaveEffect(day, taker) ==
  /\ cut \subseteq cut' /\ cut' \subseteq Particle
  /\ Partitions(nodes', Particle \ cut')
  /\ \A k \in nodes' : \A p \in k.atoms :
       \E n \in nodes : p \in n.atoms /\ DayMakes(day, taker, n, p, k.w)
  /\ \A n \in nodes : \A p, q \in n.atoms : SameMorning(day, taker, n, p, q) =>
       \A k \in nodes' : p \in k.atoms => q \in k.atoms

\* The contexts in which the particles ask.
ContextsOf(day, taker) ==
  UNION {UNION {Contexts(Morning(n.w, day, Takes(n, taker), p.variant), day) : p \in n.atoms} :
           n \in nodes}

LEMMA WaveParts ==
  ASSUME MassInv, NEW day, Wave(day)
  PROVE  \E taker \in Takers :
           /\ WaveEffect(day, taker)
           /\ decisions' \in [ContextsOf(day, taker) -> Reply \cup {NoReply}]
<1> DEFINE A == Particle \ cut
<1>1. Partitions(nodes, A) /\ cut \subseteq Particle
  BY DEF MassInv, Wave
<1>2. PICK morning \in Mornings(day) :
        /\ decisions' \in [AllContexts(morning, day) -> Reply \cup {NoReply}]
        /\ \E found \in [morning -> Found(templates')] :
             \E merged \in {Coalesce(Evenings(morning, day, decisions', found))} :
               /\ nodes' \in Kept(merged)
               /\ cut' = cut \cup UNION {n.atoms : n \in merged \ nodes'}
  BY DEF Wave
<1>a. PICK found \in [morning -> Found(templates')] :
        \E merged \in {Coalesce(Evenings(morning, day, decisions', found))} :
          /\ nodes' \in Kept(merged)
          /\ cut' = cut \cup UNION {n.atoms : n \in merged \ nodes'}
  BY <1>2
<1> DEFINE evening == Evenings(morning, day, decisions', found)
           merged == Coalesce(evening)
<1>3. nodes' \subseteq merged /\ cut' = cut \cup UNION {n.atoms : n \in merged \ nodes'}
  BY <1>a, KeptParts
<1>4. PICK taker \in Takers :
        /\ Partitions(morning, A)
        /\ \A m \in morning : \A p \in m.atoms :
             \E n \in nodes : p \in n.atoms /\ m.w = Morning(n.w, day, Takes(n, taker), p.variant)
        /\ \A n \in nodes : \A p, q \in n.atoms : SameMorning(day, taker, n, p, q) =>
             \A m \in morning : p \in m.atoms => q \in m.atoms
  BY <1>1, MorningParts
<1>5. /\ Partitions(evening, A)
      /\ \A k \in evening :
           \E m \in morning : k.atoms = m.atoms /\ k.w = Evening(m.w, day, decisions', found[m])
  BY <1>4, EveningParts
<1> HIDE DEF evening
<1>6. /\ Partitions(merged, A)
      /\ \A k \in merged : \A p \in k.atoms : \E n \in evening : p \in n.atoms /\ k.w = n.w
      /\ \A e \in evening : \E k \in merged : e.atoms \subseteq k.atoms
  <2>1. Partitions(evening, A) BY <1>5
  <2> HIDE DEF A
  <2>2. /\ Partitions(merged, A)
        /\ \A k \in merged : \A p \in k.atoms : \E n \in evening : p \in n.atoms /\ k.w = n.w
    BY <2>1, CoalesceParts
  <2>3. \A e \in evening : \E k \in merged : e.atoms \subseteq k.atoms
    BY CoalesceCovers
  <2>4. QED BY <2>2, <2>3
<1> HIDE DEF merged
<1>7. ASSUME NEW k \in nodes', NEW p \in k.atoms
      PROVE  \E n \in nodes : p \in n.atoms /\ DayMakes(day, taker, n, p, k.w)
  <2>1. PICK e \in evening : p \in e.atoms /\ k.w = e.w BY <1>3, <1>6
  <2>2. PICK m \in morning : e.atoms = m.atoms /\ e.w = Evening(m.w, day, decisions', found[m])
    BY <1>5, <2>1
  <2>3. PICK n \in nodes : p \in n.atoms /\ m.w = Morning(n.w, day, Takes(n, taker), p.variant)
    BY <1>4, <2>1, <2>2
  <2>4. found[m] \in Found(templates') OBVIOUS
  <2>5. QED BY <2>1, <2>2, <2>3, <2>4 DEF DayMakes
<1>8. cut \subseteq cut' /\ cut' \subseteq Particle
  BY <1>1, <1>3, <1>6 DEF Partitions
<1>9. ASSUME NEW k \in nodes' PROVE k.atoms # {} /\ k.atoms \subseteq Particle \ cut'
  <2>1. k \in merged BY <1>3
  <2>2. k.atoms # {} /\ k.atoms \subseteq A BY <2>1, <1>6 DEF Partitions
  <2>3. ASSUME NEW p \in k.atoms PROVE p \notin cut'
    <3>1. ASSUME NEW l \in merged \ nodes', p \in l.atoms PROVE FALSE
      BY <1>6, <2>1, <2>2, <3>1 DEF Partitions
    <3>2. QED BY <1>3, <2>2, <3>1
  <2>4. QED BY <2>2, <2>3
<1>10. ASSUME NEW k \in nodes', NEW l \in nodes', NEW p \in Particle \ cut', p \in k.atoms, p \in l.atoms
       PROVE  k = l
  BY <1>3, <1>6, <1>8, <1>10 DEF Partitions
<1>11. ASSUME NEW p \in Particle \ cut' PROVE \E k \in nodes' : p \in k.atoms
  <2>1. PICK k \in merged : p \in k.atoms BY <1>6, <1>8 DEF Partitions
  <2>2. QED BY <1>3, <2>1
<1>b. ASSUME NEW n \in nodes, NEW p \in n.atoms, NEW q \in n.atoms, SameMorning(day, taker, n, p, q),
             NEW k \in nodes', p \in k.atoms
      PROVE  q \in k.atoms
  <2>1. PICK e \in evening : p \in e.atoms BY <1>3, <1>6, <1>b
  <2>2. q \in e.atoms BY <1>4, <1>5, <1>b, <2>1
  <2>3. PICK l \in merged : e.atoms \subseteq l.atoms BY <1>6
  <2>4. k \in merged /\ p \in A BY <1>3, <1>6, <1>b DEF Partitions
  <2>5. l = k BY <1>6, <1>b, <2>1, <2>3, <2>4 DEF Partitions
  <2>6. QED BY <2>2, <2>3, <2>5
<1>12. WaveEffect(day, taker)
  BY <1>3, <1>7, <1>8, <1>9, <1>10, <1>11, <1>b DEF WaveEffect, Partitions
<1>13. AllContexts(morning, day) = ContextsOf(day, taker)
  <2> DEFINE R == ContextsOf(day, taker)
  <2>1. ASSUME NEW m \in morning, NEW c \in Contexts(m.w, day) PROVE c \in R
    <3>1. PICK p : p \in m.atoms BY <1>4 DEF Partitions
    <3>2. PICK n \in nodes : p \in n.atoms /\ m.w = Morning(n.w, day, Takes(n, taker), p.variant)
      BY <1>4, <3>1
    <3>3. QED BY <3>2 DEF ContextsOf
  <2>2. ASSUME NEW n \in nodes, NEW p \in n.atoms,
               NEW c \in Contexts(Morning(n.w, day, Takes(n, taker), p.variant), day)
        PROVE  \E m \in morning : c \in Contexts(m.w, day)
    <3>1. p \in A BY <1>1 DEF Partitions
    <3>2. PICK m \in morning : p \in m.atoms BY <1>4, <3>1 DEF Partitions
    <3>3. PICK k \in nodes : p \in k.atoms /\ m.w = Morning(k.w, day, Takes(k, taker), p.variant)
      BY <1>4, <3>2
    <3>4. k = n BY <1>1, <3>1, <3>3 DEF Partitions
    <3>5. QED BY <3>2, <3>3, <3>4
  <2> HIDE DEF R
  <2>3. \A c : c \in AllContexts(morning, day) <=> \E m \in morning : c \in Contexts(m.w, day)
    BY DEF AllContexts
  <2>4. \A c \in R : \E n \in nodes : \E p \in n.atoms :
          c \in Contexts(Morning(n.w, day, Takes(n, taker), p.variant), day)
    BY DEF R, ContextsOf
  <2>5. AllContexts(morning, day) = R BY <2>1, <2>2, <2>3, <2>4
  <2>6. QED BY <2>5 DEF R
<1>14. QED BY <1>2, <1>12, <1>13

\* The roots partition the particles by their shared world.
LEMMA RootParts == Init => MassInv /\ cut = {} /\ status = "running"
<1> SUFFICES ASSUME Init PROVE MassInv /\ cut = {} /\ status = "running"
  OBVIOUS
<1> DEFINE K(c, s) == [atoms |-> {p \in Particle : p.shared = c}, w |-> SeedRoot(c, s)]
<1>1. PICK s \in Schedule : nodes = {K(c, s) : c \in Shared}
  BY DEF Init
<1>2. cut = {} /\ status = "running"
  BY DEF Init
<1>3. ASSUME NEW c \in Shared
      PROVE  K(c, s).atoms # {} /\ K(c, s).atoms \subseteq Particle
  <2> DEFINE f == [x \in Actor |-> CHOOSE v \in Support[c][x] : TRUE]
             p == [shared |-> c, variant |-> f]
  <2>1. \A x \in Actor : f[x] \in Support[c][x] /\ Support[c][x] \subseteq Variant \cup {None}
    BY EngineAssumption
  <2>2. f \in [Actor -> Variant \cup {None}] BY <2>1
  <2>3. p.shared = c /\ p.variant = f OBVIOUS
  <2>4. p \in Particle BY <2>1, <2>2, <2>3 DEF Particle
  <2>5. QED BY <2>3, <2>4
<1>4. ASSUME NEW p \in Particle PROVE p.shared \in Shared /\ p \in K(p.shared, s).atoms
  BY DEF Particle
<1>5. \A c \in Shared : \A p \in K(c, s).atoms : p.shared = c
  OBVIOUS
<1> HIDE DEF K
<1>6. Partitions(nodes, Particle)
  BY <1>1, <1>3, <1>4, <1>5 DEF Partitions
<1>7. QED BY <1>2, <1>6 DEF MassInv

LEMMA MassStep == ASSUME MassInv, [Next]_vars PROVE MassInv'
<1>1. CASE \E day \in Days : Wave(day)
  <2>1. PICK day : Wave(day) BY <1>1
  <2>2. PICK taker \in Takers : WaveEffect(day, taker) BY <2>1, WaveParts
  <2>3. status' = "running" BY <2>1 DEF Wave
  <2>4. QED BY <2>2, <2>3 DEF WaveEffect, MassInv
<1>2. CASE \E day \in Days : Exhaust(day)
  BY <1>2 DEF Exhaust, MassInv
<1>3. CASE Finish
  BY <1>3 DEF Finish, MassInv, Partitions
<1>4. CASE UNCHANGED vars
  BY <1>4 DEF vars, MassInv, Partitions
<1>5. QED BY <1>1, <1>2, <1>3, <1>4 DEF Next

-----------------------------------------------------------------------------
(* The templates.                                                           *)

\* The registry holds the blueprint's templates, and MaxNovel others at most.
RegistryInv ==
  /\ templates \in Registry
  /\ \A a \in Compiled(templates) : Blueprint[a] = NoTemplate
  /\ Cardinality(Compiled(templates)) <= MaxNovel

LEMMA RegistryInit == Init => RegistryInv
<1> SUFFICES ASSUME Init PROVE RegistryInv
  OBVIOUS
<1>1. templates = Blueprint /\ Blueprint \in Registry /\ MaxNovel \in Nat
  BY EngineAssumption DEF Init
<1>2. Compiled(templates) = {}
  BY <1>1 DEF Compiled
<1>3. Cardinality(Compiled(templates)) <= MaxNovel
  BY <1>1, <1>2, FS_EmptySet
<1>4. QED BY <1>1, <1>2, <1>3 DEF RegistryInv

\* What a wave compiles: templates for actions that had none, and no more of
\* them than the cap allows.
LEMMA WaveCompiles ==
  ASSUME RegistryInv, NEW day, Wave(day)
  PROVE  RegistryInv' /\ Compiled(templates) \subseteq Compiled(templates)'
<1>1. PICK morning \in Mornings(day) :
        /\ decisions' \in [AllContexts(morning, day) -> Reply \cup {NoReply}]
        /\ templates' \in Recompiled(NovelRequests(morning, day, decisions'))
  BY DEF Wave
<1> DEFINE asked == NovelRequests(morning, day, decisions')
<1>2. \A q \in asked : q.action \in Action /\ templates[q.action] = NoTemplate
  <2>1. SUFFICES ASSUME NEW n \in morning, NEW e \in Requests(n.w, day),
                        Novel(n.w, e, decisions'[BuildContext(n.w, e)], templates)
                 PROVE  LET a == decisions'[BuildContext(n.w, e)].action IN
                        a \in Action /\ templates[a] = NoTemplate
    BY DEF NovelRequests
  <2>2. BuildContext(n.w, e) \in AllContexts(morning, day) BY DEF AllContexts, Contexts
  <2>3. decisions'[BuildContext(n.w, e)] \in Reply BY <1>1, <2>1, <2>2 DEF Novel
  <2>4. decisions'[BuildContext(n.w, e)].action \in Action BY <2>3, ReplyFields
  <2>5. QED BY <2>1, <2>4 DEF Novel
<1>3. PICK new \in SUBSET {q.action : q \in asked} :
        /\ Cardinality(Compiled(templates) \cup new) <= MaxNovel
        /\ \E f \in [new -> Template] : templates' = With(new, f)
  BY <1>1 DEF Recompiled
<1> HIDE DEF asked
<1>4. \A a \in new : a \in Action /\ templates[a] = NoTemplate
  BY <1>2, <1>3
<1>5. PICK f \in [new -> Template] : templates' = With(new, f)
  BY <1>3
<1>6. \A a \in Action : templates'[a] = IF a \in new THEN f[a] ELSE templates[a]
  BY <1>5 DEF With
<1>7. \A a \in new : templates'[a] \in Template /\ templates'[a] # NoTemplate /\ Blueprint[a] = NoTemplate
  BY <1>4, <1>6, WorldAssumption DEF RegistryInv, Compiled
<1>8. templates' \in Registry
  BY <1>5, <1>7 DEF With, Registry, RegistryInv
<1>9. Compiled(templates)' = Compiled(templates) \cup new
  BY <1>4, <1>6, <1>7 DEF Compiled
<1>10. \A a \in Compiled(templates)' : Blueprint[a] = NoTemplate
  BY <1>7, <1>9 DEF RegistryInv
<1>11. QED BY <1>3, <1>8, <1>9, <1>10 DEF RegistryInv

LEMMA RegistryStep ==
  ASSUME RegistryInv, [Next]_vars
  PROVE  RegistryInv' /\ Compiled(templates) \subseteq Compiled(templates)'
<1>1. CASE \E day \in Days : Wave(day)
  BY <1>1, WaveCompiles
<1>2. CASE UNCHANGED templates
  BY <1>2 DEF RegistryInv, Compiled
<1>3. QED BY <1>1, <1>2 DEF Next, Exhaust, Finish, vars

\* What a node finds is a registry.
LEMMA FoundType ==
  ASSUME RegistryInv, RegistryInv'
  PROVE  Found(templates') \subseteq Registry
BY DEF Found, With, RegistryInv, Registry

-----------------------------------------------------------------------------
(* Conservation of mass.                                                    *)

LEMMA TwoPartsOfAll ==
  ASSUME NEW S, NEW T, NEW A, S \subseteq A, T \subseteq A, \A p \in A : p \in S \cup T
  PROVE  S \cup T = A
OBVIOUS

\* Every particle is in exactly one node or in the truncated mass, until the
\* budget ends the run (worlds.py: split, coalesce, _enforce_cap).
THEOREM MassHolds == Spec => []MassIsKept
<1>1. Init => MassInv BY RootParts
<1>2. MassInv /\ [Next]_vars => MassInv' BY MassStep
<1>3. ASSUME MassInv, status # "exhausted" PROVE MassIsKept
  <2>1. cut \subseteq Particle /\ Partitions(nodes, Particle \ cut)
    BY <1>3 DEF MassInv
  <2>2. \A n \in nodes : n.atoms # {} /\ n.atoms \subseteq Particle /\ n.atoms \cap cut = {}
    BY <2>1 DEF Partitions
  <2>3. \A p \in Particle : p \in cut \/ \E n \in nodes : p \in n.atoms
    BY <2>1 DEF Partitions
  <2>4. (UNION {n.atoms : n \in nodes}) \cup cut = Particle
    <3> DEFINE U == UNION {n.atoms : n \in nodes}
    <3>1. \A p : p \in U <=> \E n \in nodes : p \in n.atoms OBVIOUS
    <3> HIDE DEF U
    <3>2. U \subseteq Particle /\ cut \subseteq Particle BY <2>1, <2>2, <3>1
    <3>3. \A p \in Particle : p \in U \cup cut BY <2>3, <3>1
    <3>4. U \cup cut = Particle BY <3>2, <3>3, TwoPartsOfAll
    <3>5. QED BY <3>4 DEF U
  <2>5. ASSUME NEW n \in nodes, NEW m \in nodes, n.atoms \cap m.atoms # {} PROVE n = m
    <3>1. PICK p : p \in n.atoms /\ p \in m.atoms BY <2>5
    <3>2. p \in Particle \ cut BY <2>2, <3>1
    <3>3. QED BY <2>1, <3>1, <3>2 DEF Partitions
  <2>6. QED BY <2>2, <2>4, <2>5 DEF MassIsKept
<1>4. MassInv => MassIsKept
  BY <1>3 DEF MassIsKept
<1>5. QED BY <1>1, <1>2, <1>4, PTL DEF Spec

-----------------------------------------------------------------------------
(* Every particle goes through what it would go through alone.              *)

\* The particles of N, each with the world of its node.
WorldsOf(N) == [p \in UNION {n.atoms : n \in N} |-> (CHOOSE n \in N : p \in n.atoms).w]

LEMMA WorldsOfParts ==
  ASSUME NEW N, NEW A, Partitions(N, A)
  PROVE  /\ DOMAIN WorldsOf(N) = A
         /\ WorldsOf(N) = [p \in A |-> WorldsOf(N)[p]]
         /\ \A n \in N : \A p \in n.atoms : WorldsOf(N)[p] = n.w
<1> DEFINE U == UNION {n.atoms : n \in N}
<1>1. \A p : p \in U <=> \E n \in N : p \in n.atoms
  OBVIOUS
<1> HIDE DEF U
<1>2. U \subseteq A /\ \A p \in A : p \in U
  BY <1>1 DEF Partitions
<1>3. U = A
  BY <1>2
<1>4. ASSUME NEW n \in N, NEW p \in n.atoms PROVE (CHOOSE m \in N : p \in m.atoms) = n
  <2>1. p \in A BY DEF Partitions
  <2>2. \A m \in N : p \in m.atoms => m = n BY <2>1 DEF Partitions
  <2>3. QED BY <2>2
<1>5. WorldsOf(N) = [p \in U |-> (CHOOSE m \in N : p \in m.atoms).w]
  BY DEF WorldsOf, U
<1>6. QED BY <1>1, <1>3, <1>4, <1>5

LEMMA WorldOfIs == WorldOf = WorldsOf(nodes) /\ WorldOf' = WorldsOf(nodes')
BY DEF WorldOf, NodeOf, WorldsOf

\* As long as no node has promoted a pruned actor and no action is compiled,
\* a wave takes every particle through its own day.
LEMMA WaveAlone ==
  ASSUME MassInv, status = "running", promotable' = promotable, NEW day \in Days, Wave(day),
         templates = Blueprint, templates' = Blueprint
  PROVE  /\ \E p \in DOMAIN WorldOf : day \in OpenDays(WorldOf[p])
         /\ Alone!ParticleWave(day)
<1> DEFINE A == Particle \ cut
           B == Particle \ cut'
           now == WorldOf
           morning == [p \in DOMAIN now |-> Morning(now[p], day, {}, p.variant)]
           evening == [p \in DOMAIN now |-> EveningAlone(morning[p], day, decisions')]
<1>1. Partitions(nodes, A)
  BY DEF MassInv
<1>F. \A f \in Found(templates') : f = Blueprint
  BY EngineAssumption DEF Found, With, Registry
<1>2. PICK taker \in Takers :
        /\ WaveEffect(day, taker)
        /\ decisions' \in [ContextsOf(day, taker) -> Reply \cup {NoReply}]
  BY WaveParts
<1>3. \A n \in nodes : Takes(n, taker) = {}
  <2>1. \A n \in nodes : Reached(n) \subseteq Promoted /\ Reached(n) \subseteq promotable
    BY DEF Promoted, Reached
  <2>2. promotable \cap Promoted = {} BY DEF Wave
  <2>3. QED BY <2>1, <2>2 DEF Takes
<1>4. Partitions(nodes', B)
  BY <1>2 DEF WaveEffect
<1>5. /\ DOMAIN now = A
      /\ \A n \in nodes : \A p \in n.atoms : now[p] = n.w
  BY <1>1, WorldsOfParts, WorldOfIs
<1>6. /\ DOMAIN now' = B
      /\ now' = [p \in B |-> now'[p]]
      /\ \A n \in nodes' : \A p \in n.atoms : now'[p] = n.w
  BY <1>4, WorldsOfParts, WorldOfIs
<1>7. B \subseteq A
  BY <1>2 DEF WaveEffect
<1>8. \A n \in nodes : \A p \in n.atoms : p \in A
  BY <1>1 DEF Partitions
<1>9. ASSUME NEW p \in B PROVE now'[p] = evening[p]
  <2>1. PICK k \in nodes' : p \in k.atoms BY <1>4 DEF Partitions
  <2>2. PICK n \in nodes :
          /\ p \in n.atoms
          /\ k.w = EveningAlone(Morning(n.w, day, Takes(n, taker), p.variant), day, decisions')
    BY <1>2, <1>F, <2>1 DEF WaveEffect, DayMakes, EveningAlone
  <2>3. p \in DOMAIN now /\ now[p] = n.w BY <1>5, <1>8, <2>2
  <2>4. evening[p] = EveningAlone(Morning(n.w, day, {}, p.variant), day, decisions') BY <2>3
  <2>5. QED BY <1>3, <1>6, <2>1, <2>2, <2>4
<1>10. B \in SUBSET DOMAIN now /\ now' = Alone!Restrict(evening, B)
  BY <1>5, <1>6, <1>7, <1>9 DEF Alone!Restrict
<1>11. \A p \in DOMAIN now : \A d \in OpenDays(now[p]) : day <= d
  <2>1. SUFFICES ASSUME NEW p \in A, NEW d \in OpenDays(now[p]) PROVE day <= d
    BY <1>5
  <2>2. PICK n \in nodes : p \in n.atoms BY <1>1 DEF Partitions
  <2>3. d \in Days BY <1>5, <2>2 DEF Days
  <2>4. QED BY <2>3 DEF Wave, NextDay
<1>12. \E p \in DOMAIN now : day \in OpenDays(now[p])
  <2>1. PICK n \in nodes : day \in OpenDays(n.w) BY DEF Days
  <2>2. PICK p : p \in n.atoms BY <1>1 DEF Partitions
  <2>3. QED BY <1>5, <1>8, <2>1, <2>2
<1>13. ContextsOf(day, taker) = UNION {Contexts(morning[p], day) : p \in DOMAIN now}
  <2> DEFINE L == ContextsOf(day, taker)
             R == UNION {Contexts(morning[p], day) : p \in DOMAIN now}
  <2>1. \A c : c \in L <=> \E n \in nodes : \E p \in n.atoms :
                 c \in Contexts(Morning(n.w, day, Takes(n, taker), p.variant), day)
    BY DEF ContextsOf
  <2>2. \A c : c \in R <=> \E p \in DOMAIN now : c \in Contexts(morning[p], day)
    OBVIOUS
  <2>3. ASSUME NEW n \in nodes, NEW p \in n.atoms
        PROVE  p \in DOMAIN now /\ morning[p] = Morning(n.w, day, Takes(n, taker), p.variant)
    BY <1>3, <1>5, <1>8
  <2>4. \A p \in DOMAIN now : \E n \in nodes : p \in n.atoms
    BY <1>1, <1>5 DEF Partitions
  <2> HIDE DEF L, R, morning, now
  <2>5. \A c : c \in L => c \in R BY <2>1, <2>2, <2>3
  <2>6. \A c : c \in R => c \in L BY <2>1, <2>2, <2>3, <2>4
  <2>7. L = R BY <2>5, <2>6
  <2>8. QED BY <2>7 DEF L, R
<1>14. decisions' \in [UNION {Contexts(morning[p], day) : p \in DOMAIN now} -> Reply \cup {NoReply}]
  BY <1>2, <1>13
<1>15. Alone!ParticleWave(day)
  BY <1>10, <1>11, <1>14 DEF Alone!ParticleWave
<1>16. QED BY <1>12, <1>15

AloneInv == MassInv /\ RegistryInv /\ promotable \subseteq Promotable

LEMMA AloneInit == Init => AloneInv /\ Alone!ParticleInit
<1> SUFFICES ASSUME Init PROVE AloneInv /\ Alone!ParticleInit
  OBVIOUS
<1> DEFINE K(c, s) == [atoms |-> {p \in Particle : p.shared = c}, w |-> SeedRoot(c, s)]
<1>1. PICK s \in Schedule : nodes = {K(c, s) : c \in Shared}
  BY DEF Init
<1>2. MassInv /\ cut = {} /\ status = "running" /\ promotable = Promotable /\ decisions = <<>>
      /\ RegistryInv /\ templates = Blueprint
  BY RootParts, RegistryInit DEF Init
<1>3. Partitions(nodes, Particle)
  BY <1>2 DEF MassInv
<1>4. \A c \in Shared : K(c, s) \in nodes
  BY <1>1
<1>5. \A c \in Shared : \A p \in Particle : p.shared = c => p \in K(c, s).atoms
  OBVIOUS
<1>6. \A c : K(c, s).w = SeedRoot(c, s)
  OBVIOUS
<1> HIDE DEF K
<1>7. /\ DOMAIN WorldOf = Particle
      /\ WorldOf = [p \in Particle |-> WorldOf[p]]
      /\ \A n \in nodes : \A p \in n.atoms : WorldOf[p] = n.w
  BY <1>3, WorldsOfParts, WorldOfIs
<1>8. ASSUME NEW p \in Particle PROVE WorldOf[p] = SeedRoot(p.shared, s)
  <2>1. p.shared \in Shared BY DEF Particle
  <2>2. K(p.shared, s) \in nodes /\ p \in K(p.shared, s).atoms BY <1>4, <1>5, <2>1
  <2>3. QED BY <1>6, <1>7, <2>2
<1>9. WorldOf = [p \in Particle |-> SeedRoot(p.shared, s)]
  BY <1>7, <1>8
<1>10. QED BY <1>2, <1>9 DEF AloneInv, Astray, Alone!ParticleInit

LEMMA AloneStep ==
  ASSUME AloneInv, [Next]_vars
  PROVE  AloneInv' /\ [Alone!ParticleNext]_(Alone!particleVars)
<1>1. MassInv' /\ RegistryInv' /\ Compiled(templates) \subseteq Compiled(templates)'
  BY MassStep, RegistryStep DEF AloneInv
<1>2. promotable' \subseteq promotable /\ (status = "exhausted" => status' = "exhausted")
  BY DEF AloneInv, Next, Wave, Exhaust, Finish, vars
<1>3. AloneInv'
  BY <1>1, <1>2 DEF AloneInv
<1>4. CASE Astray'
  BY <1>3, <1>4 DEF Alone!ParticleNext
<1>5. CASE ~Astray'
  <2>1. promotable' = promotable /\ promotable = Promotable /\ templates' = Blueprint
        /\ status' # "exhausted"
    BY <1>2, <1>5 DEF AloneInv, Astray
  <2>2. templates = Blueprint
    <3>1. \A a \in Action : templates[a] = Blueprint[a] BY <1>1, <2>1 DEF Compiled
    <3>2. QED BY <3>1, EngineAssumption DEF AloneInv, RegistryInv, Registry
  <2>3. ~Astray BY <1>2, <2>1, <2>2 DEF Astray
  <2>4. CASE \E day \in Days : Wave(day)
    <3>1. PICK day \in Days : Wave(day) BY <2>4
    <3>2. status = "running" BY <3>1 DEF Wave
    <3>3. /\ \E p \in DOMAIN WorldOf : day \in OpenDays(WorldOf[p])
          /\ Alone!ParticleWave(day)
      BY <2>1, <2>2, <3>1, <3>2, WaveAlone DEF AloneInv
    <3>4. QED BY <1>3, <1>5, <2>3, <3>3 DEF Alone!ParticleNext
  <2>5. CASE \E day \in Days : Exhaust(day)
    BY <2>1, <2>5 DEF Exhaust
  <2>6. CASE Finish \/ UNCHANGED vars
    <3>1. UNCHANGED <<nodes, decisions>> BY <2>6 DEF Finish, vars
    <3>2. WorldOf' = WorldOf BY <3>1, WorldOfIs
    <3>3. Astray' = Astray BY <1>5, <2>3 DEF Astray
    <3>4. QED BY <1>3, <3>1, <3>2, <3>3 DEF Alone!particleVars
  <2>7. QED BY <2>4, <2>5, <2>6 DEF Next
<1>6. QED BY <1>3, <1>4, <1>5

\* Splitting late, merging and sharing answers are exact until the first
\* pruned actor is promoted, the first action compiled or the budget spent:
\* the nodes implement ParticleWorlds, in which every particle is simulated
\* alone and nothing is promised from then on (engine.py: _wave).
THEOREM ExactWorldsHolds == Spec => ExactWorlds
<1>1. Init => AloneInv /\ Alone!ParticleInit BY AloneInit
<1>2. AloneInv /\ [Next]_vars => AloneInv' /\ [Alone!ParticleNext]_(Alone!particleVars)
  BY AloneStep
<1>3. QED BY <1>1, <1>2, PTL DEF Spec, ExactWorlds, Alone!ParticleSpec

-----------------------------------------------------------------------------
(* Private states.                                                          *)

\* A world with the fields that say which states are chosen.
HasStates(w) == {"shared", "variant"} \subseteq DOMAIN w

\* A morning assigns a state to the actors that decide and have none, and to
\* no other; nothing else in a day touches the private states.
LEMMA DayStates ==
  ASSUME NEW w, HasStates(w), NEW day, NEW promoted, NEW variant, NEW answers, NEW registry
  PROVE  LET u == Morning(w, day, promoted, variant)
             v == Evening(u, day, answers, registry)
             due == DueActors(Deliver(w, day, promoted), day)
         IN /\ HasStates(v)
            /\ v.shared = w.shared
            /\ v.variant = u.variant
            /\ u.variant = [x \in Actor |-> IF x \in due /\ w.variant[x] = None
                                            THEN variant[x] ELSE w.variant[x]]
<1> DEFINE d == Deliver(w, day, promoted)
           u == Morning(w, day, promoted, variant)
           e == Decide(u, day, answers, registry)
           v == Evening(u, day, answers, registry)
<1>1. HasStates(d) /\ d.shared = w.shared /\ d.variant = w.variant
  BY DEF Deliver, HasStates
<1>2. u = Assign(d, day, variant)
  BY DEF Morning
<1>3. v = CloseDay(e, day)
  BY DEF Evening
<1> HIDE DEF d, u, e, v
<1>4. /\ HasStates(u)
      /\ u.shared = w.shared
      /\ u.variant = [x \in Actor |-> IF x \in DueActors(d, day) /\ w.variant[x] = None
                                      THEN variant[x] ELSE w.variant[x]]
  BY <1>1, <1>2 DEF Assign, HasStates
<1>5. HasStates(e) /\ e.shared = u.shared /\ e.variant = u.variant
  BY <1>4 DEF e, Decide, HasStates
<1>6. HasStates(v) /\ v.shared = e.shared /\ v.variant = e.variant
  <2> DEFINE t == IF (\E f \in e.queue : f.day = day /\ f.kind = "terminal_eval") /\ ~Resolved(e)
                  THEN EvaluateTerminal(e) ELSE e
  <2>1. HasStates(EvaluateTerminal(e)) /\ EvaluateTerminal(e).shared = e.shared
        /\ EvaluateTerminal(e).variant = e.variant
    BY <1>5 DEF EvaluateTerminal, HasStates
  <2>2. HasStates(t) /\ t.shared = e.shared /\ t.variant = e.variant
    BY <1>5, <2>1
  <2>3. v = [t EXCEPT !.queue = {f \in @ : f.day > day}, !.day = day]
    BY <1>3 DEF CloseDay
  <2> HIDE DEF t
  <2>4. QED BY <2>2, <2>3 DEF HasStates
<1>7. QED BY <1>4, <1>5, <1>6 DEF d, u, v

\* The states a node has chosen are those of its particles, and two nodes
\* have chosen differently.
StateInv ==
  /\ \A n \in nodes : HasStates(n.w)
  /\ OwnStates
  /\ NodesDiffer

\* The world of a node after a wave, from the node its particle was in.
LEMMA WaveStates ==
  ASSUME StateInv, NEW day, NEW taker, WaveEffect(day, taker),
         NEW k \in nodes', NEW p \in k.atoms
  PROVE  \E n \in nodes :
           /\ p \in n.atoms
           /\ HasStates(k.w)
           /\ k.w.shared = p.shared
           /\ \A x \in Actor : /\ k.w.variant[x] \in {None, p.variant[x]}
                               /\ n.w.variant[x] # None => k.w.variant[x] = n.w.variant[x]
           /\ LET due == DueActors(Deliver(n.w, day, Takes(n, taker)), day) IN
              \A x \in Actor : n.w.variant[x] = None =>
                k.w.variant[x] = IF x \in due THEN p.variant[x] ELSE None
<1>1. PICK n \in nodes :
        /\ p \in n.atoms
        /\ \E f \in Found(templates') :
             k.w = Evening(Morning(n.w, day, Takes(n, taker), p.variant), day, decisions', f)
  BY DEF WaveEffect, DayMakes
<1> DEFINE due == DueActors(Deliver(n.w, day, Takes(n, taker)), day)
<1>2. HasStates(n.w) /\ n.w.shared = p.shared /\ \A x \in Actor : n.w.variant[x] \in {None, p.variant[x]}
  BY <1>1 DEF StateInv, OwnStates
<1>3. /\ HasStates(k.w)
      /\ k.w.shared = n.w.shared
      /\ k.w.variant = [x \in Actor |-> IF x \in due /\ n.w.variant[x] = None
                                        THEN p.variant[x] ELSE n.w.variant[x]]
  BY <1>1, <1>2, DayStates
<1> HIDE DEF due
<1>4. \A x \in Actor : /\ k.w.variant[x] \in {None, p.variant[x]}
                       /\ n.w.variant[x] # None => k.w.variant[x] = n.w.variant[x]
                       /\ n.w.variant[x] = None =>
                            k.w.variant[x] = IF x \in due THEN p.variant[x] ELSE None
  BY <1>2, <1>3
<1>5. QED BY <1>1, <1>2, <1>3, <1>4 DEF due

LEMMA StateWave ==
  ASSUME MassInv, status = "running", StateInv, NEW day, Wave(day)
  PROVE  StateInv'
<1>1. PICK taker \in Takers : WaveEffect(day, taker)
  BY WaveParts
<1>2. \A k \in nodes' : k.atoms # {} /\ k.atoms \subseteq Particle
  BY <1>1 DEF WaveEffect, Partitions
<1>3. ASSUME NEW k \in nodes' PROVE HasStates(k.w)
  BY <1>1, <1>2, <1>3, WaveStates
<1>4. OwnStates'
  <2>1. SUFFICES ASSUME NEW k \in nodes', NEW p \in k.atoms
                 PROVE  k.w.shared = p.shared /\ \A x \in Actor : k.w.variant[x] \in {None, p.variant[x]}
    BY DEF OwnStates
  <2>2. QED BY <1>1, <2>1, WaveStates
<1>5. NodesDiffer'
  <2> DEFINE Differ(v, w) ==
        \/ v.shared # w.shared
        \/ \E x \in Actor : /\ None \notin {v.variant[x], w.variant[x]}
                            /\ v.variant[x] # w.variant[x]
  <2>1. SUFFICES ASSUME NEW k \in nodes', NEW l \in nodes', k # l PROVE Differ(k.w, l.w)
    BY DEF NodesDiffer
  <2>2. PICK p \in k.atoms, q \in l.atoms : p \in Particle /\ q \in Particle
    BY <1>2
  <2>3. PICK n \in nodes :
           /\ p \in n.atoms
           /\ k.w.shared = p.shared
           /\ \A x \in Actor : n.w.variant[x] # None => k.w.variant[x] = n.w.variant[x]
           /\ LET due == DueActors(Deliver(n.w, day, Takes(n, taker)), day) IN
              \A x \in Actor : n.w.variant[x] = None =>
                k.w.variant[x] = IF x \in due THEN p.variant[x] ELSE None
    BY <1>1, WaveStates
  <2>4. PICK m \in nodes :
           /\ q \in m.atoms
           /\ l.w.shared = q.shared
           /\ \A x \in Actor : m.w.variant[x] # None => l.w.variant[x] = m.w.variant[x]
           /\ LET due == DueActors(Deliver(m.w, day, Takes(m, taker)), day) IN
              \A x \in Actor : m.w.variant[x] = None =>
                l.w.variant[x] = IF x \in due THEN q.variant[x] ELSE None
    BY <1>1, WaveStates
  <2>5. CASE n # m
    <3>1. n.w.shared # m.w.shared
          \/ \E x \in Actor : None \notin {n.w.variant[x], m.w.variant[x]} /\ n.w.variant[x] # m.w.variant[x]
      BY <2>5 DEF StateInv, NodesDiffer
    <3>2. n.w.shared = p.shared /\ m.w.shared = q.shared
      BY <2>3, <2>4 DEF StateInv, OwnStates
    <3>3. QED BY <2>3, <2>4, <3>1, <3>2
  <2>6. CASE n = m /\ k.w.shared = l.w.shared
    <3> DEFINE due == DueActors(Deliver(n.w, day, Takes(n, taker)), day)
    <3>1. ASSUME \A x \in Actor : x \in due /\ n.w.variant[x] = None => p.variant[x] = q.variant[x]
          PROVE  FALSE
      <4> DEFINE d == Deliver(n.w, day, Takes(n, taker))
                 Given(f) == [x \in Actor |-> IF x \in due /\ d.variant[x] = None
                                              THEN f[x] ELSE d.variant[x]]
      <4>1. HasStates(n.w) BY DEF StateInv
      <4>2. d.variant = n.w.variant BY <4>1 DEF Deliver, HasStates
      <4>3. \A x \in Actor : Given(p.variant)[x] = Given(q.variant)[x] BY <3>1, <4>2
      <4>4. Given(p.variant) = Given(q.variant) BY <4>3
      <4>5. \A f : Morning(n.w, day, Takes(n, taker), f) = [d EXCEPT !.variant = Given(f)]
        BY DEF Morning, Assign
      <4> HIDE DEF d, Given
      <4>6. Morning(n.w, day, Takes(n, taker), p.variant) = Morning(n.w, day, Takes(n, taker), q.variant)
        BY <4>4, <4>5
      <4>7. SameMorning(day, taker, n, p, q) BY <4>6 DEF SameMorning
      <4>8. q \in k.atoms BY <1>1, <2>3, <2>4, <2>6, <4>7 DEF WaveEffect
      <4>9. k = l BY <1>1, <1>2, <4>8 DEF WaveEffect, Partitions
      <4>10. QED BY <2>1, <4>9
    <3>2. PICK x \in Actor : x \in due /\ n.w.variant[x] = None /\ p.variant[x] # q.variant[x]
      BY <3>1
    <3>3. k.w.variant[x] = p.variant[x] /\ l.w.variant[x] = q.variant[x]
      BY <2>3, <2>4, <2>6, <3>2
    <3>4. p.shared = q.shared /\ p.shared \in Shared
          /\ p.variant[x] \in Support[p.shared][x] /\ q.variant[x] \in Support[p.shared][x]
      BY <2>2, <2>3, <2>4, <2>6 DEF Particle
    <3>5. p.variant[x] # None /\ q.variant[x] # None
      BY <3>2, <3>4, EngineAssumption
    <3>6. QED BY <3>2, <3>3, <3>5
  <2>7. QED BY <2>5, <2>6
<1>6. QED BY <1>3, <1>4, <1>5 DEF StateInv

LEMMA StateInit == Init => StateInv
<1> SUFFICES ASSUME Init PROVE StateInv
  OBVIOUS
<1> DEFINE K(c, s) == [atoms |-> {p \in Particle : p.shared = c}, w |-> SeedRoot(c, s)]
<1>1. PICK s \in Schedule : nodes = {K(c, s) : c \in Shared}
  BY DEF Init
<1>2. \A c : K(c, s).w = SeedRoot(c, s) /\ \A p \in K(c, s).atoms : p.shared = c
  OBVIOUS
<1>3. \A c : /\ HasStates(SeedRoot(c, s))
             /\ SeedRoot(c, s).shared = c
             /\ SeedRoot(c, s).variant = [x \in Actor |-> None]
  BY DEF SeedRoot, HasStates
<1> HIDE DEF K
<1>4. QED BY <1>1, <1>2, <1>3 DEF StateInv, OwnStates, NodesDiffer

LEMMA StateStep == ASSUME MassInv, StateInv, [Next]_vars PROVE StateInv'
<1>1. CASE \E day \in Days : Wave(day)
  BY <1>1, StateWave DEF Wave
<1>2. CASE \E day \in Days : Exhaust(day)
  BY <1>2 DEF Exhaust, StateInv, OwnStates, NodesDiffer
<1>3. CASE Finish \/ UNCHANGED vars
  <2>1. nodes' = nodes BY <1>3 DEF Finish, vars
  <2>2. QED BY <2>1 DEF StateInv, OwnStates, NodesDiffer
<1>4. QED BY <1>1, <1>2, <1>3 DEF Next

LEMMA StatesHold == Spec => [](MassInv /\ StateInv)
<1>1. Init => MassInv /\ StateInv BY RootParts, StateInit
<1>2. MassInv /\ StateInv /\ [Next]_vars => (MassInv /\ StateInv)' BY MassStep, StateStep
<1>3. QED BY <1>1, <1>2, PTL DEF Spec

\* No particle is in a node that has chosen another shared world or private
\* state for it (worlds.py: split, coalesce; engine.py: _assign_variant).
THEOREM OwnStatesHolds == Spec => []OwnStates
<1>1. StateInv => OwnStates BY DEF StateInv
<1>2. QED BY <1>1, StatesHold, PTL

\* Coalescing never merges two nodes: what separates them, a chosen state,
\* is in the key and is never cleared (worlds.py: key).
THEOREM NodesDifferHolds == Spec => []NodesDiffer
<1>1. StateInv => NodesDiffer BY DEF StateInv
<1>2. QED BY <1>1, StatesHold, PTL

-----------------------------------------------------------------------------
(* Decisions.                                                               *)

\* A particle whose actor x is in an unmodelled state: x has decided nothing
\* and, if it is a member, there is no answer.
Undecided(w, x) ==
  w.past[x] = <<>> /\ w.votes[x] = None /\ (x \in Member => ~Resolved(w))

\* The nodes' clocks agree, and what is queued is not before them; before
\* the deadline those who wait are asked again; the unknown stays open.
WorldInv ==
  /\ \A n \in nodes : n = [atoms |-> n.atoms, w |-> n.w] /\ n.w \in Worlds
  /\ \A n, m \in nodes : \A e \in m.w.queue : n.w.day <= e.day
  /\ \A n \in nodes : ~Resolved(n.w) /\ n.w.day < Deadline => AskedAgain(n.w)
  /\ \A n \in nodes : \A p \in n.atoms, x \in Actor :
       p.variant[x] = UnknownState => Undecided(n.w, x)

EngineInv ==
  AloneInv /\ StateInv /\ WorldInv /\ status \in {"running", "done", "exhausted"}

\* What a wave does to the world of a particle: its node's world before it,
\* and after it.
LEMMA WaveWorlds ==
  ASSUME EngineInv, NEW day \in Days, Wave(day), NEW k \in nodes', NEW p \in k.atoms
  PROVE  /\ day \in Nat /\ p \in Particle
         /\ \E n \in nodes :
              /\ p \in n.atoms
              /\ n.w.day <= day
              /\ k.w \in Worlds /\ k.w.day = day /\ \A e \in k.w.queue : e.day > day
              /\ Resolved(n.w) => <<k.w.outcome, k.w.votes, k.w.past>> = <<n.w.outcome, n.w.votes, n.w.past>>
              /\ ~Resolved(n.w) /\ Resolved(k.w) => \A m \in Member : k.w.votes[m] # None
              /\ \A x \in Actor : p.variant[x] = UnknownState =>
                   k.w.past[x] = n.w.past[x] /\ k.w.votes[x] = n.w.votes[x]
              /\ day < Deadline /\ AskedAgain(n.w) => AskedAgain(k.w)
<1>1. PICK taker \in Takers :
        WaveEffect(day, taker) /\ decisions' \in [ContextsOf(day, taker) -> Reply \cup {NoReply}]
  BY WaveParts DEF EngineInv, AloneInv
<1>2. PICK n \in nodes :
        /\ p \in n.atoms
        /\ \E f \in Found(templates') :
             k.w = Evening(Morning(n.w, day, Takes(n, taker), p.variant), day, decisions', f)
  BY <1>1 DEF WaveEffect, DayMakes
<1> DEFINE promoted == Takes(n, taker)
           u == Morning(n.w, day, promoted, p.variant)
<1>3. p \in Particle
  BY <1>1 DEF WaveEffect, Partitions
<1>4. p.variant \in [Actor -> Variant \cup {None}]
  BY <1>3 DEF Particle
<1>5. n.w \in Worlds /\ \A x \in Actor : n.w.variant[x] \in {None, p.variant[x]}
  BY <1>2 DEF EngineInv, WorldInv, StateInv, OwnStates
<1>6. day \in Nat /\ n.w.day <= day
  <2>1. PICK m \in nodes : day \in OpenDays(m.w) BY DEF Days
  <2>2. PICK e \in m.w.queue : e.day = day BY <2>1 DEF OpenDays
  <2>3. m.w.queue \subseteq Event BY WorldFields DEF EngineInv, WorldInv, Worlds
  <2>4. e.day \in Nat BY <2>2, <2>3 DEF Event, Request
  <2>5. n.w.day <= e.day BY <2>2 DEF EngineInv, WorldInv
  <2>6. QED BY <2>2, <2>4, <2>5
<1>7. promoted \in SUBSET Actor
  BY WorldAssumption DEF EngineInv, AloneInv, Takes, Reached
<1> HIDE DEF promoted
<1>8. /\ u \in Worlds
      /\ <<u.outcome, u.past, u.votes, u.shared, u.day>>
           = <<n.w.outcome, n.w.past, n.w.votes, n.w.shared, n.w.day>>
      /\ n.w.queue \subseteq u.queue
      /\ \A x \in Actor : u.variant[x] = IF x \in DueActors(u, day) /\ n.w.variant[x] = None
                                         THEN p.variant[x] ELSE n.w.variant[x]
  BY <1>4, <1>5, <1>6, <1>7, MorningEffect
<1>9. \A e \in Requests(u, day) : decisions'[BuildContext(u, e)] \in Reply \cup {NoReply}
  <2>1. \A e \in Requests(u, day) : BuildContext(u, e) \in Contexts(u, day) BY DEF Contexts
  <2>2. \A c \in Contexts(u, day) : c \in ContextsOf(day, taker) BY <1>2 DEF ContextsOf, promoted
  <2> HIDE DEF u
  <2>3. QED BY <1>1, <2>1, <2>2
<1> HIDE DEF u
<1>10. ASSUME NEW x \in Actor, p.variant[x] = UnknownState, NEW e \in Requests(u, day) PROVE e.actor # x
  <2>1. e \in Due(u, day) /\ u.variant[e.actor] # UnknownState BY DEF Requests
  <2>2. e.actor \in DueActors(u, day) BY <2>1 DEF DueActors
  <2>3. QED BY <1>5, <1>8, <1>10, <2>1, <2>2
<1>11. PICK registry \in Registry : k.w = Evening(u, day, decisions', registry)
  <2>1. RegistryInv /\ RegistryInv' BY WaveCompiles DEF EngineInv, AloneInv
  <2>2. Found(templates') \subseteq Registry BY <2>1, FoundType
  <2>3. QED BY <1>2, <2>2 DEF u, promoted
<1>12. /\ k.w \in Worlds /\ k.w.day = day /\ \A e \in k.w.queue : e.day > day
       /\ Resolved(u) => <<k.w.outcome, k.w.votes, k.w.past>> = <<u.outcome, u.votes, u.past>>
       /\ ~Resolved(u) /\ Resolved(k.w) => \A m \in Member : k.w.votes[m] # None
       /\ \A x \in Actor : (\A e \in Requests(u, day) : e.actor # x) =>
            k.w.past[x] = u.past[x] /\ k.w.votes[x] = u.votes[x]
       /\ day < Deadline /\ AskedAgain(u) => AskedAgain(k.w)
  BY <1>6, <1>8, <1>9, <1>11, EveningEffect
<1>13. (Resolved(u) <=> Resolved(n.w)) /\ (AskedAgain(n.w) => AskedAgain(u))
  BY <1>8 DEF Resolved, AskedAgain, LastDecision
<1>14. \A x \in Actor : p.variant[x] = UnknownState =>
         k.w.past[x] = n.w.past[x] /\ k.w.votes[x] = n.w.votes[x]
  BY <1>8, <1>10, <1>12
<1>15. QED BY <1>2, <1>3, <1>6, <1>8, <1>12, <1>13, <1>14

LEMMA WorldInit == Init => WorldInv
<1> SUFFICES ASSUME Init PROVE WorldInv
  OBVIOUS
<1> DEFINE K(c, s) == [atoms |-> {p \in Particle : p.shared = c}, w |-> SeedRoot(c, s)]
<1>1. PICK s \in Schedule : nodes = {K(c, s) : c \in Shared}
  BY DEF Init
<1>2. \A c : K(c, s).w = SeedRoot(c, s) /\ K(c, s) = [atoms |-> K(c, s).atoms, w |-> K(c, s).w]
  OBVIOUS
<1> HIDE DEF K
<1>3. \A c \in Shared : /\ SeedRoot(c, s) \in Worlds
                        /\ SeedRoot(c, s).day = 0
                        /\ ~Resolved(SeedRoot(c, s))
                        /\ \A x \in Actor : /\ SeedRoot(c, s).past[x] = <<>>
                                            /\ SeedRoot(c, s).votes[x] = None
  BY <1>1, SeedRootType, EngineAssumption
<1>4. \A n \in nodes : /\ n = [atoms |-> n.atoms, w |-> n.w]
                       /\ n.w \in Worlds /\ n.w.day = 0 /\ ~Resolved(n.w)
                       /\ \A x \in Actor : n.w.past[x] = <<>> /\ n.w.votes[x] = None
  BY <1>1, <1>2, <1>3
<1>5. ASSUME NEW n \in nodes, NEW m \in nodes, NEW e \in m.w.queue PROVE n.w.day <= e.day
  <2>1. e \in Event BY <1>4, WorldFields DEF Worlds
  <2>2. e.day \in Nat BY <2>1 DEF Event, Request
  <2>3. QED BY <1>4, <2>2
<1>6. \A n \in nodes : AskedAgain(n.w)
  BY <1>4, WorldAssumption DEF AskedAgain
<1>7. \A n \in nodes : \A x \in Actor : Undecided(n.w, x)
  BY <1>4 DEF Undecided
<1>8. QED BY <1>4, <1>5, <1>6, <1>7 DEF WorldInv

LEMMA NodeShape ==
  ASSUME NEW day, Wave(day)
  PROVE  \A k \in nodes' : k = [atoms |-> k.atoms, w |-> k.w]
<1>1. PICK morning \in Mornings(day) :
        \E found : nodes' \in Kept(Coalesce(Evenings(morning, day, decisions', found)))
  BY DEF Wave
<1>2. \E found : nodes' \subseteq Coalesce(Evenings(morning, day, decisions', found))
  BY <1>1, KeptParts
<1>3. QED BY <1>2 DEF Coalesce

LEMMA WorldWave ==
  ASSUME EngineInv, NEW day \in Days, Wave(day)
  PROVE  WorldInv'
<1>1. \A k \in nodes' : k.atoms # {}
  BY WaveParts DEF EngineInv, AloneInv, WaveEffect, Partitions
<1>2. \A k \in nodes' : k.w \in Worlds /\ k.w.day = day /\ \A e \in k.w.queue : e.day > day
  BY <1>1, WaveWorlds
<1>3. ASSUME NEW n \in nodes', NEW m \in nodes', NEW e \in m.w.queue PROVE n.w.day <= e.day
  <2>1. n.w.day = day /\ e.day > day /\ m.w \in Worlds BY <1>2
  <2>2. m.w.queue \subseteq Event BY <2>1, WorldFields DEF Worlds
  <2>3. e.day \in Nat BY <2>2 DEF Event, Request
  <2>4. day \in Nat BY <1>1, WaveWorlds
  <2>5. QED BY <2>1, <2>3, <2>4
<1>4. ASSUME NEW k \in nodes', ~Resolved(k.w), k.w.day < Deadline PROVE AskedAgain(k.w)
  <2>1. PICK p \in k.atoms : TRUE BY <1>1
  <2>2. PICK n \in nodes :
          /\ n.w.day <= day /\ day \in Nat
          /\ Resolved(n.w) => k.w.outcome = n.w.outcome
          /\ day < Deadline /\ AskedAgain(n.w) => AskedAgain(k.w)
    BY <2>1, WaveWorlds
  <2>3. ~Resolved(n.w) BY <1>4, <2>2 DEF Resolved
  <2>4. n.w.day \in Nat BY WorldFields DEF EngineInv, WorldInv, Worlds
  <2>5. day < Deadline /\ n.w.day < Deadline BY <1>2, <1>4, <2>2, <2>4, WorldAssumption
  <2>6. AskedAgain(n.w) BY <2>3, <2>5 DEF EngineInv, WorldInv
  <2>7. QED BY <2>2, <2>5, <2>6
<1>5. ASSUME NEW k \in nodes', NEW p \in k.atoms, NEW x \in Actor, p.variant[x] = UnknownState
      PROVE  Undecided(k.w, x)
  <2>1. PICK n \in nodes :
          /\ p \in n.atoms
          /\ Resolved(n.w) => k.w.outcome = n.w.outcome
          /\ ~Resolved(n.w) /\ Resolved(k.w) => \A m \in Member : k.w.votes[m] # None
          /\ k.w.past[x] = n.w.past[x] /\ k.w.votes[x] = n.w.votes[x]
    BY <1>5, WaveWorlds
  <2>2. Undecided(n.w, x) BY <1>5, <2>1 DEF EngineInv, WorldInv
  <2>3. QED BY <2>1, <2>2 DEF Undecided, Resolved
<1>6. QED BY <1>2, <1>3, <1>4, <1>5, NodeShape DEF WorldInv

LEMMA EngineInit == Init => EngineInv
BY AloneInit, StateInit, WorldInit DEF EngineInv, Init

LEMMA EngineStep == ASSUME EngineInv, [Next]_vars PROVE EngineInv'
<1>1. AloneInv' /\ StateInv'
  BY AloneStep, StateStep DEF EngineInv, AloneInv
<1>2. status' \in {"running", "done", "exhausted"}
  BY DEF EngineInv, Next, Wave, Exhaust, Finish, vars
<1>3. WorldInv'
  <2>1. CASE \E day \in Days : Wave(day)
    BY <2>1, WorldWave
  <2>2. CASE \E day \in Days : Exhaust(day)
    <3>1. nodes' = {} BY <2>2 DEF Exhaust
    <3>2. QED BY <3>1 DEF WorldInv
  <2>3. CASE Finish \/ UNCHANGED vars
    <3>1. nodes' = nodes BY <2>3 DEF Finish, vars
    <3>2. QED BY <3>1 DEF EngineInv, WorldInv
  <2>4. QED BY <2>1, <2>2, <2>3 DEF Next
<1>4. QED BY <1>1, <1>2, <1>3 DEF EngineInv

LEMMA EngineHolds == Spec => []EngineInv
<1>1. EngineInv /\ [Next]_vars => EngineInv' BY EngineStep
<1>2. QED BY EngineInit, <1>1, PTL DEF Spec

\* Type correctness: whatever the answers of a day and the order in which
\* they are applied, every node holds a world and particles.
THEOREM TypeCorrect == Spec => []TypeOK
<1>1. ASSUME EngineInv PROVE TypeOK
  <2>1. \A n \in nodes : n.atoms \subseteq Particle /\ n.w \in World /\ n = [atoms |-> n.atoms, w |-> n.w]
    BY <1>1 DEF EngineInv, AloneInv, MassInv, Partitions, WorldInv, Worlds
  <2>2. nodes \subseteq Node
    BY <2>1 DEF Node
  <2>3. QED BY <1>1, <2>2 DEF TypeOK, EngineInv, AloneInv, MassInv, RegistryInv
<1>2. QED BY <1>1, EngineHolds, PTL

\* An unmodelled private state stays open (engine.py: _wave asks nobody in
\* it, _evaluate_terminal refuses a world with such a member): its actor
\* decides nothing, and a member's votes are missing for ever.
THEOREM UnknownHolds == Spec => []UnknownStaysOpen
<1>1. ASSUME EngineInv PROVE UnknownStaysOpen
  <2>1. SUFFICES ASSUME NEW n \in nodes, NEW x \in Actor, n.w.variant[x] = UnknownState
                 PROVE  Undecided(n.w, x)
    BY DEF UnknownStaysOpen, Undecided
  <2>2. PICK p : p \in n.atoms
    BY <1>1 DEF EngineInv, AloneInv, MassInv, Partitions
  <2>3. n.w.variant[x] \in {None, p.variant[x]}
    BY <1>1, <2>2 DEF EngineInv, StateInv, OwnStates
  <2>4. p.variant[x] = UnknownState
    BY <2>1, <2>3, WorldAssumption
  <2>5. QED BY <1>1, <2>2, <2>4 DEF EngineInv, WorldInv
<1>2. QED BY <1>1, EngineHolds, PTL

\* A required participant that waited last and has not voted is asked again
\* at the deadline, in every world that is open and has not reached it
\* (engine.py: _schedule_mandatory_terminal).
THEOREM WaitHolds == Spec => []WaitReopens
<1>1. EngineInv => WaitReopens
  BY DEF EngineInv, WorldInv, WaitReopens, AskedAgain
<1>2. QED BY <1>1, EngineHolds, PTL

\* A world that has its answer keeps it, and the votes and decisions it rests
\* on (engine.py: _apply_decision and _evaluate_terminal look at resolved).
THEOREM ResolvedHolds == Spec => ResolvedIsFinal
<1> DEFINE Same(n, m) == <<m.w.outcome, m.w.votes, m.w.past>> = <<n.w.outcome, n.w.votes, n.w.past>>
           Final == \A n \in nodes, m \in nodes' : Resolved(n.w) /\ n.atoms \cap m.atoms # {} => Same(n, m)
<1>1. ASSUME EngineInv, [Next]_vars PROVE Final
  <2>1. SUFFICES ASSUME NEW n \in nodes, NEW m \in nodes', Resolved(n.w), NEW p \in n.atoms, p \in m.atoms
                 PROVE  Same(n, m)
    OBVIOUS
  <2>2. \A k \in nodes : p \in k.atoms => k = n
    BY <1>1, <2>1 DEF EngineInv, AloneInv, MassInv, Partitions
  <2>3. CASE \E day \in Days : Wave(day)
    <3>1. PICK k \in nodes : p \in k.atoms /\ (Resolved(k.w) => Same(k, m))
      BY <1>1, <2>1, <2>3, WaveWorlds
    <3>2. QED BY <2>1, <2>2, <3>1
  <2>4. CASE \E day \in Days : Exhaust(day)
    BY <2>1, <2>4 DEF Exhaust
  <2>5. CASE Finish \/ UNCHANGED vars
    <3>1. m \in nodes BY <2>1, <2>5 DEF Finish, vars
    <3>2. QED BY <2>1, <2>2, <3>1
  <2>6. QED BY <1>1, <2>3, <2>4, <2>5 DEF Next
<1>2. EngineInv /\ [Next]_vars => [Final]_vars
  BY <1>1
<1>3. Spec => [][Final]_vars
  BY <1>2, EngineHolds, PTL DEF Spec
<1>4. QED BY <1>3 DEF ResolvedIsFinal

\* A wave empties its day: the engine goes through days in their order and
\* never twice through one, so that a run has no more than Horizon + 1 waves
\* (engine.py: run takes the earliest event day, _wave consumes its events).
THEOREM DaysPass ==
  Spec => [][\/ status' # "running"
             \/ \E day \in 0..Horizon :
                  /\ \A n \in nodes : n.w.day <= day
                  /\ \A d \in Days : day <= d
                  /\ \A n \in nodes' : n.w.day = day
                  /\ \A d \in Days' : day < d]_vars
<1>1. ASSUME EngineInv, NEW day \in Days, Wave(day)
      PROVE  /\ day \in 0..Horizon
             /\ \A n \in nodes : n.w.day <= day
             /\ \A d \in Days : day <= d
             /\ \A n \in nodes' : n.w.day = day
             /\ \A d \in Days' : day < d
  <2>1. day <= Horizon /\ \A d \in Days : day <= d
    BY <1>1 DEF Wave, NextDay
  <2>2. PICK m \in nodes : \E e \in m.w.queue : e.day = day
    BY DEF Days, OpenDays
  <2>3. PICK e \in m.w.queue : e.day = day
    BY <2>2
  <2>4. \A n \in nodes : n.w.day <= day
    BY <1>1, <2>3 DEF EngineInv, WorldInv
  <2>5. e \in Event
    BY <1>1, <2>3, WorldFields DEF EngineInv, WorldInv, Worlds
  <2>6. day \in Nat
    BY <2>3, <2>5 DEF Event, Request
  <2>7. \A k \in nodes' : k.atoms # {}
    BY <1>1, WaveParts DEF EngineInv, AloneInv, WaveEffect, Partitions
  <2>8. \A k \in nodes' : k.w.day = day /\ \A f \in k.w.queue : f.day > day
    BY <1>1, <2>7, WaveWorlds
  <2>9. \A d \in Days' : \E k \in nodes' : \E f \in k.w.queue : f.day = d
    BY DEF Days, OpenDays
  <2>10. \A d \in Days' : day < d
    BY <2>8, <2>9
  <2>11. day \in 0..Horizon
    BY <2>1, <2>6, EngineAssumption
  <2>12. QED BY <2>1, <2>4, <2>8, <2>10, <2>11
<1>2. EngineInv /\ [Next]_vars =>
        [\/ status' # "running"
         \/ \E day \in 0..Horizon :
              /\ \A n \in nodes : n.w.day <= day
              /\ \A d \in Days : day <= d
              /\ \A n \in nodes' : n.w.day = day
              /\ \A d \in Days' : day < d]_vars
  <2>1. SUFFICES ASSUME EngineInv, Next, status' = "running"
                 PROVE  \E day \in 0..Horizon :
                          /\ \A n \in nodes : n.w.day <= day
                          /\ \A d \in Days : day <= d
                          /\ \A n \in nodes' : n.w.day = day
                          /\ \A d \in Days' : day < d
    OBVIOUS
  <2>2. PICK day \in Days : Wave(day)
    BY <2>1 DEF Next, Finish, Exhaust
  <2>3. QED BY <1>1, <2>1, <2>2
<1>3. QED BY <1>2, EngineHolds, PTL DEF Spec
=============================================================================
