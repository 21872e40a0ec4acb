--------------------------- MODULE ParticleWorlds ---------------------------
(***************************************************************************)
(* What the weighted nodes of the wave engine stand for: every particle,   *)
(* that is a shared world and a full choice of private states, is simulated *)
(* alone, all with the same answer for the same context (worlds.py claims  *)
(* an exact merge, engine.py one call per distinct context).  A particle   *)
(* may be dropped at the end of a wave, as truncated mass.                 *)
(*                                                                         *)
(* Nothing is promised once the run has gone astray: when a world has      *)
(* promoted a pruned actor, which the engine does for one node alone; when *)
(* an action had to be compiled, which may succeed for one node and fail   *)
(* for another with the same context, and changes what the action does in  *)
(* all later ones; or when the compute budget has ended the run.           *)
(*                                                                         *)
(* What happens in one world is a parameter (CausalWorld).                 *)
(***************************************************************************)
EXTENDS Naturals, Functions

CONSTANTS
  Particle, Schedule, Reply, NoReply,
  SeedRoot(_, _),      \* the world of a particle under a schedule
  OpenDays(_),         \* the days on which a world that is not resolved has events
  Morning(_, _, _, _), \* a world once its messages are delivered and its states assigned
  Contexts(_, _),      \* the contexts in which it asks for decisions
  Evening(_, _, _)     \* the world at the end of the day

VARIABLES world, decisions, astray
particleVars == <<world, decisions, astray>>

ParticleInit ==
  /\ \E s \in Schedule : world = [p \in Particle |-> SeedRoot(p.shared, s)]
  /\ decisions = <<>>
  /\ ~astray

\* The next day of every particle that is alive, and the end of some.
ParticleWave(day) ==
  LET now == world
      morning == [p \in DOMAIN now |-> Morning(now[p], day, {}, p.variant)]
      evening == [p \in DOMAIN now |-> Evening(morning[p], day, decisions')]
  IN /\ \A p \in DOMAIN now : \A d \in OpenDays(now[p]) : day <= d
     /\ decisions' \in [UNION {Contexts(morning[p], day) : p \in DOMAIN now} -> Reply \cup {NoReply}]
     /\ \E live \in SUBSET DOMAIN now : world' = Restrict(evening, live)

ParticleNext ==
  \/ ~astray /\ ~astray' /\ \E p \in DOMAIN world : \E day \in OpenDays(world[p]) : ParticleWave(day)
  \/ astray'

ParticleSpec == ParticleInit /\ [][ParticleNext]_particleVars
=============================================================================
