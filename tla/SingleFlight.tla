---------------------------- MODULE SingleFlight ----------------------------
(***************************************************************************)
(* The decision cache and its single flight (lean_decision_cache.py), as   *)
(* the locked operations that threads call.  A template is known by the    *)
(* thread that stored it, an event by the thread that began the flight.    *)
(* Keys are decision-relevant contexts: equal contexts have equal keys.    *)
(* Hit counts and reuse records are left out.                              *)
(***************************************************************************)
EXTENDS Naturals, FiniteSets

CONSTANTS
  Thread,   \* each makes one decision
  Key,
  None

ASSUME FlightAssumption == None \notin Thread

VARIABLES
  templates,   \* _templates: who stored the template of a key
  flight,      \* _inflight: whose event is registered for a key
  rung         \* the threads whose event is set
flightVars == <<templates, flight, rung>>

FlightInit ==
  /\ templates = [k \in Key |-> None]
  /\ flight = [k \in Key |-> None]
  /\ rung = {}

Stored(k) == templates[k] # None

\* A mutant of Store: the last template wins.
StoreLast(t, k) == templates' = [templates EXCEPT ![k] = t]

\* The first template of a key is the one that stays.
Store(t, k) == templates' = [templates EXCEPT ![k] = IF @ = None THEN t ELSE @]

\* begin: whoever finds no flight leads one.
Lead(t, k) ==
  /\ flight[k] = None
  /\ flight' = [flight EXCEPT ![k] = t]

\* finish, under the lock: whatever flight the key has is removed.
Pop(k) == flight' = [flight EXCEPT ![k] = None]

\* A mutant of Ring: an event is set when none was registered, too.
RingAlways(e) == rung' = rung \cup {e}

\* finish, after the lock.
Ring(e) == rung' = rung \cup ({e} \ {None})
=============================================================================
