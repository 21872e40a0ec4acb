--------------------------- MODULE AnswerRegister ---------------------------
(***************************************************************************)
(* What the absorption of a branch promises (the docstrings of             *)
(* event_time.py and world_dynamics.py): a register that is written once,  *)
(* with the time of the writing.  A mode whose criterion must hold for     *)
(* some time is claimed first by a source; the claim becomes the answer at *)
(* the end of that time, and only when nothing withdrew it before.  Claims *)
(* are known by their modes: one whose mode other sources claim too may be *)
(* settled for another's, so before its time but never after.              *)
(* FirstPassage, with its operators, checks and monitor, implements it.    *)
(***************************************************************************)
EXTENDS Naturals

CONSTANTS
  NoMode,
  Source,
  ModeOf,       \* Source -> the mode it absorbs into
  Hold          \* Source -> how long its end-state must hold to be the answer

VARIABLES
  now,
  claim, since, \* the mode that is claimed and when it was
  answer, at    \* the answer and when it was written

registerVars == <<now, claim, since, answer, at>>

Init ==
  /\ now = 0
  /\ claim = NoMode /\ since = 0
  /\ answer = NoMode /\ at = 0

\* The end-state of s is reached; it has to hold.
Claim(s) ==
  /\ answer = NoMode /\ claim = NoMode
  /\ Hold[s] > 0
  /\ claim' = ModeOf[s] /\ since' = now'
  /\ UNCHANGED <<answer, at>>

\* What was claimed does not hold any more.
Withdraw ==
  /\ claim # NoMode
  /\ claim' = NoMode /\ since' = 0
  /\ UNCHANGED <<answer, at>>

\* No other source claims the mode of s.
Sole(s) ==
  \A t \in Source : ModeOf[t] = ModeOf[s] /\ Hold[t] > 0 => t = s

\* What s claims has held for as long as it had to.
Settle(s) ==
  /\ answer = NoMode /\ claim = ModeOf[s] /\ Hold[s] > 0
  /\ now' <= since + Hold[s]
  /\ Sole(s) => now' = since + Hold[s]
  /\ answer' = claim /\ at' = now'
  /\ claim' = NoMode /\ since' = 0

\* An end-state that need not hold is the answer at once.
Write(s) ==
  /\ answer = NoMode
  /\ Hold[s] = 0
  /\ answer' = ModeOf[s] /\ at' = now'
  /\ UNCHANGED <<claim, since>>

\* Time passes.
Pass == UNCHANGED <<claim, since, answer, at>>

Next ==
  /\ now' \in Nat /\ now' >= now
  /\ \/ \E s \in Source : Claim(s) \/ Write(s) \/ Settle(s)
     \/ Withdraw \/ Pass

Spec == Init /\ [][Next]_registerVars
=============================================================================
