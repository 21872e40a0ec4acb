--------------------------- MODULE MCFirstPassage ---------------------------
(***************************************************************************)
(* Two processes whose end-states must hold, two dated facts of one kind   *)
(* whose end-states must hold too and share a mode, a fact that absorbs at *)
(* once, a vote, a mechanism that breaks a provisional state and another   *)
(* event, at any times.                                                    *)
(***************************************************************************)
EXTENDS FirstPassage

MCWindow == [s \in {"p", "q", "truce", "pact", "ruling"} |->
  CASE s \in {"p", "truce"} -> 2 [] s \in {"q", "pact"} -> 1 [] OTHER -> 0]

MCModeOf == [s \in {"p", "q", "truce", "pact", "ruling", "vote"} |->
  IF s \in {"truce", "pact"} THEN "entailed" ELSE s]

Ev(s, t) == [src |-> s, at |-> t, gen |-> 0, check |-> FALSE]

\* Both crossings and one dated fact, or two of one kind, each at any time; a
\* vote, a break and another event at some.
MCInitial ==
  { {Ev("p", t), Ev("q", u), Ev("break", w)} \cup facts \cup extra :
      t \in 1..3, u \in 1..4, w \in 2..4,
      facts \in UNION {{{Ev("truce", v), Ev("pact", v + 1)}, {Ev("ruling", v)}} :
                        v \in 1..4},
      extra \in {{}, {Ev("vote", 3)}, {Ev("other", 2), Ev("vote", 4)}} }

\* One crossing and another event after it.
MCRepaired == { {Ev("p", 1), Ev("other", 4)}, {Ev("vote", 1), Ev("other", 2)} }
=============================================================================
