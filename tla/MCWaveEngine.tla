---------------------------- MODULE MCWaveEngine ----------------------------
(***************************************************************************)
(* Two members, a and b, and a pruned actor p.  What is uncertain depends  *)
(* on the shared world: a's state under "tense", b's, which may be one     *)
(* nobody modelled, under "calm".                                          *)
(***************************************************************************)
EXTENDS WaveEngine

R(act, fact, vote, abstains, action) ==
  [act |-> act, fact |-> fact, vote |-> vote, abstains |-> abstains, action |-> action]

MCReply ==
  { R("gather_information", "fact", "none", FALSE, "pass"),
    R("act", "none", "yes", TRUE, "more"),
    R("act", "none", "none", FALSE, "novel") }

\* The ballot of the blueprint, and what a novel action may be compiled to:
\* a vote for no, which is announced to a and p.
Ballots == [actor_ids |-> {"a", "b"}, targets |-> {}, options |-> <<"yes", "no">>]
Announced(x) == [actor_ids |-> {x}, targets |-> {"a", "p"}, options |-> <<"no">>]

MCTemplate == {Ballots} \cup {Announced(x) : x \in Actor}

MCBlueprint == [a \in Action |-> IF a = "pass" THEN Ballots ELSE NoTemplate]

MCOptionOrder == [o \in Option |-> IF o = "no" THEN 0 ELSE 1]

MCActorOrder == [x \in {"a", "b", "p"} |-> CASE x = "a" -> 1 [] x = "b" -> 2 [] OTHER -> 3]

MCSupport == [c \in Shared |-> [x \in Actor |->
  CASE x = "p" -> {"none"}
    [] x = "a" -> IF c = "calm" THEN {"a1"} ELSE {"a1", "a2"}
    [] OTHER -> IF c = "calm" THEN {"b1", "unknown"} ELSE {"b1"}]]

Trigger(x, d) == [day |-> d, kind |-> "trigger", actor |-> x]

MCSchedule ==
  { [triggers |-> {Trigger("a", 1), Trigger("b", 2)}, anchors |-> {}, evaluation |-> 3],
    [triggers |-> {Trigger("b", 1), Trigger("b", 4), Trigger("b", 5)}, anchors |-> {}, evaluation |-> 3],
    [triggers |-> {Trigger("a", 5)}, anchors |-> {}, evaluation |-> 1],
    [triggers |-> {Trigger("b", 1), Trigger("a", 3)}, anchors |-> {2}, evaluation |-> 3],
    [triggers |-> {Trigger("a", 3), Trigger("b", 3)}, anchors |-> {}, evaluation |-> 3] }

MCWeight == [p \in Particle |-> IF p.shared = "calm" THEN 2 ELSE 1]
=============================================================================
