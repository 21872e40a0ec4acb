-------------------------- MODULE MCTemporalBranch --------------------------
(***************************************************************************)
(* A small branch: a message and an actor that answers each other, a       *)
(* stochastic shock, a first-passage process that reads what the actor     *)
(* writes and whose firing is checked for persistence, a watch on what     *)
(* messages write, and an actor that may wait for the next message.        *)
(***************************************************************************)
EXTENDS TemporalBranch

MCLabel == {"message", "invoke", "shock", "crossing", "check", "seen"}
MCPath == {"inbox", "stance"}
MCReads == [l \in MCLabel |-> IF l = "seen" THEN {"inbox"} ELSE {}]
MCWrites == [l \in MCLabel |->
  CASE l = "message" -> {"inbox"} [] l = "invoke" -> {"stance"}
    [] l = "shock" -> {"inbox"} [] OTHER -> {}]
MCFollowUps == [l \in MCLabel |->
  CASE l = "message" -> {<<"invoke", 0>>}
    [] l = "invoke" -> {<<"message", 0>>, <<"message", 1>>}
    [] l = "crossing" -> {<<"check", 1>>}
    [] OTHER -> {}]
MCCrossing == [p \in {"settle"} |-> "crossing"]
MCCheck == [p \in {"settle"} |-> "check"]
MCProcessReads == [p \in {"settle"} |-> {"stance"}]
MCAwaits == [c \in {"reply"} |-> "message"]
MCWakes == [c \in {"reply"} |-> "invoke"]
MCWatchPath == [w \in {"watch"} |-> "inbox"]
MCWatchEvent == [w \in {"watch"} |-> "seen"]

At(l, t, d) == NewEvent(l, t, 0, d)
MessageAt(t) == At("message", t, {})

\* A plan's dated events, its hazard's first arrival and its first crossing;
\* a dependent of an event of its time; two events that depend on each other.
MCInitial ==
  { {MessageAt(0), At("shock", 1, {}), At("crossing", 1, {})},
    {MessageAt(1), At("shock", 1, {}), At("crossing", 2, {})},
    {MessageAt(1), At("seen", 1, {MessageAt(1).id}), At("crossing", 1, {})},
    {At("message", 1, {At("invoke", 1, {}).id}),
     At("invoke", 1, {MessageAt(1).id})} }

\* One message, to show what an actor that waits for a reply meets.
MCOneMessage == { {MessageAt(1)} }
=============================================================================
