-------------------------- MODULE MCLeanDecisions --------------------------
(***************************************************************************)
(* Four branch threads of the controller, all in one context;              *)
(* a wave of four contexts on a pool of two workers.                       *)
(***************************************************************************)
EXTENDS LeanDecisions

MCOrder == [t \in Thread |-> CASE t = "t1" -> 1 [] t = "t2" -> 2 [] t = "t3" -> 3 [] OTHER -> 4]

MCContextOf == [r \in {"controller", "wave"} |-> [t \in Thread |->
  IF r = "wave" THEN CASE t = "t1" -> "k1" [] t = "t2" -> "k2" [] t = "t3" -> "k3" [] OTHER -> "k4"
  ELSE "k1"]]
=============================================================================
