---------------------------- MODULE MCAttention ----------------------------
(***************************************************************************)
(* Two mails, a call that is about the same event as the first of them and *)
(* an item without a channel, whose check may take all four at once.       *)
(***************************************************************************)
EXTENDS Attention

MCChannelOf == [i \in Item |-> CASE i \in {"m1", "m2"} -> "mail"
                                 [] i = "c1" -> "call" [] OTHER -> ""]

MCEventOf == [i \in Item |-> IF i = "c1" THEN "m1" ELSE i]

MCRank == [i \in Item |-> CASE i = "m2" -> 1 [] i = "c1" -> 2
                            [] i = "g1" -> 3 [] OTHER -> 4]
=============================================================================
