------------------------------- MODULE MCServer -------------------------------
(***************************************************************************)
(* One integration with a reading and a writing tool, and the code-graph   *)
(* layer, over up to three framework instances.                            *)
(***************************************************************************)
EXTENDS Server, TLC

CONSTANTS a, b, main, mail, r1, r2, c1, c2, c3, g1, g2, g3, g4

TwoReqs   == {a, b}
MC_Clients == {c1, c2, c3, g1, g2, g3, g4}
MC_Reads  == mail :> {"read_mail"}
MC_Writes == mail :> {"send_mail"}
===============================================================================
