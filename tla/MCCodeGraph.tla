------------------------------ MODULE MCCodeGraph ------------------------------
(* A streamed turn, another turn, a refresh, and the indexing at the start. *)
EXTENDS CodeGraph
CONSTANTS a, b, r, x
================================================================================
