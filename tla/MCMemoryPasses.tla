---------------------------- MODULE MCMemoryPasses ----------------------------
(* Small instances of MemoryPasses; the values are in the configurations. *)
EXTENDS MemoryPasses
=============================================================================
