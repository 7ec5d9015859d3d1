---------------------------- MODULE MCMemoryArea ----------------------------
(* Small instances of MemoryArea; the values are in the configurations. *)
EXTENDS MemoryArea
=============================================================================
