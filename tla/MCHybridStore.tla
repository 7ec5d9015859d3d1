---------------------------- MODULE MCHybridStore ----------------------------
(* Small instances of HybridStore: appenders that may be cancelled, and a cold
   getter; the values are in the configurations. *)
EXTENDS HybridStore
=============================================================================
