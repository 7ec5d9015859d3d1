---------------------------- MODULE MCProjectZones ----------------------------
(* Three requests on one project or on none: one that edits, one that may work
   on the project as a whole, and one of either kind. *)
EXTENDS ProjectZones
CONSTANTS t1, t2, t3, p, d, f
MCSafe == [i \in {p, d} |-> i]
MCOps ==
  [t \in {t1, t2, t3} |->
     CASE t = t1 -> {"removeFile", "remember"}
       [] t = t2 -> {"infer", "goals", "clear"}
       [] t = t3 -> {"describe", "addFile", "clear", "register", "list"}]
================================================================================
