------------------------------ MODULE MCWorkflow ------------------------------
(* One turn with everything, beside one tagged entry and one key. *)
EXTENDS Workflow

CONSTANTS a, e1, k1, tag, access, other

One    == {a}
Tagged == [e \in Entries |-> IF e = e1 THEN {tag} ELSE {}]
Tag    == {{tag}}
Vector == {{"vector"}}
===============================================================================
