------------------------------ MODULE MCStdioMCP ------------------------------
(* Two callers, of which one may be cancelled, and the owner of the client. *)
EXTENDS StdioMCP

CONSTANTS owner, noTask, a, b

Two == {a, b}
One == {a}
=============================================================================
