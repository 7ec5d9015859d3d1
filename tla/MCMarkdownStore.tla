--------------------------- MODULE MCMarkdownStore ---------------------------
(* Small instances of MarkdownStore. *)
EXTENDS MarkdownStore
=============================================================================
