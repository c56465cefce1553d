----------------------------- MODULE MCPaFixed -----------------------------
(* Three pages of two atoms: the null atom's page, one between, the last. *)
EXTENDS PaFixed
=============================================================================
