----------------------------- MODULE MCPaMmap -----------------------------
(* PaMmap on a small segment: atoms of 2 bytes, growth by 2 atoms. *)
EXTENDS PaMmap

MCReqSizes == {0, 1, 3, 5}
=============================================================================
