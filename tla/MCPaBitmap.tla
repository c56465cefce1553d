----------------------------- MODULE MCPaBitmap -----------------------------
(***************************************************************************)
(* PaBitmap with units of 2 bits, chunks of 2 units and bitmaps of 4       *)
(* chunks: numbers 0 .. 15, of which 12 .. 15 are the last chunk.          *)
(***************************************************************************)
EXTENDS PaBitmap

\* Both ends of units and chunks, an untouched chunk in between, and a number
\* out of range; nothing in the last chunk.
MCSetNums == {0, 3, 4, 11, 16}

\* Searches start at numbers that end a unit.
MCStarts == {1, 3}
=============================================================================
