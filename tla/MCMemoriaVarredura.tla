------------------------- MODULE MCMemoriaVarredura -------------------------
(* MemoriaVarredura on 7 pages, with a free page, a run of three and the    *)
(* byte after the array for the loops to find.                              *)
EXTENDS MemoriaVarredura

MCMarcadas == [p \in 0..6 |-> CASE p \in {0, 6} -> 127 [] p = 3 -> 1 [] OTHER -> 0]
=============================================================================
