----------------------------- MODULE MCMemoria -----------------------------
(* Memoria on 7 pages: page 0 and 1 below the 1 MiB line, the kernel on     *)
(* page 2, the ISA hole on page 6, and 7 the byte after the array.          *)
EXTENDS Memoria

MCMarcadas == [p \in 0..6 |-> CASE p \in {0, 6} -> 127 [] p = 2 -> 1 [] OTHER -> 0]
=============================================================================
