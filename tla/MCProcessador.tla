--------------------------- MODULE MCProcessador ---------------------------
(* The timer, a line of the master and one of the slave with handlers of   *)
(* modules, and the two lines of spurious interrupts.                      *)
EXTENDS Processador

MCIrqs == {0, 1, 7, 8, 15}
MCRegistraveis == {1, 8}
=============================================================================
