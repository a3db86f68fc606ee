----------------------------- MODULE MCConsole -----------------------------
(* A screen of two lines of two columns, every sequence of characters, and *)
(* interrupts whose message is a letter and a line feed.                   *)
EXTENDS Console

MCCaracteres == {"a", "n", BARRA, LF, CR}
MCAviso == <<"a", LF>>
=============================================================================
