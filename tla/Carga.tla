------------------------------- MODULE Carga -------------------------------
(***************************************************************************)
(* What a chain of loaders promises.  Three files are brought to memory in  *)
(* turn, each by the program before it; the next one runs only with the     *)
(* file whole and exactly as it is on the disk; and a loader that cannot go *)
(* on stops, it never jumps.                                                *)
(***************************************************************************)
EXTENDS Integers, Sequences

VARIABLES
    arquivos,   \* the contents of the three files, fixed
    serve,      \* whether the disk is one that the promise covers, fixed
    etapa,      \* the file being loaded, 4 when the last program runs
    carregado,  \* what is in memory of each file
    parado      \* the loader has stopped

Init ==
    /\ etapa = 1
    /\ carregado = [e \in 1..3 |-> <<>>]
    /\ parado = FALSE

\* A longer beginning of the current file is in memory.
Le ==
    /\ serve /\ ~ parado /\ etapa <= 3
    /\ \E n \in (Len(carregado[etapa]) + 1)..Len(arquivos[etapa]) :
           carregado' = [carregado EXCEPT ![etapa] = SubSeq(arquivos[etapa], 1, n)]
    /\ UNCHANGED <<arquivos, serve, etapa, parado>>

\* The whole of it: the next loader runs.
Passa ==
    /\ serve /\ ~ parado /\ etapa <= 3
    /\ carregado[etapa] = arquivos[etapa]
    /\ etapa' = etapa + 1
    /\ UNCHANGED <<arquivos, serve, carregado, parado>>

Para ==
    /\ serve /\ ~ parado /\ parado' = TRUE
    /\ UNCHANGED <<arquivos, serve, etapa, carregado>>

\* No promise about a disk that breaks the assumptions.
Qualquer == ~ serve /\ UNCHANGED <<arquivos, serve>>

Next == Le \/ Passa \/ Para \/ Qualquer

Spec == Init /\ [][Next]_<<arquivos, serve, etapa, carregado, parado>>
=============================================================================
