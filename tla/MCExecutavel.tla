---------------------------- MODULE MCExecutavel ----------------------------
(* Pages of sixteen bytes, two entries of a table.  Page 2 is the kernel's, *)
(* pages 3 to 6 are free and page 7 is the ISA hole.  The byte after the    *)
(* array is zero, as in the kernel that the Makefile links.                 *)
EXTENDS Executavel

MCMarcadas == [p \in 0..7 |-> CASE p \in {0, 1, 7} -> 127 [] p = 2 -> 1 [] OTHER -> 0]

Arq(texto, dados, bss, simbolos, tabTexto, tabDados) ==
    [texto |-> texto, dados |-> dados, bss |-> bss, simbolos |-> simbolos,
     tabTexto |-> tabTexto, tabDados |-> tabDados]

E(alvo, tamanho) == [alvo |-> alvo, tamanho |-> tamanho, relativo |-> FALSE]
R(alvo, tamanho) == [alvo |-> alvo, tamanho |-> tamanho, relativo |-> TRUE]

\* iguais: tables of one size, a pointer across two pages and a bss.
\* mistos: pointers of both widths, relative and overlapping.
\* outras: tables of two sizes.
\* simbolos: symbols over two pages and no table.
\* solto: one page and no table.
\* curta: a data table asked with the text table's remainder.
\* longa: a text table longer than the data table's block.
MCArquivo == [
    iguais   |-> Arq(18, 5, 10, 0, <<E(14, 2), E(3, 0)>>, <<E(1, 2), R(0, 3)>>),
    mistos   |-> Arq(9, 6, 0, 0, <<R(1, 1), R(2, 2)>>, <<E(0, 2), R(2, 1)>>),
    outras   |-> Arq(8, 8, 1, 3, <<E(0, 1), E(4, 2)>>, <<E(4, 2)>>),
    simbolos |-> Arq(6, 0, 12, 20, << >>, << >>),
    solto    |-> Arq(5, 0, 9, 0, << >>, << >>),
    curta    |-> Arq(8, 6, 0, 0, <<E(0, 2), E(4, 2)>>, <<E(0, 2), E(0, 0), E(2, 2)>>),
    longa    |-> Arq(8, 4, 0, 0, <<E(0, 2), E(4, 2), E(2, 1)>>, <<E(0, 2)>>)]

MCModulos == DOMAIN MCArquivo
=============================================================================
