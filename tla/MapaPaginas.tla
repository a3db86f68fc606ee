---------------------------- MODULE MapaPaginas ----------------------------
(***************************************************************************)
(* The page map of Nucleo/Memoria.c as pure operators.                     *)
(*                                                                         *)
(* _Memoria_PaginasBaixas holds one byte per 4096-byte page of the first   *)
(* 16 MiB: 0 when the page is free, otherwise the owner's process number   *)
(* in the low 7 bits, with bit 0x80 set on the first page of a block.  The *)
(* array has QtdPaginas cells, but the loops of AlocaPaginaFisica,         *)
(* _Memoria_PB_SomaEmUso and _Memoria_PB_Soma run to i <= QtdPaginas and   *)
(* so also touch the byte that the linker put after it.  A map is          *)
(* therefore a function on 0..QtdPaginas; the last cell is that byte.      *)
(***************************************************************************)
EXTENDS Naturals, FiniteSets

CONSTANTS
    QtdPaginas,     \* MEMORIA_PAGINASBAIXAS: cells of the array (4096)
    Fronteira       \* first page of the normal search (256, the 1 MiB line)

ASSUME GeometriaAssumption ==
    /\ QtdPaginas \in Nat
    /\ Fronteira \in 1..(QtdPaginas - 1)

-----------------------------------------------------------------------------

VAZIO     == 0
NUCLEO    == 1
RESERVADO == 127

\* Processo() marks numbers 0 and 127 invalid; uint8_t with bit 0x80 is not a number.
Numeros == 1..126

Byte    == 0..255
Paginas == 0..(QtdPaginas - 1)      \* the array
Celulas == 0..QtdPaginas            \* the array and the byte after it
Mapas   == [Celulas -> Byte]

\* What Memoria() can leave in the array: page 0 (the BIOS area) is never free.
MapasDoInicio == {m \in [Paginas -> {VAZIO, NUCLEO, RESERVADO}] : m[0] # VAZIO}

\* The array after the boot, followed by a byte that is not its own.
ComVizinho(m, vizinho) == [p \in Celulas |-> IF p \in Paginas THEN m[p] ELSE vizinho]

\* A wrong version of Dono: the owner keeps bit 0x80.
ErroDono(b) == b

Dono(b)     == b % 128              \* b & 0x7f
Cabeca(b)   == Dono(b) + 128        \* b | 0x80
EhCabeca(b) == b >= 128             \* b & 0x80

-----------------------------------------------------------------------------
(* Allocation.                                                             *)

\* min..max of the search: special equipment (ISA DMA) gets the first MiB.
Faixa(especial) == IF especial THEN 0..(Fronteira - 1) ELSE Fronteira..QtdPaginas

\* A wrong version of Tamanho: the test comes before the page is counted.
ErroTamanho(qtd) == qtd

\* The test qtd <= encontrado comes after encontrado = 1: zero pages give one.
Tamanho(qtd) == IF qtd = 0 THEN 1 ELSE qtd

Bloco(inicio, tam) == inicio..(inicio + tam - 1)

\* A block as its holder knows it.
BlocosDe(processos) == [inicio : Celulas, tam : Nat \ {0}, dono : processos]
PaginasDe(b) == Bloco(b.inicio, b.tam)

\* A wrong version of Encaixes: only the first page is tested.
ErroSoPrimeira(m, especial, tam) ==
    {i \in Faixa(especial) : i + tam - 1 \in Faixa(especial) /\ m[i] = VAZIO}

\* Where a block of tam free pages can start.
Encaixes(m, especial, tam) ==
    {i \in Faixa(especial) :
        /\ i + tam - 1 \in Faixa(especial)
        /\ \A p \in Bloco(i, tam) : m[p] = VAZIO}

\* The scan stops at the first place that fits.
PrimeiroEncaixe(m, especial, tam) ==
    CHOOSE i \in Encaixes(m, especial, tam) :
        \A k \in Encaixes(m, especial, tam) : i <= k

\* A wrong version of MarcaBloco: one page too many.
ErroMarcaUmaMais(m, inicio, tam, processo) ==
    [p \in DOMAIN m |->
        IF p \notin Bloco(inicio, tam + 1) THEN m[p]
        ELSE IF p = inicio THEN Cabeca(processo) ELSE Dono(processo)]

\* The marking loop: the head bit on the first page only.
MarcaBloco(m, inicio, tam, processo) ==
    [p \in DOMAIN m |->
        IF p \notin Bloco(inicio, tam) THEN m[p]
        ELSE IF p = inicio THEN Cabeca(processo) ELSE Dono(processo)]

-----------------------------------------------------------------------------
(* Release.  The cell is cleared before its 0x80 bit is tested, so the test *)
(* always sees an empty cell and the loop ends on the first page.  A page   *)
(* beyond the array does not enter the loop.                                *)

\* A wrong version of LiberaPagina: the page after it is released too.
ErroLiberaDuas(m, pagina) ==
    [p \in DOMAIN m |-> IF p \in {pagina, pagina + 1} \cap Paginas THEN VAZIO ELSE m[p]]

LiberaPagina(m, pagina) ==
    IF pagina \in Paginas THEN [m EXCEPT ![pagina] = VAZIO] ELSE m

-----------------------------------------------------------------------------
(* Counters, in pages.                                                     *)

SomaEmUso(m, em_uso) == Cardinality({p \in Celulas : (m[p] # VAZIO) = em_uso})

Soma(m, processo) == Cardinality({p \in Celulas : Dono(m[p]) = Dono(processo)})
=============================================================================
