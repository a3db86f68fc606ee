------------------------------ MODULE Memoria ------------------------------
(***************************************************************************)
(* What the physical page allocator of Nucleo/Memoria.c does, one call at  *)
(* a time, for callers that follow its interface: they ask for blocks and  *)
(* give back, once, the address they were given.                           *)
(*                                                                         *)
(* paginas and sujas are the machine's state.  blocos and vazadas are      *)
(* history: the blocks the callers still hold, and the pages that no       *)
(* caller holds and the allocator still counts as used.                    *)
(***************************************************************************)
EXTENDS MapaPaginas

CONSTANTS
    Marcadas,       \* the map Memoria() leaves at boot
    Vizinhos,       \* values the byte after the array may have
    Processos,      \* process numbers callers allocate for
    Qtds            \* page counts callers ask for

ASSUME MemoriaAssumption ==
    /\ Marcadas \in MapasDoInicio
    /\ Vizinhos \subseteq Byte
    /\ Processos \subseteq Numeros
    /\ Qtds \subseteq Nat

VARIABLES
    paginas,        \* _Memoria_PaginasBaixas and the byte after it
    sujas,          \* pages whose 4096 bytes are not all zero
    blocos,         \* blocks in the callers' hands
    vazadas         \* pages in use that belong to no block, with who lost them

vars == <<paginas, sujas, blocos, vazadas>>

-----------------------------------------------------------------------------

Blocos == BlocosDe(Processos)

EmMaos    == UNION {PaginasDe(b) : b \in blocos}
Perdidas  == {v.pagina : v \in vazadas}
Reservadas == {p \in Paginas : Marcadas[p] # VAZIO}

\* The pages of b that LiberaPaginaFisica leaves marked.
Resto(b) == PaginasDe(b) \ ({b.inicio} \cap Paginas)

TypeOK ==
    /\ paginas \in Mapas
    /\ sujas \subseteq Celulas
    /\ blocos \subseteq Blocos
    /\ vazadas \subseteq [pagina : Celulas, dono : Processos]

Init ==
    /\ \E v \in Vizinhos : paginas = ComVizinho(Marcadas, v)
    /\ sujas = Celulas
    /\ blocos = {}
    /\ vazadas = {}

-----------------------------------------------------------------------------

\* A wrong version of Aloca: the block is not zeroed.
ErroSemZerar(processo, especial, qtd) ==
    LET tam    == Tamanho(qtd)
        inicio == PrimeiroEncaixe(paginas, especial, tam)
    IN  /\ Encaixes(paginas, especial, tam) # {}
        /\ paginas' = MarcaBloco(paginas, inicio, tam, processo)
        /\ blocos' = blocos \cup {[inicio |-> inicio, tam |-> tam, dono |-> processo]}
        /\ UNCHANGED <<sujas, vazadas>>

\* AlocaPaginaFisica finds room: marks the block, zeroes it, returns it.
Aloca(processo, especial, qtd) ==
    LET tam    == Tamanho(qtd)
        inicio == PrimeiroEncaixe(paginas, especial, tam)
    IN  /\ Encaixes(paginas, especial, tam) # {}
        /\ paginas' = MarcaBloco(paginas, inicio, tam, processo)
        /\ sujas' = sujas \ Bloco(inicio, tam)
        /\ blocos' = blocos \cup {[inicio |-> inicio, tam |-> tam, dono |-> processo]}
        /\ UNCHANGED vazadas

\* AlocaPaginaFisica finds no room and returns 0.
AlocaFalha(especial, qtd) ==
    /\ Encaixes(paginas, especial, Tamanho(qtd)) = {}
    /\ UNCHANGED vars

\* LiberaPaginaFisica, given the address of a block the caller holds.
Libera(b) ==
    /\ paginas' = LiberaPagina(paginas, b.inicio)
    /\ blocos' = blocos \ {b}
    /\ vazadas' = vazadas \cup {[pagina |-> p, dono |-> b.dono] : p \in Resto(b)}
    /\ UNCHANGED sujas

\* The holder of a block writes on it.
Usa(b, p) ==
    /\ p \in PaginasDe(b)
    /\ sujas' = sujas \cup {p}
    /\ UNCHANGED <<paginas, blocos, vazadas>>

Next ==
    \/ \E processo \in Processos, especial \in BOOLEAN, qtd \in Qtds :
        Aloca(processo, especial, qtd)
    \/ \E especial \in BOOLEAN, qtd \in Qtds : AlocaFalha(especial, qtd)
    \/ \E b \in blocos : Libera(b)
    \/ \E b \in blocos : \E p \in PaginasDe(b) : Usa(b, p)

Spec == Init /\ [][Next]_vars

-----------------------------------------------------------------------------
(* Safety.                                                                 *)

\* Every block in a caller's hands is marked as the allocator left it: the
\* head bit on its first page, the owner alone on the others.
BlocosMarcados ==
    \A b \in blocos :
        /\ PaginasDe(b) \subseteq Celulas
        /\ paginas[b.inicio] = Cabeca(b.dono)
        /\ \A p \in PaginasDe(b) \ {b.inicio} : paginas[p] = Dono(b.dono)

\* AlocaPaginaFisica never gives one page to two holders.
BlocosDisjuntos ==
    \A a, b \in blocos : a # b => PaginasDe(a) \cap PaginasDe(b) = {}

\* AlocaPaginaFisica returns 0 for "no room" and primeiro * 4096 otherwise: the
\* two are never confused, since no caller is ever given page 0.
ZeroEhFalha == \A b \in blocos : b.inicio # 0

\* What the boot reserved (BIOS area, kernel, image, the 15-16 MiB hole) stays
\* reserved whatever callers allocate and release.
ReservasIntactas ==
    \A p \in Paginas : Marcadas[p] # VAZIO => paginas[p] = Marcadas[p]

\* Every page in use is accounted for once: reserved at boot, in the hands of a
\* caller, or lost because LiberaPaginaFisica gives back only a block's first
\* page.  A lost page is never in use by anyone again.
Contabilidade ==
    /\ {p \in Paginas : paginas[p] # VAZIO} =
           (Reservadas \cup EmMaos \cup Perdidas) \cap Paginas
    /\ Reservadas \cap (EmMaos \cup Perdidas) = {}
    /\ EmMaos \cap Perdidas = {}

\* Memoria_Processo charges a process with the pages it holds and the pages it
\* lost, whatever the others do; the byte after the array may add one more.
ContaDoProcesso ==
    \A processo \in Processos \ {NUCLEO} :
        LET suas == (UNION {PaginasDe(b) : b \in {c \in blocos : c.dono = processo}})
                    \cup {v.pagina : v \in {w \in vazadas : w.dono = processo}}
            extra == {p \in {QtdPaginas} \ suas : Dono(paginas[p]) = processo}
        IN  Soma(paginas, processo) = Cardinality(suas \cup extra)

\* A page in use is never given to someone else: it changes only by becoming
\* free, and only when the holder of the block it heads releases that block.
PaginaSoMudaLiberada ==
    [][\A p \in Celulas :
          paginas[p] # VAZIO /\ paginas'[p] # paginas[p] =>
              /\ paginas'[p] = VAZIO
              /\ \E b \in blocos : b.inicio = p /\ b \notin blocos']_vars

\* A block is handed out with all its bytes zero, and zeroing it wipes no page
\* that was in use.
EntregaZerada ==
    [][/\ \A b \in blocos' \ blocos : PaginasDe(b) \cap sujas' = {}
       /\ \A p \in sujas \ sujas' : paginas[p] = VAZIO]_vars
=============================================================================
