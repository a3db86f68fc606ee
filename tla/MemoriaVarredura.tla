-------------------------- MODULE MemoriaVarredura --------------------------
(***************************************************************************)
(* AlocaPaginaFisica and LiberaPaginaFisica statement by statement: the    *)
(* search loop with its four locals, the marking loop inside it, and the   *)
(* release loop.  One call runs at a time (the kernel has one thread and   *)
(* nothing that interrupts it allocates), so between calls the module is   *)
(* in pc = "fora".                                                         *)
(*                                                                         *)
(* The module implements Memoria: a call takes effect when the search      *)
(* decides (the test qtd <= encontrado at line 118), and the marking loop  *)
(* that follows only completes what the refinement mapping already shows.  *)
(***************************************************************************)
EXTENDS MapaPaginas

CONSTANTS Marcadas, Vizinhos, Processos, Qtds     \* as in Memoria

ASSUME VarreduraAssumption ==
    /\ Marcadas \in MapasDoInicio
    /\ Vizinhos \subseteq Byte
    /\ Processos \subseteq Numeros
    /\ Qtds \subseteq Nat

VARIABLES
    paginas, sujas, blocos, vazadas,    \* as in Memoria
    pc,                                 \* "fora", "busca", "marca", "libera"
    chamada,                            \* arguments of the call under way
    i, primeiro, ultimo, encontrado, validando, j   \* locals of the call

locais == <<i, primeiro, ultimo, encontrado, validando, j>>
estado == <<paginas, sujas, blocos, vazadas>>
vars   == <<estado, pc, chamada, locais>>

-----------------------------------------------------------------------------

Blocos == BlocosDe(Processos)

Pedidos == [processo : Processos, especial : BOOLEAN, qtd : Qtds]

Nenhuma == [nenhuma |-> TRUE]

\* min and max of lines 95-101.
Minimo(especial) == IF especial THEN 0 ELSE Fronteira
Maximo(especial) == IF especial THEN Fronteira - 1 ELSE QtdPaginas

Init ==
    /\ \E v \in Vizinhos : paginas = ComVizinho(Marcadas, v)
    /\ sujas = Celulas
    /\ blocos = {}
    /\ vazadas = {}
    /\ pc = "fora"
    /\ chamada = Nenhuma
    /\ i = 0 /\ primeiro = 0 /\ ultimo = 0 /\ encontrado = 0 /\ j = 0
    /\ validando = FALSE

\* A return: the arguments and the locals are gone.
Retorna ==
    /\ pc' = "fora"
    /\ chamada' = Nenhuma
    /\ i' = 0 /\ primeiro' = 0 /\ ultimo' = 0 /\ encontrado' = 0 /\ j' = 0
    /\ validando' = FALSE

-----------------------------------------------------------------------------
(* AlocaPaginaFisica.                                                      *)

\* Lines 91-102: the locals and the first index.
ChamaAloca(pedido) ==
    /\ pc = "fora"
    /\ chamada' = pedido
    /\ i' = Minimo(pedido.especial)
    /\ primeiro' = 0 /\ ultimo' = 0 /\ encontrado' = 0
    /\ validando' = FALSE
    /\ pc' = "busca"
    /\ UNCHANGED <<estado, j>>

\* Line 118, after this page extended the run to encontrado pages.
Decide(inicio, fim, total) ==
    /\ primeiro' = inicio
    /\ ultimo' = fim
    /\ encontrado' = total
    /\ validando' = TRUE
    /\ IF chamada.qtd <= total
         THEN /\ pc' = "marca"
              /\ j' = inicio
              /\ blocos' = blocos \cup {[inicio |-> inicio, tam |-> Tamanho(chamada.qtd),
                                         dono |-> chamada.processo]}
              /\ UNCHANGED i
         ELSE /\ i' = i + 1
              /\ UNCHANGED <<pc, j, blocos>>
    /\ UNCHANGED <<paginas, sujas, vazadas, chamada>>

\* Lines 106-110: a free page after another.
Estende ==
    /\ pc = "busca" /\ i <= Maximo(chamada.especial)
    /\ paginas[i] = VAZIO
    /\ validando
    /\ Decide(primeiro, i, encontrado + 1)

\* Lines 111-117: the first free page of a run.
Comeca ==
    /\ pc = "busca" /\ i <= Maximo(chamada.especial)
    /\ paginas[i] = VAZIO
    /\ ~validando
    /\ Decide(i, i, 1)

\* Wrong versions of Interrompe: the run is not closed; the index stays.
ErroNaoFecha ==
    /\ pc = "busca" /\ i <= Maximo(chamada.especial)
    /\ paginas[i] # VAZIO
    /\ i' = i + 1
    /\ UNCHANGED <<estado, pc, chamada, primeiro, ultimo, encontrado, validando, j>>
ErroNaoAvanca ==
    /\ pc = "busca" /\ i <= Maximo(chamada.especial)
    /\ paginas[i] # VAZIO
    /\ validando' = FALSE
    /\ UNCHANGED <<estado, pc, chamada, i, primeiro, ultimo, encontrado, j>>

\* Lines 128-131: a page in use ends the run.
Interrompe ==
    /\ pc = "busca" /\ i <= Maximo(chamada.especial)
    /\ paginas[i] # VAZIO
    /\ validando' = FALSE
    /\ i' = i + 1
    /\ UNCHANGED <<estado, pc, chamada, primeiro, ultimo, encontrado, j>>

\* Line 133: the search ran out of pages and returns 0.
Desiste ==
    /\ pc = "busca" /\ i > Maximo(chamada.especial)
    /\ Retorna
    /\ UNCHANGED estado

\* A wrong version of MarcaUma: the page is not zeroed.
ErroMarcaSemZerar ==
    /\ pc = "marca" /\ j <= ultimo
    /\ paginas' = [paginas EXCEPT ![j] =
           IF j = primeiro THEN Cabeca(chamada.processo) ELSE Dono(chamada.processo)]
    /\ j' = j + 1
    /\ UNCHANGED <<sujas, blocos, vazadas, pc, chamada, i, primeiro, ultimo, encontrado, validando>>

\* Lines 120-124: one page of the marking loop, marked and zeroed.
MarcaUma ==
    /\ pc = "marca" /\ j <= ultimo
    /\ paginas' = [paginas EXCEPT ![j] =
           IF j = primeiro THEN Cabeca(chamada.processo) ELSE Dono(chamada.processo)]
    /\ sujas' = sujas \ {j}
    /\ j' = j + 1
    /\ UNCHANGED <<blocos, vazadas, pc, chamada, i, primeiro, ultimo, encontrado, validando>>

\* Line 125: the return.
Devolve ==
    /\ pc = "marca" /\ j > ultimo
    /\ Retorna
    /\ UNCHANGED estado

-----------------------------------------------------------------------------
(* LiberaPaginaFisica.                                                     *)

ChamaLibera(b) ==
    /\ pc = "fora"
    /\ chamada' = b
    /\ i' = b.inicio
    /\ pc' = "libera"
    /\ UNCHANGED <<estado, primeiro, ultimo, encontrado, validando, j>>

Encerra(perdidas) ==
    /\ blocos' = blocos \ {chamada}
    /\ vazadas' = vazadas \cup {[pagina |-> p, dono |-> chamada.dono] : p \in perdidas}
    /\ Retorna
    /\ UNCHANGED sujas

\* Lines 142-147: the first page is cleared, then its 0x80 bit is tested.  The
\* test reads the cell just cleared, so it is always true and the branch of
\* lines 148-156 is never reached.
LiberaPrimeira ==
    /\ pc = "libera" /\ i < QtdPaginas
    /\ paginas' = [paginas EXCEPT ![i] = VAZIO]
    /\ ~EhCabeca(paginas'[i])
    /\ Encerra(PaginasDe(chamada) \ {i})

\* Line 140: a page beyond the array never enters the loop.
LiberaNada ==
    /\ pc = "libera" /\ i >= QtdPaginas
    /\ UNCHANGED paginas
    /\ Encerra(PaginasDe(chamada))

-----------------------------------------------------------------------------

\* The holder of a block writes on it.
Usa(b, p) ==
    /\ pc = "fora"
    /\ p \in PaginasDe(b)
    /\ sujas' = sujas \cup {p}
    /\ UNCHANGED <<paginas, blocos, vazadas, pc, chamada, locais>>

Passo == Estende \/ Comeca \/ Interrompe \/ Desiste \/ MarcaUma \/ Devolve
            \/ LiberaPrimeira \/ LiberaNada

Next ==
    \/ \E pedido \in Pedidos : ChamaAloca(pedido)
    \/ \E b \in blocos : ChamaLibera(b)
    \/ \E b \in blocos : \E p \in PaginasDe(b) : Usa(b, p)
    \/ Passo

Spec == Init /\ [][Next]_vars

\* The processor keeps executing a call once it is made.
FairSpec == Spec /\ WF_vars(Passo)

-----------------------------------------------------------------------------
(* The search.                                                             *)

\* Line 125, "return primeiro * 4096": what the loop marks is a run of free
\* pages of the right zone, exactly as long as the request.
BuscaCerta ==
    pc = "marca" =>
        /\ ultimo - primeiro + 1 = Tamanho(chamada.qtd)
        /\ Bloco(primeiro, Tamanho(chamada.qtd)) \subseteq Faixa(chamada.especial)
        /\ \A p \in j..ultimo : paginas[p] = VAZIO

\* While the run is open, the last encontrado pages scanned are free, and no
\* request that fits in a run already left behind was missed.
BuscaNaoPula ==
    pc = "busca" =>
        /\ validando => /\ encontrado = i - primeiro
                        /\ encontrado < Tamanho(chamada.qtd)
                        /\ \A p \in primeiro..(i - 1) : paginas[p] = VAZIO
        /\ \A k \in Encaixes(paginas, chamada.especial, Tamanho(chamada.qtd)) :
               k >= (IF validando THEN primeiro ELSE i)

\* Line 133, "return 0": an allocation fails only when no run of free pages of
\* its zone is long enough.
FalhaSoSemEspaco ==
    [][pc = "busca" /\ pc' = "fora" =>
          Encaixes(paginas, chamada.especial, Tamanho(chamada.qtd)) = {}]_vars

\* Every call returns: neither loop runs forever.
ChamadaTermina == pc # "fora" ~> pc = "fora"

-----------------------------------------------------------------------------
(* Refinement: once the search has decided, the block counts as marked.    *)

Decidido == pc = "marca"

paginasAbs ==
    IF Decidido
    THEN MarcaBloco(paginas, primeiro, Tamanho(chamada.qtd), chamada.processo)
    ELSE paginas

sujasAbs == IF Decidido THEN sujas \ Bloco(primeiro, Tamanho(chamada.qtd)) ELSE sujas

M == INSTANCE Memoria WITH paginas <- paginasAbs, sujas <- sujasAbs

\* The loops of Memoria.c do what Memoria says: first fit, all the pages of the
\* block marked and zeroed, only the first one released.
ImplementaMemoria == M!Spec
=============================================================================
