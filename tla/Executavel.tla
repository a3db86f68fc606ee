----------------------------- MODULE Executavel -----------------------------
(***************************************************************************)
(* Executavel_CarregarModulo of Nucleo/Executavel.c: loading a.out modules *)
(* one after the other, over the page map of Memoria.c.                    *)
(*                                                                         *)
(* A byte of memory is known by where it came from (a byte of a file,      *)
(* zero, or unknown) and by the relocations made on it since: which entry, *)
(* which byte of the corrected pointer, and what was added to the pointer. *)
(*                                                                         *)
(* The loader checks neither an allocation, nor a read, nor a size.  When  *)
(* one fails, or when the tables of the header have sizes the loops do not *)
(* expect, it goes on at the wrong addresses; the model follows it there.  *)
(***************************************************************************)
EXTENDS MapaPaginas, Sequences

CONSTANTS
    Marcadas,       \* the map Memoria() leaves at boot
    Vizinho,        \* the byte after the array
    TamPagina,      \* bytes in a page (4096)
    Modulos,        \* the names of the module files
    Arquivo,        \* their headers and tables
    Cortes,         \* bound: the bytes a file that ends too early may have
    MaxCargas       \* bound: modules loaded in one boot

\* AOUT_Realocacao_t: the address in its section, the field of its mask that
\* gives the pointer's size, and the bit PTR_RELATIVO.  The loader looks at no
\* other bit.
Entradas == [alvo : Nat, tamanho : 0..3, relativo : BOOLEAN]
TamEntrada == 8

\* Sizes are in bytes.  The pointers that a table names are inside its section.
ASSUME ExecutavelAssumption ==
    /\ Marcadas \in MapasDoInicio
    /\ Vizinho \in Byte
    /\ TamPagina \in Nat \ {0}
    /\ Cortes \subseteq Nat
    /\ MaxCargas \in Nat
    /\ "nenhum" \notin Modulos
    /\ Arquivo \in [Modulos -> [texto : Nat \ {0}, dados : Nat, bss : Nat, simbolos : Nat,
                              tabTexto : Seq(Entradas), tabDados : Seq(Entradas)]]
    /\ \A m \in Modulos :
        /\ \A k \in DOMAIN Arquivo[m].tabTexto : Arquivo[m].tabTexto[k].alvo + 4 <= Arquivo[m].texto
        /\ \A k \in DOMAIN Arquivo[m].tabDados : Arquivo[m].tabDados[k].alvo + 4 <= Arquivo[m].dados

VARIABLES
    paginas,        \* the page map
    mem,            \* the bytes of memory
    fase,           \* the statement the loader is at
    modulo,         \* the file being loaded
    ptr,            \* ptrTexto, ptrSimbolo, ptrTabelaTexto, ptrTabelaDados
    i,              \* the relocation loops' counter
    carregados,     \* modules executed, with where their text is
    cargas,         \* bound: loads so far
    antes,          \* history: pages in use when this load began
    limpo           \* history: allocations, reads and headers have all been good

vars == <<paginas, mem, fase, modulo, ptr, i, carregados, cargas, antes, limpo>>

-----------------------------------------------------------------------------

\* The memory of the array and the page that follows it, which the search may
\* hand out: it holds nothing when the machine has no more than 16 MiB.
Enderecos == 0..((QtdPaginas + 1) * TamPagina - 1)
Nenhum   == "nenhum"

Celula(m, parte, k) == [de |-> m, parte |-> parte, k |-> k, feitas |-> {}]
Zero    == Celula(Nenhum, "zero", 0)
Lixo    == Celula(Nenhum, "lixo", 0)        \* what was there, unknown
Ausente == Celula(Nenhum, "ausente", 0)     \* no memory: writes are lost

Tam(m, parte) == CASE parte = "tabTexto" -> TamEntrada * Len(Arquivo[m].tabTexto)
                   [] parte = "tabDados" -> TamEntrada * Len(Arquivo[m].tabDados)
                   [] OTHER -> Arquivo[m][parte]

Total(m) == Arquivo[m].texto + Arquivo[m].dados + Arquivo[m].bss

\* tam / 4096 + (resto % 4096 ? 1 : 0), the resto being tam's own or, for the
\* data table, the text table's.
QtdPara(tam, resto) == tam \div TamPagina + IF resto % TamPagina # 0 THEN 1 ELSE 0

\* Pages asked for each block.
Pedido(m, bloco) ==
    CASE bloco = "texto"    -> QtdPara(Total(m), Total(m))
      [] bloco = "tabDados" -> QtdPara(Tam(m, "tabDados"), Tam(m, "tabTexto"))
      [] OTHER              -> QtdPara(Tam(m, bloco), Tam(m, bloco))

\* The header's tables suit the code: the data table fits the pages asked for
\* it, and the loop over it, which counts text entries, stays inside them.
Regular(m) ==
    LET cabem == TamPagina * Tamanho(Pedido(m, "tabDados"))
    IN  Tam(m, "tabDados") > 0 => Tam(m, "tabDados") <= cabem /\ Tam(m, "tabTexto") <= cabem

\* The pages the map calls used, the one after the array among them.
EmUso(mapa) == {p \in Celulas : mapa[p] # VAZIO}

Init ==
    /\ paginas = ComVizinho(Marcadas, Vizinho)
    /\ \E acima \in {Lixo, Ausente} :
           mem = [u \in Enderecos |-> IF u < QtdPaginas * TamPagina THEN Lixo ELSE acima]
    /\ fase = "ocioso"
    /\ modulo = Nenhum
    /\ ptr = [b \in {"texto", "simbolos", "tabTexto", "tabDados"} |-> 0]
    /\ i = 0
    /\ carregados = {}
    /\ cargas = 0
    /\ antes = EmUso(paginas)
    /\ limpo = TRUE

\* What is in u after a write.
Grava(u, byte) == IF mem[u] = Ausente THEN Ausente ELSE byte

-----------------------------------------------------------------------------
(* The blocks.                                                             *)

\* VaPara and Leia of the header; the pointers start at 0.
LeCabecalho(m) ==
    /\ fase = "ocioso" /\ cargas < MaxCargas
    /\ modulo' = m
    /\ ptr' = [b \in DOMAIN ptr |-> 0]
    /\ fase' = "texto"
    /\ cargas' = cargas + 1
    /\ antes' = EmUso(paginas)
    /\ limpo' = (limpo /\ Regular(m))
    /\ UNCHANGED <<paginas, mem, i, carregados>>

Depois == [texto |-> "simbolos", simbolos |-> "tabTexto", tabTexto |-> "tabDados",
           tabDados |-> "le"]

\* A section of size 0 gets no block, except the text's.
Pula(bloco) ==
    /\ fase = bloco
    /\ bloco # "texto" /\ Tam(modulo, bloco) = 0
    /\ fase' = Depois[bloco]
    /\ UNCHANGED <<paginas, mem, modulo, ptr, i, carregados, cargas, antes, limpo>>

Pede(bloco) == fase = bloco /\ (bloco = "texto" \/ Tam(modulo, bloco) > 0)

\* The address of a page.
Endereco(pagina) == pagina * TamPagina

AlocaBloco(bloco) ==
    LET tam    == Tamanho(Pedido(modulo, bloco))
        inicio == PrimeiroEncaixe(paginas, FALSE, tam)
        dentro == Endereco(inicio)..(Endereco(inicio + tam) - 1)
    IN  /\ Pede(bloco)
        /\ Encaixes(paginas, FALSE, tam) # {}
        /\ paginas' = MarcaBloco(paginas, inicio, tam, NUCLEO)
        /\ mem' = [u \in Enderecos |-> IF u \in dentro THEN Grava(u, Zero) ELSE mem[u]]
        /\ ptr' = [ptr EXCEPT ![bloco] = Endereco(inicio)]
        /\ limpo' = (limpo /\ \A u \in dentro : mem[u] # Ausente)
        /\ fase' = Depois[bloco]
        /\ UNCHANGED <<modulo, i, carregados, cargas, antes>>

\* AlocaPaginaFisica returns 0 and the loader takes it for the address.
AlocaBlocoFalha(bloco) ==
    /\ Pede(bloco)
    /\ Encaixes(paginas, FALSE, Tamanho(Pedido(modulo, bloco))) = {}
    /\ ptr' = [ptr EXCEPT ![bloco] = 0]
    /\ limpo' = FALSE
    /\ fase' = Depois[bloco]
    /\ UNCHANGED <<paginas, mem, modulo, i, carregados, cargas, antes>>

\* Where Leia puts each part of the file; it writes where it is told.
Destino(parte) ==
    IF parte = "dados" THEN ptr.texto + Arquivo[modulo].texto ELSE ptr[parte]

\* A wrong version of Area: one byte too many is read.
ErroAreaAMais(parte) == Destino(parte)..(Destino(parte) + Tam(modulo, parte))

Area(parte) == Destino(parte)..(Destino(parte) + Tam(modulo, parte) - 1)

Leituras == <<"texto", "dados", "simbolos", "tabTexto", "tabDados">>

\* Where in the file each part begins, and where the file ends.
Posicao(m, parte) ==
    CASE parte = "texto"    -> 0
      [] parte = "dados"    -> Tam(m, "texto")
      [] parte = "simbolos" -> Tam(m, "texto") + Tam(m, "dados")
      [] parte = "tabTexto" -> Tam(m, "texto") + Tam(m, "dados") + Tam(m, "simbolos")
      [] parte = "tabDados" -> Tam(m, "texto") + Tam(m, "dados") + Tam(m, "simbolos") + Tam(m, "tabTexto")
TamArquivo(m) == Posicao(m, "tabDados") + Tam(m, "tabDados")

\* The reads, in order: where two overlap, the last one stays.  Nobody looks at
\* what Leia returns: of a file that ends after n bytes the rest of the blocks
\* keeps what it had.
LeSecoes ==
    /\ fase = "le"
    /\ \E n \in Cortes \cup {TamArquivo(modulo)} :
           LET lida(parte, u) == u \in Area(parte) /\ Posicao(modulo, parte) + (u - Destino(parte)) < n
               escritas(u) == {o \in DOMAIN Leituras : lida(Leituras[o], u)}
               ultima(u)   == Leituras[CHOOSE o \in escritas(u) : \A q \in escritas(u) : q <= o]
           IN  /\ mem' = [u \in Enderecos |->
                             IF escritas(u) = {} THEN mem[u]
                             ELSE Grava(u, Celula(modulo, ultima(u), u - Destino(ultima(u))))]
               /\ limpo' = (limpo /\ TamArquivo(modulo) <= n)
    /\ fase' = "relocaTexto"
    /\ i' = 0
    /\ UNCHANGED <<paginas, modulo, ptr, carregados, cargas, antes>>

-----------------------------------------------------------------------------
(* The relocations.                                                        *)

\* The entry in the eight bytes from a, when they are an entry as a file has it
\* or zeros; of any other eight bytes nothing is known.
DeTabela(a) ==
    LET c == mem[a]
    IN  /\ c.parte \in {"tabTexto", "tabDados"} /\ c.k % TamEntrada = 0
        /\ \A d \in 0..(TamEntrada - 1) : mem[a + d] = Celula(c.de, c.parte, c.k + d)
DeZeros(a) == \A d \in 0..(TamEntrada - 1) : mem[a + d] = Zero
Conhecida(a) == a..(a + TamEntrada - 1) \subseteq Enderecos /\ (DeTabela(a) \/ DeZeros(a))
EntradaEm(a) ==
    IF DeZeros(a) THEN [alvo |-> 0, tamanho |-> 0, relativo |-> FALSE]
    ELSE Arquivo[mem[a].de][mem[a].parte][mem[a].k \div TamEntrada + 1]

\* A wrong version of Escritos: the size is not looked at.
ErroSempreQuatro(e, base) == (base + e.alvo)..(base + e.alvo + 3)

\* The bytes written: the low two of the pointer, and the high two only when the
\* size is 2.  (With size 1 the code first clears tmp's high two, which it will
\* not write.)
Escritos(e, base) ==
    {base + e.alvo, base + e.alvo + 1}
    \cup IF e.tamanho = 2 THEN {base + e.alvo + 2, base + e.alvo + 3} ELSE {}

\* A wrong version of Parcela: the address is not added.
ErroSemRelativo(e) == ptr.texto

\* What is added to the pointer.
Parcela(e) == ptr.texto + IF e.relativo THEN e.alvo ELSE 0

Corrige(c, f) == [c EXCEPT !.feitas = @ \cup {f}]

Realoca(e, base) ==
    [u \in Enderecos |->
        IF u \in Escritos(e, base)
        THEN Grava(u, Corrige(mem[u], [n |-> i, byte |-> u - (base + e.alvo), mais |-> Parcela(e)]))
        ELSE mem[u]]

\* One turn of a loop.  An unknown entry may change any byte: all become unknown.
Volta(tabela, base) ==
    LET a == ptr[tabela] + TamEntrada * i
    IN  mem' = IF Conhecida(a) THEN Realoca(EntradaEm(a), base)
               ELSE [u \in Enderecos |-> Grava(u, Lixo)]

\* Entries the two loops process: both count TabelaTextoTamanho.
VezesTexto(m) == Len(Arquivo[m].tabTexto)
VezesDados(m) == IF Len(Arquivo[m].tabDados) > 0 THEN Len(Arquivo[m].tabTexto) ELSE 0

RelocaTexto ==
    /\ fase = "relocaTexto" /\ i < VezesTexto(modulo)
    /\ Volta("tabTexto", ptr.texto)
    /\ i' = i + 1
    /\ UNCHANGED <<paginas, fase, modulo, ptr, carregados, cargas, antes, limpo>>

TextoPronto ==
    /\ fase = "relocaTexto" /\ i = VezesTexto(modulo)
    /\ fase' = "relocaDados"
    /\ i' = 0
    /\ UNCHANGED <<paginas, mem, modulo, ptr, carregados, cargas, antes, limpo>>

RelocaDados ==
    /\ fase = "relocaDados" /\ i < VezesDados(modulo)
    /\ Volta("tabDados", ptr.texto + Arquivo[modulo].texto)
    /\ i' = i + 1
    /\ UNCHANGED <<paginas, fase, modulo, ptr, carregados, cargas, antes, limpo>>

-----------------------------------------------------------------------------
(* The end.                                                                *)

\* A wrong version of LiberaSe: the text is released for the text table.
ErroLiberaTexto(m, parte, mapa) ==
    IF Tam(m, parte) > 0
    THEN LiberaPagina(mapa, (IF parte = "tabTexto" THEN ptr.texto ELSE ptr[parte]) \div TamPagina)
    ELSE mapa

LiberaSe(m, parte, mapa) ==
    IF Tam(m, parte) > 0 THEN LiberaPagina(mapa, ptr[parte] \div TamPagina) ELSE mapa

\* "Liberando dados extras".
LiberaExtras ==
    /\ fase = "relocaDados" /\ i = VezesDados(modulo)
    /\ paginas' = LiberaSe(modulo, "tabDados",
                      LiberaSe(modulo, "tabTexto", LiberaSe(modulo, "simbolos", paginas)))
    /\ fase' = "executa"
    /\ i' = 0
    /\ UNCHANGED <<mem, modulo, ptr, carregados, cargas, antes, limpo>>

\* AOUT_ExecutaModulo calls Entrada + ptrTexto; the module returns.
Executa ==
    /\ fase = "executa"
    /\ carregados' = carregados \cup {[modulo |-> modulo, inicio |-> ptr.texto]}
    /\ fase' = "ocioso"
    /\ UNCHANGED <<paginas, mem, modulo, ptr, i, cargas, antes, limpo>>

Aloca(bloco) == Pula(bloco) \/ AlocaBloco(bloco) \/ AlocaBlocoFalha(bloco)

Passo ==
    \/ \E bloco \in DOMAIN Depois : Aloca(bloco)
    \/ LeSecoes \/ RelocaTexto \/ TextoPronto \/ RelocaDados \/ LiberaExtras \/ Executa

Next == (\E m \in Modulos : LeCabecalho(m)) \/ Passo

Spec == Init /\ [][Next]_vars

-----------------------------------------------------------------------------
(* Safety.                                                                 *)

\* Bytes of the pointer that each size corrects.
Largura(e) == CASE e.tamanho = 2 -> 4 [] OTHER -> 2

\* The corrections that byte k of a section loaded with its text at inicio owes
\* to a table: one for each entry whose pointer k is in, at its place in the
\* pointer, by the address of the text and, when relative, the pointer's own.
Devidas(tabela, k, inicio) ==
    {[n |-> n - 1, byte |-> k - tabela[n].alvo,
      mais |-> IF tabela[n].relativo THEN inicio + tabela[n].alvo ELSE inicio] :
        n \in {n \in DOMAIN tabela : k - tabela[n].alvo \in 0..(Largura(tabela[n]) - 1)}}

\* Byte k of a section as the file has it, corrected by its table and by nothing
\* else.
Corrigida(m, parte, tabela, k, inicio) ==
    [de |-> m, parte |-> parte, k |-> k, feitas |-> Devidas(tabela, k, inicio)]

TextoCerto(m, inicio) ==
    \A k \in 0..(Arquivo[m].texto - 1) :
        mem[inicio + k] = Corrigida(m, "texto", Arquivo[m].tabTexto, k, inicio)

DadosCertos(m, inicio) ==
    \A k \in 0..(Arquivo[m].dados - 1) :
        mem[inicio + Arquivo[m].texto + k] = Corrigida(m, "dados", Arquivo[m].tabDados, k, inicio)

\* What is executed is the file's text with each pointer corrected once, in its
\* width, and no later load (which allocates, reads, relocates and releases
\* around it) changes the text of a module already running.
TextosIntactos ==
    limpo => /\ fase = "executa" => TextoCerto(modulo, ptr.texto)
             /\ \A c \in carregados : TextoCerto(c.modulo, c.inicio)

\* The data are relocated right when the two tables have the same size; the
\* loop over the data table counts the entries of the text table.
DadosDeTabelasIguais ==
    limpo /\ fase = "executa" /\ Len(Arquivo[modulo].tabTexto) = Len(Arquivo[modulo].tabDados) =>
        DadosCertos(modulo, ptr.texto)

\* The module starts with its bss all zero, though the loader never clears it
\* and its pages may have held the tables of an earlier module.
BssZerada ==
    limpo /\ fase = "executa" =>
        \A k \in (Arquivo[modulo].texto + Arquivo[modulo].dados)..(Total(modulo) - 1) : mem[ptr.texto + k] = Zero

PaginaDe(bloco) == ptr[bloco] \div TamPagina
PaginasDoTexto(m, inicio) == Bloco(inicio \div TamPagina, Tamanho(Pedido(m, "texto")))

\* "Liberando dados extras" (Executavel.c:183) gives back the pages whose
\* addresses were kept, and takes none that is in use: neither those of before
\* nor the text of any module that was ever executed.
SoExtrasLiberados ==
    limpo =>
        /\ \A c \in carregados : PaginasDoTexto(c.modulo, c.inicio) \subseteq EmUso(paginas)
        /\ fase = "executa" =>
               /\ antes \cup PaginasDoTexto(modulo, ptr.texto) \subseteq EmUso(paginas)
               /\ \A b \in {"simbolos", "tabTexto", "tabDados"} :
                      Tam(modulo, b) > 0 /\ PaginaDe(b) \in Paginas => paginas[PaginaDe(b)] = VAZIO

\* The comment on the header's fields (Executavel.c:52-53, "40 00 00 00" and
\* "08 00 00 00") gives each table its own size: a module whose tables differ
\* in size has its data relocated once by each entry of the data table.
DadosRelocados ==
    limpo /\ fase = "executa" => DadosCertos(modulo, ptr.texto)
=============================================================================
