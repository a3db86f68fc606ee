------------------------------ MODULE MinixFS ------------------------------
(***************************************************************************)
(* The zones of a file of a Minix file system, as the boot sector          *)
(* (CarregaBloco of MinixFS.asm) and the second stage                      *)
(* (minixfs1_carrega_bloco of Estagio2.asm) follow them: the same routine   *)
(* twice, but the second stage reads into one buffer with a cache in front, *)
(* and the words of that cache are found through DS.                        *)
(***************************************************************************)
EXTENDS Disco

CONSTANTS
    Diretas,            \* zones in the item (7)
    PonteirosPorSetor,  \* zone numbers in half an indirect block (256)
    ItensPorSetor,      \* items in half a block (16)
    EntradasPorSetor,   \* directory entries in half a block (16)
    Lixo                \* what an item outside the loaded table may hold

ASSUME MinixFSAssumption ==
    /\ Diretas \in Nat \ {0} /\ PonteirosPorSetor \in Nat \ {0}
    /\ ItensPorSetor \in Nat \ {0} /\ EntradasPorSetor \in Nat \ {0}
    /\ Lixo \subseteq Nat

VARIABLES
    itens,          \* cells of the table of items
    bloco,          \* cells of the 1 KiB buffer of the second stage
    cache,          \* bloco_pos: the block in that buffer, 0 when there is none
    cf,             \* carry: the last request found a zone
    pedido          \* the request: item, zone, who asked, and ax at disco_leia_1kib

minix == <<itens, bloco, cache, cf, pedido>>

PorIndice == 2 * PonteirosPorSetor
ItensPorBloco == 2 * ItensPorSetor

\* The pointer number z of item n.  Item 0 (dec ax wraps) and the items past
\* the loaded blocks are read from memory that nothing wrote.
Ponteiros(n, z) ==
    IF n \in 1..(Len(itens) * ItensPorSetor)
    THEN {Setor(itens[((n - 1) \div ItensPorSetor) + 1]).itens[((n - 1) % ItensPorSetor) + 1][z]}
    ELSE Lixo

\* Wrong version: the dot keeps the caller's segment, as it does in MinixFS.asm.
ErroPreservaDs(ds) == ds

\* DS after a dot of the second stage: escreva sets it to CS to find the text
\* and pusha does not save it.
DsDoPonto(ds) == "cs"

\* Results of comparing the block number with the cache words: they are the
\* cache's only if DS is the segment of the program.
Acertos(p, ds) == IF ds = "cs" THEN {cache = p} ELSE BOOLEAN

\* disco_leia_1kib: nothing to do when the block is the one in the buffer.
LeBloco(p, ds, volta) ==
    \E acerto \in Acertos(p, ds) :
        /\ pedido' = [item |-> pedido.item, zona |-> pedido.zona, volta |-> volta, bloco |-> p]
        /\ IF acerto
           THEN /\ pc' = volta /\ cf' = TRUE
                /\ UNCHANGED transfere
           ELSE Comeca(2 * p, 2, "guarda") /\ cf' = cf

\* A zone that exists: the boot sector reads it at once to where it goes.
LeZona(p) ==
    IF etapa = 1
    THEN Comeca(2 * p, 2, pedido.volta) /\ cf' = TRUE /\ pedido' = pedido
    ELSE LeBloco(p, DsDoPonto("itens"), pedido.volta)

\* No zone: carry clear.
Vazio ==
    /\ cf' = FALSE /\ pc' = pedido.volta
    /\ UNCHANGED <<transfere, pedido>>

\* Call of carrega_bloco with ax = n, bx = z.
Pede(n, z, volta) ==
    /\ pedido' = [item |-> n, zona |-> z, volta |-> volta, bloco |-> 0]
    /\ pc' = "carrega"

\* A zone that only a double indirect block could name: Erro and hlt, even when
\* the file ends there.
ZonaDemais ==
    /\ pc = "carrega" /\ pedido.zona >= Diretas + PorIndice
    /\ pc' = "parado"
    /\ UNCHANGED <<maquina, etapa, unidade, geo, transfere, minix>>

ZonaDireta ==
    /\ pc = "carrega" /\ pedido.zona < Diretas
    /\ \E p \in Ponteiros(pedido.item, pedido.zona + 1) :
           IF p = 0 THEN Vazio ELSE LeZona(p)
    /\ UNCHANGED <<maquina, etapa, unidade, geo, itens, bloco, cache>>

\* The indirect block goes to temp, which no cache covers.
ZonaIndireta ==
    /\ pc = "carrega" /\ pedido.zona \in Diretas..(Diretas + PorIndice - 1)
    /\ \E p \in Ponteiros(pedido.item, Diretas + 1) :
           IF p = 0 THEN Vazio
           ELSE Comeca(2 * p, 2, "indireto") /\ UNCHANGED <<cf, pedido>>
    /\ UNCHANGED <<maquina, etapa, unidade, geo, itens, bloco, cache>>

\* The place of a zone in the indirect block.
Indice(z) == z - Diretas

\* Wrong version: temp is at the address of the buffer.
ErroTempNoBloco ==
    /\ pc = "indireto"
    /\ LET k == Indice(pedido.zona)
           p == Setor(lido[(k \div PonteirosPorSetor) + 1]).ponteiros[(k % PonteirosPorSetor) + 1]
       IN  IF p = 0 THEN Vazio ELSE LeZona(p)
    /\ bloco' = lido
    /\ UNCHANGED <<maquina, etapa, unidade, geo, itens, cache>>

\* es mov ax, [bx]: the zone number out of temp.
Indireto ==
    /\ pc = "indireto"
    /\ LET k == Indice(pedido.zona)
           p == Setor(lido[(k \div PonteirosPorSetor) + 1]).ponteiros[(k % PonteirosPorSetor) + 1]
       IN  IF p = 0 THEN Vazio ELSE LeZona(p)
    /\ UNCHANGED <<maquina, etapa, unidade, geo, itens, bloco, cache>>

\* The end of disco_leia_1kib: the buffer has the block and the cache its
\* number.  (disco_leia has left the sector number there an instant before.)
Guarda ==
    /\ pc = "guarda"
    /\ bloco' = lido
    /\ cache' = IF DsDoPonto("itens") = "cs" THEN pedido.bloco ELSE cache
    /\ cf' = TRUE /\ pc' = pedido.volta
    /\ UNCHANGED <<maquina, etapa, unidade, geo, transfere, itens, pedido>>

Zona == ZonaDemais \/ ZonaDireta \/ ZonaIndireta \/ Indireto \/ Guarda
=============================================================================
