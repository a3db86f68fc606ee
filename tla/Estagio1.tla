----------------------------- MODULE Estagio1 -----------------------------
(***************************************************************************)
(* The boot sector for a Minix file system, Inicial/MinixFS.asm: it reads   *)
(* its own second sector, the superblock and the table of items, looks for  *)
(* BRASIS.Inicial in the root directory and loads its zones at 0:0x600.     *)
(***************************************************************************)
EXTENDS MinixFS, FiniteSetsExt

NomeInicial == "BRASIS.Inicial"
Entradas == 2 * EntradasPorSetor

\* The directory entry number e (from 0) of the block with these cells.
Entrada(celulas, e) ==
    Setor(celulas[(e \div EntradasPorSetor) + 1]).entradas[(e % EntradasPorSetor) + 1]

\* The blocks of the table of items start after the maps, and a last block that
\* is not full is not counted.
PosItens(superbloco) == 2 + superbloco.mapas
BlocosItens(superbloco) == superbloco.itensTotal \div ItensPorBloco

\* DL is the drive that the BIOS booted; the extension sector follows at lba 1.
Extensao ==
    /\ pc = "extensao"
    /\ unidade' = M.boot
    /\ Comeca(1, 1, "superbloco")
    /\ UNCHANGED <<maquina, etapa, geo, minix, segundo>>

Superbloco ==
    /\ pc = "superbloco"
    /\ Comeca(2, 1, "confere")
    /\ UNCHANGED <<maquina, etapa, unidade, geo, minix, segundo>>

\* Only version 1 with names of 30 bytes (5007).
Confere ==
    /\ pc = "confere"
    /\ LET s == Setor(lido[1])
       IN  IF s.magico
           THEN Comeca(2 * PosItens(s), 2 * BlocosItens(s), "itens")
           ELSE pc' = "parado" /\ UNCHANGED <<transfere>>
    /\ UNCHANGED <<maquina, etapa, unidade, geo, minix, segundo>>

GuardaItens ==
    /\ pc = "itens"
    /\ itens' = lido
    /\ Pede(1, 0, "busca")
    /\ UNCHANGED <<maquina, etapa, unidade, geo, transfere,
                   bloco, cache, cf, segundo>>

\* BuscaArq over the first block of the root directory.  Names alone are
\* compared, so the entry of a deleted file (item 0) is found as well; past the
\* first block the loop goes on with di = 1026 and ends in Erro.
Busca ==
    /\ pc = "busca"
    /\ LET achadas == {e \in 0..(Entradas - 1) : Entrada(lido, e).nome = NomeInicial}
       IN  IF cf /\ achadas # {}
           THEN Pede(Entrada(lido, Min(achadas)).item, 0, "zona")
           ELSE pc' = "parado" /\ UNCHANGED pedido
    /\ UNCHANGED <<maquina, etapa, unidade, geo, transfere,
                   itens, bloco, cache, cf, segundo>>

\* One zone loaded, the destination moved on by 1 KiB.
CarregaZona ==
    /\ pc = "zona" /\ cf
    /\ segundo' = segundo \o lido
    /\ Pede(pedido.item, pedido.zona + 1, "zona")
    /\ UNCHANGED <<maquina, etapa, unidade, geo, transfere,
                   itens, bloco, cache, cf>>

\* The first zone that does not exist ends the file, whatever its size says:
\* jump to the second stage with the drive and its geometry in dx, cx and bx.
SaltaMinix ==
    /\ pc = "zona" /\ ~ cf
    /\ etapa' = 2 /\ pc' = "inicial"
    /\ UNCHANGED <<maquina, unidade, geo, transfere, minix, segundo>>

SetorMinix ==
    Extensao \/ Superbloco \/ Confere \/ GuardaItens \/ Busca \/ CarregaZona \/ SaltaMinix
=============================================================================
