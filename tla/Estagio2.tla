----------------------------- MODULE Estagio2 -----------------------------
(***************************************************************************)
(* The second stage, Inicial/Estagio2.asm, after it has measured the        *)
(* memory (Partida.tla): it opens the A20 line, mounts the Minix file       *)
(* system, reads the names of the kernel and of the image in BRASIS.cfg,    *)
(* loads both and jumps to the kernel.                                      *)
(*                                                                         *)
(* Memory is counted in blocks of 1 KiB.  The kernel sets up itself from    *)
(* what it finds there, so the memory, and not a log of the reads, is the   *)
(* state.                                                                   *)
(***************************************************************************)
EXTENDS MinixFS, FiniteSetsExt

CONSTANTS
    NucleoInicio,   \* param_nucleo (1 MiB)
    ImagemInicio,   \* param_imagem (2 MiB)
    FimDaMemoria    \* first address that does not exist

ASSUME Estagio2Assumption ==
    /\ NucleoInicio \in Nat \ {0} /\ ImagemInicio \in Nat /\ FimDaMemoria \in Nat
    /\ NucleoInicio + Diretas + PorIndice <= ImagemInicio
    /\ ImagemInicio + Diretas + PorIndice <= FimDaMemoria

VARIABLES
    a20,        \* methods tried so far
    alvo,       \* the file that is sought or loaded
    nomes,      \* names compared with those of the directory
    dir,        \* sa_diretorio_bloco and sa_diretorio_subpos, in entries
    memoria,    \* block at each address from 1 MiB, <<>> where nothing was written
    tam,        \* param_tam_nucleo and param_tam_imagem, in blocks
    edi         \* the register, which the jump to the kernel leaves as it is

segundoEstagio == <<a20, alvo, nomes, dir, memoria, tam, edi>>

Alvos == {"cfg", "nucleo", "imagem"}
Cheio == 2 * EntradasPorSetor

\* Below 1 MiB: edi after a comparison of names points into the parameters.
Baixa == 0

\* and edx, 0xf: drive 80h, the first hard disk, becomes drive 0.
Entra ==
    /\ pc = "inicial" /\ segundo = M.arquivos[1]
    /\ unidade' = unidade % 16
    /\ pc' = "a20"
    /\ UNCHANGED <<maquina, etapa, geo, transfere, minix, segundoEstagio>>

\* What the boot sector has loaded is not the second stage: anything may run.
Desvia ==
    /\ pc = "inicial" /\ segundo # M.arquivos[1]
    /\ pc' = "perdida"
    /\ UNCHANGED <<maquina, etapa, unidade, geo, transfere, minix, segundoEstagio>>

\* verifica_a20 before each method and after the last.
TestaA20 ==
    /\ pc = "a20"
    /\ IF a20 >= M.a20 THEN pc' = "abre" /\ a20' = a20
       ELSE IF a20 = 4 THEN pc' = "parado" /\ a20' = a20
       ELSE /\ a20' = a20 + 1
            /\ pc' = IF a20' = 2 THEN "tecla" ELSE "a20"
    /\ UNCHANGED <<maquina, etapa, unidade, geo, transfere, minix,
                   alvo, nomes, dir, memoria, tam, edi>>

\* a20_metodo2 has no ret before .espera_saida: having switched the line it
\* waits for one more byte in the keyboard controller.
Tecla ==
    /\ pc = "tecla" /\ pc' = "a20"
    /\ UNCHANGED <<maquina, etapa, unidade, geo, transfere, minix,
                   segundoEstagio>>

-----------------------------------------------------------------------------
(* Mounting.                                                               *)

\* The superblock, as the main routine reads it to see the magic number.
Abre ==
    /\ pc = "abre"
    /\ LeBloco(1, "cs", "identifica")
    /\ UNCHANGED <<maquina, etapa, unidade, geo, itens, bloco, cache, segundoEstagio>>

\* minixfs1 asks for the same block again and finds it in the buffer.
Identifica ==
    /\ pc = "identifica"
    /\ IF Setor(bloco[1]).magico
       THEN LeBloco(1, "cs", "monta")
       ELSE pc' = "parado" /\ UNCHANGED <<transfere, cf, pedido>>
    /\ UNCHANGED <<maquina, etapa, unidade, geo, itens, bloco, cache, segundoEstagio>>

MontaMinix ==
    /\ pc = "monta"
    /\ LET s == Setor(bloco[1])
       IN  Comeca(2 * (2 + s.mapas), 2 * (s.itensTotal \div ItensPorBloco), "montado")
    /\ UNCHANGED <<maquina, etapa, unidade, geo, minix, segundoEstagio>>

Montado ==
    /\ pc = "montado"
    /\ itens' = lido /\ alvo' = "cfg" /\ pc' = "procura"
    /\ UNCHANGED <<maquina, etapa, unidade, geo, transfere,
                   bloco, cache, cf, pedido, a20, nomes, dir, memoria, tam, edi>>

-----------------------------------------------------------------------------
(* The search in the root directory: sa_raiz, sa_primeiro, sa_proximo and   *)
(* the comparison of names, the same three times.                           *)

Procura ==
    /\ pc = "procura"
    /\ dir' = [bloco |-> 0, sub |-> -1]
    /\ Pede(1, 0, "proximo")
    /\ UNCHANGED <<maquina, etapa, unidade, geo, transfere,
                   itens, bloco, cache, cf, a20, alvo, nomes, memoria, tam, edi>>

EntradaDir(e) ==
    Setor(bloco[(e \div EntradasPorSetor) + 1]).entradas[(e % EntradasPorSetor) + 1]

\* Entries still ahead in the buffer that are of a file.
Restantes == {e \in (dir.sub + 1)..(Cheio - 1) : EntradaDir(e).item # 0}

\* No such directory block: the search has failed.
FimDoDiretorio ==
    /\ pc = "proximo" /\ ~ cf
    /\ pc' = "parado"
    /\ UNCHANGED <<maquina, etapa, unidade, geo, transfere, minix,
                   segundoEstagio>>

\* Wrong version: the number of the block is not moved on.
ErroMesmoBloco ==
    /\ pc = "proximo" /\ cf /\ Restantes = {}
    /\ dir' = [dir EXCEPT !.sub = Cheio]
    /\ Pede(1, dir.bloco, "proximo")
    /\ UNCHANGED <<maquina, etapa, unidade, geo, transfere,
                   itens, bloco, cache, cf, a20, alvo, nomes, memoria, tam, edi>>

\* The block is exhausted.  The position is not set back, so that all the
\* blocks after the first are read and passed over.
OutroBloco ==
    /\ pc = "proximo" /\ cf /\ Restantes = {}
    /\ dir' = [bloco |-> dir.bloco + 1, sub |-> IF dir.sub < Cheio THEN Cheio ELSE dir.sub + 1]
    /\ Pede(1, dir.bloco + 1, "proximo")
    /\ UNCHANGED <<maquina, etapa, unidade, geo, transfere,
                   itens, bloco, cache, cf, a20, alvo, nomes, memoria, tam, edi>>

\* Another name: sa_proximo asks for the block once more.
OutroNome ==
    /\ pc = "proximo" /\ cf /\ Restantes # {}
    /\ EntradaDir(Min(Restantes)).nome # nomes[alvo]
    /\ dir' = [dir EXCEPT !.sub = Min(Restantes)]
    /\ Pede(1, dir.bloco, "proximo")
    /\ UNCHANGED <<maquina, etapa, unidade, geo, transfere,
                   itens, bloco, cache, cf, a20, alvo, nomes, memoria, tam, edi>>

\* The file: sa_abrir, its size set to 0, and its first zone asked for.  The
\* comparison has left edi past the name it was given.
Encontrado ==
    /\ pc = "proximo" /\ cf /\ Restantes # {}
    /\ EntradaDir(Min(Restantes)).nome = nomes[alvo]
    /\ dir' = [dir EXCEPT !.sub = Min(Restantes)]
    /\ tam' = IF alvo = "cfg" THEN tam ELSE [tam EXCEPT ![alvo] = 0]
    /\ edi' = Baixa
    /\ Pede(EntradaDir(Min(Restantes)).item, 0, "leu")
    /\ UNCHANGED <<maquina, etapa, unidade, geo, transfere,
                   itens, bloco, cache, cf, a20, alvo, nomes, memoria>>

-----------------------------------------------------------------------------
(* Reading the three files.                                                *)

\* An empty BRASIS.cfg.
CfgIlegivel ==
    /\ pc = "leu" /\ alvo = "cfg" /\ ~ cf
    /\ pc' = "parado"
    /\ UNCHANGED <<maquina, etapa, unidade, geo, transfere, minix,
                   segundoEstagio>>

\* .leiastr twice: the first two lines of the first block that are not empty.
LeCfg ==
    /\ pc = "leu" /\ alvo = "cfg" /\ cf
    /\ nomes' = [nomes EXCEPT !.nucleo = Setor(bloco[1]).linhas[1],
                              !.imagem = Setor(bloco[1]).linhas[2]]
    /\ alvo' = "nucleo" /\ pc' = "procura"
    /\ UNCHANGED <<maquina, etapa, unidade, geo, transfere, minix,
                   a20, dir, memoria, tam, edi>>

\* Where the file goes.
Destino == IF alvo = "nucleo" THEN NucleoInicio ELSE ImagemInicio

\* Wrong version: edi is left where the block begins.
ErroEdi ==
    /\ pc = "leu" /\ alvo # "cfg" /\ cf
    /\ memoria' = [memoria EXCEPT ![Destino + tam[alvo]] = bloco]
    /\ tam' = [tam EXCEPT ![alvo] = @ + 1]
    /\ edi' = Destino + tam[alvo]
    /\ Pede(pedido.item, pedido.zona + 1, "leu")
    /\ UNCHANGED <<maquina, etapa, unidade, geo, transfere,
                   itens, bloco, cache, cf, a20, alvo, nomes, dir>>

\* rep movsb of the buffer in unreal mode.
Copia ==
    /\ pc = "leu" /\ alvo # "cfg" /\ cf
    /\ memoria' = [memoria EXCEPT ![Destino + tam[alvo]] = bloco]
    /\ tam' = [tam EXCEPT ![alvo] = @ + 1]
    /\ edi' = Destino + tam[alvo] + 1
    /\ Pede(pedido.item, pedido.zona + 1, "leu")
    /\ UNCHANGED <<maquina, etapa, unidade, geo, transfere,
                   itens, bloco, cache, cf, a20, alvo, nomes, dir>>

FimDoNucleo ==
    /\ pc = "leu" /\ alvo = "nucleo" /\ ~ cf
    /\ alvo' = "imagem" /\ pc' = "procura"
    /\ UNCHANGED <<maquina, etapa, unidade, geo, transfere, minix,
                   a20, nomes, dir, memoria, tam, edi>>

\* Protected mode, the stack at the end of low memory, esi at the parameters.
Protegido ==
    /\ pc = "leu" /\ alvo = "imagem" /\ ~ cf
    /\ etapa' = 3 /\ pc' = "__start"
    /\ UNCHANGED <<maquina, unidade, geo, transfere, minix, segundoEstagio>>

SegundoEstagio ==
    \/ Entra \/ Desvia \/ TestaA20 \/ Abre \/ Identifica \/ MontaMinix \/ Montado
    \/ Procura \/ FimDoDiretorio \/ OutroBloco \/ OutroNome \/ Encontrado
    \/ CfgIlegivel \/ LeCfg \/ Copia \/ FimDoNucleo \/ Protegido
=============================================================================
