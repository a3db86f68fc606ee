----------------------------- MODULE MCPartida -----------------------------
(* The boot on PCs from 2 to 68 MiB, with kernels that end at every kind of *)
(* place in their last page: on a page, after fewer bytes than the page's   *)
(* number, after exactly as many, and after more.  On the last two machines *)
(* a measure fails.                                                         *)
EXTENDS Partida

\* On a machine without AH=88h the function returns 86h in AH.
PC(bios, baixa, media, alta) ==
    [bios |-> bios, ax88 |-> 34304, baixa |-> baixa, media |-> media, alta |-> alta]

MCMaquinas ==
    {PC(Funcoes, 640, 3 * KiB, 0), PC({"int12", "int88"}, 639, 3 * KiB, 0),
     PC(Funcoes, 639, 15 * KiB, 256), PC({"int12", "int88"}, 640, 15 * KiB, 832),
     PC({"int88"}, 640, 7 * KiB + 383, 0), PC({"int12", "e801"}, 639, 0, 0),
     PC({"int12"}, 639, KiB, 0), PC({"e801"}, 512, 3 * KiB, 0)}

MCNucleos ==
    {[codigo_fim |-> c, dados_fim |-> d] :
        c \in {1163333, 1167360}, d \in {1171456, 1171457, 1171741, 1171742, 1175551}}

MCImagens == {0, 97, 1440}
=============================================================================
