------------------------------ MODULE Partida ------------------------------
(***************************************************************************)
(* From the second stage to the first allocation: Inicial/Estagio2.asm     *)
(* measures the memory and loads the image, Nucleo/Brasis.c hands the      *)
(* measures over, and Memoria() of Nucleo/Memoria.c turns them into the    *)
(* page map that Memoria.tla takes for granted.                            *)
(*                                                                         *)
(* The division by 4097 in _Memoria_PB_EscrevaEntre makes the outcome      *)
(* depend on the real sizes, so this module is at full scale: 4096 pages   *)
(* of 4096 bytes.                                                          *)
(***************************************************************************)
EXTENDS MapaPaginas, Sequences

CONSTANTS
    Maquinas,       \* the PCs the system may start on
    Nucleos,        \* where the linker put the kernel's code and data
    Imagens         \* sizes of the initial image, in blocks of the disk

KiB       == 1024
MiB       == 1024 * KiB
TamPagina == 4096

(* A machine is the memory it has (KiB below 1 MiB, KiB from 1 to 16 MiB,   *)
(* blocks of 64 KiB above) and the functions of its BIOS that answer: INT   *)
(* 12h, INT 15h AX=E801h and INT 15h AH=88h.  ax88 is what the last leaves  *)
(* in AX when it fails.  The kernel is linked at 1 MiB and its data follow  *)
(* its code; the image is loaded at 2 MiB.                                  *)
Funcoes == {"int12", "e801", "int88"}

ASSUME PartidaAssumption ==
    /\ QtdPaginas = 4096 /\ Fronteira = 256
    /\ Maquinas \subseteq
           [bios : SUBSET Funcoes, ax88 : 0..(64 * KiB - 1),
            baixa : 65..640, media : 0..(15 * KiB), alta : 0..1024]
    /\ \A m \in Maquinas : m.alta > 0 => m.media = 15 * KiB
    /\ Nucleos \subseteq [codigo_fim : MiB..(2 * MiB), dados_fim : MiB..(2 * MiB)]
    /\ \A n \in Nucleos : n.codigo_fim <= n.dados_fim
    /\ Imagens \subseteq 0..1440

VARIABLES
    maquina,        \* the machine, fixed
    nucleo,         \* the kernel on the disk, fixed
    imagem,         \* the image on the disk, fixed
    params,         \* BrasisParams_t
    paginas,        \* _Memoria_PaginasBaixas
    etapa,           \* the next step of the boot
    feitas          \* calls of EscrevaEntre that Memoria() has made

partida_vars == <<maquina, nucleo, imagem, params, paginas, etapa, feitas>>
fixas == <<maquina, nucleo, imagem>>

ImagemInicio == 2 * MiB
Tamanhos == {n \in 0..(128 * MiB) : n % KiB = 0}
Etapas == {"baixa", "media", "imagem", "nucleo", "memoria"}

PartidaTypeOK ==
    /\ maquina \in Maquinas /\ nucleo \in Nucleos /\ imagem \in Imagens
    /\ params \in [baixa : Tamanhos, media : Tamanhos, alta : Tamanhos, imagem : Tamanhos]
    /\ paginas \in [Paginas -> {VAZIO, NUCLEO, RESERVADO}]
    /\ etapa \in Etapas /\ feitas \in 0..7

\* The array is in .bss: its content before Memoria() plays no part, since the
\* first loop rewrites it.
PartidaInit ==
    /\ maquina \in Maquinas /\ nucleo \in Nucleos /\ imagem \in Imagens
    /\ params = [baixa |-> 0, media |-> 0, alta |-> 0, imagem |-> 0]
    /\ paginas = [p \in Paginas |-> VAZIO]
    /\ etapa = "baixa" /\ feitas = 0

-----------------------------------------------------------------------------
(* The second stage.                                                       *)

\* INT 12h; on an error, 640 KiB, which the machine may not have.
Baixa12(m) == (IF "int12" \in m.bios THEN m.baixa ELSE 640) * KiB

MedeBaixa ==
    /\ etapa = "baixa"
    /\ params' = [params EXCEPT !.baixa = Baixa12(maquina)]
    /\ etapa' = "media"
    /\ UNCHANGED <<fixas, paginas, feitas>>

MediaE801(m) == m.media * KiB
AltaE801(m)  == m.alta * 64 * KiB

MedeE801 ==
    /\ etapa = "media" /\ "e801" \in maquina.bios
    /\ params' = [params EXCEPT !.media = MediaE801(maquina), !.alta = AltaE801(maquina)]
    /\ etapa' = "imagem"
    /\ UNCHANGED <<fixas, paginas, feitas>>

\* AH=88h counts all the KiB above 1 MiB in 16 bits.  The carry is not tested:
\* when the function is missing, its error code in AX is taken for the count.
Ax88(m) ==
    LET kib == m.media + 64 * m.alta
    IN  IF "int88" \notin m.bios THEN m.ax88 ELSE IF kib > 65535 THEN 65535 ELSE kib

Media88(m) == MiB + Ax88(m) * KiB

Mede88 ==
    /\ etapa = "media" /\ "e801" \notin maquina.bios
    /\ params' = [params EXCEPT !.media = Media88(maquina)]
    /\ etapa' = "imagem"
    /\ UNCHANGED <<fixas, paginas, feitas>>

\* The image is read block by block and its size counts 1024 bytes for each.
CarregaImagem ==
    /\ etapa = "imagem"
    /\ params' = [params EXCEPT !.imagem = imagem * KiB]
    /\ etapa' = "nucleo"
    /\ UNCHANGED <<fixas, paginas, feitas>>

-----------------------------------------------------------------------------
(* Memoria().                                                              *)

\* Wrong versions of Intervalo: inicio rounded up, i < fim, the remainder added
\* to the divisor, one page too many.
ErroInicioAcima(inicio, fim) ==
    ((inicio + TamPagina - 1) \div TamPagina)..
        (fim \div (TamPagina + IF fim % TamPagina > 0 THEN 1 ELSE 0))
ErroFimAberto(inicio, fim) ==
    (inicio \div TamPagina)..((fim \div (TamPagina + IF fim % TamPagina > 0 THEN 1 ELSE 0)) - 1)
ErroDivideTudo(inicio, fim) ==
    (inicio \div TamPagina)..(fim \div (TamPagina + (fim % TamPagina)))
ErroFimMaisUm(inicio, fim) == (inicio \div TamPagina)..((fim \div TamPagina) + 1)

\* The pages one call marks; the divisor of fim is 4096 or 4097.
Intervalo(inicio, fim) ==
    (inicio \div TamPagina)..(fim \div (TamPagina + IF fim % TamPagina > 0 THEN 1 ELSE 0))

EscrevaEntre(m, c) ==
    [p \in Paginas |-> IF p \in Intervalo(c.inicio, c.fim) THEN c.valor ELSE m[p]]

\* The seven calls, in order, with the arguments Inicial() passes.
Chamadas ==
    <<[inicio |-> 0, fim |-> 64 * KiB, valor |-> RESERVADO],
      [inicio |-> MiB, fim |-> nucleo.codigo_fim, valor |-> NUCLEO],
      [inicio |-> nucleo.codigo_fim, fim |-> nucleo.dados_fim, valor |-> NUCLEO],
      [inicio |-> ImagemInicio, fim |-> ImagemInicio + params.imagem, valor |-> NUCLEO],
      [inicio |-> params.baixa, fim |-> MiB - 1, valor |-> RESERVADO],
      [inicio |-> params.media, fim |-> 16 * MiB - 1, valor |-> RESERVADO],
      [inicio |-> 15 * MiB, fim |-> 16 * MiB - 1, valor |-> RESERVADO]>>

Zera ==
    /\ etapa = "nucleo"
    /\ paginas' = [p \in Paginas |-> VAZIO]
    /\ etapa' = "memoria"
    /\ UNCHANGED <<fixas, params, feitas>>

Marca ==
    /\ etapa = "memoria" /\ feitas < 7
    /\ paginas' = EscrevaEntre(paginas, Chamadas[feitas + 1])
    /\ feitas' = feitas + 1
    /\ UNCHANGED <<fixas, params, etapa>>

PartidaNext == MedeBaixa \/ MedeE801 \/ Mede88 \/ CarregaImagem \/ Zera \/ Marca

PartidaSpec == PartidaInit /\ [][PartidaNext]_partida_vars

-----------------------------------------------------------------------------
(* Properties of the map the allocator starts from.                        *)

Pronto == feitas = 7

\* Page p lies wholly in the bytes inicio <= b < fim.
Dentro(p, inicio, fim) == inicio <= p * TamPagina /\ (p + 1) * TamPagina <= fim

\* Page p holds a byte of inicio <= b < fim.
Toca(p, inicio, fim) == inicio < (p + 1) * TamPagina /\ p * TamPagina < fim /\ inicio < fim

\* Memoria() leaves a map that the allocator can work with: page 0 is taken
\* (its address is what AlocaPaginaFisica returns on failure) and no call of
\* EscrevaEntre reaches past the array.
MapaServe ==
    /\ Pronto => paginas \in MapasDoInicio
    /\ etapa = "memoria" /\ feitas < 7 =>
           LET c == Chamadas[feitas + 1] IN Intervalo(c.inicio, c.fim) \subseteq Paginas

\* The measures are those of the machine: the BIOS answered, or what the second
\* stage assumes in its place happens to be true.
MediuBaixa(m) == "int12" \in m.bios \/ m.baixa = 640
MediuMedia(m) == "e801" \in m.bios \/ "int88" \in m.bios

\* A free page is never in the first 64 KiB, the video area, the hole from 15 to
\* 16 MiB or past it, whatever the BIOS did; and it is whole, installed RAM
\* where the BIOS answered.  Where INT 12h or both functions of INT 15h fail
\* nothing is promised, and the code does leave absent memory free.
LivreEhRam ==
    Pronto => \A p \in Paginas : paginas[p] = VAZIO =>
        \/ /\ Dentro(p, 64 * KiB, 640 * KiB)
           /\ MediuBaixa(maquina) => Dentro(p, 64 * KiB, maquina.baixa * KiB)
        \/ /\ Dentro(p, MiB, 15 * MiB)
           /\ MediuMedia(maquina) => Dentro(p, MiB, MiB + maquina.media * KiB)

\* Every page that the kernel fills is marked.
PaginasCheiasMarcadas ==
    Pronto => \A p \in Paginas : Dentro(p, MiB, nucleo.dados_fim) => paginas[p] # VAZIO

\* The image the kernel will read its modules from is marked to its last byte:
\* its size is a multiple of 1 KiB and it fits a 1440 KiB disk, so the last
\* partial page survives the division by 4097.
ImagemMarcada ==
    Pronto => \A p \in Paginas :
        Toca(p, ImagemInicio, ImagemInicio + params.imagem) => paginas[p] # VAZIO

\* The comment on Inicial() (Brasis.c:24, "Endereco do fim dos dados do
\* nucleo"): the kernel's data, given to Memoria() to be reserved, are reserved
\* up to that address.
NucleoMarcado ==
    Pronto => \A p \in Paginas : Toca(p, MiB, nucleo.dados_fim) => paginas[p] # VAZIO
=============================================================================
