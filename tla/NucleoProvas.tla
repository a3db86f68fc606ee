---------------------------- MODULE NucleoProvas ----------------------------
(***************************************************************************)
(* Theorems about the two halves of the kernel's start.                    *)
(*                                                                         *)
(* Partida: what Memoria() reserves, for every machine, kernel and image   *)
(* that PartidaAssumption admits.  The invariant is Cobertura: the pages   *)
(* of the calls already made are not free.  A later call may rename the    *)
(* owner of a page but never frees it, so at the end the seven intervals   *)
(* are covered, and what remains of each theorem is arithmetic on their    *)
(* ends.                                                                   *)
(*                                                                         *)
(* Processador: no interrupt of a line goes through an entry that is not   *)
(* its own, and no stub ends the interrupt of another, whatever the lines  *)
(* and the calls.                                                          *)
(***************************************************************************)
EXTENDS Partida, Processador, FiniteSetTheorems, TLAPS

-----------------------------------------------------------------------------
(* The page map at the start.                                              *)

Ocupa(m, c) == \A p \in Paginas : p \in Intervalo(c.inicio, c.fim) => m[p] # VAZIO

Cobertura == \A k \in 1..7 : k <= feitas => Ocupa(paginas, Chamadas[k])

MediaCerta == params.media = IF "e801" \in maquina.bios THEN MediaE801(maquina) ELSE Media88(maquina)
BaixaCerta == params.baixa = Baixa12(maquina)

\* What each phase has already left in params.
ParamsCertos ==
    /\ etapa # "baixa" => BaixaCerta
    /\ etapa \in {"imagem", "nucleo", "memoria"} => MediaCerta
    /\ etapa \in {"nucleo", "memoria"} => params.imagem = imagem * KiB

IInv == PartidaTypeOK /\ ParamsCertos /\ Cobertura /\ (etapa # "memoria" => feitas = 0)

\* The facts on the constants that the arithmetic below needs.
Tipos ==
    /\ maquina.ax88 \in Nat /\ maquina.ax88 <= 65535
    /\ maquina.baixa \in Nat /\ 65 <= maquina.baixa /\ maquina.baixa <= 640
    /\ maquina.media \in Nat /\ maquina.media <= 15360
    /\ maquina.alta \in Nat /\ maquina.alta <= 1024
    /\ maquina.alta > 0 => maquina.media = 15360
    /\ nucleo.codigo_fim \in Nat /\ nucleo.dados_fim \in Nat
    /\ 1048576 <= nucleo.codigo_fim /\ nucleo.codigo_fim <= nucleo.dados_fim
    /\ nucleo.dados_fim <= 2097152
    /\ imagem \in Nat /\ imagem <= 1440

LEMMA Escalas == KiB = 1024 /\ MiB = 1048576 /\ KiB \in Nat /\ MiB \in Nat
  BY SMT DEF KiB, MiB

LEMMA QuatroMilPaginas == QtdPaginas = 4096
  BY PartidaAssumption

LEMMA EscalasSaoNaturais == KiB \in Nat /\ MiB \in Nat /\ 128 * MiB \in Nat
  BY Escalas, SMT

LEMMA TiposDasConstantes == PartidaTypeOK => Tipos
  <1> SUFFICES ASSUME PartidaTypeOK PROVE Tipos
    OBVIOUS
  <1>1. /\ maquina.ax88 \in 0..(64 * KiB - 1) /\ maquina.baixa \in 65..640
        /\ maquina.media \in 0..(15 * KiB) /\ maquina.alta \in 0..1024
        /\ maquina.alta > 0 => maquina.media = 15 * KiB
    <2>1. maquina \in [bios : SUBSET Funcoes, ax88 : 0..(64 * KiB - 1),
                       baixa : 65..640, media : 0..(15 * KiB), alta : 0..1024]
      BY PartidaAssumption DEF PartidaTypeOK
    <2>2. maquina.alta > 0 => maquina.media = 15 * KiB
      BY PartidaAssumption DEF PartidaTypeOK
    <2>3. QED
      BY <2>1, <2>2, ZenonT(30)
  <1>2. /\ nucleo \in [codigo_fim : MiB..(2 * MiB), dados_fim : MiB..(2 * MiB)]
        /\ nucleo.codigo_fim <= nucleo.dados_fim
    BY PartidaAssumption DEF PartidaTypeOK
  <1>3. imagem \in 0..1440
    BY PartidaAssumption DEF PartidaTypeOK
  <1>4. QED
    <2>1. \A a, b \in Nat : \A x \in a..b : x \in Nat /\ a <= x /\ x <= b
      BY SMT
    <2>2. 64 * KiB - 1 = 65535 /\ 15 * KiB = 15360 /\ 2 * MiB = 2097152
      BY Escalas, SMT
    <2>3. 64 * KiB - 1 \in Nat /\ 15 * KiB \in Nat /\ MiB \in Nat /\ 2 * MiB \in Nat
      BY <2>2, Escalas, SMT
    <2>4. /\ nucleo.codigo_fim \in MiB..(2 * MiB)
          /\ nucleo.dados_fim \in MiB..(2 * MiB)
      BY <1>2, Zenon
    <2>5. /\ maquina.ax88 \in Nat /\ maquina.ax88 <= 64 * KiB - 1
          /\ maquina.media \in Nat /\ maquina.media <= 15 * KiB
      <3>1. maquina.ax88 \in 0..(64 * KiB - 1) /\ maquina.media \in 0..(15 * KiB)
        BY <1>1
      <3>2. 0 \in Nat
        OBVIOUS
      <3>3. QED
        BY <3>1, <3>2, <2>1, <2>3, ZenonT(30)
    <2>6. /\ maquina.baixa \in Nat /\ 65 <= maquina.baixa /\ maquina.baixa <= 640
          /\ maquina.alta \in Nat /\ maquina.alta <= 1024
      <3>1. maquina.baixa \in 65..640 /\ maquina.alta \in 0..1024
        BY <1>1
      <3>2. maquina.baixa \in Nat /\ 65 <= maquina.baixa /\ maquina.baixa <= 640
        BY <3>1, SMTT(30)
      <3>3. maquina.alta \in Nat /\ maquina.alta <= 1024
        BY <3>1, SMTT(30)
      <3>4. QED
        BY <3>2, <3>3
    <2>7. maquina.ax88 <= 65535 /\ maquina.media <= 15360
      BY <2>5, <2>2, SMT
    <2>8. maquina.alta > 0 => maquina.media = 15360
      <3>1. maquina.alta > 0 => maquina.media = 15 * KiB
        BY <1>1
      <3>2. QED
        BY <3>1, <2>2, SMT
    <2>9. /\ nucleo.codigo_fim \in Nat /\ nucleo.dados_fim \in Nat
          /\ MiB <= nucleo.codigo_fim /\ nucleo.dados_fim <= 2 * MiB
      BY <2>1, <2>3, <2>4, Zenon
    <2>10. 1048576 <= nucleo.codigo_fim /\ nucleo.dados_fim <= 2097152
      BY <2>9, Escalas, SMT
    <2>11. imagem \in Nat /\ imagem <= 1440
      BY <1>3, SMT
    <2>12. QED
      BY <1>2, <2>5, <2>6, <2>7, <2>8, <2>9, <2>10, <2>11, SMT DEF Tipos

LEMMA Tamanho32 ==
  ASSUME NEW n \in Nat, n <= 131072 PROVE n * KiB \in Tamanhos
  <1>1. n * KiB \in Nat /\ n * KiB <= 128 * MiB /\ (n * KiB) % KiB = 0
    <2>1. n * 1024 \in Nat /\ n * 1024 <= 128 * 1048576 /\ (n * 1024) % 1024 = 0
      BY SMT
    <2>2. QED
      BY <2>1, Escalas, SMT
  <1>2. n * KiB \in 0..(128 * MiB)
    BY <1>1, EscalasSaoNaturais, SMT
  <1>3. QED
    BY <1>1, <1>2, SMT DEF Tamanhos

LEMMA SeteChamadas ==
  ASSUME NEW k \in 1..7
  PROVE  Chamadas[k].valor \in {NUCLEO, RESERVADO}
  <1>1. k = 1 \/ k = 2 \/ k = 3 \/ k = 4 \/ k = 5 \/ k = 6 \/ k = 7
    OBVIOUS
  <1>2. QED
    BY <1>1 DEF Chamadas

\* One call marks its interval and frees nothing.
LEMMA EscrevaEntreMarca ==
  ASSUME NEW m \in [Paginas -> {VAZIO, NUCLEO, RESERVADO}],
         NEW c, c.valor \in {NUCLEO, RESERVADO}
  PROVE  /\ EscrevaEntre(m, c) \in [Paginas -> {VAZIO, NUCLEO, RESERVADO}]
         /\ Ocupa(EscrevaEntre(m, c), c)
         /\ \A d : Ocupa(m, d) => Ocupa(EscrevaEntre(m, c), d)
  BY DEF EscrevaEntre, Ocupa, VAZIO, NUCLEO, RESERVADO

LEMMA Divide ==
  ASSUME NEW f \in Nat, NEW p \in Nat, p * 4097 <= f
  PROVE  p <= f \div 4097
  OBVIOUS

\* The pages of a call whose end is known, without the divisor.
LEMMA FimDoIntervalo ==
  ASSUME NEW inicio \in Nat, NEW fim \in Nat, NEW p \in Nat, p <= 4095,
         inicio <= p * 4096 + 4095,
         \/ (p + 1) * 4096 <= fim
         \/ /\ p * 4096 < fim
            /\ \/ fim % 4096 = 0
               \/ fim % 4096 >= p
  PROVE  p \in Intervalo(inicio, fim)
  <1>1. inicio \div 4096 <= p
    BY SMT
  <1>2. p <= fim \div (4096 + IF fim % 4096 > 0 THEN 1 ELSE 0)
    <2>1. CASE fim % 4096 = 0
      BY <2>1, SMT
    <2>2. CASE fim % 4096 > 0
      <3>1. p * 4097 <= fim
        BY <2>2, SMT
      <3>2. p <= fim \div 4097
        BY <3>1, Divide, SMT
      <3>3. QED
        BY <3>2, <2>2, SMT
    <2>3. QED
      BY <2>1, <2>2
  <1>3. QED
    BY <1>1, <1>2, SMT DEF Intervalo, TamPagina

-----------------------------------------------------------------------------

LEMMA Inicio == PartidaInit => IInv
  <1> SUFFICES ASSUME PartidaInit PROVE IInv
    OBVIOUS
  <1>1. PartidaTypeOK
    <2>1. 0 \in Tamanhos
      <3>1. 0 * KiB \in Tamanhos
        BY Tamanho32, SMT
      <3>2. 0 * KiB = 0
        BY Escalas, SMT
      <3>3. QED
        BY <3>1, <3>2
    <2>2. QED
      BY <2>1 DEF PartidaInit, PartidaTypeOK, Etapas
  <1>2. Cobertura
    BY DEF PartidaInit, Cobertura
  <1>3. QED
    BY <1>1, <1>2 DEF PartidaInit, IInv, ParamsCertos

LEMMA Passo == IInv /\ [PartidaNext]_partida_vars => IInv'
  <1> SUFFICES ASSUME IInv, [PartidaNext]_partida_vars PROVE IInv'
    OBVIOUS
  <1>t. PartidaTypeOK /\ Tipos
    BY TiposDasConstantes DEF IInv
  <1>1. CASE MedeBaixa
    <2>1. params'.baixa = Baixa12(maquina)
      BY <1>1, <1>t DEF MedeBaixa, PartidaTypeOK
    <2>2. PartidaTypeOK'
      <3>1. Baixa12(maquina) \in Tamanhos
        <4>1. maquina.baixa * KiB \in Tamanhos /\ 640 * KiB \in Tamanhos
          BY <1>t, Tamanho32 DEF Tipos
        <4>2. QED
          BY <4>1 DEF Baixa12
      <3>2. QED
        BY <1>1, <1>t, <2>1, <3>1 DEF MedeBaixa, PartidaTypeOK, fixas, Etapas
    <2>3. QED
      BY <1>1, <1>t, <2>1, <2>2
      DEF IInv, MedeBaixa, fixas, ParamsCertos, BaixaCerta, Cobertura, PartidaTypeOK
  <1>2. CASE MedeE801
    <2>1. MediaE801(maquina) \in Tamanhos /\ AltaE801(maquina) \in Tamanhos
      <3>1. maquina.media * KiB \in Tamanhos
        BY <1>t, Tamanho32 DEF Tipos
      <3>2. (maquina.alta * 64) * KiB \in Tamanhos
        BY <1>t, Tamanho32 DEF Tipos
      <3>3. maquina.alta * 64 * KiB = (maquina.alta * 64) * KiB
        BY <1>t DEF Tipos, KiB
      <3>4. QED
        BY <3>1, <3>2, <3>3 DEF MediaE801, AltaE801
    <2>2. PartidaTypeOK'
      BY <1>2, <1>t, <2>1 DEF MedeE801, PartidaTypeOK, fixas, Etapas
    <2>3. QED
      BY <1>2, <1>t, <2>2
      DEF IInv, MedeE801, fixas, ParamsCertos, BaixaCerta, MediaCerta, MediaE801, Cobertura, PartidaTypeOK
  <1>3. CASE Mede88
    <2>1. Media88(maquina) \in Tamanhos
      <3>1. PICK ax \in Nat : ax = Ax88(maquina) /\ ax + 1024 <= 131072
        BY <1>t DEF Tipos, Ax88
      <3>2. (ax + 1024) * KiB \in Tamanhos
        BY <3>1, Tamanho32, SMT
      <3>3. Media88(maquina) = (ax + 1024) * KiB
        BY <3>1, SMT DEF Media88, MiB, KiB
      <3>4. QED
        BY <3>2, <3>3
    <2>2. PartidaTypeOK'
      BY <1>3, <1>t, <2>1 DEF Mede88, PartidaTypeOK, fixas, Etapas
    <2>3. QED
      BY <1>3, <1>t, <2>2
      DEF IInv, Mede88, fixas, ParamsCertos, BaixaCerta, MediaCerta, Cobertura, PartidaTypeOK, Media88
  <1>4. CASE CarregaImagem
    <2>1. imagem * KiB \in Tamanhos
      BY <1>t, Tamanho32 DEF Tipos
    <2>2. PartidaTypeOK'
      BY <1>4, <1>t, <2>1 DEF CarregaImagem, PartidaTypeOK, fixas, Etapas
    <2>3. QED
      BY <1>4, <1>t, <2>2
      DEF IInv, CarregaImagem, fixas, ParamsCertos, BaixaCerta, MediaCerta, MediaE801, Media88,
          Cobertura, PartidaTypeOK
  <1>5. CASE Zera
    <2>1. PartidaTypeOK'
      BY <1>5, <1>t DEF Zera, PartidaTypeOK, fixas, Etapas
    <2>2. QED
      BY <1>5, <1>t, <2>1
      DEF IInv, Zera, fixas, ParamsCertos, BaixaCerta, MediaCerta, MediaE801, Media88,
          Cobertura, PartidaTypeOK
  <1>6. CASE Marca
    <2> DEFINE c == Chamadas[feitas + 1]
    <2>0. feitas \in 0..6 /\ feitas' = feitas + 1 /\ Chamadas' = Chamadas
      BY <1>6, <1>t DEF Marca, fixas, Chamadas, PartidaTypeOK
    <2>1. c.valor \in {NUCLEO, RESERVADO}
      BY <2>0, SeteChamadas
    <2>2. paginas \in [Paginas -> {VAZIO, NUCLEO, RESERVADO}] /\ paginas' = EscrevaEntre(paginas, c)
      BY <1>6, <1>t DEF Marca, PartidaTypeOK
    <2> HIDE DEF c
    <2>3. /\ paginas' \in [Paginas -> {VAZIO, NUCLEO, RESERVADO}]
          /\ Ocupa(paginas', c)
          /\ \A d : Ocupa(paginas, d) => Ocupa(paginas', d)
      BY <2>1, <2>2, EscrevaEntreMarca
    <2>4. PartidaTypeOK'
      BY <1>6, <1>t, <2>0, <2>3 DEF Marca, PartidaTypeOK, fixas, Etapas
    <2>5. Cobertura'
      <3> SUFFICES ASSUME NEW k \in 1..7, k <= feitas' PROVE Ocupa(paginas', Chamadas[k])
        BY <2>0 DEF Cobertura
      <3>1. CASE k <= feitas
        BY <3>1, <2>3 DEF IInv, Cobertura
      <3>2. CASE k = feitas + 1
        BY <3>2, <2>3 DEF c
      <3>3. QED
        BY <2>0, <3>1, <3>2
    <2>6. QED
      BY <1>6, <1>t, <2>4, <2>5
      DEF IInv, Marca, fixas, ParamsCertos, BaixaCerta, MediaCerta, MediaE801, Media88
  <1>7. CASE UNCHANGED partida_vars
    <2>1. PartidaTypeOK' /\ Chamadas' = Chamadas
      BY <1>7, <1>t DEF partida_vars, PartidaTypeOK, Chamadas
    <2>2. Cobertura'
      BY <1>7, <2>1 DEF partida_vars, IInv, Cobertura, Ocupa
    <2>3. QED
      BY <1>7, <2>1, <2>2
      DEF IInv, partida_vars, ParamsCertos, BaixaCerta, MediaCerta, MediaE801, Media88
  <1>8. QED
    BY <1>1, <1>2, <1>3, <1>4, <1>5, <1>6, <1>7 DEF PartidaNext

LEMMA Invariancia == PartidaSpec => []IInv
  BY Inicio, Passo, PTL DEF PartidaSpec

-----------------------------------------------------------------------------

\* At the end, a page of the k-th interval is not free.
LEMMA NoFim ==
  ASSUME IInv, Pronto, NEW k \in 1..7, NEW p \in Paginas,
         p \in Intervalo(Chamadas[k].inicio, Chamadas[k].fim)
  PROVE  paginas[p] # VAZIO
  <1>1. feitas = 7 /\ k <= feitas
    BY DEF Pronto
  <1>2. Ocupa(paginas, Chamadas[k])
    BY <1>1 DEF IInv, Cobertura
  <1>3. QED
    BY <1>2 DEF Ocupa

LEMMA PaginasSaoNaturais ==
  ASSUME NEW p \in Paginas PROVE p \in Nat /\ p <= 4095
  <1>1. QtdPaginas - 1 = 4095
    BY QuatroMilPaginas, SMT
  <1>2. QtdPaginas \in Nat
    BY GeometriaAssumption
  <1>3. p \in Nat /\ p <= QtdPaginas - 1
    BY <1>2, SMT DEF Paginas
  <1>4. QED
    BY <1>1, <1>3, SMT

\* Every page that the kernel fills, code or data, ends up marked, wherever the
\* linker put the ends of the two sections.
THEOREM NucleoReservado == PartidaSpec => []PaginasCheiasMarcadas
  <1>1. IInv => PaginasCheiasMarcadas
    <2> SUFFICES ASSUME IInv, Pronto, NEW p \in Paginas, Dentro(p, MiB, nucleo.dados_fim)
                 PROVE  paginas[p] # VAZIO
      BY DEF PaginasCheiasMarcadas
    <2>1. Tipos
      BY TiposDasConstantes DEF IInv
    <2>2. p \in Nat /\ p <= 4095
      BY PaginasSaoNaturais
    <2>3. 1048576 <= p * 4096 /\ (p + 1) * 4096 <= nucleo.dados_fim
      BY <2>2, Escalas, SMT DEF Dentro, TamPagina
    <2>4. CASE (p + 1) * 4096 <= nucleo.codigo_fim
      <3>1. p \in Intervalo(1048576, nucleo.codigo_fim)
        BY <2>1, <2>2, <2>3, <2>4, FimDoIntervalo, SMT DEF Tipos
      <3>2. Chamadas[2].inicio = 1048576 /\ Chamadas[2].fim = nucleo.codigo_fim
        BY Escalas, SMT DEF Chamadas
      <3>3. QED
        BY <3>1, <3>2, NoFim, SMT
    <2>5. CASE nucleo.codigo_fim < (p + 1) * 4096
      <3>1. p \in Intervalo(nucleo.codigo_fim, nucleo.dados_fim)
        BY <2>1, <2>2, <2>3, <2>5, FimDoIntervalo, SMT DEF Tipos
      <3>2. Chamadas[3].inicio = nucleo.codigo_fim /\ Chamadas[3].fim = nucleo.dados_fim
        BY SMT DEF Chamadas
      <3>3. QED
        BY <3>1, <3>2, NoFim, SMT
    <2>6. QED
      BY <2>1, <2>2, <2>4, <2>5, SMT DEF Tipos
  <1>2. QED
    BY <1>1, Invariancia, PTL

\* A page left free is outside the reserved areas on every machine, and installed
\* RAM on every machine whose BIOS answers.
THEOREM SoRamLivre == PartidaSpec => []LivreEhRam
  <1>1. IInv => LivreEhRam
    <2> SUFFICES ASSUME IInv, Pronto, NEW p \in Paginas, paginas[p] = VAZIO
                 PROVE  \/ /\ Dentro(p, 64 * KiB, 640 * KiB)
                           /\ MediuBaixa(maquina) => Dentro(p, 64 * KiB, maquina.baixa * KiB)
                        \/ /\ Dentro(p, MiB, 15 * MiB)
                           /\ MediuMedia(maquina) => Dentro(p, MiB, MiB + maquina.media * KiB)
      BY DEF LivreEhRam
    <2>1. Tipos /\ BaixaCerta /\ MediaCerta
      <3>1. etapa = "memoria"
        BY DEF IInv, Pronto
      <3>2. QED
        BY <3>1, TiposDasConstantes DEF IInv, ParamsCertos
    <2>2. p \in Nat /\ p <= 4095
      BY PaginasSaoNaturais
    <2>3. PICK b \in Nat : /\ params.baixa = b * 1024 /\ 65 <= b /\ b <= 640
                           /\ MediuBaixa(maquina) => b = maquina.baixa
      BY <2>1, Escalas, SMT DEF BaixaCerta, Baixa12, MediuBaixa, Tipos
    <2>4. /\ params.media \in Nat
          /\ \/ MediuMedia(maquina) => params.media <= 1048576 + maquina.media * 1024
             \/ maquina.media = 15360
      BY <2>1, Escalas, SMT DEF MediaCerta, MediaE801, Media88, Ax88, MediuMedia, Tipos
    <2>5. 65536 <= p * 4096
      <3>1. Chamadas[1].inicio = 0 /\ Chamadas[1].fim = 65536
        BY Escalas, SMT DEF Chamadas
      <3>2. p \notin Intervalo(0, 65536)
        BY <3>1, NoFim, SMT
      <3>3. QED
        BY <2>2, <3>2, FimDoIntervalo, SMT
    <2>6. CASE p <= 255
      <3>1. Chamadas[5].inicio = params.baixa /\ Chamadas[5].fim = 1048575
        BY Escalas, SMT DEF Chamadas
      <3>2. p \notin Intervalo(params.baixa, 1048575)
        BY <3>1, NoFim, SMT
      <3>3. (p + 1) * 4096 <= params.baixa
        BY <2>2, <2>3, <2>6, <3>2, FimDoIntervalo, SMT
      <3>4. /\ Dentro(p, 64 * KiB, 640 * KiB)
            /\ MediuBaixa(maquina) => Dentro(p, 64 * KiB, maquina.baixa * KiB)
        BY <2>1, <2>2, <2>3, <2>5, <3>3, Escalas, SMT DEF Dentro, TamPagina, Tipos
      <3>5. QED
        BY <3>4
    <2>7. CASE p > 255
      <3>1. /\ Chamadas[6].inicio = params.media /\ Chamadas[6].fim = 16777215
            /\ Chamadas[7].inicio = 15728640 /\ Chamadas[7].fim = 16777215
        BY Escalas, SMT DEF Chamadas
      <3>2. p \notin Intervalo(params.media, 16777215) /\ p \notin Intervalo(15728640, 16777215)
        BY <3>1, NoFim, SMT
      <3>3. (p + 1) * 4096 <= 15728640
        BY <2>2, <3>2, FimDoIntervalo, SMT
      <3>4. (p + 1) * 4096 <= params.media
        BY <2>2, <2>4, <3>2, FimDoIntervalo, SMT
      <3>5. /\ Dentro(p, MiB, 15 * MiB)
            /\ MediuMedia(maquina) => Dentro(p, MiB, MiB + maquina.media * KiB)
        BY <2>1, <2>2, <2>4, <2>7, <3>3, <3>4, Escalas, SMT DEF Dentro, TamPagina, Tipos
      <3>6. QED
        BY <3>5
    <2>8. QED
      BY <2>2, <2>6, <2>7, SMT
  <1>2. QED
    BY <1>1, Invariancia, PTL

\* The image is marked to its last byte.  Its last partial page holds 1, 2 or
\* 3 KiB, never fewer bytes than the page's number, which is below 872.
THEOREM ImagemReservada == PartidaSpec => []ImagemMarcada
  <1>1. IInv => ImagemMarcada
    <2> SUFFICES ASSUME IInv, Pronto, NEW p \in Paginas,
                        Toca(p, ImagemInicio, ImagemInicio + params.imagem)
                 PROVE  paginas[p] # VAZIO
      BY DEF ImagemMarcada
    <2>1. Tipos /\ params.imagem = imagem * KiB
      <3>1. etapa = "memoria"
        BY DEF IInv, Pronto
      <3>2. QED
        BY <3>1, TiposDasConstantes DEF IInv, ParamsCertos
    <2>2. p \in Nat /\ p <= 4095
      BY PaginasSaoNaturais
    <2> DEFINE fim == 2097152 + imagem * 1024
    <2>3. Chamadas[4].inicio = 2097152 /\ Chamadas[4].fim = fim
      BY <2>1, Escalas, SMT DEF Chamadas, ImagemInicio
    <2>4. fim \in Nat /\ 2097152 < (p + 1) * 4096 /\ p * 4096 < fim /\ p <= 872
      BY <2>1, <2>2, Escalas, SMT DEF Toca, TamPagina, ImagemInicio, Tipos
    <2>5. fim % 4096 = 0 \/ fim % 4096 >= 1024
      BY <2>1, SMT DEF Tipos
    <2>6. p \in Intervalo(2097152, fim)
      BY <2>2, <2>4, <2>5, FimDoIntervalo, SMT
    <2>7. QED
      BY <2>3, <2>6, NoFim, SMT
  <1>2. QED
    BY <1>1, Invariancia, PTL

LEMMA PaginasDaMaquina ==
  ASSUME NEW p \in 0..4095 PROVE p \in Paginas
  <1>1. QtdPaginas - 1 = 4095
    BY QuatroMilPaginas, SMT
  <1>2. QED
    BY <1>1, SMT DEF Paginas

\* No call whose end is below 16 MiB reaches past the array.
LEMMA IntervaloDentro ==
  ASSUME NEW inicio \in Nat, NEW fim \in Nat, fim < 16 * MiB
  PROVE  Intervalo(inicio, fim) \subseteq Paginas
  <1> SUFFICES ASSUME NEW p \in Intervalo(inicio, fim) PROVE p \in Paginas
    BY Zenon
  <1> DEFINE soma == IF fim % 4096 > 0 THEN 1 ELSE 0
  <1>1. p \in (inicio \div 4096)..(fim \div (4096 + soma))
    BY SMT DEF Intervalo, TamPagina
  <1>2. fim < 16777216
    BY Escalas, SMT
  <1>3. inicio \div 4096 \in Nat
    BY SMT
  <1>4. fim \div (4096 + soma) \in Nat /\ fim \div (4096 + soma) <= 4095
    <2>1. CASE soma = 0
      BY <1>2, <2>1, SMTT(30)
    <2>2. CASE soma = 1
      BY <1>2, <2>2, SMTT(30)
    <2>3. QED
      BY <2>1, <2>2, SMT
  <1> HIDE DEF soma
  <1>5. p \in 0..4095
    BY <1>1, <1>3, <1>4, SMTT(30)
  <1>6. QtdPaginas - 1 = 4095
    BY QuatroMilPaginas, SMT
  <1>7. QED
    BY <1>5, <1>6, SMT DEF Paginas

\* The map has the form that the allocator starts from: page 0 is taken, and the
\* seven calls stay inside the array for every machine, kernel and image.
THEOREM MapaPronto == PartidaSpec => []MapaServe
  <1>1. ASSUME IInv, Pronto PROVE paginas \in MapasDoInicio
    <2>1. 0 \in Paginas /\ paginas \in [Paginas -> {VAZIO, NUCLEO, RESERVADO}]
      <3>1. 0 \in Paginas
        BY PaginasDaMaquina, SMT
      <3>2. QED
        BY <1>1, <3>1 DEF IInv, PartidaTypeOK
    <2>2. Chamadas[1].inicio = 0 /\ Chamadas[1].fim = 65536
      BY Escalas, SMT DEF Chamadas
    <2>3. 0 \in Intervalo(0, 65536)
      BY FimDoIntervalo, SMT
    <2>4. paginas[0] # VAZIO
      BY <1>1, <2>1, <2>2, <2>3, NoFim, SMT
    <2>5. QED
      BY <2>1, <2>4 DEF MapasDoInicio
  <1>2. ASSUME IInv, etapa = "memoria", feitas < 7
        PROVE  Intervalo(Chamadas[feitas + 1].inicio, Chamadas[feitas + 1].fim) \subseteq Paginas
    <2> DEFINE k == feitas + 1
    <2>1. Tipos /\ params.imagem = imagem * KiB
      BY <1>2, TiposDasConstantes DEF IInv, ParamsCertos
    <2>2. k \in 1..7 /\ params.baixa \in Nat /\ params.media \in Nat
      BY <1>2, EscalasSaoNaturais, SMT DEF IInv, PartidaTypeOK, Tamanhos
    <2> HIDE DEF k
    <2>3. /\ Chamadas[1].inicio = 0 /\ Chamadas[1].fim = 65536
          /\ Chamadas[2].inicio = 1048576 /\ Chamadas[2].fim = nucleo.codigo_fim
          /\ Chamadas[3].inicio = nucleo.codigo_fim /\ Chamadas[3].fim = nucleo.dados_fim
          /\ Chamadas[4].inicio = 2097152 /\ Chamadas[4].fim = 2097152 + imagem * 1024
          /\ Chamadas[5].inicio = params.baixa /\ Chamadas[5].fim = 1048575
          /\ Chamadas[6].inicio = params.media /\ Chamadas[6].fim = 16777215
          /\ Chamadas[7].inicio = 15728640 /\ Chamadas[7].fim = 16777215
      BY <2>1, Escalas, SMT DEF Chamadas, ImagemInicio
    <2>4. /\ Chamadas[k].inicio \in Nat /\ Chamadas[k].fim \in Nat
          /\ Chamadas[k].fim < 16 * MiB
      <3>1. k = 1 \/ k = 2 \/ k = 3 \/ k = 4 \/ k = 5 \/ k = 6 \/ k = 7
        BY <2>2, SMT
      <3>2. QED
        BY <2>1, <2>2, <2>3, <3>1, Escalas, SMT DEF Tipos
    <2>5. Intervalo(Chamadas[k].inicio, Chamadas[k].fim) \subseteq Paginas
      BY <2>4, IntervaloDentro, Zenon
    <2>6. QED
      BY <2>5 DEF k
  <1>3. IInv => MapaServe
    BY <1>1, <1>2, Zenon DEF MapaServe
  <1>4. QED
    BY <1>3, Invariancia, PTL

-----------------------------------------------------------------------------
(* Interrupts.                                                             *)

\* A nonempty set of lines has a first one.
LEMMA PrimeiraTipo ==
    ASSUME NEW S \in SUBSET (0..15), S # {}
    PROVE  Primeira(S) \in S
<1> DEFINE T == {Ordem(n) : n \in S}
<1>0. \A n \in 0..15 : Ordem(n) \in Nat  BY DEF Ordem
<1>1. T \subseteq Nat /\ T # {}  BY <1>0
<1>2. \E t \in T : \A u \in T : <<u, t>> \notin OpToRel(<, Nat)
      BY <1>1, NatLessThanWellFounded, WFMin
<1>3. PICK t \in T : \A u \in T : ~ (u < t)
  <2> HIDE DEF T
  <2> QED BY <1>1, <1>2 DEF OpToRel
<1>4. PICK n \in S : t = Ordem(n)  BY <1>3
<1>5. \A o \in S : Ordem(n) <= Ordem(o)
  <2> SUFFICES ASSUME NEW o \in S PROVE Ordem(n) <= Ordem(o)
      OBVIOUS
  <2>1. Ordem(o) \in T /\ Ordem(o) \in Nat /\ Ordem(n) \in Nat  BY <1>0
  <2>2. ~ (Ordem(o) < Ordem(n))  BY <2>1, <1>3, <1>4
  <2> QED BY <2>1, <2>2
<1> QED BY <1>5 DEF Primeira

-----------------------------------------------------------------------------
(* The invariant.                                                          *)

\* Nothing is interrupted before Processador() has finished, and by then the tables
\* and the 8259 are as they must be.
Montado ==
    /\ fase \in {"reprograma", "pit", "sti", "pronto"} => idt = "tudo"
    /\ fase \in {"pit", "sti", "pronto"} => base = 32
    /\ fase # "pronto" => ~ habilitadas /\ pilha = << >>

Inv == TypeOK /\ Montado /\ LinhaNoSeuManipulador

LEMMA InicioInv == Init => Inv
<1> SUFFICES ASSUME Init PROVE Inv
    OBVIOUS
<1>1. pilha = << >> /\ pilha \in Seq(Quadros)  BY DEF Init
<1>2. manipuladores \in [Irqs -> Manipuladores]  BY DEF Init, Manipuladores
<1>3. 0 \in 0..MaxPedidos /\ 0 \in 0..MaxChamadas  BY ProcessadorAssumption
<1>4. TypeOK
      BY <1>1, <1>2, <1>3 DEF Init, TypeOK, Fases
<1>5. Montado  BY DEF Init, Montado
<1>6. LinhaNoSeuManipulador  BY <1>1 DEF LinhaNoSeuManipulador
<1> QED BY <1>4, <1>5, <1>6 DEF Inv

\* The entry a line goes through once Processador() has finished.
LEMMA QuadroCerto ==
    ASSUME Inv, fase = "pronto", NEW n \in Irqs
    PROVE  /\ Quadro(n) \in Quadros
           /\ Quadro(n).entrada = [tipo |-> "pic", n |-> Quadro(n).linha]
<1>1. base = 32 /\ idt = "tudo"  BY DEF Inv, Montado
<1>2. n \in 0..15  BY ProcessadorAssumption
<1>3. Vetor(n) = 32 + n  BY <1>1, <1>2 DEF Vetor
<1>4. Entrada(Vetor(n)) = [n |-> n, tipo |-> "pic"]
      BY <1>1, <1>2, <1>3 DEF Entrada
<1> QED BY <1>2, <1>4 DEF Quadro, Quadros, Manipuladores

\* An interrupt is taken, by its own line or as a spurious one.
LEMMA ChamaInv ==
    ASSUME Inv, Interrompe, NEW n \in Irqs, Chama(n),
           pedidos' \subseteq Irqs, servico' \subseteq Irqs \cup {Cascata},
           aceitos' \in Nat, regular' \in BOOLEAN
    PROVE  Inv'
<1>1. fase = "pronto"  BY DEF Inv, Montado, Interrompe
<1>2. pilha \in Seq(Quadros)  BY DEF Inv, TypeOK
<1>3. Quadro(n) \in Quadros /\ Quadro(n).entrada = [tipo |-> "pic", n |-> Quadro(n).linha]
      BY <1>1, QuadroCerto
<1>4. pilha' = Append(pilha, Quadro(n))  BY DEF Chama
<1>5. pilha' \in Seq(Quadros)  BY <1>2, <1>3, <1>4
<1>6. TypeOK'  BY <1>5 DEF Inv, TypeOK, Chama
<1>7. Montado'  BY <1>1 DEF Inv, Montado, Chama
<1>8. LinhaNoSeuManipulador'
  <2> SUFFICES ASSUME NEW k \in DOMAIN pilha'
               PROVE  pilha'[k].entrada = [tipo |-> "pic", n |-> pilha'[k].linha]
      BY DEF LinhaNoSeuManipulador
  <2>1. k \in DOMAIN pilha \/ pilha'[k] = Quadro(n)  BY <1>2, <1>4
  <2>2. CASE k \in DOMAIN pilha
        BY <2>2, <1>2, <1>4 DEF Inv, LinhaNoSeuManipulador
  <2> QED BY <2>1, <2>2, <1>3
<1> QED BY <1>6, <1>7, <1>8 DEF Inv

\* The running stub goes to another statement: its line and its entry stay.
LEMMA TopoInv ==
    ASSUME Inv, pilha # << >>,
           NEW e \in {"trata", "eoi", "eoi2", "sai"}, NEW t \in Manipuladores,
           pilha' = [pilha EXCEPT ![Len(pilha)] = [@ EXCEPT !.em = e, !.trata = t]]
    PROVE  pilha' \in Seq(Quadros) /\ LinhaNoSeuManipulador'
<1>1. pilha \in Seq(Quadros) /\ Len(pilha) \in DOMAIN pilha  BY DEF Inv, TypeOK
<1>2. pilha[Len(pilha)] \in Quadros  BY <1>1
<1>3. [pilha[Len(pilha)] EXCEPT !.em = e, !.trata = t] \in Quadros  BY <1>2 DEF Quadros
<1>4. pilha' \in Seq(Quadros)  BY <1>1, <1>3
<1>5. LinhaNoSeuManipulador'
      BY <1>1, <1>2 DEF Inv, LinhaNoSeuManipulador, Quadros
<1> QED BY <1>4, <1>5

LEMMA SegueInv ==
    ASSUME Inv, pilha # << >>, NEW e \in {"trata", "eoi", "eoi2", "sai"}, Segue(e)
    PROVE  pilha' \in Seq(Quadros) /\ LinhaNoSeuManipulador'
<1>1. pilha \in Seq(Quadros) /\ Len(pilha) \in DOMAIN pilha  BY DEF Inv, TypeOK
<1>2. pilha[Len(pilha)] \in Quadros  BY <1>1
<1>3. [pilha[Len(pilha)] EXCEPT !.em = e] = [pilha[Len(pilha)] EXCEPT !.em = e, !.trata = pilha[Len(pilha)].trata]
      BY <1>2 DEF Quadros
<1>4. pilha[Len(pilha)].trata \in Manipuladores  BY <1>2 DEF Quadros
<1>5. pilha' = [pilha EXCEPT ![Len(pilha)] = [@ EXCEPT !.em = e, !.trata = pilha[Len(pilha)].trata]]
      BY <1>1, <1>3 DEF Segue
<1> QED BY <1>4, <1>5, TopoInv

-----------------------------------------------------------------------------
(* The steps.                                                              *)

LEMMA FimTipo == ASSUME TypeOK, NEW S PROVE Fim(S) \subseteq Irqs \cup {Cascata}
BY DEF TypeOK, Fim

LEMMA NextInv == Inv /\ [Next]_vars => Inv'
<1> SUFFICES ASSUME Inv, [Next]_vars PROVE Inv'
    OBVIOUS
<1>t. TypeOK  BY DEF Inv
<1>m. ASSUME pilha' \in Seq(Quadros) /\ LinhaNoSeuManipulador', pilha # << >>,
             UNCHANGED resto, manipuladores' = manipuladores,
             habilitadas' \in BOOLEAN, servico' \subseteq Irqs \cup {Cascata},
             contador' \in Nat, chamadas' \in 0..MaxChamadas
      PROVE  Inv'
  <2>1. fase = "pronto"  BY <1>m DEF Inv, Montado
  <2>2. TypeOK'  BY <1>m, <1>t DEF TypeOK, resto
  <2>3. Montado'  BY <1>m, <2>1 DEF Inv, Montado, resto
  <2> QED BY <1>m, <2>2, <2>3 DEF Inv
<1>1. ASSUME NEW n \in Irqs, Pedido(n) PROVE Inv'
  <2>1. TypeOK'  BY <1>1, <1>t, ProcessadorAssumption DEF Pedido, TypeOK
  <2>2. Montado' /\ LinhaNoSeuManipulador'
        BY <1>1 DEF Pedido, Inv, Montado, LinhaNoSeuManipulador
  <2> QED BY <2>1, <2>2 DEF Inv
<1>p. ASSUME Passam # {} PROVE Primeira(Passam) \in Passam /\ Primeira(Passam) \in Irqs
  <2>1. Passam \in SUBSET (0..15)  BY <1>t, ProcessadorAssumption DEF Passam, TypeOK
  <2> QED BY <2>1, <1>p, <1>t, PrimeiraTipo DEF Passam, TypeOK
<1>2. CASE Aceita
  <2> DEFINE n == Primeira(Passam)
  <2>1. n \in Irqs  BY <1>2, <1>p DEF Aceita, Interrompe
  <2>2. pedidos' \subseteq Irqs /\ servico' \subseteq Irqs \cup {Cascata}
        BY <1>2, <1>t, <2>1 DEF Aceita, TypeOK
  <2>3. aceitos' \in Nat /\ regular' \in BOOLEAN  BY <1>2, <1>t DEF Aceita, TypeOK
  <2>4. Chama(n) /\ Interrompe  BY <1>2 DEF Aceita
  <2> HIDE DEF n
  <2> QED BY <2>1, <2>2, <2>3, <2>4, ChamaInv
<1>3. CASE Espuria
  <2>1. Interrompe /\ (Chama(7) \/ Chama(15))  BY <1>3 DEF Espuria
  <2>2. pedidos' \subseteq Irqs /\ servico' \subseteq Irqs \cup {Cascata}
        BY <1>3, <1>t DEF Espuria, TypeOK
  <2>3. aceitos' \in Nat /\ regular' \in BOOLEAN  BY <1>3, <1>t DEF Espuria, TypeOK
  <2>4. 7 \in Irqs /\ 15 \in Irqs  BY ProcessadorAssumption
  <2> QED BY <2>1, <2>2, <2>3, <2>4, ChamaInv
<1>4. CASE Testa
  <2> DEFINE l == Topo.entrada.n
             m == manipuladores[l]
  <2>1. pilha # << >> /\ pilha \in Seq(Quadros) /\ Len(pilha) \in DOMAIN pilha
        BY <1>4, <1>t DEF Testa, No, TypeOK
  <2>7. l \in Irqs /\ Topo.entrada.tipo = "pic"
    <3>1. Topo \in Quadros  BY <2>1 DEF Topo
    <3>2. Topo.entrada = [tipo |-> "pic", n |-> Topo.linha]
          BY <2>1 DEF Inv, LinhaNoSeuManipulador, Topo
    <3>3. Topo.entrada.n = Topo.linha /\ Topo.entrada.tipo = "pic"  BY <3>2
    <3>4. Topo.linha \in Irqs  BY <3>1 DEF Quadros
    <3> QED BY <3>3, <3>4
  <2>3. m \in Manipuladores  BY <2>7, <1>t DEF TypeOK
  <2>4. PICK e \in {"trata", "eoi"} :
           pilha' = [pilha EXCEPT ![Len(pilha)].em = e, ![Len(pilha)].trata = m]
        BY <1>4, <2>7 DEF Testa, SoMensagem
  <2> HIDE DEF m, l
  <2>5. pilha' = [pilha EXCEPT ![Len(pilha)] = [@ EXCEPT !.em = e, !.trata = m]]
        BY <2>1, <2>4
  <2>6. pilha' \in Seq(Quadros) /\ LinhaNoSeuManipulador'  BY <2>1, <2>3, <2>5, TopoInv
  <2> QED BY <1>4, <1>t, <1>m, <2>1, <2>6 DEF Testa, TypeOK
<1>5. CASE Tick
  <2>1. pilha # << >> /\ Segue("eoi")  BY <1>5 DEF Tick, No
  <2>2. pilha' \in Seq(Quadros) /\ LinhaNoSeuManipulador'  BY <2>1, SegueInv
  <2>3. contador' \in Nat  BY <1>5, <1>t DEF Tick, TypeOK
  <2> QED BY <1>5, <1>t, <1>m, <2>1, <2>2, <2>3 DEF Tick, TypeOK
<1>6. CASE HabilitaNoMeio
  <2>1. pilha # << >> /\ pilha' = pilha  BY <1>6 DEF HabilitaNoMeio, No
  <2>2. pilha' \in Seq(Quadros) /\ LinhaNoSeuManipulador'
        BY <2>1 DEF Inv, TypeOK, LinhaNoSeuManipulador
  <2>3. chamadas' \in 0..MaxChamadas
        BY <1>6, <1>t, ProcessadorAssumption DEF HabilitaNoMeio, TypeOK
  <2> QED BY <1>6, <1>t, <1>m, <2>1, <2>2, <2>3 DEF HabilitaNoMeio, TypeOK
<1>7. CASE Volta
  <2>1. pilha # << >> /\ Segue("eoi")  BY <1>7 DEF Volta, No
  <2>2. pilha' \in Seq(Quadros) /\ LinhaNoSeuManipulador'  BY <2>1, SegueInv
  <2> QED BY <1>7, <1>t, <1>m, <2>1, <2>2 DEF Volta, TypeOK
<1>8. CASE EoiEscravo
  <2>1. pilha # << >> /\ Segue("eoi2")  BY <1>8 DEF EoiEscravo, No
  <2>2. pilha' \in Seq(Quadros) /\ LinhaNoSeuManipulador'  BY <2>1, SegueInv
  <2>3. servico' \subseteq Irqs \cup {Cascata}  BY <1>8, <1>t, FimTipo DEF EoiEscravo
  <2> QED BY <1>8, <1>t, <1>m, <2>1, <2>2, <2>3 DEF EoiEscravo, TypeOK
<1>9. CASE EoiMestre
  <2>1. pilha # << >> /\ Segue("sai")  BY <1>9 DEF EoiMestre, No
  <2>2. pilha' \in Seq(Quadros) /\ LinhaNoSeuManipulador'  BY <2>1, SegueInv
  <2>3. servico' \subseteq Irqs \cup {Cascata}  BY <1>9, <1>t, FimTipo DEF EoiMestre
  <2> QED BY <1>9, <1>t, <1>m, <2>1, <2>2, <2>3 DEF EoiMestre, TypeOK
<1>10. CASE Sai
  <2>1. pilha # << >> /\ pilha \in Seq(Quadros) /\ Len(pilha) - 1 \in 0..Len(pilha)
        BY <1>10, <1>t DEF Sai, No, TypeOK
  <2>2. pilha' = SubSeq(pilha, 1, Len(pilha) - 1)  BY <1>10 DEF Sai
  <2>3. pilha' \in Seq(Quadros) /\ \A k \in DOMAIN pilha' : k \in DOMAIN pilha /\ pilha'[k] = pilha[k]
        BY <2>1, <2>2
  <2>4. LinhaNoSeuManipulador'  BY <2>3 DEF Inv, LinhaNoSeuManipulador
  <2> QED BY <1>10, <1>t, <1>m, <2>1, <2>3, <2>4 DEF Sai, TypeOK
<1>11. CASE Inicia
  <2>1. pilha' = << >> /\ pilha' \in Seq(Quadros)
        BY <1>11, <1>t DEF Inicia, Idt, Pic, Reprograma, Pit, Sti, Livre, TypeOK
  <2>2. TypeOK'
    <3>1. CASE Idt  BY <3>1, <1>t, <2>1 DEF Idt, TypeOK, Fases, hardware
    <3>2. CASE Pic
      <4>1. manipuladores' \in [Irqs -> Manipuladores]  BY <3>2 DEF Pic, Manipuladores
      <4> QED BY <3>2, <4>1, <1>t, <2>1 DEF Pic, TypeOK, Fases, hardware
    <3>3. CASE Reprograma
      <4>1. base' \in {8, 32} /\ pedidos' \subseteq Irqs /\ servico' \subseteq Irqs \cup {Cascata}
            BY <3>3 DEF Reprograma, Base
      <4> QED BY <3>3, <4>1, <1>t, <2>1 DEF Reprograma, TypeOK, Fases
    <3>4. CASE Pit
      <4>1. manipuladores' \in [Irqs -> Manipuladores]
            BY <3>4, <1>t DEF Pit, TypeOK, Manipuladores
      <4> QED BY <3>4, <4>1, <1>t, <2>1 DEF Pit, TypeOK, Fases, hardware
    <3>5. CASE Sti  BY <3>5, <1>t, <2>1 DEF Sti, TypeOK, Fases, hardware
    <3> QED BY <1>11, <3>1, <3>2, <3>3, <3>4, <3>5 DEF Inicia
  <2>3. Montado'
        BY <1>11, <1>t, <2>1
        DEF Inv, Inicia, Idt, Pic, Reprograma, Pit, Sti, Livre, Montado, Base, hardware
  <2>4. LinhaNoSeuManipulador'  BY <2>1 DEF LinhaNoSeuManipulador
  <2> QED BY <2>2, <2>3, <2>4 DEF Inv
<1>12. CASE HabilitarInterrupcoes \/ DesabilitarInterrupcoes
  <2>3. habilitadas' \in BOOLEAN
        BY <1>12 DEF HabilitarInterrupcoes, DesabilitarInterrupcoes
  <2>4. chamadas' \in 0..MaxChamadas
        BY <1>12, <1>t, ProcessadorAssumption
        DEF HabilitarInterrupcoes, DesabilitarInterrupcoes, TypeOK
  <2>1. TypeOK'
        BY <1>12, <1>t, <2>3, <2>4
        DEF HabilitarInterrupcoes, DesabilitarInterrupcoes, TypeOK, hardware
  <2>2. Montado' /\ LinhaNoSeuManipulador'
        BY <1>12 DEF HabilitarInterrupcoes, DesabilitarInterrupcoes, Livre, Inv, Montado,
                     LinhaNoSeuManipulador, hardware
  <2> QED BY <2>1, <2>2 DEF Inv
<1>13. ASSUME NEW n \in Registraveis, NEW m \in {"nenhum", "modulo"}, RegistraIRQ(n, m)
       PROVE  Inv'
  <2>1. manipuladores' \in [Irqs -> Manipuladores]
        BY <1>13, <1>t DEF RegistraIRQ, TypeOK, Manipuladores
  <2>2. chamadas' \in 0..MaxChamadas
        BY <1>13, <1>t, ProcessadorAssumption DEF RegistraIRQ, TypeOK
  <2>3. TypeOK'  BY <1>13, <1>t, <2>1, <2>2 DEF RegistraIRQ, TypeOK, hardware
  <2>4. Montado' /\ LinhaNoSeuManipulador'
        BY <1>13 DEF RegistraIRQ, Inv, Montado, LinhaNoSeuManipulador, hardware
  <2> QED BY <2>3, <2>4 DEF Inv
<1>14. CASE UNCHANGED vars
       BY <1>14 DEF vars, Inv, TypeOK, Montado, LinhaNoSeuManipulador
<1> QED BY <1>1, <1>2, <1>3, <1>4, <1>5, <1>6, <1>7, <1>8, <1>9, <1>10, <1>11, <1>12,
           <1>13, <1>14 DEF Next, Segmento, Interface

-----------------------------------------------------------------------------

\* The inductive invariant.
THEOREM SempreInv == Spec => []Inv
BY InicioInv, NextInv, PTL DEF Spec

\* TypeOK: tables, registers and stack, for every set of lines.
THEOREM ProcessadorTipo == Spec => []TypeOK
<1>1. Inv => TypeOK  BY DEF Inv
<1> QED BY <1>1, SempreInv, PTL

\* LinhaNoSeuManipulador: from the first instruction of Processador() on, an interrupt
\* of a line, spurious or not, enters the stub of that line and no exception's.
THEOREM LinhaCerta == Spec => []LinhaNoSeuManipulador
<1>1. Inv => LinhaNoSeuManipulador  BY DEF Inv
<1> QED BY <1>1, SempreInv, PTL
-----------------------------------------------------------------------------
(* Each end of interrupt ends its own.                                     *)

\* What one stub has still to end.
Deve(f) == (IF f.em \in {"entrada", "trata", "eoi"} THEN {f.linha} ELSE {})
           \cup (IF f.linha > 7 /\ f.em # "sai" THEN {Cascata} ELSE {})

\* The first, in the order of the 8259, of what a stub holds back.
Chave(f) == IF f.linha < 8 THEN 10 * f.linha ELSE 20

\* The stack is a stair: a stub runs over another that still owes only if its line
\* comes before everything the other owes.
Escada ==
    \A j, k \in DOMAIN pilha :
        j < k /\ pilha[j].em # "sai" => Ordem(pilha[k].linha) < Chave(pilha[j])

SegundoFim == \A k \in DOMAIN pilha : pilha[k].em = "eoi2" => pilha[k].linha > 7

Donos == regular => servico = Devem /\ Escada /\ SegundoFim

\* What the stubs of a stack owe, and what those under its last one owe.
Devidos(p) == UNION {Deve(p[k]) : k \in DOMAIN p}
Outros(p) == UNION {Deve(p[j]) : j \in 1..(Len(p) - 1)}

LEMMA PrimeiraUnica ==
    ASSUME NEW S \in SUBSET (0..15), NEW n \in S,
           \A o \in S : o # n => Ordem(n) < Ordem(o)
    PROVE  Primeira(S) = n
<1>1. \A o \in S : Ordem(o) \in Nat  BY DEF Ordem
<1>2. \A o \in S : Ordem(n) <= Ordem(o)  BY <1>1
<1>3. Primeira(S) \in S /\ Ordem(Primeira(S)) <= Ordem(n)  BY <1>2 DEF Primeira
<1>4. ASSUME Primeira(S) # n PROVE FALSE
  <2>1. Ordem(n) < Ordem(Primeira(S))  BY <1>3, <1>4
  <2>2. Ordem(n) \in Nat /\ Ordem(Primeira(S)) \in Nat  BY <1>1, <1>3
  <2> QED BY <2>1, <2>2, <1>3
<1> QED BY <1>4

\* What is owed, the running stub apart from the others.
LEMMA DevidosComTopo ==
    ASSUME NEW p \in Seq(Quadros), p # << >>
    PROVE  Devidos(p) = Deve(p[Len(p)]) \cup Outros(p)
<1>0. Len(p) \in Nat \ {0} /\ DOMAIN p = 1..Len(p)  OBVIOUS
<1>1. DOMAIN p = (1..(Len(p) - 1)) \cup {Len(p)}  BY <1>0
<1>2. ASSUME NEW s
      PROVE  s \in Devidos(p) <=> s \in Deve(p[Len(p)]) \/ s \in Outros(p)
  <2>1. s \in Devidos(p) <=> \E k \in DOMAIN p : s \in Deve(p[k])  BY DEF Devidos
  <2>2. s \in Outros(p) <=> \E j \in 1..(Len(p) - 1) : s \in Deve(p[j])  BY DEF Outros
  <2> HIDE DEF Devidos, Outros
  <2> QED BY <2>1, <2>2, <1>1
<1> QED BY <1>2

LEMMA DevemSao == Devem = Devidos(pilha)
<1>1. ASSUME NEW s PROVE s \in Devem <=> s \in Devidos(pilha)
  <2>1. s \in Devidos(pilha) <=> \E k \in DOMAIN pilha : s \in Deve(pilha[k])  BY DEF Devidos
  <2> QED BY <2>1 DEF Devem, Deve
<1> QED BY <1>1

LEMMA DevemSaoDepois == Devem' = Devidos(pilha')
<1>1. ASSUME NEW s PROVE s \in Devem' <=> s \in Devidos(pilha')
  <2>1. s \in Devidos(pilha') <=> \E k \in DOMAIN pilha' : s \in Deve(pilha'[k])
        BY DEF Devidos
  <2> QED BY <2>1 DEF Devem, Deve
<1> QED BY <1>1

\* The running stub comes before everything that those under it owe.
LEMMA TopoPrimeiro ==
    ASSUME TypeOK, Escada, pilha # << >>, NEW s \in Outros(pilha)
    PROVE  /\ s \in 0..15
           /\ Topo.linha \in (0..15) \ {Cascata}
           /\ Ordem(Topo.linha) < Ordem(s)
           /\ Topo.linha > 7 => s \in 3..7
<1>1. Len(pilha) \in Nat \ {0} /\ DOMAIN pilha = 1..Len(pilha) /\ pilha \in Seq(Quadros)
      BY DEF TypeOK
<1>2. PICK j \in 1..(Len(pilha) - 1) : s \in Deve(pilha[j])  BY DEF Outros
<1>3. j \in DOMAIN pilha /\ Len(pilha) \in DOMAIN pilha /\ j < Len(pilha)  BY <1>1
<1>4. pilha[j] \in Quadros /\ Topo \in Quadros  BY <1>1, <1>3 DEF Topo
<1>5. pilha[j].linha \in (0..15) \ {Cascata} /\ Topo.linha \in (0..15) \ {Cascata}
  <2>1. pilha[j].linha \in Irqs /\ Topo.linha \in Irqs  BY <1>4 DEF Quadros
  <2> QED BY <2>1, ProcessadorAssumption
<1>6. pilha[j].em # "sai"  BY <1>2 DEF Deve
<1>7. Ordem(Topo.linha) < Chave(pilha[j])  BY <1>3, <1>6 DEF Escada, Topo
<1>8. s = pilha[j].linha \/ (s = Cascata /\ pilha[j].linha > 7)  BY <1>2 DEF Deve
<1> DEFINE t == Topo.linha
           l == pilha[j].linha
<1>9. t \in (0..15) \ {2} /\ l \in (0..15) \ {2}  BY <1>5 DEF Cascata
<1>10. Ordem(t) < IF l < 8 THEN 10 * l ELSE 20  BY <1>7 DEF Chave
<1>11. s = l \/ (s = 2 /\ l > 7)  BY <1>8 DEF Cascata
<1> HIDE DEF t, l
<1>12. /\ s \in 0..15
       /\ Ordem(t) < Ordem(s)
       /\ t > 7 => s \in 3..7
       BY <1>9, <1>10, <1>11 DEF Ordem
<1> QED BY <1>5, <1>12 DEF t

\* The running stub goes to another statement: what the others owe stays.
LEMMA TopoDeve ==
    ASSUME TypeOK, Escada, SegundoFim, pilha # << >>,
           NEW f \in Quadros, f.linha = Topo.linha, f.em = "eoi2" => f.linha > 7,
           pilha' = [pilha EXCEPT ![Len(pilha)] = f]
    PROVE  Escada' /\ SegundoFim' /\ Devem' = Deve(f) \cup Outros(pilha)
<1>1. Len(pilha) \in Nat \ {0} /\ DOMAIN pilha = 1..Len(pilha) /\ pilha \in Seq(Quadros)
      BY DEF TypeOK
<1>2. /\ pilha' \in Seq(Quadros) /\ pilha' # << >>
      /\ DOMAIN pilha' = DOMAIN pilha /\ Len(pilha') = Len(pilha)
      /\ pilha'[Len(pilha)] = f
      /\ \A j \in 1..(Len(pilha) - 1) : pilha'[j] = pilha[j]
  <2>1. pilha' \in Seq(Quadros) /\ Len(pilha') = Len(pilha) /\ DOMAIN pilha' = DOMAIN pilha
        BY <1>1
  <2>2. Len(pilha) \in DOMAIN pilha /\ \A j \in 1..(Len(pilha) - 1) : j \in DOMAIN pilha /\ j # Len(pilha)
    <3>1. \A l \in Nat \ {0} : l \in 1..l /\ \A j \in 1..(l - 1) : j \in 1..l /\ j # l
          OBVIOUS
    <3> QED BY <3>1, <1>1
  <2>3. pilha'[Len(pilha)] = f  BY <2>2
  <2>4. \A j \in 1..(Len(pilha) - 1) : pilha'[j] = pilha[j]  BY <2>2
  <2>5. pilha' # << >>
    <3>1. Len(pilha') # 0 /\ Len(<< >>) = 0  BY <1>1, <2>1
    <3> QED BY <3>1
  <2> QED BY <2>1, <2>3, <2>4, <2>5
<1>3. \A k \in DOMAIN pilha : pilha'[k].linha = pilha[k].linha
  <2> SUFFICES ASSUME NEW k \in DOMAIN pilha PROVE pilha'[k].linha = pilha[k].linha
      OBVIOUS
  <2>1. k \in 1..(Len(pilha) - 1) \/ k = Len(pilha)  BY <1>1
  <2> QED BY <2>1, <1>2 DEF Topo
<1>4. Escada'
  <2> SUFFICES ASSUME NEW j \in DOMAIN pilha', NEW k \in DOMAIN pilha',
                      j < k, pilha'[j].em # "sai"
               PROVE  Ordem(pilha'[k].linha) < Chave(pilha'[j])
      BY DEF Escada, Ordem, Chave
  <2>0. k \in 1..Len(pilha) /\ j \in 1..Len(pilha)  BY <1>1, <1>2
  <2>3. j \in 1..(Len(pilha) - 1)
    <3>1. \A l \in Nat : \A b, c \in 1..l : b < c => b \in 1..(l - 1)  OBVIOUS
    <3> QED BY <3>1, <2>0, <1>1
  <2>1. j \in DOMAIN pilha /\ k \in DOMAIN pilha /\ pilha'[j] = pilha[j]  BY <2>0, <2>3, <1>1, <1>2
  <2>2. Ordem(pilha[k].linha) < Chave(pilha[j])  BY <2>1 DEF Escada
  <2> QED BY <2>1, <2>2, <1>3
<1>5. SegundoFim'
  <2> SUFFICES ASSUME NEW k \in DOMAIN pilha, pilha'[k].em = "eoi2" PROVE pilha'[k].linha > 7
      BY <1>2 DEF SegundoFim
  <2>1. k \in 1..(Len(pilha) - 1) \/ k = Len(pilha)
    <3>1. \A l \in Nat : \A b \in 1..l : b \in 1..(l - 1) \/ b = l  OBVIOUS
    <3> QED BY <3>1, <1>1
  <2> QED BY <2>1, <1>2 DEF SegundoFim
<1>6. Outros(pilha') = Outros(pilha)
  <2>1. \A s : s \in Outros(pilha') <=> s \in Outros(pilha)
    <3> SUFFICES ASSUME NEW s PROVE s \in Outros(pilha') <=> s \in Outros(pilha)
        OBVIOUS
    <3>1. s \in Outros(pilha') <=> \E j \in 1..(Len(pilha) - 1) : s \in Deve(pilha'[j])
          BY <1>2 DEF Outros
    <3>2. s \in Outros(pilha) <=> \E j \in 1..(Len(pilha) - 1) : s \in Deve(pilha[j])
          BY DEF Outros
    <3> QED BY <3>1, <3>2, <1>2
  <2> QED BY <2>1
<1>7. Devidos(pilha') = Deve(f) \cup Outros(pilha)  BY <1>2, <1>6, DevidosComTopo
<1> QED BY <1>4, <1>5, <1>7, DevemSaoDepois

LEMMA InicioDonos == Init => Donos
<1> SUFFICES ASSUME Init PROVE servico = Devem /\ Escada /\ SegundoFim
    BY DEF Donos
<1>1. pilha = << >> /\ servico = {} /\ DOMAIN pilha = {}  BY DEF Init
<1>2. Devem = {}  BY <1>1 DEF Devem
<1> QED BY <1>1, <1>2 DEF Escada, SegundoFim

\* An interrupt is taken: its line comes before all that is in service.
LEMMA AceitaDonos ==
    ASSUME Inv, Donos, regular, Aceita PROVE Donos'
<1> DEFINE n == Primeira(Passam)
           f == Quadro(n)
<1>1. /\ pilha \in Seq(Quadros) /\ Passam \in SUBSET (0..15) /\ Passam # {}
      /\ \A i \in Passam : i \in Irqs
      BY ProcessadorAssumption DEF Inv, TypeOK, Passam, Aceita, Interrompe
<1>2. n \in Passam /\ n \in Irqs  BY <1>1, PrimeiraTipo
<1>3. n \in 0..15 /\ \A s \in servico : Ordem(n) < Ordem(s)  BY <1>1, <1>2 DEF Passam
<1>4. fase = "pronto"  BY DEF Inv, Montado, Aceita, Interrompe
<1>5. f \in Quadros /\ f.linha = n /\ f.em = "entrada"  BY <1>2, <1>4, QuadroCerto DEF Quadro
<1>6. pilha' = Append(pilha, f)  BY DEF Aceita, Chama
<1>7. servico' = servico \cup {n} \cup (IF n < 8 THEN {} ELSE {Cascata})  BY DEF Aceita
<1> HIDE DEF n, f
<1>8. servico = Devidos(pilha) /\ Escada /\ SegundoFim  BY DevemSao DEF Donos
<1>9. /\ pilha' \in Seq(Quadros) /\ pilha' # << >> /\ Len(pilha') = Len(pilha) + 1
      /\ DOMAIN pilha' = 1..(Len(pilha) + 1) /\ DOMAIN pilha = 1..Len(pilha)
      /\ Len(pilha) \in Nat
      /\ pilha'[Len(pilha) + 1] = f
      /\ \A j \in 1..Len(pilha) : pilha'[j] = pilha[j]
      BY <1>1, <1>5, <1>6
<1>10. Outros(pilha') = Devidos(pilha)
  <2>1. 1..(Len(pilha') - 1) = DOMAIN pilha  BY <1>9
  <2> QED BY <2>1, <1>9 DEF Outros, Devidos
<1>11. servico' = Devem'
  <2>1. Devem' = Deve(f) \cup servico
        BY <1>8, <1>9, <1>10, DevidosComTopo, DevemSaoDepois
  <2>2. Deve(f) = {n} \cup (IF n < 8 THEN {} ELSE {Cascata})  BY <1>3, <1>5 DEF Deve
  <2> QED BY <2>1, <2>2, <1>7
<1>12. ASSUME NEW j \in DOMAIN pilha, pilha[j].em # "sai"
       PROVE  Ordem(n) < Chave(pilha[j])
  <2>1. pilha[j] \in Quadros  BY <1>1
  <2>2. pilha[j].linha \in 0..15 /\ pilha[j].em \in {"entrada", "trata", "eoi", "eoi2"}
    <3>1. pilha[j].linha \in Irqs  BY <2>1 DEF Quadros
    <3>2. pilha[j].em \in {"entrada", "trata", "eoi", "eoi2", "sai"}  BY <2>1 DEF Quadros
    <3> QED BY <3>1, <3>2, <1>12, ProcessadorAssumption
  <2>3. \A s \in Deve(pilha[j]) : s \in servico  BY <1>8 DEF Devidos
  <2>4. CASE pilha[j].linha < 8
    <3>1. pilha[j].em # "eoi2"  BY <2>4, <2>2, <1>8 DEF SegundoFim
    <3>2. pilha[j].linha \in servico  BY <3>1, <2>2, <2>3 DEF Deve
    <3> QED BY <3>2, <2>2, <2>4, <1>3 DEF Chave, Ordem
  <2>5. CASE ~ (pilha[j].linha < 8)
    <3>1. Cascata \in servico  BY <2>5, <2>2, <2>3, <1>12 DEF Deve
    <3>2. Ordem(n) < Ordem(Cascata) /\ Ordem(Cascata) = 20  BY <3>1, <1>3 DEF Ordem, Cascata
    <3> QED BY <3>2, <2>5 DEF Chave
  <2> QED BY <2>4, <2>5
<1>13. Escada'
  <2> SUFFICES ASSUME NEW j \in DOMAIN pilha', NEW k \in DOMAIN pilha',
                      j < k, pilha'[j].em # "sai"
               PROVE  Ordem(pilha'[k].linha) < Chave(pilha'[j])
      BY DEF Escada, Ordem, Chave
  <2>1. j \in DOMAIN pilha /\ pilha'[j] = pilha[j]  BY <1>9
  <2>2. CASE k = Len(pilha) + 1  BY <2>1, <2>2, <1>5, <1>9, <1>12
  <2>3. CASE k \in DOMAIN pilha  BY <2>1, <2>3, <1>8, <1>9 DEF Escada
  <2> QED BY <2>2, <2>3, <1>9
<1>14. SegundoFim'
  <2> SUFFICES ASSUME NEW k \in DOMAIN pilha', pilha'[k].em = "eoi2"
               PROVE  pilha'[k].linha > 7
      BY DEF SegundoFim
  <2>1. k \in DOMAIN pilha /\ pilha'[k] = pilha[k]  BY <1>5, <1>9
  <2> QED BY <2>1, <1>8 DEF SegundoFim
<1> QED BY <1>11, <1>13, <1>14 DEF Donos

\* The running stub goes on without owing more or less.
LEMMA SegueDonos ==
    ASSUME Inv, Donos, pilha # << >>, servico' = servico, regular' = regular,
           NEW f \in Quadros, f.linha = Topo.linha,
           f.em \in {"trata", "eoi"}, Topo.em \in {"entrada", "trata"},
           pilha' = [pilha EXCEPT ![Len(pilha)] = f]
    PROVE  Donos'
<1> SUFFICES ASSUME regular PROVE servico' = Devem' /\ Escada' /\ SegundoFim'
    BY DEF Donos
<1>1. TypeOK /\ Escada /\ SegundoFim /\ servico = Devem  BY DEF Inv, Donos
<1>2. Deve(f) = Deve(Topo)  BY DEF Deve
<1>3. servico = Deve(Topo) \cup Outros(pilha)
      BY <1>1, DevemSao, DevidosComTopo DEF TypeOK, Topo
<1>4. Escada' /\ SegundoFim' /\ Devem' = Deve(f) \cup Outros(pilha)  BY <1>1, TopoDeve
<1> QED BY <1>2, <1>3, <1>4

\* The first end of interrupt of a slave's line ends that line: nothing else of the
\* slave is in service, because no line of it interrupts another.
LEMMA EoiEscravoDonos ==
    ASSUME Inv, Donos, EoiEscravo PROVE Donos'
<1> SUFFICES ASSUME regular PROVE servico' = Devem' /\ Escada' /\ SegundoFim'
    BY DEF Donos, EoiEscravo, resto
<1> DEFINE t == Topo
           n == t.linha
           f == [t EXCEPT !.em = "eoi2"]
<1>1. /\ TypeOK /\ Escada /\ SegundoFim /\ servico = Devem /\ pilha # << >>
      /\ pilha \in Seq(Quadros) /\ Len(pilha) \in DOMAIN pilha
      BY DEF Inv, TypeOK, Donos, EoiEscravo, No
<1>2. t \in Quadros /\ t.em = "eoi"  BY <1>1 DEF Topo, EoiEscravo, No
<1>3. n \in 8..15
  <2>1. n \in Irqs  BY <1>2 DEF Quadros
  <2>2. t.entrada = [tipo |-> "pic", n |-> n]
        BY <1>1 DEF Inv, LinhaNoSeuManipulador, Topo
  <2>4. t.entrada.n = n  BY <2>2
  <2>3. n > 7  BY <2>4 DEF EoiEscravo, DoEscravo
  <2>5. n \in 0..15  BY <2>1, ProcessadorAssumption
  <2> HIDE DEF n
  <2> QED BY <2>3, <2>5
<1>4. f \in Quadros /\ f.linha = n /\ f.em = "eoi2"  BY <1>2 DEF Quadros
<1>5. pilha' = [pilha EXCEPT ![Len(pilha)] = f]  BY <1>1 DEF EoiEscravo, Segue, Topo
<1>6. Deve(t) = {n, Cascata} /\ Deve(f) = {Cascata}  BY <1>2, <1>3, <1>4 DEF Deve
<1>7. servico = {n, Cascata} \cup Outros(pilha)
      BY <1>1, <1>6, DevemSao, DevidosComTopo DEF Topo
<1>8. \A s \in Outros(pilha) : s \in 3..7  BY <1>1, <1>3, TopoPrimeiro
<1>9. servico' = servico \ {Primeira(Escravo)} \/ Escravo = {}
      BY DEF EoiEscravo, Fim
<1>10. f.linha > 7 /\ f.linha = Topo.linha  BY <1>3, <1>4
<1>11. Escada' /\ SegundoFim' /\ Devem' = Deve(f) \cup Outros(pilha)
  <2> HIDE DEF f
  <2> QED BY <1>1, <1>4, <1>5, <1>10, TopoDeve
<1> HIDE DEF f, n, t
<1>12. Escravo = {n}
  <2>1. n \in servico /\ n \in 8..15  BY <1>3, <1>7
  <2>2. ASSUME NEW s \in servico, s \in 8..15 PROVE s = n
    <3>1. s # Cascata  BY <2>2 DEF Cascata
    <3>2. s \notin Outros(pilha)
      <4>1. ~ (s \in 3..7)  BY <2>2
      <4> QED BY <4>1, <1>8
    <3> QED BY <3>1, <3>2, <1>7
  <2> QED BY <2>1, <2>2 DEF Escravo
<1>13. Primeira(Escravo) = n
  <2>1. {n} \in SUBSET (0..15)  BY <1>3
  <2> QED BY <2>1, <1>12, PrimeiraUnica
<1>14. servico' = {Cascata} \cup Outros(pilha)
  <2>1. servico' = servico \ {n}  BY <1>9, <1>12, <1>13
  <2>2. n # Cascata  BY <1>3 DEF Cascata
  <2>3. n \notin Outros(pilha)
    <3>1. ~ (n \in 3..7)  BY <1>3
    <3> QED BY <3>1, <1>8
  <2> QED BY <1>7, <2>1, <2>2, <2>3
<1> QED BY <1>6, <1>11, <1>14

\* The end of interrupt in the master ends the line of the running stub, or the
\* cascade if it is the second one of a slave's line: it is the first in service.
LEMMA EoiMestreDonos ==
    ASSUME Inv, Donos, EoiMestre PROVE Donos'
<1> SUFFICES ASSUME regular PROVE servico' = Devem' /\ Escada' /\ SegundoFim'
    BY DEF Donos, EoiMestre, resto
<1> DEFINE t == Topo
           n == t.linha
           f == [t EXCEPT !.em = "sai"]
           a == IF n > 7 THEN Cascata ELSE n
<1>1. /\ TypeOK /\ Escada /\ SegundoFim /\ servico = Devem /\ pilha # << >>
      /\ pilha \in Seq(Quadros) /\ Len(pilha) \in DOMAIN pilha
      BY DEF Inv, TypeOK, Donos, EoiMestre, No
<1>2. t \in Quadros  BY <1>1 DEF Topo
<1>3. n \in 0..15 /\ n # Cascata
  <2>1. n \in Irqs  BY <1>2 DEF Quadros
  <2> QED BY <2>1, ProcessadorAssumption
<1>4. (t.em = "eoi" /\ ~ (n > 7)) \/ (t.em = "eoi2" /\ n > 7)
  <2>2. t.entrada = [tipo |-> "pic", n |-> n]
        BY <1>1 DEF Inv, LinhaNoSeuManipulador, Topo
  <2>3. t.entrada.n = n  BY <2>2
  <2>4. t.em = "eoi2" => n > 7  BY <1>1 DEF SegundoFim, Topo
  <2> QED BY <2>3, <2>4 DEF EoiMestre, DoEscravo, No
<1>5. f \in Quadros /\ f.linha = n /\ f.em = "sai"  BY <1>2 DEF Quadros
<1>6. pilha' = [pilha EXCEPT ![Len(pilha)] = f]  BY <1>1 DEF EoiMestre, Segue, Topo
<1>7. Deve(t) = {a} /\ Deve(f) = {}  BY <1>4, <1>5 DEF Deve
<1>8. servico = {a} \cup Outros(pilha)
      BY <1>1, <1>7, DevemSao, DevidosComTopo DEF Topo
<1>9. \A s \in Outros(pilha) : s \in 0..15 /\ Ordem(n) < Ordem(s) /\ (n > 7 => s \in 3..7)
      BY <1>1, TopoPrimeiro
<1>10. servico' = Fim(Mestre)  BY DEF EoiMestre
<1>11. Escada' /\ SegundoFim' /\ Devem' = Deve(f) \cup Outros(pilha)
  <2> HIDE DEF f
  <2>1. f.em # "eoi2" /\ f.linha = Topo.linha  BY <1>5
  <2> QED BY <1>1, <1>5, <1>6, <2>1, TopoDeve
<1>12. a \in 0..7 /\ \A s \in Outros(pilha) : s \in 0..15 /\ Ordem(a) < Ordem(s)
  <2> HIDE DEF n, t
  <2> QED BY <1>3, <1>9 DEF Ordem, Cascata
<1> HIDE DEF a, f, n, t
<1>13. Mestre \in SUBSET (0..15) /\ a \in Mestre /\ \A o \in Mestre : o # a => Ordem(a) < Ordem(o)
      BY <1>8, <1>12 DEF Mestre
<1>14. Primeira(Mestre) = a  BY <1>13, PrimeiraUnica
<1>15. a \notin Outros(pilha)
  <2>1. Ordem(a) \in Nat  BY <1>12 DEF Ordem
  <2> QED BY <2>1, <1>12
<1>16. servico' = Outros(pilha)  BY <1>8, <1>10, <1>13, <1>14, <1>15 DEF Fim
<1> QED BY <1>7, <1>11, <1>16

\* The running stub returns, and owes nothing.
LEMMA SaiDonos ==
    ASSUME Inv, Donos, Sai PROVE Donos'
<1> SUFFICES ASSUME regular PROVE servico' = Devem' /\ Escada' /\ SegundoFim'
    BY DEF Donos, Sai, resto
<1>1. /\ TypeOK /\ Escada /\ SegundoFim /\ servico = Devem /\ pilha # << >>
      /\ pilha \in Seq(Quadros) /\ Topo.em = "sai"
      BY DEF Inv, TypeOK, Donos, Sai, No
<1>2. Len(pilha) \in Nat \ {0} /\ DOMAIN pilha = 1..Len(pilha)  BY <1>1
<1>3. pilha' = SubSeq(pilha, 1, Len(pilha) - 1) /\ servico' = servico  BY DEF Sai
<1>4. /\ DOMAIN pilha' = 1..(Len(pilha) - 1)
      /\ \A j \in 1..(Len(pilha) - 1) : pilha'[j] = pilha[j] /\ j \in DOMAIN pilha
      BY <1>1, <1>2, <1>3
<1>5. Devidos(pilha') = Outros(pilha)  BY <1>4 DEF Devidos, Outros
<1>6. Deve(Topo) = {}  BY <1>1 DEF Deve
<1>7. servico = Outros(pilha)
      BY <1>1, <1>6, DevemSao, DevidosComTopo DEF Topo
<1>8. servico' = Devem'  BY <1>3, <1>5, <1>7, DevemSaoDepois
<1>9. Escada' /\ SegundoFim'  BY <1>1, <1>4 DEF Escada, SegundoFim, Ordem, Chave
<1> QED BY <1>8, <1>9

LEMMA NextDonos == Inv /\ Donos /\ [Next]_vars => Donos'
<1> SUFFICES ASSUME Inv, Donos, [Next]_vars PROVE Donos'
    OBVIOUS
<1>u. ASSUME UNCHANGED <<servico, pilha, regular>> PROVE Donos'
      BY <1>u DEF Donos, Devem, Escada, SegundoFim, Ordem, Chave
<1>t. ASSUME pilha # << >> PROVE Topo \in Quadros /\ Topo.entrada = [tipo |-> "pic", n |-> Topo.linha]
  <2>1. pilha \in Seq(Quadros) /\ Len(pilha) \in DOMAIN pilha  BY <1>t DEF Inv, TypeOK
  <2> QED BY <2>1 DEF Inv, LinhaNoSeuManipulador, Topo
<1>1. ASSUME NEW n \in Irqs, Pedido(n) PROVE Donos'
      BY <1>1, <1>u DEF Pedido
<1>2. CASE Aceita
      BY <1>2, AceitaDonos DEF Donos, Aceita
<1>3. CASE Espuria
      BY <1>3 DEF Espuria, Donos
<1>4. CASE Testa
  <2> DEFINE m == manipuladores[Topo.entrada.n]
  <2>1. pilha # << >> /\ Topo.em = "entrada" /\ servico' = servico /\ regular' = regular
        BY <1>4 DEF Testa, No, resto
  <2>2. Topo \in Quadros /\ Topo.entrada.n \in Irqs /\ Topo.entrada.tipo = "pic"
    <3>1. Topo.linha \in Irqs  BY <1>t, <2>1 DEF Quadros
    <3>2. Topo.entrada.n = Topo.linha /\ Topo.entrada.tipo = "pic"  BY <1>t, <2>1
    <3> QED BY <1>t, <2>1, <3>1, <3>2
  <2>3. m \in Manipuladores  BY <2>2 DEF Inv, TypeOK
  <2>4. PICK e \in {"trata", "eoi"} :
           pilha' = [pilha EXCEPT ![Len(pilha)].em = e, ![Len(pilha)].trata = m]
        BY <1>4, <2>2 DEF Testa, SoMensagem
  <2> DEFINE f == [Topo EXCEPT !.em = e, !.trata = m]
  <2>5. pilha' = [pilha EXCEPT ![Len(pilha)] = f]  BY <2>4 DEF Topo
  <2>6. f \in Quadros /\ f.linha = Topo.linha /\ f.em = e  BY <2>2, <2>3 DEF Quadros
  <2> HIDE DEF f, m
  <2> QED BY <2>1, <2>5, <2>6, SegueDonos
<1>5. ASSUME Segue("eoi"), No("trata"), UNCHANGED <<servico, regular>> PROVE Donos'
  <2> DEFINE f == [Topo EXCEPT !.em = "eoi"]
  <2>1. pilha # << >> /\ Topo.em = "trata"  BY <1>5 DEF No
  <2>2. pilha' = [pilha EXCEPT ![Len(pilha)] = f]  BY <1>5 DEF Segue, Topo
  <2>3. f \in Quadros /\ f.linha = Topo.linha /\ f.em = "eoi"  BY <1>t, <2>1 DEF Quadros
  <2> HIDE DEF f
  <2> QED BY <1>5, <2>1, <2>2, <2>3, SegueDonos
<1>6. CASE Tick \/ Volta
      BY <1>5, <1>6 DEF Tick, Volta, resto
<1>7. CASE EoiEscravo
      BY <1>7, EoiEscravoDonos
<1>8. CASE EoiMestre
      BY <1>8, EoiMestreDonos
<1>9. CASE Sai
      BY <1>9, SaiDonos
<1>10. CASE Idt \/ Pic \/ Pit \/ Sti \/ HabilitarInterrupcoes
      BY <1>10, <1>u DEF Idt, Pic, Pit, Sti, HabilitarInterrupcoes, hardware
<1>11. CASE Reprograma
  <2>1. pilha' = << >> /\ servico' = {} /\ DOMAIN pilha' = {}  BY <1>11 DEF Reprograma, Livre
  <2>2. Devem' = {}  BY <2>1 DEF Devem
  <2> QED BY <2>1, <2>2 DEF Donos, Escada, SegundoFim
<1>12. CASE HabilitaNoMeio
      BY <1>12, <1>u DEF HabilitaNoMeio, resto
<1>13. CASE Interface
      BY <1>13, <1>u DEF Interface, RegistraIRQ, DesabilitarInterrupcoes, hardware
<1>14. CASE UNCHANGED vars
      BY <1>14, <1>u DEF vars
<1> QED BY <1>1, <1>2, <1>3, <1>4, <1>6, <1>7, <1>8, <1>9, <1>10, <1>11, <1>12, <1>13, <1>14
        DEF Next, Segmento, Inicia

\* The inductive invariant of what is in service.
THEOREM SempreDonos == Spec => []Donos
BY InicioDonos, NextDonos, InicioInv, NextInv, PTL DEF Spec

\* ServicoTemDono: however the stubs nest, and whatever enables interrupts inside them,
\* every end of interrupt ends the line of its own stub.
THEOREM FimDoProprio == Spec => []ServicoTemDono
<1>1. Donos => ServicoTemDono  BY DEF Donos, ServicoTemDono
<1> QED BY <1>1, SempreDonos, PTL
-----------------------------------------------------------------------------
(* Counting the stubs of a kind.                                           *)

\* The stubs of F on a stack.
DeTipo(p, F) == {k \in DOMAIN p : p[k] \in F}
Quantos(p, F) == Cardinality(DeTipo(p, F))

Vale(f, F) == IF f \in F THEN 1 ELSE 0

LEMMA QuantosTipo ==
    ASSUME NEW p \in Seq(Quadros), NEW F
    PROVE  IsFiniteSet(DeTipo(p, F)) /\ Quantos(p, F) \in Nat
<1>1. Len(p) \in Nat /\ DeTipo(p, F) \in SUBSET (1..Len(p))  BY DEF DeTipo
<1>2. IsFiniteSet(1..Len(p))  BY <1>1, FS_Interval
<1>3. IsFiniteSet(DeTipo(p, F))  BY <1>1, <1>2, FS_Subset
<1> QED BY <1>3, FS_CardinalityType DEF Quantos

\* A stack with one more stub on it.
LEMMA QuantosMais ==
    ASSUME NEW p \in Seq(Quadros), NEW r \in Seq(Quadros), NEW F, NEW f,
           Len(r) = Len(p) + 1, r[Len(r)] = f,
           \A k \in 1..Len(p) : r[k] = p[k]
    PROVE  Quantos(r, F) = Quantos(p, F) + Vale(f, F)
<1>1. Len(p) \in Nat /\ DOMAIN p = 1..Len(p) /\ DOMAIN r = 1..(Len(p) + 1)
  <2>1. Len(p) \in Nat /\ DOMAIN p = 1..Len(p) /\ DOMAIN r = 1..Len(r)  OBVIOUS
  <2> QED BY <2>1
<1>2. \A l \in Nat : 1..(l + 1) = (1..l) \cup {l + 1} /\ l + 1 \notin 1..l  OBVIOUS
<1>3. /\ DOMAIN r = DOMAIN p \cup {Len(p) + 1} /\ Len(p) + 1 \notin DOMAIN p
      /\ r[Len(p) + 1] = f
      BY <1>1, <1>2
<1>4. DeTipo(r, F) = DeTipo(p, F) \cup (IF f \in F THEN {Len(p) + 1} ELSE {})
  <2>1. \A k \in DOMAIN p : r[k] = p[k]  BY <1>1
  <2> QED BY <2>1, <1>3 DEF DeTipo
<1>5. IsFiniteSet(DeTipo(p, F)) /\ Quantos(p, F) \in Nat  BY QuantosTipo
<1>6. Len(p) + 1 \notin DeTipo(p, F)  BY <1>3 DEF DeTipo
<1>7. CASE f \in F
  <2>1. Cardinality(DeTipo(p, F) \cup {Len(p) + 1}) = Cardinality(DeTipo(p, F)) + 1
        BY <1>5, <1>6, FS_AddElement
  <2> QED BY <2>1, <1>4, <1>7 DEF Quantos, Vale
<1>8. CASE f \notin F
  <2>1. DeTipo(r, F) = DeTipo(p, F)  BY <1>4, <1>8
  <2> QED BY <2>1, <1>5, <1>8 DEF Quantos, Vale
<1> QED BY <1>7, <1>8

\* A stack without its last stub.
LEMMA SemUltimo ==
    ASSUME NEW p \in Seq(Quadros), p # << >>, NEW b, b = SubSeq(p, 1, Len(p) - 1)
    PROVE  /\ b \in Seq(Quadros) /\ Len(p) = Len(b) + 1
           /\ \A k \in 1..Len(b) : p[k] = b[k]
<1>1. Len(p) \in Nat \ {0} /\ DOMAIN p = 1..Len(p)  OBVIOUS
<1> QED BY <1>1

\* The same stack, with another frame on its top.
LEMMA QuantosTroca ==
    ASSUME NEW p \in Seq(Quadros), p # << >>, NEW f \in Quadros, NEW F,
           NEW r, r = [p EXCEPT ![Len(p)] = f]
    PROVE  Quantos(r, F) + Vale(p[Len(p)], F) = Quantos(p, F) + Vale(f, F)
<1> DEFINE b == SubSeq(p, 1, Len(p) - 1)
<1>1. Len(p) \in Nat \ {0} /\ DOMAIN p = 1..Len(p)  OBVIOUS
<1>2. b \in Seq(Quadros) /\ Len(p) = Len(b) + 1 /\ \A k \in 1..Len(b) : p[k] = b[k]
      BY SemUltimo
<1>3. r \in Seq(Quadros) /\ Len(r) = Len(p)  BY <1>1
<1>4. r[Len(r)] = f  BY <1>1, <1>3
<1>5. \A k \in 1..Len(b) : r[k] = b[k]
  <2> SUFFICES ASSUME NEW k \in 1..Len(b) PROVE r[k] = b[k]
      OBVIOUS
  <2>1. \A l \in Nat : \A j \in 1..l : j \in 1..(l + 1) /\ j # l + 1  OBVIOUS
  <2>2. Len(b) \in Nat  BY <1>2
  <2> HIDE DEF b
  <2>3. k \in DOMAIN p /\ k # Len(p)  BY <2>1, <2>2, <1>1, <1>2
  <2> QED BY <2>3, <1>2
<1> HIDE DEF b
<1>6. Quantos(r, F) = Quantos(b, F) + Vale(f, F)
  <2>1. b \in Seq(Quadros) /\ Len(r) = Len(b) + 1  BY <1>2, <1>3
  <2> QED BY ONLY <2>1, <1>3, <1>4, <1>5, QuantosMais
<1>7. Quantos(p, F) = Quantos(b, F) + Vale(p[Len(p)], F)  BY <1>2, QuantosMais
<1>8. Quantos(b, F) \in Nat /\ Vale(f, F) \in Nat /\ Vale(p[Len(p)], F) \in Nat
      BY <1>2, QuantosTipo DEF Vale
<1> QED BY <1>6, <1>7, <1>8

\* The stubs that have still to end an interrupt in the master, and in the slave.
NoMestre == {f \in Quadros : f.em # "sai"}
NoEscravo == {f \in Quadros : f.linha > 7 /\ f.em \in {"entrada", "trata", "eoi"}}

\* Neither controller has more in service than the stubs will end.
Bastam ==
    /\ Cardinality(Mestre) <= Quantos(pilha, NoMestre)
    /\ Cardinality(Escravo) <= Quantos(pilha, NoEscravo)

LEMMA LinhasContadas ==
    ASSUME NEW S \in SUBSET (0..15)
    PROVE  /\ IsFiniteSet(S \cap (0..7)) /\ Cardinality(S \cap (0..7)) \in Nat
           /\ IsFiniteSet(S \cap (8..15)) /\ Cardinality(S \cap (8..15)) \in Nat
<1>0. 0 \in Int /\ 7 \in Int /\ 8 \in Int /\ 15 \in Int  OBVIOUS
<1>1. IsFiniteSet(0..7) /\ IsFiniteSet(8..15)  BY <1>0, FS_Interval
<1>2. IsFiniteSet(S \cap (0..7)) /\ IsFiniteSet(S \cap (8..15))  BY <1>1, FS_Subset
<1> QED BY <1>2, FS_CardinalityType

LEMMA InicioBastam == Init => Bastam
<1> SUFFICES ASSUME Init PROVE Bastam
    OBVIOUS
<1>1. Mestre = {} /\ Escravo = {} /\ pilha \in Seq(Quadros)  BY DEF Init, Mestre, Escravo
<1>2. Cardinality({}) = 0  BY FS_EmptySet
<1> QED BY <1>1, <1>2, QuantosTipo DEF Bastam

\* An interrupt is taken: its stub will end at least what it puts in service.
LEMMA ChamaBastam ==
    ASSUME Inv, Bastam, Interrompe, NEW n \in Irqs, Chama(n),
           NEW m \in SUBSET {n, Cascata}, servico' = servico \cup m,
           n < 8 => m \subseteq {n}
    PROVE  Bastam'
<1> DEFINE f == Quadro(n)
<1>1. servico \in SUBSET (0..15) /\ n \in (0..15) \ {Cascata} /\ pilha \in Seq(Quadros)
      BY ProcessadorAssumption DEF Inv, TypeOK, Cascata
<1>2. fase = "pronto"  BY DEF Inv, Montado, Interrompe
<1>3. f \in Quadros /\ f.linha = n /\ f.em = "entrada"  BY <1>2, QuadroCerto DEF Quadro
<1>4. pilha' = Append(pilha, f)  BY DEF Chama
<1> HIDE DEF f
<1>5. /\ pilha' \in Seq(Quadros) /\ Len(pilha') = Len(pilha) + 1 /\ pilha'[Len(pilha')] = f
      /\ \A k \in 1..Len(pilha) : pilha'[k] = pilha[k]
      BY <1>1, <1>3, <1>4
<1>6. /\ Quantos(pilha', NoMestre) = Quantos(pilha, NoMestre) + Vale(f, NoMestre)
      /\ Quantos(pilha', NoEscravo) = Quantos(pilha, NoEscravo) + Vale(f, NoEscravo)
      BY <1>1, <1>5, QuantosMais
<1>7. Vale(f, NoMestre) = 1 /\ Vale(f, NoEscravo) = IF n > 7 THEN 1 ELSE 0
      BY <1>3 DEF Vale, NoMestre, NoEscravo
<1>8. /\ IsFiniteSet(Mestre) /\ Cardinality(Mestre) \in Nat
      /\ IsFiniteSet(Escravo) /\ Cardinality(Escravo) \in Nat
      BY <1>1, LinhasContadas DEF Mestre, Escravo
<1>9. Quantos(pilha, NoMestre) \in Nat /\ Quantos(pilha, NoEscravo) \in Nat
      BY <1>1, QuantosTipo
<1>10. PICK a \in 0..7 : Mestre' \subseteq Mestre \cup {a}
  <2>1. CASE n < 8
        BY <2>1, <1>1 DEF Mestre, Cascata
  <2>2. CASE ~ (n < 8)
    <3>1. Mestre' \subseteq Mestre \cup {Cascata} /\ Cascata \in 0..7
          BY <2>2, <1>1 DEF Mestre, Cascata
    <3> QED BY <3>1
  <2> QED BY <2>1, <2>2
<1>11. Cardinality(Mestre') <= Cardinality(Mestre) + 1
  <2>1. IsFiniteSet(Mestre \cup {a}) /\ Cardinality(Mestre \cup {a}) <= Cardinality(Mestre) + 1
        BY <1>8, FS_AddElement
  <2>2. IsFiniteSet(Mestre') /\ Cardinality(Mestre') <= Cardinality(Mestre \cup {a})
        BY <2>1, <1>10, FS_Subset
  <2> QED BY <2>1, <2>2, <1>8, FS_CardinalityType
<1>12. Cardinality(Escravo') <= Cardinality(Escravo) + IF n > 7 THEN 1 ELSE 0
  <2>1. CASE n > 7
    <3>1. Escravo' \subseteq Escravo \cup {n}  BY <1>1 DEF Escravo, Cascata
    <3>2. /\ IsFiniteSet(Escravo \cup {n})
          /\ Cardinality(Escravo \cup {n}) <= Cardinality(Escravo) + 1
          BY <1>8, FS_AddElement
    <3>3. IsFiniteSet(Escravo') /\ Cardinality(Escravo') <= Cardinality(Escravo \cup {n})
          BY <3>1, <3>2, FS_Subset
    <3> QED BY <2>1, <3>2, <3>3, <1>8, FS_CardinalityType
  <2>2. CASE ~ (n > 7)
    <3>1. n < 8  BY <2>2, <1>1
    <3>2. Escravo' = Escravo
      <4>1. m \subseteq {n} /\ n \notin 8..15  BY <3>1, <1>1
      <4> QED BY <4>1 DEF Escravo
    <3> QED BY <2>2, <3>2, <1>8
  <2> QED BY <2>1, <2>2
<1>13. Cardinality(Mestre') \in Nat /\ Cardinality(Escravo') \in Nat
  <2>1. servico' \in SUBSET (0..15)  BY <1>1 DEF Cascata
  <2>2. servico' \cap (0..7) = Mestre' /\ servico' \cap (8..15) = Escravo'  BY DEF Mestre, Escravo
  <2> QED BY <2>1, <2>2, LinhasContadas
<1> QED BY <1>6, <1>7, <1>8, <1>9, <1>11, <1>12, <1>13 DEF Bastam

\* The running stub goes to another statement: the two counts.
LEMMA TrocaBastam ==
    ASSUME TypeOK, pilha # << >>, NEW f \in Quadros,
           pilha' = [pilha EXCEPT ![Len(pilha)] = f], NEW F
    PROVE  /\ Quantos(pilha', F) + Vale(Topo, F) = Quantos(pilha, F) + Vale(f, F)
           /\ Quantos(pilha', F) \in Nat /\ Quantos(pilha, F) \in Nat
<1>1. pilha \in Seq(Quadros) /\ pilha' \in Seq(Quadros)  BY DEF TypeOK
<1>2. Quantos(pilha', F) + Vale(pilha[Len(pilha)], F) = Quantos(pilha, F) + Vale(f, F)
      BY <1>1, QuantosTroca, ZenonT(30)
<1>3. Quantos(pilha', F) \in Nat /\ Quantos(pilha, F) \in Nat  BY <1>1, QuantosTipo
<1> QED BY <1>2, <1>3 DEF Topo

\* The frame on the top after Segue.
LEMMA QuadroSegue ==
    ASSUME TypeOK, pilha # << >>, NEW e \in {"trata", "eoi", "eoi2", "sai"}, Segue(e)
    PROVE  \E f \in Quadros :
               /\ pilha' = [pilha EXCEPT ![Len(pilha)] = f]
               /\ f.linha = Topo.linha /\ f.em = e
<1> DEFINE f == [Topo EXCEPT !.em = e]
<1>1. pilha \in Seq(Quadros) /\ Len(pilha) \in DOMAIN pilha  BY DEF TypeOK
<1>2. Topo \in Quadros  BY <1>1 DEF Topo
<1>3. f \in Quadros /\ f.linha = Topo.linha /\ f.em = e  BY <1>2 DEF Quadros
<1>4. pilha' = [pilha EXCEPT ![Len(pilha)] = f]  BY DEF Segue, Topo
<1> HIDE DEF f
<1> QED BY <1>3, <1>4

\* An end of interrupt takes one line out of its controller, if there is one.
LEMMA FimConta ==
    ASSUME NEW S \in SUBSET (0..15), IsFiniteSet(S), S # {}
    PROVE  /\ Primeira(S) \in S
           /\ Cardinality(S \ {Primeira(S)}) = Cardinality(S) - 1
           /\ Cardinality(S \ {Primeira(S)}) \in Nat
<1>1. Primeira(S) \in S  BY PrimeiraTipo
<1>2. IsFiniteSet(S \ {Primeira(S)}) /\ Cardinality(S \ {Primeira(S)}) = Cardinality(S) - 1
      BY <1>1, FS_RemoveElement
<1> QED BY <1>1, <1>2, FS_CardinalityType

LEMMA EoiEscravoBastam ==
    ASSUME Inv, Bastam, EoiEscravo PROVE Bastam'
<1>1. /\ TypeOK /\ pilha # << >> /\ Segue("eoi2") /\ Topo.em = "eoi"
      /\ pilha \in Seq(Quadros) /\ Len(pilha) \in DOMAIN pilha
      /\ servico \in SUBSET (0..15)
      BY ProcessadorAssumption DEF Inv, TypeOK, EoiEscravo, No, Cascata
<1>2. PICK f \in Quadros : /\ pilha' = [pilha EXCEPT ![Len(pilha)] = f]
                           /\ f.linha = Topo.linha /\ f.em = "eoi2"
      BY <1>1, QuadroSegue
<1>3. Topo \in Quadros /\ Topo.linha > 7
  <2>1. Topo.entrada = [tipo |-> "pic", n |-> Topo.linha]
        BY <1>1 DEF Inv, LinhaNoSeuManipulador, Topo
  <2>2. Topo.entrada.n = Topo.linha  BY <2>1
  <2> QED BY <1>1, <2>2 DEF EoiEscravo, DoEscravo, Topo
<1>4. /\ Vale(f, NoMestre) = 1 /\ Vale(Topo, NoMestre) = 1
      /\ Vale(f, NoEscravo) = 0 /\ Vale(Topo, NoEscravo) = 1
      BY <1>1, <1>2, <1>3 DEF Vale, NoMestre, NoEscravo
<1>5. /\ Quantos(pilha', NoMestre) = Quantos(pilha, NoMestre)
      /\ Quantos(pilha', NoEscravo) = Quantos(pilha, NoEscravo) - 1
      /\ Quantos(pilha', NoMestre) \in Nat /\ Quantos(pilha', NoEscravo) \in Nat
  <2>1. /\ Quantos(pilha', NoMestre) + Vale(Topo, NoMestre) = Quantos(pilha, NoMestre) + Vale(f, NoMestre)
        /\ Quantos(pilha', NoMestre) \in Nat /\ Quantos(pilha, NoMestre) \in Nat
        BY <1>1, <1>2, TrocaBastam
  <2>2. /\ Quantos(pilha', NoEscravo) + Vale(Topo, NoEscravo) = Quantos(pilha, NoEscravo) + Vale(f, NoEscravo)
        /\ Quantos(pilha', NoEscravo) \in Nat /\ Quantos(pilha, NoEscravo) \in Nat
        BY <1>1, <1>2, TrocaBastam
  <2> QED BY <2>1, <2>2, <1>4
<1>6. IsFiniteSet(Escravo) /\ Cardinality(Escravo) \in Nat /\ Escravo \in SUBSET (0..15)
  <2>1. Escravo = servico \cap (8..15)  BY DEF Escravo
  <2> QED BY <2>1, <1>1, LinhasContadas
<1>7. servico' = Fim(Escravo)  BY DEF EoiEscravo
<1>8. CASE Escravo = {}
  <2>1. servico' = servico  BY <1>7, <1>8 DEF Fim
  <2>2. Mestre' = Mestre /\ Escravo' = {}  BY <2>1, <1>8 DEF Mestre, Escravo
  <2>3. Cardinality({}) = 0  BY FS_EmptySet
  <2> QED BY <2>2, <2>3, <1>5 DEF Bastam
<1>9. CASE Escravo # {}
  <2> DEFINE n == Primeira(Escravo)
  <2>1. /\ n \in Escravo /\ Cardinality(Escravo \ {n}) = Cardinality(Escravo) - 1
        BY <1>6, <1>9, FimConta
  <2>2. servico' = servico \ {n}  BY <1>7, <1>9 DEF Fim
  <2> HIDE DEF n
  <2>3. n \notin 0..7  BY <2>1 DEF Escravo
  <2>4. Mestre' = Mestre  BY <2>2, <2>3 DEF Mestre
  <2>5. Escravo' = Escravo \ {n}  BY <2>2 DEF Escravo
  <2>6. Quantos(pilha, NoEscravo) \in Nat  BY <1>1, QuantosTipo
  <2> QED BY <2>1, <2>4, <2>5, <2>6, <1>5, <1>6 DEF Bastam
<1> QED BY <1>8, <1>9

LEMMA EoiMestreBastam ==
    ASSUME Inv, Bastam, EoiMestre PROVE Bastam'
<1>1. /\ TypeOK /\ pilha # << >> /\ Segue("sai") /\ Topo.em \in {"eoi", "eoi2"}
      /\ pilha \in Seq(Quadros) /\ Len(pilha) \in DOMAIN pilha
      /\ servico \in SUBSET (0..15)
      BY ProcessadorAssumption DEF Inv, TypeOK, EoiMestre, No, Cascata
<1>2. PICK f \in Quadros : /\ pilha' = [pilha EXCEPT ![Len(pilha)] = f]
                           /\ f.linha = Topo.linha /\ f.em = "sai"
      BY <1>1, QuadroSegue
<1>3. Topo \in Quadros /\ (Topo.em = "eoi" => ~ (Topo.linha > 7))
  <2>1. Topo.entrada = [tipo |-> "pic", n |-> Topo.linha]
        BY <1>1 DEF Inv, LinhaNoSeuManipulador, Topo
  <2>2. Topo.entrada.n = Topo.linha  BY <2>1
  <2>3. Topo \in Quadros  BY <1>1 DEF Topo
  <2> QED BY <2>2, <2>3 DEF EoiMestre, DoEscravo, No
<1>4. /\ Vale(f, NoMestre) = 0 /\ Vale(Topo, NoMestre) = 1
      /\ Vale(f, NoEscravo) = 0 /\ Vale(Topo, NoEscravo) = 0
      BY <1>1, <1>2, <1>3 DEF Vale, NoMestre, NoEscravo
<1>5. /\ Quantos(pilha', NoMestre) = Quantos(pilha, NoMestre) - 1
      /\ Quantos(pilha', NoEscravo) = Quantos(pilha, NoEscravo)
      /\ Quantos(pilha', NoMestre) \in Nat /\ Quantos(pilha', NoEscravo) \in Nat
  <2>1. /\ Quantos(pilha', NoMestre) + Vale(Topo, NoMestre) = Quantos(pilha, NoMestre) + Vale(f, NoMestre)
        /\ Quantos(pilha', NoMestre) \in Nat /\ Quantos(pilha, NoMestre) \in Nat
        BY <1>1, <1>2, TrocaBastam
  <2>2. /\ Quantos(pilha', NoEscravo) + Vale(Topo, NoEscravo) = Quantos(pilha, NoEscravo) + Vale(f, NoEscravo)
        /\ Quantos(pilha', NoEscravo) \in Nat /\ Quantos(pilha, NoEscravo) \in Nat
        BY <1>1, <1>2, TrocaBastam
  <2> QED BY <2>1, <2>2, <1>4
<1>6. IsFiniteSet(Mestre) /\ Cardinality(Mestre) \in Nat /\ Mestre \in SUBSET (0..15)
  <2>1. Mestre = servico \cap (0..7)  BY DEF Mestre
  <2> QED BY <2>1, <1>1, LinhasContadas
<1>7. servico' = Fim(Mestre)  BY DEF EoiMestre
<1>8. CASE Mestre = {}
  <2>1. servico' = servico  BY <1>7, <1>8 DEF Fim
  <2>2. Mestre' = {} /\ Escravo' = Escravo  BY <2>1, <1>8 DEF Mestre, Escravo
  <2>3. Cardinality({}) = 0  BY FS_EmptySet
  <2> QED BY <2>2, <2>3, <1>5 DEF Bastam
<1>9. CASE Mestre # {}
  <2> DEFINE n == Primeira(Mestre)
  <2>1. /\ n \in Mestre /\ Cardinality(Mestre \ {n}) = Cardinality(Mestre) - 1
        BY <1>6, <1>9, FimConta
  <2>2. servico' = servico \ {n}  BY <1>7, <1>9 DEF Fim
  <2> HIDE DEF n
  <2>3. n \notin 8..15  BY <2>1 DEF Mestre
  <2>4. Escravo' = Escravo  BY <2>2, <2>3 DEF Escravo
  <2>5. Mestre' = Mestre \ {n}  BY <2>2 DEF Mestre
  <2>6. Quantos(pilha, NoMestre) \in Nat  BY <1>1, QuantosTipo
  <2> QED BY <2>1, <2>4, <2>5, <2>6, <1>5, <1>6 DEF Bastam
<1> QED BY <1>8, <1>9

\* The frame on the top after the test of the handler.
LEMMA QuadroTesta ==
    ASSUME Inv, Testa
    PROVE  \E f \in Quadros :
               /\ pilha' = [pilha EXCEPT ![Len(pilha)] = f]
               /\ f.linha = Topo.linha /\ f.trata = manipuladores[Topo.linha]
               /\ f.em = IF f.trata = "nenhum" THEN "eoi" ELSE "trata"
<1> DEFINE m == manipuladores[Topo.linha]
           e == IF m = "nenhum" THEN "eoi" ELSE "trata"
           f == [Topo EXCEPT !.em = e, !.trata = m]
<1>1. pilha \in Seq(Quadros) /\ Len(pilha) \in DOMAIN pilha
      BY DEF Inv, TypeOK, Testa, No
<1>2. Topo \in Quadros /\ Topo.entrada = [tipo |-> "pic", n |-> Topo.linha]
      BY <1>1 DEF Inv, LinhaNoSeuManipulador, Topo
<1>3. Topo.linha \in Irqs /\ Topo.entrada.n = Topo.linha /\ Topo.entrada.tipo = "pic"
      BY <1>2 DEF Quadros
<1>4. m \in Manipuladores  BY <1>3 DEF Inv, TypeOK
<1>5. pilha' = [pilha EXCEPT ![Len(pilha)].em = e, ![Len(pilha)].trata = m]
      BY <1>3 DEF Testa, SoMensagem
<1>6. pilha' = [pilha EXCEPT ![Len(pilha)] = f]  BY <1>5 DEF Topo
<1>7. f \in Quadros /\ f.linha = Topo.linha /\ f.trata = m /\ f.em = e
  <2>1. e \in {"entrada", "trata", "eoi", "eoi2", "sai"}  OBVIOUS
  <2> HIDE DEF e, m
  <2> QED BY <1>2, <1>4, <2>1 DEF Quadros
<1> HIDE DEF f
<1> QED BY <1>6, <1>7

\* The stack without its last stub.
LEMMA QuantosMenos ==
    ASSUME TypeOK, pilha # << >>, pilha' = SubSeq(pilha, 1, Len(pilha) - 1), NEW F
    PROVE  /\ Quantos(pilha, F) = Quantos(pilha', F) + Vale(Topo, F)
           /\ Quantos(pilha', F) \in Nat
<1>1. pilha \in Seq(Quadros) /\ Len(pilha) \in Nat \ {0}  BY DEF TypeOK
<1>2. /\ pilha' \in Seq(Quadros) /\ Len(pilha) = Len(pilha') + 1
      /\ \A k \in 1..Len(pilha') : pilha[k] = pilha'[k]
      BY <1>1, SemUltimo
<1>3. Quantos(pilha, F) = Quantos(pilha', F) + Vale(pilha[Len(pilha)], F)
  <2> QED BY ONLY <1>1, <1>2, QuantosMais
<1>4. Quantos(pilha', F) \in Nat  BY <1>2, QuantosTipo
<1> QED BY <1>3, <1>4 DEF Topo

LEMMA NextBastam == Inv /\ Bastam /\ [Next]_vars => Bastam'
<1> SUFFICES ASSUME Inv, Bastam, [Next]_vars PROVE Bastam'
    OBVIOUS
<1>t. TypeOK  BY DEF Inv
<1>u. ASSUME UNCHANGED <<servico, pilha>> PROVE Bastam'
      BY <1>u DEF Bastam, Mestre, Escravo
<1>p. ASSUME Passam # {} PROVE Primeira(Passam) \in Irqs
  <2>1. Passam \in SUBSET (0..15) /\ Passam \subseteq Irqs
        BY <1>t, ProcessadorAssumption DEF Passam, TypeOK
  <2> QED BY <2>1, <1>p, PrimeiraTipo
<1>1. CASE Aceita
  <2> DEFINE n == Primeira(Passam)
             m == {n} \cup (IF n < 8 THEN {} ELSE {Cascata})
  <2>1. n \in Irqs  BY <1>1, <1>p DEF Aceita, Interrompe
  <2>2. Interrompe /\ Chama(n) /\ servico' = servico \cup m  BY <1>1 DEF Aceita
  <2>3. m \in SUBSET {n, Cascata} /\ (n < 8 => m \subseteq {n})  OBVIOUS
  <2> HIDE DEF n, m
  <2> QED BY <2>1, <2>2, <2>3, ChamaBastam
<1>2. CASE Espuria
  <2>1. 7 \in Irqs /\ 15 \in Irqs /\ Interrompe
        BY <1>2, ProcessadorAssumption DEF Espuria
  <2>2. CASE Chama(7) /\ servico' = servico
    <3>1. {} \in SUBSET {7, Cascata} /\ servico' = servico \cup {} /\ (7 < 8 => {} \subseteq {7})
          BY <2>2
    <3> QED BY <2>1, <2>2, <3>1, ChamaBastam
  <2>3. CASE Chama(15) /\ servico' = servico \cup {Cascata}
    <3>1. {Cascata} \in SUBSET {15, Cascata} /\ ~ (15 < 8)  OBVIOUS
    <3> QED BY <2>1, <2>3, <3>1, ChamaBastam
  <2> QED BY <1>2, <2>2, <2>3 DEF Espuria
<1>3. ASSUME pilha # << >>, UNCHANGED servico, NEW f \in Quadros, f.linha = Topo.linha,
             f.em \in {"trata", "eoi"}, Topo.em \in {"entrada", "trata"},
             pilha' = [pilha EXCEPT ![Len(pilha)] = f]
      PROVE  Bastam'
  <2>1. pilha \in Seq(Quadros) /\ Topo \in Quadros  BY <1>3, <1>t DEF TypeOK, Topo
  <2>2. /\ Vale(f, NoMestre) = Vale(Topo, NoMestre) /\ Vale(f, NoMestre) \in Nat
        /\ Vale(f, NoEscravo) = Vale(Topo, NoEscravo) /\ Vale(f, NoEscravo) \in Nat
        BY <1>3, <2>1 DEF Vale, NoMestre, NoEscravo
  <2>3. /\ Quantos(pilha', NoMestre) + Vale(Topo, NoMestre) = Quantos(pilha, NoMestre) + Vale(f, NoMestre)
        /\ Quantos(pilha', NoMestre) \in Nat /\ Quantos(pilha, NoMestre) \in Nat
        BY <1>3, <1>t, TrocaBastam
  <2>4. /\ Quantos(pilha', NoEscravo) + Vale(Topo, NoEscravo) = Quantos(pilha, NoEscravo) + Vale(f, NoEscravo)
        /\ Quantos(pilha', NoEscravo) \in Nat /\ Quantos(pilha, NoEscravo) \in Nat
        BY <1>3, <1>t, TrocaBastam
  <2>5. Mestre' = Mestre /\ Escravo' = Escravo  BY <1>3 DEF Mestre, Escravo
  <2>6. /\ Quantos(pilha', NoMestre) = Quantos(pilha, NoMestre)
        /\ Quantos(pilha', NoEscravo) = Quantos(pilha, NoEscravo)
        BY <2>2, <2>3, <2>4
  <2> QED BY <2>5, <2>6 DEF Bastam
<1>4. CASE Testa
  <2>1. pilha # << >> /\ Topo.em = "entrada" /\ servico' = servico
        BY <1>4 DEF Testa, No
  <2> QED BY <1>3, <1>4, <2>1, QuadroTesta
<1>5. CASE Tick \/ Volta
  <2>1. pilha # << >> /\ Topo.em = "trata" /\ servico' = servico /\ Segue("eoi")
        BY <1>5 DEF Tick, Volta, No
  <2> QED BY <1>3, <1>t, <2>1, QuadroSegue
<1>6. CASE EoiEscravo \/ EoiMestre
      BY <1>6, EoiEscravoBastam, EoiMestreBastam
<1>7. CASE Sai
  <2>1. pilha # << >> /\ Topo.em = "sai" /\ servico' = servico
        /\ pilha' = SubSeq(pilha, 1, Len(pilha) - 1)
        BY <1>7 DEF Sai, No
  <2>2. Vale(Topo, NoMestre) = 0 /\ Vale(Topo, NoEscravo) = 0
        BY <2>1 DEF Vale, NoMestre, NoEscravo
  <2>3. Quantos(pilha, NoMestre) = Quantos(pilha', NoMestre) + 0 /\ Quantos(pilha', NoMestre) \in Nat
        BY <2>1, <2>2, <1>t, QuantosMenos
  <2>4. Quantos(pilha, NoEscravo) = Quantos(pilha', NoEscravo) + 0 /\ Quantos(pilha', NoEscravo) \in Nat
        BY <2>1, <2>2, <1>t, QuantosMenos
  <2>5. Mestre' = Mestre /\ Escravo' = Escravo  BY <2>1 DEF Mestre, Escravo
  <2> QED BY <2>3, <2>4, <2>5 DEF Bastam
<1>8. CASE Reprograma
  <2>1. Mestre' = {} /\ Escravo' = {} /\ pilha' \in Seq(Quadros)
        BY <1>8, <1>t DEF Reprograma, Livre, Mestre, Escravo, TypeOK
  <2>2. Cardinality({}) = 0  BY FS_EmptySet
  <2>3. Quantos(pilha', NoMestre) \in Nat /\ Quantos(pilha', NoEscravo) \in Nat
        BY <2>1, QuantosTipo
  <2> QED BY <2>1, <2>2, <2>3 DEF Bastam
<1>9. CASE Idt \/ Pic \/ Pit \/ Sti \/ HabilitarInterrupcoes \/ HabilitaNoMeio
      BY <1>9, <1>u DEF Idt, Pic, Pit, Sti, HabilitarInterrupcoes, HabilitaNoMeio, hardware
<1>10. CASE Interface
      BY <1>10, <1>u DEF Interface, RegistraIRQ, DesabilitarInterrupcoes, hardware
<1>11. ASSUME NEW n \in Irqs, Pedido(n) PROVE Bastam'
      BY <1>11, <1>u DEF Pedido
<1>12. CASE UNCHANGED vars
      BY <1>12, <1>u DEF vars
<1> QED BY <1>1, <1>2, <1>4, <1>5, <1>6, <1>7, <1>8, <1>9, <1>10, <1>11, <1>12
        DEF Next, Segmento, Inicia

\* The invariant has what ServicoEncerra asks: an empty stack ends nothing more.
LEMMA BastamEncerra == Inv /\ Bastam => ServicoEncerra
<1> SUFFICES ASSUME Inv, Bastam, pilha = << >> PROVE servico = {}
    BY DEF ServicoEncerra
<1>1. servico \in SUBSET (0..15)  BY ProcessadorAssumption DEF Inv, TypeOK, Cascata
<1>2. Mestre = servico \cap (0..7) /\ Escravo = servico \cap (8..15)  BY DEF Mestre, Escravo
<1>3. DeTipo(pilha, NoMestre) = {} /\ DeTipo(pilha, NoEscravo) = {}  BY DEF DeTipo
<1>4. Quantos(pilha, NoMestre) = 0 /\ Quantos(pilha, NoEscravo) = 0
      BY <1>3, FS_EmptySet DEF Quantos
<1>5. /\ IsFiniteSet(Mestre) /\ Cardinality(Mestre) \in Nat
      /\ IsFiniteSet(Escravo) /\ Cardinality(Escravo) \in Nat
      BY <1>1, <1>2, LinhasContadas
<1>6. Cardinality(Mestre) = 0 /\ Cardinality(Escravo) = 0  BY <1>4, <1>5 DEF Bastam
<1>7. Mestre = {} /\ Escravo = {}  BY <1>5, <1>6, FS_EmptySet
<1>8. \A n \in 0..15 : n \in 0..7 \/ n \in 8..15  OBVIOUS
<1> QED BY <1>1, <1>2, <1>7, <1>8

\* ServicoEncerra: when all stubs have returned no line is left in service, spurious
\* interrupts included.
THEOREM NadaFica == Spec => []ServicoEncerra
BY InicioBastam, NextBastam, InicioInv, NextInv, BastamEncerra, PTL DEF Spec
-----------------------------------------------------------------------------
(* The ticks.                                                              *)

\* The stubs that will still count a tick.
DoTempo == {f \in Quadros : f.linha = 0 /\ f.em \in {"entrada", "trata"}}

\* Line 0 has the timer's handler before the first interrupt, and only it has.
Tiques ==
    /\ fase \in {"sti", "pronto"} => manipuladores[0] = "tick"
    /\ \A n \in Irqs \ {0} : manipuladores[n] # "tick"
    /\ \A k \in DOMAIN pilha :
           pilha[k].em = "trata" => (pilha[k].trata = "tick" <=> pilha[k].linha = 0)
    /\ aceitos = contador + Quantos(pilha, DoTempo)

LEMMA InicioTiques == Init => Tiques
<1> SUFFICES ASSUME Init PROVE Tiques
    OBVIOUS
<1>1. DeTipo(pilha, DoTempo) = {} /\ DOMAIN pilha = {}  BY DEF Init, DeTipo
<1>2. Quantos(pilha, DoTempo) = 0  BY <1>1, FS_EmptySet DEF Quantos
<1> QED BY <1>1, <1>2 DEF Init, Tiques

\* An interrupt is taken: if it is of line 0 its stub will count it.
LEMMA ChamaTiques ==
    ASSUME Inv, Tiques, Interrompe, NEW n \in Irqs, Chama(n),
           aceitos' = aceitos + IF n = 0 THEN 1 ELSE 0
    PROVE  Tiques'
<1> DEFINE f == Quadro(n)
<1>1. pilha \in Seq(Quadros) /\ aceitos \in Nat /\ contador \in Nat  BY DEF Inv, TypeOK
<1>2. fase = "pronto"  BY DEF Inv, Montado, Interrompe
<1>3. f \in Quadros /\ f.linha = n /\ f.em = "entrada"  BY <1>2, QuadroCerto DEF Quadro
<1>4. pilha' = Append(pilha, f) /\ UNCHANGED <<fase, manipuladores, contador>>  BY DEF Chama
<1> HIDE DEF f
<1>5. /\ pilha' \in Seq(Quadros) /\ Len(pilha') = Len(pilha) + 1 /\ pilha'[Len(pilha')] = f
      /\ \A k \in 1..Len(pilha) : pilha'[k] = pilha[k]
      BY <1>1, <1>3, <1>4
<1>6. Quantos(pilha', DoTempo) = Quantos(pilha, DoTempo) + Vale(f, DoTempo)
      BY <1>1, <1>5, QuantosMais
<1>7. Vale(f, DoTempo) = IF n = 0 THEN 1 ELSE 0  BY <1>3 DEF Vale, DoTempo
<1>8. Quantos(pilha, DoTempo) \in Nat  BY <1>1, QuantosTipo
<1>9. aceitos' = contador' + Quantos(pilha', DoTempo)
      BY <1>1, <1>4, <1>6, <1>7, <1>8 DEF Tiques
<1>10. ASSUME NEW k \in DOMAIN pilha', pilha'[k].em = "trata"
       PROVE  pilha'[k].trata = "tick" <=> pilha'[k].linha = 0
  <2>1. k \in DOMAIN pilha \/ k = Len(pilha')  BY <1>1, <1>5
  <2>2. k # Len(pilha')  BY <1>3, <1>5, <1>10
  <2>3. k \in DOMAIN pilha /\ pilha'[k] = pilha[k]  BY <2>1, <2>2, <1>1, <1>5
  <2> QED BY <2>3, <1>10 DEF Tiques
<1> QED BY <1>4, <1>9, <1>10 DEF Tiques

\* The running stub goes to another statement.
LEMMA TrocaTiques ==
    ASSUME Inv, Tiques, pilha # << >>, NEW f \in Quadros, f.linha = Topo.linha,
           pilha' = [pilha EXCEPT ![Len(pilha)] = f],
           UNCHANGED <<fase, manipuladores, aceitos>>,
           f.em = "trata" => (f.trata = "tick" <=> f.linha = 0),
           contador' \in Nat,
           contador' + Vale(f, DoTempo) = contador + Vale(Topo, DoTempo)
    PROVE  Tiques'
<1>1. TypeOK /\ pilha \in Seq(Quadros) /\ aceitos \in Nat /\ contador \in Nat  BY DEF Inv, TypeOK
<1>2. /\ Quantos(pilha', DoTempo) + Vale(Topo, DoTempo) = Quantos(pilha, DoTempo) + Vale(f, DoTempo)
      /\ Quantos(pilha', DoTempo) \in Nat /\ Quantos(pilha, DoTempo) \in Nat
      BY <1>1, TrocaBastam
<1>3. Vale(f, DoTempo) \in Nat /\ Vale(Topo, DoTempo) \in Nat  BY DEF Vale
<1>4. aceitos' = contador' + Quantos(pilha', DoTempo)  BY <1>1, <1>2, <1>3 DEF Tiques
<1>5. ASSUME NEW k \in DOMAIN pilha', pilha'[k].em = "trata"
      PROVE  pilha'[k].trata = "tick" <=> pilha'[k].linha = 0
  <2>1. k \in DOMAIN pilha  BY <1>1
  <2>2. CASE k = Len(pilha)
    <3>1. pilha'[k] = f  BY <2>1, <2>2
    <3> QED BY <3>1, <1>5
  <2>3. CASE k # Len(pilha)
    <3>1. pilha'[k] = pilha[k]  BY <2>1, <2>3
    <3> QED BY <3>1, <2>1, <1>5 DEF Tiques
  <2> QED BY <2>2, <2>3
<1> QED BY <1>4, <1>5 DEF Tiques

LEMMA NextTiques == Inv /\ Tiques /\ [Next]_vars => Tiques'
<1> SUFFICES ASSUME Inv, Tiques, [Next]_vars PROVE Tiques'
    OBVIOUS
<1>t. TypeOK  BY DEF Inv
<1>u. ASSUME UNCHANGED <<fase, manipuladores, pilha, aceitos, contador>> PROVE Tiques'
      BY <1>u DEF Tiques
<1>v. ASSUME pilha # << >>
      PROVE  /\ pilha \in Seq(Quadros) /\ Len(pilha) \in DOMAIN pilha /\ Topo \in Quadros
             /\ fase = "pronto" /\ contador \in Nat
             /\ Topo.em = "trata" => (Topo.trata = "tick" <=> Topo.linha = 0)
  <2>1. pilha \in Seq(Quadros) /\ Len(pilha) \in DOMAIN pilha  BY <1>t, <1>v DEF TypeOK
  <2> QED BY <2>1, <1>t, <1>v DEF Inv, Montado, TypeOK, Topo, Tiques
<1>p. ASSUME Passam # {} PROVE Primeira(Passam) \in Irqs
  <2>1. Passam \in SUBSET (0..15) /\ Passam \subseteq Irqs
        BY <1>t, ProcessadorAssumption DEF Passam, TypeOK
  <2> QED BY <2>1, <1>p, PrimeiraTipo
<1>1. CASE Aceita
  <2> DEFINE n == Primeira(Passam)
  <2>1. n \in Irqs /\ Interrompe  BY <1>1, <1>p DEF Aceita, Interrompe
  <2>2. Chama(n) /\ aceitos' = aceitos + IF n = 0 THEN 1 ELSE 0  BY <1>1 DEF Aceita
  <2> HIDE DEF n
  <2> QED BY <2>1, <2>2, ChamaTiques
<1>2. CASE Espuria
  <2>1. /\ 7 \in Irqs /\ 15 \in Irqs /\ Interrompe
        /\ Chama(7) \/ Chama(15)
        /\ aceitos' = aceitos + 0 /\ aceitos \in Nat
        BY <1>2, <1>t, ProcessadorAssumption DEF Espuria, TypeOK
  <2> QED BY <2>1, ChamaTiques
<1>3. CASE Testa
  <2>1. pilha # << >> /\ Topo.em = "entrada" /\ UNCHANGED <<fase, manipuladores, aceitos, contador>>
        BY <1>3 DEF Testa, No, resto
  <2>2. PICK f \in Quadros : /\ pilha' = [pilha EXCEPT ![Len(pilha)] = f]
                             /\ f.linha = Topo.linha /\ f.trata = manipuladores[Topo.linha]
                             /\ f.em = IF f.trata = "nenhum" THEN "eoi" ELSE "trata"
        BY <1>3, QuadroTesta
  <2>3. f.trata = "tick" <=> f.linha = 0
    <3>1. Topo.linha \in Irqs /\ fase = "pronto"  BY <1>v, <2>1 DEF Quadros
    <3> QED BY <3>1, <2>2 DEF Tiques
  <2>4. Vale(f, DoTempo) = Vale(Topo, DoTempo)
        BY <1>v, <2>1, <2>2, <2>3 DEF Vale, DoTempo
  <2> QED BY <1>v, <2>1, <2>2, <2>3, <2>4, TrocaTiques
<1>4. ASSUME NEW e \in {"eoi", "eoi2", "sai"}, pilha # << >>, Segue(e),
             UNCHANGED <<fase, manipuladores, aceitos>>,
             contador' = contador + Vale(Topo, DoTempo)
      PROVE  Tiques'
  <2>1. PICK f \in Quadros : /\ pilha' = [pilha EXCEPT ![Len(pilha)] = f]
                             /\ f.linha = Topo.linha /\ f.em = e
        BY <1>4, <1>t, QuadroSegue
  <2>2. Vale(f, DoTempo) = 0  BY <2>1 DEF Vale, DoTempo
  <2>3. Vale(Topo, DoTempo) \in Nat  BY DEF Vale
  <2>4. contador' \in Nat /\ contador' + Vale(f, DoTempo) = contador + Vale(Topo, DoTempo)
        BY <1>4, <1>v, <2>2, <2>3
  <2>5. f.em # "trata"  BY <2>1
  <2> QED BY <1>4, <2>1, <2>4, <2>5, TrocaTiques
<1>5. CASE Tick
  <2>1. /\ pilha # << >> /\ Topo.em = "trata" /\ Topo.trata = "tick" /\ Segue("eoi")
        /\ contador' = contador + 1 /\ UNCHANGED <<fase, manipuladores, aceitos>>
        BY <1>5 DEF Tick, No, resto
  <2>2. Vale(Topo, DoTempo) = 1  BY <2>1, <1>v DEF Vale, DoTempo
  <2> QED BY <2>1, <2>2, <1>4
<1>6. CASE Volta
  <2>1. /\ pilha # << >> /\ Topo.em = "trata" /\ Topo.trata = "modulo" /\ Segue("eoi")
        /\ contador' = contador /\ UNCHANGED <<fase, manipuladores, aceitos>>
        BY <1>6 DEF Volta, No, resto
  <2>2. Vale(Topo, DoTempo) = 0  BY <2>1, <1>v DEF Vale, DoTempo
  <2> QED BY <2>1, <2>2, <1>4, <1>v
<1>7. CASE EoiEscravo \/ EoiMestre
  <2>1. /\ pilha # << >> /\ Topo.em \in {"eoi", "eoi2"} /\ (Segue("eoi2") \/ Segue("sai"))
        /\ contador' = contador /\ UNCHANGED <<fase, manipuladores, aceitos>>
        BY <1>7 DEF EoiEscravo, EoiMestre, No, resto
  <2>2. Vale(Topo, DoTempo) = 0  BY <2>1 DEF Vale, DoTempo
  <2> QED BY <2>1, <2>2, <1>4, <1>v
<1>8. CASE Sai
  <2>1. /\ pilha # << >> /\ Topo.em = "sai" /\ pilha' = SubSeq(pilha, 1, Len(pilha) - 1)
        /\ UNCHANGED <<fase, manipuladores, aceitos, contador>>
        BY <1>8 DEF Sai, No, resto
  <2>2. Vale(Topo, DoTempo) = 0  BY <2>1 DEF Vale, DoTempo
  <2>3. Quantos(pilha, DoTempo) = Quantos(pilha', DoTempo) + 0 /\ Quantos(pilha', DoTempo) \in Nat
        BY <2>1, <2>2, <1>t, QuantosMenos
  <2>4. \A k \in DOMAIN pilha' : k \in DOMAIN pilha /\ pilha'[k] = pilha[k]
        BY <1>v, <2>1
  <2> QED BY <2>1, <2>3, <2>4 DEF Tiques
<1>9. CASE Pic \/ Pit
  <2>1. /\ pilha' = pilha /\ UNCHANGED <<aceitos, contador>>
        /\ manipuladores \in [Irqs -> Manipuladores] /\ 0 \in Irqs
        BY <1>9, <1>t, ProcessadorAssumption DEF Pic, Pit, hardware, TypeOK
  <2> QED BY <1>9, <2>1 DEF Pic, Pit, Tiques
<1>10. CASE Idt \/ Reprograma
  <2>1. UNCHANGED <<manipuladores, pilha, aceitos, contador>> /\ fase' \in {"pic", "pit"}
        BY <1>10 DEF Idt, Reprograma, hardware
  <2> QED BY <2>1 DEF Tiques
<1>11. CASE Sti
      BY <1>11 DEF Sti, hardware, Tiques, Livre
<1>12. CASE HabilitarInterrupcoes \/ DesabilitarInterrupcoes \/ HabilitaNoMeio
      BY <1>12, <1>u DEF HabilitarInterrupcoes, DesabilitarInterrupcoes, HabilitaNoMeio,
                         hardware, resto
<1>13. ASSUME NEW n \in Registraveis, NEW m \in {"nenhum", "modulo"}, RegistraIRQ(n, m)
       PROVE  Tiques'
  <2>1. n \in Irqs \ {0} /\ manipuladores \in [Irqs -> Manipuladores] /\ 0 \in Irqs
        BY <1>t, ProcessadorAssumption DEF TypeOK
  <2>2. UNCHANGED <<fase, pilha, aceitos, contador>>
        /\ manipuladores' = [manipuladores EXCEPT ![n] = m]
        BY <1>13 DEF RegistraIRQ, hardware
  <2> QED BY <2>1, <2>2 DEF Tiques
<1>14. ASSUME NEW n \in Irqs, Pedido(n) PROVE Tiques'
      BY <1>14, <1>u DEF Pedido
<1>15. CASE UNCHANGED vars
      BY <1>15, <1>u DEF vars
<1> QED BY <1>1, <1>2, <1>3, <1>5, <1>6, <1>7, <1>8, <1>9, <1>10, <1>11, <1>12, <1>13,
           <1>14, <1>15 DEF Next, Segmento, Inicia, Interface

\* The invariant has what TickContado asks.
LEMMA TiquesContam == Inv /\ Tiques => TickContado
<1> SUFFICES ASSUME Inv, Tiques PROVE TickContado
    OBVIOUS
<1>1. pilha \in Seq(Quadros)  BY DEF Inv, TypeOK
<1>2. \A k \in DOMAIN pilha : pilha[k] \in Quadros  BY <1>1
<1>3. DeTipo(pilha, DoTempo)
        = {k \in DOMAIN pilha : pilha[k].linha = 0 /\ pilha[k].em \in {"entrada", "trata"}}
      BY <1>2 DEF DeTipo, DoTempo
<1> QED BY <1>3 DEF Tiques, Quantos, TickContado

\* TickContado: each interrupt of line 0 that is taken adds one to the count, and no
\* spurious one, no other line and no handler of a module does.
THEOREM TickCerto == Spec => []TickContado
BY InicioTiques, NextTiques, InicioInv, NextInv, TiquesContam, PTL DEF Spec
=============================================================================
