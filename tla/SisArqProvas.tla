---------------------------- MODULE SisArqProvas ----------------------------
(***************************************************************************)
(* What the file layer does for every registry, every set of archives and  *)
(* every address: a disk name keeps its file system, Abre opens the member *)
(* its listing should find, and a read stays in the member of its item.    *)
(*                                                                         *)
(* The argument: IInv says what the registry, the items and the frame of a *)
(* running call of Abre hold between two steps; every theorem follows from *)
(* it and from the layout of an archive.                                   *)
(***************************************************************************)
EXTENDS SisArq, WellFoundedInduction, TLAPS

LEMMA MinimoDeNaturais ==
    ASSUME NEW T \in SUBSET Nat, T # {}
    PROVE  Min(T) \in T /\ \A y \in T : Min(T) <= y
<1>1. \E x \in T : \A y \in T : <<y, x>> \notin OpToRel(<, Nat)
      BY NatLessThanWellFounded, WFMin
<1>2. PICK x \in T : \A y \in T : <<y, x>> \notin OpToRel(<, Nat)
      BY <1>1
<1>3. \A y \in T : ~(y < x)
      BY <1>2 DEF OpToRel
<1>4. \A y \in T : x <= y
      BY <1>3
<1> QED BY <1>4 DEF Min

-----------------------------------------------------------------------------
(* The layout of an archive.  Cabecalhos is defined by recursion: a function *)
(* that satisfies its equation exists, built from the partial ones.        *)

Parcial(arq, g, m) ==
    g = [n \in 0..m |-> IF n = 0 THEN TamAssinatura ELSE g[n - 1] + Ocupa(arq[n])]

LEMMA ParcialUnica ==
    ASSUME NEW arq, NEW m \in Nat, NEW p \in Nat, NEW g, NEW h, Parcial(arq, g, m), Parcial(arq, h, p)
    PROVE  \A n \in 0..m : n <= p => g[n] = h[n]
<1> DEFINE T == {n \in 0..m : n <= p /\ g[n] # h[n]}
<1> SUFFICES ASSUME T # {} PROVE FALSE
    OBVIOUS
<1>1. T \in SUBSET Nat
      OBVIOUS
<1>2. PICK x \in T : \A y \in T : x <= y
      BY <1>1, MinimoDeNaturais
<1>3. x # 0
      BY DEF Parcial
<1>4. x - 1 \in 0..m /\ x - 1 <= p /\ x - 1 \notin T
      BY <1>2, <1>3
<1>5. g[x - 1] = h[x - 1]
      BY <1>4
<1>6. g[x] = g[x - 1] + Ocupa(arq[x]) /\ h[x] = h[x - 1] + Ocupa(arq[x])
      BY <1>3 DEF Parcial
<1> QED BY <1>5, <1>6

LEMMA ParcialExiste ==
    ASSUME NEW arq
    PROVE  \A m \in Nat : \E g : Parcial(arq, g, m)
<1> DEFINE T == {m \in Nat : ~ \E g : Parcial(arq, g, m)}
<1> SUFFICES ASSUME T # {} PROVE FALSE
    OBVIOUS
<1>1. PICK x \in T : \A y \in T : x <= y
      BY MinimoDeNaturais
<1>2. x # 0
  <2> DEFINE z == [n \in 0..0 |-> TamAssinatura]
  <2>1. Parcial(arq, z, 0)
        BY DEF Parcial
  <2> QED BY <2>1
<1>3. PICK g : Parcial(arq, g, x - 1)
      BY <1>1, <1>2
<1> DEFINE h == [n \in 0..x |-> IF n = x THEN g[x - 1] + Ocupa(arq[x]) ELSE g[n]]
<1>4. ASSUME NEW n \in 0..x
      PROVE  h[n] = IF n = 0 THEN TamAssinatura ELSE h[n - 1] + Ocupa(arq[n])
  <2>1. CASE n = x
        BY <2>1, <1>2
  <2>2. CASE n # x
    <3>1. n \in 0..(x - 1) /\ h[n] = g[n] /\ (n # 0 => h[n - 1] = g[n - 1])
          BY <2>2
    <3>2. g[n] = IF n = 0 THEN TamAssinatura ELSE g[n - 1] + Ocupa(arq[n])
          BY <3>1, <1>3 DEF Parcial
    <3> QED BY <3>1, <3>2
  <2> QED BY <2>1, <2>2
<1>5. Parcial(arq, h, x)
      BY <1>4 DEF Parcial
<1> QED BY <1>5

LEMMA CabecalhosEquacao ==
    ASSUME NEW arq
    PROVE  Cabecalhos(arq) = [n \in Nat |-> IF n = 0 THEN TamAssinatura
                                            ELSE Cabecalhos(arq)[n - 1] + Ocupa(arq[n])]
<1> DEFINE G(m) == CHOOSE g : Parcial(arq, g, m)
           F == [n \in Nat |-> G(n)[n]]
<1>1. \A m \in Nat : Parcial(arq, G(m), m)
      BY ParcialExiste
<1> HIDE DEF G
<1>2. ASSUME NEW n \in Nat
      PROVE  F[n] = IF n = 0 THEN TamAssinatura ELSE F[n - 1] + Ocupa(arq[n])
  <2>1. G(n)[n] = IF n = 0 THEN TamAssinatura ELSE G(n)[n - 1] + Ocupa(arq[n])
        BY <1>1 DEF Parcial
  <2>2. n # 0 => G(n)[n - 1] = G(n - 1)[n - 1]
    <3> SUFFICES ASSUME n # 0 PROVE G(n)[n - 1] = G(n - 1)[n - 1]
        OBVIOUS
    <3>1. n - 1 \in Nat /\ n - 1 \in 0..n
          OBVIOUS
    <3>2. Parcial(arq, G(n), n) /\ Parcial(arq, G(n - 1), n - 1)
          BY <1>1, <3>1
    <3> QED BY <3>1, <3>2, ParcialUnica
  <2> QED BY <2>1, <2>2
<1>3. F = [n \in Nat |-> IF n = 0 THEN TamAssinatura ELSE F[n - 1] + Ocupa(arq[n])]
      BY <1>2
<1> QED BY <1>3 DEF Cabecalhos

LEMMA ElementoDeSeq ==
    ASSUME NEW S, NEW s \in Seq(S), NEW k \in 1..Len(s)
    PROVE  s[k] \in S
  OBVIOUS

\* The archives, and the step from a header to the next.
Arquivos == Seq([nome : Seq(STRING), tam : Nat])

LEMMA OcupaTipo ==
    ASSUME NEW arq \in Arquivos, NEW k \in 1..Len(arq)
    PROVE  /\ arq[k].tam \in Nat
           /\ Ocupa(arq[k]) \in Nat
           /\ Ocupa(arq[k]) >= TamCabecalho + arq[k].tam
           /\ arq[k].tam % 2 = 0 => Ocupa(arq[k]) = TamCabecalho + arq[k].tam
           /\ arq[k].tam % 2 # 0 => Ocupa(arq[k]) > TamCabecalho + arq[k].tam
<1>1. arq[k] \in [nome : Seq(STRING), tam : Nat]
      BY ElementoDeSeq DEF Arquivos
<1>2. arq[k].tam \in Nat
      BY <1>1
<1>3. arq[k].tam % 2 \in 0..1
      BY <1>2
<1> QED BY <1>2, <1>3 DEF Ocupa, TamCabecalho

LEMMA InicioPasso ==
    ASSUME NEW arq \in Arquivos
    PROVE  /\ Inicio(arq, 1) = TamAssinatura
           /\ \A k \in 1..Len(arq) : Inicio(arq, k + 1) = Inicio(arq, k) + Ocupa(arq[k])
<1>1. Len(arq) \in Nat
      BY DEF Arquivos
<1>2. ASSUME NEW n \in Nat
      PROVE  Cabecalhos(arq)[n] = IF n = 0 THEN TamAssinatura
                                  ELSE Cabecalhos(arq)[n - 1] + Ocupa(arq[n])
      BY CabecalhosEquacao
<1>3. Inicio(arq, 1) = TamAssinatura
      BY <1>2 DEF Inicio
<1>4. ASSUME NEW k \in 1..Len(arq)
      PROVE  Inicio(arq, k + 1) = Inicio(arq, k) + Ocupa(arq[k])
  <2>1. k \in Nat /\ k # 0 /\ k + 1 - 1 = k
        BY <1>1
  <2> QED BY <2>1, <1>2 DEF Inicio
<1> QED BY <1>3, <1>4

LEMMA InicioTipo ==
    ASSUME NEW arq \in Arquivos, NEW k \in 1..(Len(arq) + 1)
    PROVE  Inicio(arq, k) \in Nat
<1>1. Len(arq) \in Nat
      BY DEF Arquivos
<1> DEFINE T == {n \in 1..(Len(arq) + 1) : Inicio(arq, n) \notin Nat}
<1> SUFFICES ASSUME T # {} PROVE FALSE
    OBVIOUS
<1>2. T \in SUBSET Nat
      BY <1>1
<1>3. PICK x \in T : \A y \in T : x <= y
      BY <1>2, MinimoDeNaturais
<1>4. x # 1
      BY InicioPasso DEF TamAssinatura
<1>5. x - 1 \in 1..Len(arq) /\ x - 1 \notin T /\ x - 1 + 1 = x
      BY <1>1, <1>3, <1>4
<1>6. Inicio(arq, x - 1) \in Nat /\ Ocupa(arq[x - 1]) \in Nat
      BY <1>1, <1>5, OcupaTipo
<1>7. Inicio(arq, x) = Inicio(arq, x - 1) + Ocupa(arq[x - 1])
      BY <1>5, InicioPasso
<1> QED BY <1>6, <1>7

\* Every member ends before the next header, and so before the ones after it.
LEMMA InicioCresce ==
    ASSUME NEW arq \in Arquivos, NEW i \in 1..Len(arq), NEW j \in (i + 1)..(Len(arq) + 1)
    PROVE  Inicio(arq, i) + Ocupa(arq[i]) <= Inicio(arq, j)
<1>1. Len(arq) \in Nat
      BY DEF Arquivos
<1> DEFINE T == {n \in (i + 1)..(Len(arq) + 1) : ~(Inicio(arq, i) + Ocupa(arq[i]) <= Inicio(arq, n))}
<1> SUFFICES ASSUME T # {} PROVE FALSE
    OBVIOUS
<1>2. T \in SUBSET Nat
      BY <1>1
<1>3. PICK x \in T : \A y \in T : x <= y
      BY <1>2, MinimoDeNaturais
<1>4. /\ Inicio(arq, i) \in Nat /\ Ocupa(arq[i]) \in Nat
      /\ Inicio(arq, i + 1) = Inicio(arq, i) + Ocupa(arq[i])
      BY <1>1, InicioTipo, OcupaTipo, InicioPasso
<1>5. x # i + 1
      BY <1>4
<1>6. x - 1 \in (i + 1)..Len(arq) /\ x - 1 \notin T /\ x - 1 + 1 = x
      BY <1>1, <1>3, <1>5
<1>7. x - 1 \in 1..Len(arq) /\ x - 1 \in 1..(Len(arq) + 1)
      BY <1>1, <1>6
<1>8. /\ Inicio(arq, x - 1) \in Nat /\ Ocupa(arq[x - 1]) \in Nat
      /\ Inicio(arq, x) = Inicio(arq, x - 1) + Ocupa(arq[x - 1])
      BY <1>6, <1>7, InicioTipo, OcupaTipo, InicioPasso
<1>9. Inicio(arq, i) + Ocupa(arq[i]) <= Inicio(arq, x - 1)
      BY <1>6, <1>1
<1> QED BY <1>4, <1>8, <1>9

\* The bytes of a member are inside the file.
LEMMA MembroNoArquivo ==
    ASSUME NEW arq \in Arquivos, NEW k \in 1..Len(arq)
    PROVE  /\ TamArquivo(arq) \in Nat
           /\ Inicio(arq, k) \in Nat
           /\ Inicio(arq, k) + TamCabecalho + arq[k].tam <= TamArquivo(arq)
<1>1. Len(arq) \in Nat /\ Len(arq) + 1 \in 1..(Len(arq) + 1) /\ Len(arq) + 1 \in (k + 1)..(Len(arq) + 1)
      BY DEF Arquivos
<1>2. TamArquivo(arq) \in Nat /\ Inicio(arq, k) \in Nat
      BY <1>1, InicioTipo DEF TamArquivo
<1>3. Inicio(arq, k) + Ocupa(arq[k]) <= TamArquivo(arq)
      BY <1>1, InicioCresce DEF TamArquivo
<1> QED BY <1>2, <1>3, OcupaTipo DEF TamCabecalho

LEMMA MembroNoDispositivo ==
    ASSUME NEW arq \in Arquivos, NEW k \in 1..Len(arq)
    PROVE  /\ TamDispositivo(arq) \in Nat
           /\ Inicio(arq, k) \in Nat
           /\ Inicio(arq, k) + TamCabecalho + arq[k].tam <= TamDispositivo(arq)
<1>1. PICK n \in Nat : n = TamArquivo(arq)
      BY MembroNoArquivo
<1>2. PICK d \in Nat : d = 1024 * ((n + 1024 - 1) \div 1024) /\ n <= d
  <2>1. 1024 * ((n + 1023) \div 1024) \in Nat /\ n <= 1024 * ((n + 1023) \div 1024)
        OBVIOUS
  <2> QED BY <2>1
<1>3. TamDispositivo(arq) = d
      BY <1>1, <1>2 DEF TamDispositivo, TamBloco
<1>4. Inicio(arq, k) \in Nat /\ Inicio(arq, k) + TamCabecalho + arq[k].tam <= n
      BY <1>1, MembroNoArquivo
<1>5. arq[k].tam \in Nat /\ TamCabecalho \in Nat
      BY OcupaTipo DEF TamCabecalho
<1> QED BY <1>2, <1>3, <1>4, <1>5

LEMMA InicioDistinto ==
    ASSUME NEW arq \in Arquivos, NEW i \in 1..(Len(arq) + 1), NEW j \in 1..(Len(arq) + 1), i < j
    PROVE  Inicio(arq, i) < Inicio(arq, j)
<1>1. Len(arq) \in Nat /\ i \in 1..Len(arq) /\ j \in (i + 1)..(Len(arq) + 1)
      BY DEF Arquivos
<1>2. Inicio(arq, i) + Ocupa(arq[i]) <= Inicio(arq, j)
      BY <1>1, InicioCresce
<1>3. Ocupa(arq[i]) \in Nat /\ Ocupa(arq[i]) > 0
      BY <1>1, OcupaTipo DEF TamCabecalho
<1> QED BY <1>2, <1>3, InicioTipo

\* MembroEm gives the member whose header is at a position, and no other.
LEMMA MembroEmCerto ==
    ASSUME NEW arq \in Arquivos, NEW pos
    PROVE  /\ MembroEm(arq, pos) \in 0..Len(arq)
           /\ MembroEm(arq, pos) # 0 => Inicio(arq, MembroEm(arq, pos)) = pos
           /\ \A k \in 1..Len(arq) : Inicio(arq, k) = pos => MembroEm(arq, pos) = k
<1> DEFINE ks == {k \in 1..Len(arq) : Inicio(arq, k) = pos}
           m == MembroEm(arq, pos)
<1>1. Len(arq) \in Nat
      BY DEF Arquivos
<1>2. m = IF ks = {} THEN 0 ELSE CHOOSE k \in ks : TRUE
      BY DEF MembroEm
<1>3. ks = {} => m = 0
      BY <1>2
<1>4. ks # {} => m \in ks
      BY <1>2
<1> HIDE DEF m
<1>5. ASSUME NEW k \in ks
      PROVE  m = k
  <2>1. m \in ks
        BY <1>4
  <2>2. Inicio(arq, m) = Inicio(arq, k) /\ m \in 1..Len(arq) /\ k \in 1..Len(arq)
        BY <2>1
  <2>3. m \in 1..(Len(arq) + 1) /\ k \in 1..(Len(arq) + 1)
        BY <2>2, <1>1
  <2>4. Inicio(arq, m) \in Nat /\ Inicio(arq, k) \in Nat
        BY <2>3, InicioTipo
  <2>5. ~(m < k) /\ ~(k < m)
        BY <2>2, <2>3, <2>4, InicioDistinto
  <2> QED BY <2>2, <2>5
<1>6. m \in 0..Len(arq) /\ (m # 0 => Inicio(arq, m) = pos)
      BY <1>1, <1>3, <1>4
<1>7. \A k \in 1..Len(arq) : Inicio(arq, k) = pos => m = k
      BY <1>5
<1> QED BY <1>6, <1>7 DEF m

\* After an even member _Proximo looks at the next header, or at the end.
LEMMA SeguintePar ==
    ASSUME NEW arq \in Arquivos, NEW k \in 1..Len(arq), arq[k].tam % 2 = 0
    PROVE  Seguinte(Inicio(arq, k), arq[k]) = Inicio(arq, k + 1)
<1>1. k \in 1..(Len(arq) + 1)
      BY DEF Arquivos
<1>2. Inicio(arq, k + 1) = Inicio(arq, k) + Ocupa(arq[k]) /\ Inicio(arq, k) \in Nat
      BY <1>1, InicioPasso, InicioTipo
<1>3. Ocupa(arq[k]) = TamCabecalho + arq[k].tam /\ arq[k].tam \in Nat
      BY OcupaTipo
<1> QED BY <1>2, <1>3 DEF Seguinte, TamCabecalho

\* After an odd one it looks where there is no header: the padding is in the way.
LEMMA SeguinteImpar ==
    ASSUME NEW arq \in Arquivos, NEW k \in 1..Len(arq), arq[k].tam % 2 # 0
    PROVE  \A j \in 1..Len(arq) : Inicio(arq, j) # Seguinte(Inicio(arq, k), arq[k])
<1> SUFFICES ASSUME NEW j \in 1..Len(arq)
             PROVE  Inicio(arq, j) # Seguinte(Inicio(arq, k), arq[k])
    OBVIOUS
<1>1. Len(arq) \in Nat /\ j \in 1..(Len(arq) + 1) /\ k \in 1..(Len(arq) + 1)
      BY DEF Arquivos
<1>2. Inicio(arq, j) \in Nat /\ Inicio(arq, k) \in Nat
      BY <1>1, InicioTipo
<1>3. /\ arq[k].tam \in Nat /\ Ocupa(arq[k]) \in Nat
      /\ Ocupa(arq[k]) > TamCabecalho + arq[k].tam
      BY OcupaTipo
<1>4. Inicio(arq, k) < Seguinte(Inicio(arq, k), arq[k])
      /\ Seguinte(Inicio(arq, k), arq[k]) < Inicio(arq, k) + Ocupa(arq[k])
      BY <1>2, <1>3 DEF Seguinte, TamCabecalho
<1>5. Seguinte(Inicio(arq, k), arq[k]) \in Nat
      BY <1>2, <1>3 DEF Seguinte, TamCabecalho
<1>6. CASE j <= k
  <2>1. Inicio(arq, j) <= Inicio(arq, k)
        BY <1>1, <1>2, <1>6, InicioDistinto
  <2> QED BY <2>1, <1>4, <1>2, <1>5
<1>7. CASE j > k
  <2>1. Inicio(arq, k) + Ocupa(arq[k]) <= Inicio(arq, j)
        BY <1>1, <1>7, InicioCresce
  <2> QED BY <2>1, <1>4, <1>2, <1>5, <1>3
<1> QED BY <1>1, <1>6, <1>7

-----------------------------------------------------------------------------
(* What holds between two steps.                                          *)

\* The names items can have, the items and the frame of Abre.
Nomes == {<< >>} \cup
         UNION {{Apara(Arquivo[s][k].nome) : k \in DOMAIN Arquivo[s]} : s \in Sistemas}

Item == [nome : Nomes, sis : Sistemas \cup {NADA}, tipo : {"nenhum", "arquivo", "diretorio"},
         status : {"nenhum", "fechado"}, id : Nat, pos : Nat, total : Nat]

Quadro == [alvo : Itens \cup {NADA}, endereco : Enderecos \cup {NADA}, sis : Sistemas \cup {NADA},
           resto : Seq(Seq(STRING)), acima : Item, atual : Item]

Leitura == [item : Itens \cup {NADA}, pedido : Nat, de : Nat, qtd : Nat]

TypeOK ==
    /\ itens \in [Itens -> Item]
    /\ fase \in {"livre", "disco", "trecho", "procura", "perdida"}
    /\ quadro \in Quadro
    /\ firmes \subseteq Itens
    /\ lido \in Leitura

\* An item stands for the k-th member of the archive of s.
Representa(item, s, k) ==
    /\ item.tipo = "arquivo"
    /\ item.sis = s
    /\ s \in Sistemas
    /\ k \in 1..Len(Arquivo[s])
    /\ item.id = Inicio(Arquivo[s], k)
    /\ item.nome = Apara(Arquivo[s][k].nome)
    /\ item.total = Arquivo[s][k].tam

\* Every open item stands for a member, and one positioned by VaPara is inside it.
ItensCertos ==
    /\ \A i \in Itens : itens[i].tipo = "nenhum" \/ \E s \in Sistemas : \E k \in 1..Len(Arquivo[s]) : Representa(itens[i], s, k)
    /\ \A i \in firmes : itens[i].tipo = "arquivo" /\ itens[i].pos <= itens[i].total

\* The slashes Abre has passed, and what it keeps of the path.
Feitos == Len(quadro.endereco.trechos) - Len(quadro.resto)

Caminho ==
    /\ quadro.alvo \in Itens
    /\ quadro.endereco \in Enderecos
    /\ Len(quadro.resto) <= Len(quadro.endereco.trechos)
    /\ \A j \in 1..Len(quadro.resto) : quadro.resto[j] = quadro.endereco.trechos[Feitos + j]

DiscoAchado ==
    /\ quadro.endereco.separado
    /\ quadro.sis = Acha(registro, quadro.endereco.disco)
    /\ quadro.sis \in Sistemas

\* No name of the path was met yet.
SemNome ==
    /\ quadro.atual = SemItem
    /\ quadro.acima.tipo = "diretorio"
    /\ \A j \in 1..Feitos : quadro.endereco.trechos[j] = << >>

\* The first name of the path was met, and the item is the member it should be.
NomeAchado ==
    /\ quadro.atual # SemItem
    /\ quadro.acima.tipo = "arquivo"
    /\ Feitos > 0
    /\ quadro.endereco.trechos[Feitos] # << >>
    /\ \A j \in 1..(Feitos - 1) : quadro.endereco.trechos[j] = << >>
    /\ \E k \in Candidatos(quadro.sis, quadro.endereco.trechos[Feitos]) :
          /\ \A j \in Candidatos(quadro.sis, quadro.endereco.trechos[Feitos]) : k <= j
          /\ Representa(itens[quadro.alvo], quadro.sis, k)

\* The members before the k-th are not the one the listing looks for, and do not stop it.
Passados(arq, k, nome) ==
    \A j \in 1..(k - 1) : arq[j].tam > 0 /\ arq[j].tam % 2 = 0 /\ Apara(arq[j].nome) # nome

\* Where the listing is: at a header it may be at, or off the headers with nothing to find.
Procurando(nome) ==
    LET arq == Arquivo[quadro.sis]
    IN  \/ \E k \in 1..(Len(arq) + 1) : quadro.acima.pos = Inicio(arq, k) /\ Passados(arq, k, nome)
        \/ /\ Candidatos(quadro.sis, nome) = {}
           /\ \A k \in 1..Len(arq) : Inicio(arq, k) # quadro.acima.pos

AbreCerta ==
    /\ fase = "disco" => Caminho /\ Feitos = 0 /\ quadro.atual = SemItem
    /\ fase = "trecho" => Caminho /\ DiscoAchado /\ (SemNome \/ NomeAchado)
    /\ fase = "procura" => /\ Caminho /\ DiscoAchado /\ SemNome
                           /\ quadro.resto # << >> /\ Head(quadro.resto) # << >>
                           /\ Procurando(Head(quadro.resto))

LEMMA ArquivoTipo == ASSUME NEW s \in Sistemas PROVE Arquivo[s] \in Arquivos /\ Len(Arquivo[s]) \in Nat
<1>1. Arquivo[s] \in Arquivos
      BY SisArqAssumption DEF Arquivos
<1> QED BY <1>1 DEF Arquivos

\* The registry fills from the front and nothing is ever taken out of it
\* (SisArq_Desregistra is declared in SisArq.h and defined nowhere).
Prefixo ==
    /\ registro \in [1..Vagas -> Sistemas \cup {NADA}]
    /\ \A k \in 1..Vagas : registro[k] # NADA => \A j \in 1..k : registro[j] # NADA

LEMMA AchaTipo == ASSUME Prefixo, NEW nome PROVE Acha(registro, nome) \in Sistemas \cup {NADA}
<1> DEFINE ks == ComNome(registro, nome)
<1>1. CASE ks = {}
      BY <1>1 DEF Acha
<1>2. CASE ks # {}
  <2>1. ks \in SUBSET Nat
        BY SisArqAssumption DEF ComNome
  <2>2. Min(ks) \in ks
        BY <1>2, <2>1, MinimoDeNaturais
  <2>3. Acha(registro, nome) = registro[Min(ks)]
        BY <1>2 DEF Acha
  <2> QED BY <2>2, <2>3 DEF ComNome, Prefixo
<1> QED BY <1>1, <1>2

LEMMA SemItemTipo == SemItem \in Item
  BY DEF SemItem, Item, Nomes

LEMMA RaizTipo ==
    ASSUME NEW s \in Sistemas
    PROVE  /\ Raiz(s) \in Item /\ Raiz(s).tipo = "diretorio" /\ Raiz(s).pos = 0
<1>1. Raiz(s) \in Item
      BY SemItemTipo DEF Raiz, Item
<1>2. Raiz(s).tipo = "diretorio" /\ Raiz(s).pos = 0
      BY SemItemTipo DEF Raiz, Item, SemItem
<1> QED BY <1>1, <1>2

\* What the listing finds is a member of the archive of the running call.
LEMMA ProximoCerto ==
    ASSUME AbreCerta, fase = "procura"
    PROVE  /\ quadro.sis \in Sistemas
           /\ Lista \in Arquivos
           /\ Len(Lista) \in Nat
           /\ Proximo # 0 => /\ Proximo \in 1..Len(Lista)
                             /\ Inicio(Lista, Proximo) = quadro.acima.pos
                             /\ Lista[Proximo].tam > 0
           /\ Proximo = 0 => \A k \in 1..Len(Lista) :
                                 Inicio(Lista, k) = quadro.acima.pos => Lista[k].tam = 0
<1>1. quadro.sis \in Sistemas
      BY DEF AbreCerta, DiscoAchado
<1>2. Lista \in Arquivos /\ Len(Lista) \in Nat
      BY <1>1, ArquivoTipo DEF Lista
<1> DEFINE m == MembroEm(Lista, quadro.acima.pos)
<1>3. /\ m \in 0..Len(Lista)
      /\ m # 0 => Inicio(Lista, m) = quadro.acima.pos
      /\ \A k \in 1..Len(Lista) : Inicio(Lista, k) = quadro.acima.pos => m = k
      BY <1>2, MembroEmCerto
<1>4. Proximo = IF m # 0 /\ Lista[m].tam > 0 THEN m ELSE 0
      BY DEF Proximo
<1> HIDE DEF m
<1>5. Proximo # 0 => /\ Proximo \in 1..Len(Lista)
                     /\ Inicio(Lista, Proximo) = quadro.acima.pos
                     /\ Lista[Proximo].tam > 0
      BY <1>2, <1>3, <1>4
<1>6. ASSUME Proximo = 0, NEW k \in 1..Len(Lista), Inicio(Lista, k) = quadro.acima.pos
      PROVE  Lista[k].tam = 0
  <2>1. m = k /\ k # 0
        BY <1>3, <1>6, <1>2
  <2>2. ~(Lista[k].tam > 0)
        BY <2>1, <1>4, <1>6
  <2> QED BY <2>2, <1>2, OcupaTipo
<1> QED BY <1>1, <1>2, <1>5, <1>6

LEMMA ItemDeCerto ==
    ASSUME TypeOK, AbreCerta, fase = "procura", Proximo # 0, NEW lixo \in Lixos
    PROVE  /\ ItemDe(Proximo, lixo) \in Item
           /\ Representa(ItemDe(Proximo, lixo), quadro.sis, Proximo)
<1> DEFINE k == Proximo
           it == ItemDe(k, lixo)
<1>1. quadro.sis \in Sistemas /\ Lista \in Arquivos /\ k \in 1..Len(Lista)
      /\ Inicio(Lista, k) = quadro.acima.pos
      BY ProximoCerto
<1>2. it = [nome |-> Apara(Lista[k].nome), sis |-> quadro.sis, tipo |-> "arquivo",
            status |-> "fechado", id |-> quadro.acima.pos, pos |-> lixo, total |-> Lista[k].tam]
      BY DEF ItemDe
<1> HIDE DEF it, k
<1>3. Apara(Lista[k].nome) \in Nomes
  <2>1. k \in DOMAIN Arquivo[quadro.sis]
        BY <1>1, ArquivoTipo DEF Lista, Arquivos
  <2> QED BY <2>1, <1>1 DEF Nomes, Lista
<1>4. Lista[k].tam \in Nat /\ lixo \in Nat /\ quadro.acima.pos \in Nat
  <2>1. lixo \in Nat
        BY SisArqAssumption
  <2>2. quadro.acima.pos \in Nat
        BY DEF TypeOK, Quadro, Item
  <2> QED BY <2>1, <2>2, <1>1, OcupaTipo
<1>5. it \in Item
      BY <1>1, <1>2, <1>3, <1>4 DEF Item
<1>6. Representa(it, quadro.sis, k)
      BY <1>1, <1>2 DEF Representa, Lista
<1> QED BY <1>5, <1>6 DEF it, k

\* SisArq_Registra writes one file system in the slot after the filled ones.
LEMMA RegistraNaPrimeiraVaga ==
    ASSUME Prefixo, NEW s \in Sistemas, Registra(s)
    PROVE  \/ UNCHANGED registro
           \/ \E v \in 1..Vagas :
                 /\ registro[v] = NADA
                 /\ \A k \in 1..Vagas : registro[k] = NADA => v <= k
                 /\ registro' = [registro EXCEPT ![v] = s]
<1> DEFINE T == {k \in 1..Vagas : registro[k] = NADA}
<1>1. CASE T = {}
      BY <1>1 DEF Registra
<1>2. CASE T # {}
  <2>1. T \in SUBSET Nat
        BY SisArqAssumption
  <2>2. VagaDe \in T /\ \A k \in T : VagaDe <= k
        BY <1>2, <2>1, MinimoDeNaturais DEF VagaDe
  <2>3. registro' = [registro EXCEPT ![VagaDe] = s]
        BY <1>2 DEF Registra
  <2> QED BY <2>2, <2>3
<1> QED BY <1>1, <1>2

LEMMA InitPrefixo == Init => Prefixo
  BY DEF Init, Prefixo

\* Only SisArq_Registra writes the registry.
LEMMA SoRegistraEscreve ==
    ASSUME [Next]_vars
    PROVE  UNCHANGED registro \/ \E s \in Sistemas : Registra(s)
  BY DEF Next, Passo, DiscoInvalido, DiscoNaoAchado, AbreDisco, EsperadoDiretorio, TrechoVazio,
         Primeiro, FimDaLista, Outro, Fantasma, Achado, Termina, TerminaSemAlvo, Falha, ChamaAbre,
         VaPara, Leia, vars

LEMMA PassoPrefixo == Prefixo /\ [Next]_vars => Prefixo'
<1> SUFFICES ASSUME Prefixo, [Next]_vars PROVE Prefixo'
    OBVIOUS
<1>1. CASE UNCHANGED registro
      BY <1>1 DEF Prefixo
<1>2. ASSUME NEW s \in Sistemas, Registra(s), ~UNCHANGED registro
      PROVE  Prefixo'
  <2>1. PICK v \in 1..Vagas : /\ \A k \in 1..Vagas : registro[k] = NADA => v <= k
                              /\ registro' = [registro EXCEPT ![v] = s]
        BY <1>2, RegistraNaPrimeiraVaga
  <2>2. registro' \in [1..Vagas -> Sistemas \cup {NADA}]
        BY <2>1 DEF Prefixo
  <2>3. s # NADA
        BY SisArqAssumption
  <2>4. ASSUME NEW k \in 1..Vagas, registro'[k] # NADA, NEW j \in 1..k
        PROVE  registro'[j] # NADA
    <3>1. j \in 1..Vagas
          BY SisArqAssumption
    <3>2. CASE j = v
          BY <3>2, <2>1, <2>3, <3>1 DEF Prefixo
    <3>3. CASE j # v
      <4>1. registro'[j] = registro[j]
            BY <3>3, <3>1, <2>1 DEF Prefixo
      <4>2. CASE k = v
        <5>1. ~(v <= j)
              BY <4>2, <3>3, <3>1, SisArqAssumption
        <5> QED BY <5>1, <4>1, <3>1, <2>1
      <4>3. CASE k # v
        <5>1. registro[k] # NADA
              BY <4>3, <2>4, <2>1 DEF Prefixo
        <5> QED BY <5>1, <4>1 DEF Prefixo
      <4> QED BY <4>2, <4>3
    <3> QED BY <3>2, <3>3
  <2> QED BY <2>2, <2>4 DEF Prefixo
<1> QED BY <1>1, <1>2, SoRegistraEscreve

IInv == Prefixo /\ TypeOK /\ ItensCertos /\ AbreCerta

LEMMA MinimoDeDois ==
    ASSUME NEW a \in Nat, NEW b \in Nat
    PROVE  Min({a, b}) \in Nat /\ Min({a, b}) <= a /\ Min({a, b}) <= b /\ Min({a, b}) \in {a, b}
<1>1. {a, b} \in SUBSET Nat /\ {a, b} # {}
      OBVIOUS
<1>2. Min({a, b}) \in {a, b} /\ \A y \in {a, b} : Min({a, b}) <= y
      BY <1>1, MinimoDeNaturais
<1> QED BY <1>2

LEMMA SemChamadaTipo == SemChamada \in Quadro
<1>1. << >> \in Seq(Seq(STRING))
      OBVIOUS
<1> QED BY <1>1, SemItemTipo DEF SemChamada, Quadro

LEMMA SemLeituraTipo == SemLeitura \in Leitura /\ SemLeitura.qtd = 0
  BY DEF SemLeitura, Leitura

LEMMA InitIInv == Init => IInv
<1> SUFFICES ASSUME Init PROVE IInv
    OBVIOUS
<1>1. Prefixo
      BY DEF Init, Prefixo
<1>2. TypeOK
      BY SemItemTipo, SemChamadaTipo, SemLeituraTipo DEF Init, TypeOK
<1>3. ItensCertos
      BY DEF Init, ItensCertos, SemItem
<1>4. AbreCerta
      BY DEF Init, AbreCerta
<1> QED BY <1>1, <1>2, <1>3, <1>4 DEF IInv

\* With no call of Abre running there is nothing to say of its frame.
LEMMA LivreTipo ==
    ASSUME IInv, fase' \in {"livre", "perdida"}, quadro' \in {quadro, SemChamada},
           lido' \in {lido, SemLeitura}, UNCHANGED <<itens, firmes>>
    PROVE  TypeOK' /\ ItensCertos' /\ AbreCerta'
<1>1. TypeOK'
      BY SemChamadaTipo, SemLeituraTipo DEF IInv, TypeOK
<1>2. ItensCertos'
      BY DEF IInv, ItensCertos
<1>3. AbreCerta'
      BY DEF AbreCerta
<1> QED BY <1>1, <1>2, <1>3

LEMMA ChamaCerta ==
    ASSUME IInv, NEW i \in Itens, NEW e \in Enderecos, ChamaAbre(i, e)
    PROVE  TypeOK' /\ ItensCertos' /\ AbreCerta'
<1>1. e.trechos \in Seq(Seq(STRING)) /\ Len(e.trechos) \in Nat
      BY SisArqAssumption
<1>2. quadro' = [SemChamada EXCEPT !.alvo = i, !.endereco = e, !.resto = e.trechos]
      BY DEF ChamaAbre
<1>3. quadro' \in Quadro
      BY <1>1, <1>2, SemChamadaTipo DEF Quadro
<1>4. /\ quadro'.alvo = i /\ quadro'.endereco = e /\ quadro'.resto = e.trechos
      /\ quadro'.atual = SemItem
      BY <1>2 DEF SemChamada
<1>5. TypeOK'
      BY <1>3, SemLeituraTipo DEF IInv, TypeOK, ChamaAbre
<1>6. ItensCertos'
      BY DEF IInv, ItensCertos, ChamaAbre
<1>7. Feitos' = 0
      BY <1>1, <1>4 DEF Feitos
<1>8. Caminho'
      BY <1>1, <1>4, <1>7 DEF Caminho
<1>9. AbreCerta'
      BY <1>4, <1>7, <1>8 DEF AbreCerta, ChamaAbre
<1> QED BY <1>5, <1>6, <1>9

LEMMA CaminhoTipo ==
    ASSUME TypeOK, Caminho
    PROVE  /\ quadro.endereco.trechos \in Seq(Seq(STRING))
           /\ Len(quadro.endereco.trechos) \in Nat
           /\ Len(quadro.resto) \in Nat
           /\ quadro.resto \in Seq(Seq(STRING))
           /\ Feitos \in Nat
           /\ Feitos + Len(quadro.resto) = Len(quadro.endereco.trechos)
<1>1. quadro.endereco.trechos \in Seq(Seq(STRING)) /\ Len(quadro.endereco.trechos) \in Nat
      BY SisArqAssumption DEF Caminho
<1>2. quadro.resto \in Seq(Seq(STRING)) /\ Len(quadro.resto) \in Nat
      BY DEF TypeOK, Quadro
<1> QED BY <1>1, <1>2 DEF Caminho, Feitos

LEMMA AbreDiscoCerta ==
    ASSUME IInv, AbreDisco
    PROVE  TypeOK' /\ ItensCertos' /\ AbreCerta'
<1> DEFINE s == Acha(registro, quadro.endereco.disco)
<1>1. s \in Sistemas
      BY AchaTipo DEF AbreDisco, IInv
<1>2. quadro' = [quadro EXCEPT !.sis = s, !.acima = Raiz(s)]
      BY DEF AbreDisco
<1>3. quadro \in Quadro
      BY DEF IInv, TypeOK
<1>4. quadro' \in Quadro
      BY <1>1, <1>2, <1>3, RaizTipo DEF Quadro
<1>5. /\ quadro'.alvo = quadro.alvo /\ quadro'.endereco = quadro.endereco
      /\ quadro'.resto = quadro.resto /\ quadro'.atual = quadro.atual
      /\ quadro'.sis = s /\ quadro'.acima = Raiz(s)
      BY <1>2, <1>3 DEF Quadro
<1>6. TypeOK'
      BY <1>4 DEF IInv, TypeOK, AbreDisco
<1>7. ItensCertos'
      BY DEF IInv, ItensCertos, AbreDisco
<1>8. Caminho /\ Feitos = 0 /\ quadro.atual = SemItem
      BY DEF IInv, AbreCerta, AbreDisco
<1>9. Feitos' = 0
      BY <1>5, <1>8 DEF Feitos
<1>10. Caminho'
      BY <1>5, <1>8, <1>9 DEF Caminho
<1>11. DiscoAchado'
      BY <1>1, <1>5 DEF DiscoAchado, AbreDisco
<1>12. SemNome'
      BY <1>1, <1>5, <1>8, <1>9, RaizTipo DEF SemNome
<1> QED BY <1>6, <1>7, <1>10, <1>11, <1>12 DEF AbreCerta, AbreDisco

LEMMA CabecaECauda ==
    ASSUME NEW S, NEW s \in Seq(S), s # << >>, NEW t, t = Tail(s)
    PROVE  /\ t \in Seq(S)
           /\ Len(s) > 0
           /\ Len(t) = Len(s) - 1
           /\ Head(s) = s[1]
           /\ \A j \in 1..Len(t) : t[j] = s[j + 1]
  OBVIOUS

\* Passing a slash.
LEMMA UmaBarra ==
    ASSUME TypeOK, Caminho, quadro.resto # << >>,
           quadro'.alvo = quadro.alvo, quadro'.endereco = quadro.endereco,
           quadro'.resto = Tail(quadro.resto)
    PROVE  /\ Caminho'
           /\ Feitos' = Feitos + 1
           /\ Head(quadro.resto) = quadro.endereco.trechos[Feitos + 1]
           /\ Tail(quadro.resto) \in Seq(Seq(STRING))
<1>1. /\ Len(quadro.endereco.trechos) \in Nat /\ Len(quadro.resto) \in Nat
      /\ quadro.resto \in Seq(Seq(STRING)) /\ Feitos \in Nat
      /\ Feitos + Len(quadro.resto) = Len(quadro.endereco.trechos)
      BY CaminhoTipo
<1> DEFINE s == quadro.resto
           t == quadro'.resto
<1>2. /\ Len(s) > 0 /\ Len(t) = Len(s) - 1 /\ t \in Seq(Seq(STRING)) /\ Head(s) = s[1]
      /\ \A j \in 1..Len(t) : t[j] = s[j + 1]
  <2>1. s \in Seq(Seq(STRING)) /\ s # << >> /\ t = Tail(s)
        BY <1>1
  <2> HIDE DEF s, t
  <2> QED BY <2>1, CabecaECauda
<1>3. Feitos' = Feitos + 1
  <2>1. Feitos' = Len(quadro.endereco.trechos) - Len(t) /\ Feitos = Len(quadro.endereco.trechos) - Len(s)
        BY DEF Feitos
  <2> HIDE DEF s, t
  <2> QED BY <2>1, <1>1, <1>2
<1>4. Head(quadro.resto) = quadro.endereco.trechos[Feitos + 1]
      BY <1>1, <1>2 DEF Caminho
<1>5. ASSUME NEW j \in 1..Len(quadro'.resto)
      PROVE  quadro'.resto[j] = quadro'.endereco.trechos[Feitos' + j]
  <2>1. j + 1 \in 1..Len(quadro.resto) /\ quadro'.resto[j] = quadro.resto[j + 1]
        BY <1>1, <1>2
  <2>2. quadro.resto[j + 1] = quadro.endereco.trechos[Feitos + (j + 1)]
        BY <2>1 DEF Caminho
  <2>3. Feitos + (j + 1) = Feitos' + j
        BY <1>1, <1>3
  <2> QED BY <2>1, <2>2, <2>3
<1>6. Len(quadro'.resto) <= Len(quadro'.endereco.trechos)
      BY <1>1, <1>2
<1>7. Caminho'
      BY <1>5, <1>6 DEF Caminho
<1> QED BY <1>2, <1>3, <1>4, <1>7

LEMMA TrechoVazioCerto ==
    ASSUME IInv, TrechoVazio
    PROVE  TypeOK' /\ ItensCertos' /\ AbreCerta'
<1>1. quadro' = [quadro EXCEPT !.resto = Tail(@)] /\ quadro \in Quadro
      BY DEF IInv, TypeOK, TrechoVazio
<1>2. /\ quadro'.alvo = quadro.alvo /\ quadro'.endereco = quadro.endereco
      /\ quadro'.resto = Tail(quadro.resto) /\ quadro'.atual = quadro.atual
      /\ quadro'.sis = quadro.sis /\ quadro'.acima = quadro.acima
      BY <1>1 DEF Quadro
<1>3. /\ TypeOK /\ Caminho /\ DiscoAchado /\ SemNome
      /\ quadro.resto # << >> /\ Head(quadro.resto) = << >>
      BY DEF IInv, AbreCerta, TrechoVazio, NomeAchado
<1>4. /\ Caminho' /\ Feitos' = Feitos + 1 /\ Feitos \in Nat
      /\ Head(quadro.resto) = quadro.endereco.trechos[Feitos + 1]
      /\ Tail(quadro.resto) \in Seq(Seq(STRING))
      BY <1>2, <1>3, UmaBarra, CaminhoTipo
<1>5. quadro' \in Quadro
      BY <1>1, <1>4 DEF Quadro
<1>6. TypeOK'
      BY <1>5 DEF IInv, TypeOK, TrechoVazio
<1>7. ItensCertos'
      BY DEF IInv, ItensCertos, TrechoVazio
<1>8. DiscoAchado'
      BY <1>2, <1>3 DEF DiscoAchado, TrechoVazio
<1>9. \A j \in 1..Feitos' : quadro'.endereco.trechos[j] = << >>
      BY <1>2, <1>3, <1>4 DEF SemNome
<1>10. SemNome'
      BY <1>2, <1>3, <1>9 DEF SemNome
<1> QED BY <1>4, <1>6, <1>7, <1>8, <1>10 DEF AbreCerta, TrechoVazio

\* Moving the listing leaves the rest of the frame alone.
LEMMA MoveLista ==
    ASSUME TypeOK, Caminho, DiscoAchado, SemNome, NEW p \in Nat,
           quadro' = [quadro EXCEPT !.acima.pos = p], UNCHANGED registro
    PROVE  /\ Caminho' /\ DiscoAchado' /\ SemNome' /\ quadro' \in Quadro
           /\ quadro'.acima.pos = p
           /\ quadro'.resto = quadro.resto
           /\ quadro'.sis = quadro.sis
<1>1. quadro \in Quadro /\ quadro.acima \in Item
      BY DEF TypeOK, Quadro
<1>2. /\ quadro'.alvo = quadro.alvo /\ quadro'.endereco = quadro.endereco
      /\ quadro'.resto = quadro.resto /\ quadro'.atual = quadro.atual
      /\ quadro'.sis = quadro.sis /\ quadro'.acima = [quadro.acima EXCEPT !.pos = p]
      BY <1>1 DEF Quadro
<1>3. [quadro.acima EXCEPT !.pos = p] \in Item
      BY <1>1 DEF Item
<1>4. quadro'.acima.pos = p /\ quadro'.acima.tipo = quadro.acima.tipo
      BY <1>1, <1>2 DEF Item
<1>5. quadro' \in Quadro
      BY <1>1, <1>3 DEF Quadro
<1>6. Feitos' = Feitos
      BY <1>2 DEF Feitos
<1>7. Caminho' /\ DiscoAchado' /\ SemNome'
      BY <1>2, <1>4, <1>6 DEF Caminho, DiscoAchado, SemNome
<1> QED BY <1>2, <1>4, <1>5, <1>7

LEMMA PrimeiroCerto ==
    ASSUME IInv, Primeiro
    PROVE  TypeOK' /\ ItensCertos' /\ AbreCerta'
<1>1. /\ TypeOK /\ Caminho /\ DiscoAchado /\ SemNome
      /\ quadro.resto # << >> /\ Head(quadro.resto) # << >>
      BY DEF IInv, AbreCerta, Primeiro, NomeAchado
<1>2. TamAssinatura \in Nat
      BY DEF TamAssinatura
<1>3. /\ Caminho' /\ DiscoAchado' /\ SemNome' /\ quadro' \in Quadro
      /\ quadro'.acima.pos = TamAssinatura
      /\ quadro'.resto = quadro.resto /\ quadro'.sis = quadro.sis
      BY <1>1, <1>2, MoveLista DEF Primeiro
<1> DEFINE arq == Arquivo[quadro.sis]
<1>4. arq \in Arquivos /\ Len(arq) \in Nat
      BY <1>1, ArquivoTipo DEF DiscoAchado
<1>5. Inicio(arq, 1) = TamAssinatura /\ 1 \in 1..(Len(arq) + 1)
      BY <1>4, InicioPasso
<1>6. Passados(arq, 1, Head(quadro.resto))
      BY DEF Passados
<1>7. Procurando(Head(quadro.resto))'
      BY <1>3, <1>5, <1>6 DEF Procurando
<1>8. TypeOK' /\ ItensCertos'
      BY <1>3 DEF IInv, TypeOK, ItensCertos, Primeiro
<1> QED BY <1>1, <1>3, <1>7, <1>8 DEF AbreCerta, Primeiro

\* The listing and Proximo: at the k-th header, the member is the k-th.
LEMMA ProximoEhOK ==
    ASSUME AbreCerta, fase = "procura", Proximo # 0
    PROVE  \E k \in 1..Len(Lista) :
              k = Proximo /\ Passados(Lista, k, Head(quadro.resto))
<1>1. /\ Lista \in Arquivos /\ Len(Lista) \in Nat
      /\ Proximo \in 1..Len(Lista) /\ Inicio(Lista, Proximo) = quadro.acima.pos
      BY ProximoCerto
<1>2. Procurando(Head(quadro.resto))
      BY DEF AbreCerta
<1>3. PICK k \in 1..(Len(Lista) + 1) :
          quadro.acima.pos = Inicio(Lista, k) /\ Passados(Lista, k, Head(quadro.resto))
      BY <1>1, <1>2 DEF Procurando, Lista
<1> DEFINE p == Proximo
<1> HIDE DEF p
<1>4. p \in 1..(Len(Lista) + 1) /\ p \in 1..Len(Lista)
      BY <1>1 DEF p
<1>5. Inicio(Lista, p) = Inicio(Lista, k)
      BY <1>1, <1>3 DEF p
<1>6. Inicio(Lista, p) \in Nat
      BY <1>1, <1>4, InicioTipo
<1>7. ~(p < k) /\ ~(k < p)
      BY <1>1, <1>4, <1>5, <1>6, InicioDistinto
<1>8. p = k
      BY <1>1, <1>4, <1>7
<1> QED BY <1>3, <1>4, <1>8 DEF p

\* A member an earlier one hides, or of a name passed already, is no candidate.
LEMMA CandidatoSemPassar ==
    ASSUME NEW s \in Sistemas, NEW nome, NEW k \in 1..(Len(Arquivo[s]) + 1),
           Passados(Arquivo[s], k, nome), NEW c \in Candidatos(s, nome)
    PROVE  c \in k..Len(Arquivo[s])
<1>1. Arquivo[s] \in Arquivos /\ Len(Arquivo[s]) \in Nat
      BY ArquivoTipo
<1>2. c \in 1..Len(Arquivo[s]) /\ Apara(Arquivo[s][c].nome) = nome
      BY <1>1 DEF Candidatos, Alcanca, Arquivos
<1>3. ~(c \in 1..(k - 1))
      BY <1>2 DEF Passados
<1> QED BY <1>1, <1>2, <1>3

\* A listing that finds no member has no candidate left.
LEMMA SemProximoSemCandidato ==
    ASSUME AbreCerta, fase = "procura", Proximo = 0
    PROVE  Candidatos(quadro.sis, Head(quadro.resto)) = {}
<1> DEFINE nome == Head(quadro.resto)
<1>1. AbreCerta /\ fase = "procura" /\ Proximo = 0 /\ Procurando(nome)
      BY DEF AbreCerta
<1>2. /\ quadro.sis \in Sistemas /\ Lista \in Arquivos /\ Len(Lista) \in Nat
      /\ \A k \in 1..Len(Lista) : Inicio(Lista, k) = quadro.acima.pos => Lista[k].tam = 0
      BY <1>1, ProximoCerto
<1>3. CASE Candidatos(quadro.sis, nome) = {}
      BY <1>3
<1>4. ASSUME NEW k \in 1..(Len(Lista) + 1), quadro.acima.pos = Inicio(Lista, k),
             Passados(Lista, k, nome), NEW c \in Candidatos(quadro.sis, nome)
      PROVE  FALSE
  <2>1. c \in k..Len(Lista)
        BY <1>2, <1>4, CandidatoSemPassar DEF Lista
  <2>2. k \in 1..Len(Lista)
        BY <1>2, <2>1
  <2>3. Lista[k].tam = 0
        BY <1>2, <1>4, <2>2
  <2>4. k = c \/ k \in 1..(c - 1)
        BY <1>2, <2>1, <2>2
  <2> QED BY <2>3, <2>4 DEF Candidatos, Alcanca, Lista
<1> QED BY <1>1, <1>3, <1>4 DEF Procurando, Lista

LEMMA OutroCerto ==
    ASSUME IInv, Outro
    PROVE  TypeOK' /\ ItensCertos' /\ AbreCerta'
<1> DEFINE nome == Head(quadro.resto)
<1>1. /\ TypeOK /\ AbreCerta /\ Caminho /\ DiscoAchado /\ SemNome
      /\ quadro.resto # << >> /\ nome # << >>
      BY DEF IInv, AbreCerta, Outro
<1>2. PICK k \in 1..Len(Lista) : k = Proximo /\ Passados(Lista, k, nome)
      BY <1>1, ProximoEhOK DEF Outro
<1>3. /\ quadro.sis \in Sistemas /\ Lista \in Arquivos /\ Len(Lista) \in Nat
      /\ Inicio(Lista, k) = quadro.acima.pos /\ Lista[k].tam > 0
      BY <1>1, <1>2, ProximoCerto DEF Outro
<1>4. Apara(Lista[k].nome) # nome
      BY <1>2 DEF Outro
<1> DEFINE p == Seguinte(quadro.acima.pos, Lista[k])
<1>5. p \in Nat
  <2>1. quadro.acima.pos \in Nat
        BY <1>1 DEF TypeOK, Quadro, Item
  <2>2. Lista[k].tam \in Nat
        BY <1>3, OcupaTipo
  <2>3. PICK a \in Nat, b \in Nat : a = quadro.acima.pos /\ b = Lista[k].tam
        BY <2>1, <2>2
  <2>4. a + 60 + b \in Nat
        OBVIOUS
  <2> QED BY <2>3, <2>4 DEF Seguinte, TamCabecalho
<1>6. quadro' = [quadro EXCEPT !.acima.pos = p]
      BY <1>2 DEF Outro
<1> HIDE DEF p
<1>7. /\ Caminho' /\ DiscoAchado' /\ SemNome' /\ quadro' \in Quadro
      /\ quadro'.acima.pos = p
      /\ quadro'.resto = quadro.resto /\ quadro'.sis = quadro.sis
      BY <1>1, <1>5, <1>6, MoveLista DEF Outro
<1>8. Passados(Lista, k + 1, nome) \/ Lista[k].tam % 2 # 0
      BY <1>2, <1>3, <1>4 DEF Passados
<1>9. ASSUME Lista[k].tam % 2 = 0
      PROVE  Procurando(nome)'
  <2>1. p = Inicio(Lista, k + 1) /\ k + 1 \in 1..(Len(Lista) + 1)
        BY <1>3, <1>9, SeguintePar DEF p
  <2>2. Passados(Lista, k + 1, nome)
        BY <1>8, <1>9
  <2> QED BY <1>7, <2>1, <2>2 DEF Procurando, Lista
<1>10. ASSUME Lista[k].tam % 2 # 0
      PROVE  Procurando(nome)'
  <2>1. \A j \in 1..Len(Lista) : Inicio(Lista, j) # p
        BY <1>3, <1>10, SeguinteImpar DEF p
  <2>2. ASSUME NEW c \in Candidatos(quadro.sis, nome)
        PROVE  FALSE
    <3>1. c \in k..Len(Lista) /\ k \in 1..(Len(Lista) + 1)
          BY <1>2, <1>3, CandidatoSemPassar DEF Lista
    <3>2. c # k
          BY <1>4 DEF Candidatos, Lista
    <3>3. k \in 1..(c - 1)
          BY <3>1, <3>2, <1>3
    <3> QED BY <3>3, <1>10 DEF Candidatos, Alcanca, Lista
  <2>3. Candidatos(quadro.sis, nome) = {}
        BY <2>2
  <2> QED BY <1>7, <2>1, <2>3 DEF Procurando, Lista
<1>11. Procurando(nome)'
      BY <1>9, <1>10
<1>12. TypeOK' /\ ItensCertos'
      BY <1>7 DEF IInv, TypeOK, ItensCertos, Outro
<1> QED BY <1>1, <1>7, <1>11, <1>12 DEF AbreCerta, Outro

\* A short header leads past the end of the device, where there are no headers,
\* and only a listing that has met all it can reach gets to one.
LEMMA FantasmaCerto ==
    ASSUME IInv, Fantasma
    PROVE  TypeOK' /\ ItensCertos' /\ AbreCerta'
<1> DEFINE nome == Head(quadro.resto)
<1>1. /\ TypeOK /\ AbreCerta /\ Caminho /\ DiscoAchado /\ SemNome /\ Procurando(nome)
      /\ quadro.resto # << >> /\ nome # << >> /\ fase = "procura" /\ Proximo = 0
      BY DEF IInv, AbreCerta, Fantasma, CabecalhoCurto
<1>2. /\ quadro.sis \in Sistemas /\ Lista \in Arquivos /\ Len(Lista) \in Nat
      BY <1>1, ProximoCerto
<1>3. PICK lixo \in Lixos \ {0} : quadro' = [quadro EXCEPT !.acima.pos = @ + TamCabecalho + lixo]
      BY DEF Fantasma
<1>4. PICK pos \in Nat : pos = quadro.acima.pos
      BY <1>1 DEF TypeOK, Quadro, Item
<1>5. lixo \in Nat /\ TamCabecalho = 60
      BY SisArqAssumption DEF TamCabecalho
<1> DEFINE p == pos + TamCabecalho + lixo
<1>6. p \in Nat /\ quadro' = [quadro EXCEPT !.acima.pos = p]
      BY <1>3, <1>4, <1>5
<1>7. TamDispositivo(Lista) - pos <= 48
      BY <1>4 DEF Fantasma, CabecalhoCurto, PosTamanho
<1>8. ASSUME NEW k \in 1..Len(Lista)
      PROVE  Inicio(Lista, k) < p
  <2>1. PICK d \in Nat, n \in Nat, t \in Nat :
            /\ d = TamDispositivo(Lista) /\ n = Inicio(Lista, k) /\ t = Lista[k].tam
            /\ n + TamCabecalho + t <= d
        BY <1>2, MembroNoDispositivo, OcupaTipo
  <2>2. d - pos <= 48 /\ n + 60 + t <= d
        BY <1>5, <1>7, <2>1
  <2>3. n < pos + 60 + lixo
        BY <1>5, <2>2
  <2> QED BY <1>5, <2>1, <2>3
<1> HIDE DEF p
<1>9. \A k \in 1..Len(Lista) : Inicio(Lista, k) # p
  <2> SUFFICES ASSUME NEW k \in 1..Len(Lista) PROVE Inicio(Lista, k) # p
      OBVIOUS
  <2>1. Inicio(Lista, k) \in Nat
        BY <1>2, MembroNoDispositivo
  <2> QED BY <1>6, <1>8, <2>1
<1>10. Candidatos(quadro.sis, nome) = {}
      BY <1>1, SemProximoSemCandidato
<1>11. /\ Caminho' /\ DiscoAchado' /\ SemNome' /\ quadro' \in Quadro
       /\ quadro'.acima.pos = p
       /\ quadro'.resto = quadro.resto /\ quadro'.sis = quadro.sis
      BY <1>1, <1>6, MoveLista DEF Fantasma
<1>12. Procurando(nome)'
      BY <1>9, <1>10, <1>11 DEF Procurando, Lista
<1>13. TypeOK' /\ ItensCertos'
      BY <1>11 DEF IInv, TypeOK, ItensCertos, Fantasma
<1> QED BY <1>1, <1>11, <1>12, <1>13 DEF AbreCerta, Fantasma

LEMMA AchadoCerto ==
    ASSUME IInv, Achado
    PROVE  TypeOK' /\ ItensCertos' /\ AbreCerta'
<1> DEFINE nome == Head(quadro.resto)
<1>1. /\ TypeOK /\ AbreCerta /\ Caminho /\ DiscoAchado /\ SemNome
      /\ quadro.resto # << >> /\ nome # << >>
      BY DEF IInv, AbreCerta, Achado
<1>2. PICK k \in 1..Len(Lista) : k = Proximo /\ Passados(Lista, k, nome)
      BY <1>1, ProximoEhOK DEF Achado
<1>3. /\ quadro.sis \in Sistemas /\ Lista \in Arquivos /\ Len(Lista) \in Nat
      /\ Inicio(Lista, k) = quadro.acima.pos /\ Lista[k].tam > 0
      BY <1>1, <1>2, ProximoCerto DEF Achado
<1>4. Apara(Lista[k].nome) = nome
      BY <1>2 DEF Achado
<1>5. PICK lixo \in Lixos :
          /\ quadro' = [quadro EXCEPT !.acima = ItemDe(k, lixo),
                                      !.atual = ItemDe(k, lixo),
                                      !.resto = Tail(@)]
          /\ itens' = [itens EXCEPT ![quadro.alvo] = ItemDe(k, lixo)]
      BY <1>2 DEF Achado
<1> DEFINE it == ItemDe(k, lixo)
<1>6. it \in Item /\ Representa(it, quadro.sis, k)
      BY <1>1, <1>2, ItemDeCerto DEF Achado
<1> HIDE DEF it
<1>7. quadro' = [quadro EXCEPT !.acima = it, !.atual = it, !.resto = Tail(@)]
      /\ itens' = [itens EXCEPT ![quadro.alvo] = it]
      BY <1>5 DEF it
<1>8. quadro \in Quadro /\ quadro.alvo \in Itens /\ itens \in [Itens -> Item]
      BY <1>1 DEF TypeOK, Caminho
<1>9. /\ quadro'.alvo = quadro.alvo /\ quadro'.endereco = quadro.endereco
      /\ quadro'.resto = Tail(quadro.resto) /\ quadro'.atual = it
      /\ quadro'.sis = quadro.sis /\ quadro'.acima = it
      BY <1>7, <1>8 DEF Quadro
<1>10. /\ Caminho' /\ Feitos' = Feitos + 1 /\ Feitos \in Nat
       /\ nome = quadro.endereco.trechos[Feitos + 1]
       /\ Tail(quadro.resto) \in Seq(Seq(STRING))
      BY <1>1, <1>9, UmaBarra, CaminhoTipo
<1>11. quadro' \in Quadro
      BY <1>6, <1>7, <1>8, <1>10 DEF Quadro
<1>12. itens' \in [Itens -> Item] /\ itens'[quadro.alvo] = it
       /\ \A i \in Itens : i # quadro.alvo => itens'[i] = itens[i]
      BY <1>6, <1>7, <1>8
<1>13. firmes' = firmes \ {quadro.alvo} /\ firmes \subseteq Itens /\ UNCHANGED <<registro, lido>>
       /\ fase' = "trecho"
      BY <1>1 DEF Achado, TypeOK
<1>14. TypeOK'
      BY <1>1, <1>11, <1>12, <1>13 DEF TypeOK
<1>15. ItensCertos'
  <2>1. ItensCertos
        BY DEF IInv
  <2>2. ASSUME NEW i \in Itens
        PROVE  itens'[i].tipo = "nenhum" \/
               \E s \in Sistemas : \E m \in 1..Len(Arquivo[s]) : Representa(itens'[i], s, m)
    <3>1. CASE i = quadro.alvo
          BY <3>1, <1>3, <1>6, <1>12 DEF Lista
    <3>2. CASE i # quadro.alvo
          BY <3>2, <1>12, <2>1 DEF ItensCertos
    <3> QED BY <3>1, <3>2
  <2>3. ASSUME NEW i \in firmes'
        PROVE  itens'[i].tipo = "arquivo" /\ itens'[i].pos <= itens'[i].total
    <3>1. i \in firmes /\ i \in Itens /\ i # quadro.alvo
          BY <1>13
    <3> QED BY <3>1, <1>12, <2>1 DEF ItensCertos
  <2>4. \A i \in Itens : (itens'[i].tipo = "nenhum" \/
               \E s \in Sistemas : \E m \in 1..Len(Arquivo[s]) : Representa(itens'[i], s, m))
        BY <2>2
  <2>5. \A i \in firmes' : itens'[i].tipo = "arquivo" /\ itens'[i].pos <= itens'[i].total
        BY <2>3
  <2> QED BY <2>4, <2>5 DEF ItensCertos, Representa
<1>16. DiscoAchado'
      BY <1>1, <1>9, <1>13 DEF DiscoAchado
<1>17. k \in Candidatos(quadro.sis, nome)
  <2>1. k \in DOMAIN Arquivo[quadro.sis]
        BY <1>3, ArquivoTipo DEF Lista, Arquivos
  <2>2. k \in Alcanca(Arquivo[quadro.sis])
        BY <2>1, <1>2, <1>3 DEF Alcanca, Passados, Lista
  <2> QED BY <2>2, <1>4 DEF Candidatos, Lista
<1>18. \A c \in Candidatos(quadro.sis, nome) : k <= c
  <2>1. k \in 1..(Len(Lista) + 1)
        BY <1>3
  <2>2. \A c \in Candidatos(quadro.sis, nome) : c \in k..Len(Lista)
        BY <2>1, <1>2, <1>3, CandidatoSemPassar DEF Lista
  <2> QED BY <2>2, <1>3
<1>19. NomeAchado'
  <2>1. quadro'.atual # SemItem /\ quadro'.acima.tipo = "arquivo"
        BY <1>6, <1>9 DEF Representa, SemItem
  <2>2. Feitos' > 0 /\ Feitos' - 1 = Feitos /\ quadro'.endereco.trechos[Feitos'] = nome
        BY <1>9, <1>10
  <2>3. \A j \in 1..(Feitos' - 1) : quadro'.endereco.trechos[j] = << >>
        BY <2>2, <1>1, <1>9 DEF SemNome
  <2>4. Representa(itens'[quadro'.alvo], quadro'.sis, k)
        BY <1>6, <1>9, <1>12
  <2> QED BY <1>1, <1>9, <1>17, <1>18, <2>1, <2>2, <2>3, <2>4 DEF NomeAchado, Candidatos, Representa
<1> QED BY <1>10, <1>13, <1>14, <1>15, <1>16, <1>19 DEF AbreCerta

LEMMA FalhaCerta ==
    ASSUME IInv, NEW tipo, Falha(tipo)
    PROVE  TypeOK' /\ ItensCertos' /\ AbreCerta'
  BY LivreTipo DEF Falha

LEMMA OutraPosicao ==
    ASSUME NEW a, NEW b, a.tipo = b.tipo, a.sis = b.sis, a.id = b.id, a.nome = b.nome,
           a.total = b.total, NEW s, NEW k, Representa(a, s, k)
    PROVE  Representa(b, s, k)
  BY DEF Representa

\* Moving an item keeps it on its member; it stays positioned only inside it.
LEMMA MoveItem ==
    ASSUME IInv, NEW i \in Itens, NEW p \in Nat, itens' = [itens EXCEPT ![i].pos = p],
           firmes' \in {firmes, firmes \cup {i}},
           i \in firmes' => itens[i].tipo = "arquivo" /\ p <= itens[i].total
    PROVE  itens' \in [Itens -> Item] /\ firmes' \subseteq Itens /\ ItensCertos'
<1>1. itens \in [Itens -> Item] /\ firmes \subseteq Itens
      BY DEF IInv, TypeOK
<1>2. itens[i] \in Item /\ [itens[i] EXCEPT !.pos = p] \in Item
      BY <1>1 DEF Item
<1>3. /\ itens'[i] = [itens[i] EXCEPT !.pos = p]
      /\ itens' \in [Itens -> Item]
      /\ \A j \in Itens : j # i => itens'[j] = itens[j]
      BY <1>1, <1>2
<1>4. /\ itens'[i].tipo = itens[i].tipo /\ itens'[i].sis = itens[i].sis
      /\ itens'[i].id = itens[i].id /\ itens'[i].nome = itens[i].nome
      /\ itens'[i].total = itens[i].total /\ itens'[i].pos = p
      BY <1>2, <1>3 DEF Item
<1>5. ASSUME NEW j \in Itens
      PROVE  itens'[j].tipo = "nenhum" \/
             \E s \in Sistemas : \E m \in 1..Len(Arquivo[s]) : Representa(itens'[j], s, m)
  <2>1. itens[j].tipo = "nenhum" \/
            \E s \in Sistemas : \E m \in 1..Len(Arquivo[s]) : Representa(itens[j], s, m)
        BY DEF IInv, ItensCertos
  <2>2. CASE j # i
        BY <2>1, <2>2, <1>3
  <2>3. CASE j = i
        BY <2>1, <2>3, <1>4, OutraPosicao
  <2> QED BY <2>2, <2>3
<1>6. ASSUME NEW j \in firmes'
      PROVE  itens'[j].tipo = "arquivo" /\ itens'[j].pos <= itens'[j].total
  <2>1. CASE j # i
        BY <2>1, <1>1, <1>3 DEF IInv, ItensCertos
  <2>2. CASE j = i
        BY <2>2, <1>4, <1>6
  <2> QED BY <2>1, <2>2
<1>7. ItensCertos'
      BY <1>5, <1>6 DEF ItensCertos, Representa
<1> QED BY <1>1, <1>3, <1>7

LEMMA VaParaCerta ==
    ASSUME IInv, NEW i \in Itens, NEW p \in Posicoes, VaPara(i, p)
    PROVE  TypeOK' /\ ItensCertos' /\ AbreCerta'
<1>1. fase' = "livre" /\ quadro' = quadro /\ lido' = SemLeitura
      BY DEF VaPara
<1>2. CASE UNCHANGED <<itens, firmes>>
      BY <1>1, <1>2, LivreTipo
<1>3. CASE /\ itens[i].tipo = "arquivo" /\ Cabe(itens[i], p)
           /\ itens' = [itens EXCEPT ![i].pos = p]
           /\ firmes' = firmes \cup {i}
  <2>1. p \in Nat
        BY SisArqAssumption
  <2>2. itens[i].total \in Nat
        BY DEF IInv, TypeOK, Item
  <2>3. p <= itens[i].total
        BY <2>1, <2>2, <1>3 DEF Cabe
  <2>4. itens' \in [Itens -> Item] /\ firmes' \subseteq Itens /\ ItensCertos'
        BY <1>3, <2>1, <2>3, MoveItem
  <2>5. TypeOK'
        BY <1>1, <2>4, SemLeituraTipo DEF IInv, TypeOK
  <2> QED BY <2>4, <2>5, <1>1 DEF AbreCerta
<1> QED BY <1>2, <1>3 DEF VaPara

\* What Leia is asked for and what it gives, for an item that stands for a member.
LEMMA LeiaBytes ==
    ASSUME NEW it \in Item, NEW s \in Sistemas, NEW k \in 1..Len(Arquivo[s]), Representa(it, s, k),
           NEW qtd \in Nat, Aponta(it) < TamDispositivo(Arquivo[s])
    PROVE  LET cabe == Disponivel(it.sis, Aponta(it), Corta(it, qtd))
           IN  /\ cabe \in Nat /\ cabe <= qtd
               /\ it.pos <= it.total => it.pos + cabe <= it.total
               /\ it.pos <= it.total /\ cabe < qtd => it.pos + cabe = it.total
<1>1. /\ it.pos \in Nat /\ it.total \in Nat /\ it.id \in Nat
      /\ it.sis = s /\ it.id = Inicio(Arquivo[s], k) /\ it.total = Arquivo[s][k].tam
      BY DEF Item, Representa
<1>2. /\ TamDispositivo(Arquivo[s]) \in Nat
      /\ it.id + TamCabecalho + it.total <= TamDispositivo(Arquivo[s])
      BY <1>1, ArquivoTipo, MembroNoDispositivo
<1>3. TamCabecalho \in Nat
      BY DEF TamCabecalho
<1> DEFINE c == Corta(it, qtd)
           d == TamDispositivo(Arquivo[s]) - Aponta(it)
<1>4. c \in Nat /\ c <= qtd /\ (it.pos <= it.total => /\ c <= it.total - it.pos
                                                      /\ c < qtd => c = it.total - it.pos)
      BY <1>1 DEF Corta
<1>5. d \in Nat /\ (it.pos <= it.total => it.total - it.pos <= d)
      BY <1>1, <1>2, <1>3 DEF Aponta
<1>6. Disponivel(it.sis, Aponta(it), c) = Min({c, d})
      BY <1>1 DEF Disponivel
<1> HIDE DEF c, d
<1>7. Min({c, d}) \in Nat /\ Min({c, d}) <= c /\ Min({c, d}) <= d /\ Min({c, d}) \in {c, d}
      BY <1>4, <1>5, MinimoDeDois
<1>8. it.pos <= it.total => Min({c, d}) = c
      BY <1>1, <1>4, <1>5, <1>7
<1> QED BY <1>1, <1>4, <1>6, <1>7, <1>8 DEF c

\* Leia, for an item it can read: the member, what it gives and what it changes.
LEMMA LeiaEfeito ==
    ASSUME IInv, NEW i \in Itens, NEW qtd \in Nat, Leia(i, qtd),
           itens[i].tipo = "arquivo", Aponta(itens[i]) < TamDispositivo(Arquivo[itens[i].sis])
    PROVE  \E s \in Sistemas : \E k \in 1..Len(Arquivo[s]) : \E cabe \in Nat :
              /\ Representa(itens[i], s, k)
              /\ itens' = [itens EXCEPT ![i].pos = @ + cabe]
              /\ lido' = [item |-> i, pedido |-> qtd, de |-> Aponta(itens[i]), qtd |-> cabe]
              /\ cabe <= qtd
              /\ itens[i].pos <= itens[i].total => itens[i].pos + cabe <= itens[i].total
              /\ itens[i].pos <= itens[i].total /\ cabe < qtd =>
                     itens[i].pos + cabe = itens[i].total
<1>0. PICK s \in Sistemas : \E k \in 1..Len(Arquivo[s]) : Representa(itens[i], s, k)
      BY DEF IInv, ItensCertos
<1>1. PICK k \in 1..Len(Arquivo[s]) : Representa(itens[i], s, k)
      BY <1>0
<1>2. itens[i] \in Item /\ itens[i].sis = s
      BY <1>1 DEF IInv, TypeOK, Representa
<1> DEFINE cabe == Disponivel(itens[i].sis, Aponta(itens[i]), Corta(itens[i], qtd))
<1>3. /\ cabe \in Nat /\ cabe <= qtd
      /\ itens[i].pos <= itens[i].total => itens[i].pos + cabe <= itens[i].total
      /\ itens[i].pos <= itens[i].total /\ cabe < qtd => itens[i].pos + cabe = itens[i].total
      BY <1>1, <1>2, LeiaBytes
<1>4. ~(Aponta(itens[i]) >= TamDispositivo(Arquivo[itens[i].sis]))
  <2>1. TamDispositivo(Arquivo[s]) \in Nat
        BY <1>1, ArquivoTipo, MembroNoDispositivo
  <2>2. Aponta(itens[i]) \in Nat
        BY <1>2 DEF Aponta, Item, TamCabecalho
  <2> QED BY <2>1, <2>2, <1>2
<1>5. /\ itens' = [itens EXCEPT ![i].pos = @ + cabe]
      /\ lido' = [item |-> i, pedido |-> qtd, de |-> Aponta(itens[i]), qtd |-> cabe]
      BY <1>4 DEF Leia
<1> HIDE DEF cabe
<1> QED BY <1>1, <1>3, <1>5

\* Otherwise it fails and changes nothing but what it says it read.
LEMMA LeiaFalha ==
    ASSUME IInv, NEW i \in Itens, NEW qtd \in Nat, Leia(i, qtd),
           ~(itens[i].tipo = "arquivo" /\ Aponta(itens[i]) < TamDispositivo(Arquivo[itens[i].sis]))
    PROVE  /\ itens' = itens
           /\ lido' \in Leitura /\ lido'.item = i /\ lido'.pedido = qtd /\ lido'.qtd = 0
<1>1. lido' = [SemLeitura EXCEPT !.item = i, !.pedido = qtd] /\ itens' = itens
      BY DEF Leia
<1>2. SemLeitura \in Leitura /\ SemLeitura.qtd = 0
      BY DEF SemLeitura, Leitura
<1> QED BY <1>1, <1>2 DEF Leitura

LEMMA LeiaCerta ==
    ASSUME IInv, NEW i \in Itens, NEW qtd \in Tamanhos, Leia(i, qtd)
    PROVE  TypeOK' /\ ItensCertos' /\ AbreCerta'
<1>1. fase' = "livre" /\ quadro' = quadro /\ firmes' = firmes /\ qtd \in Nat
      BY SisArqAssumption DEF Leia
<1>2. AbreCerta'
      BY <1>1 DEF AbreCerta
<1>3. CASE ~(itens[i].tipo = "arquivo" /\ Aponta(itens[i]) < TamDispositivo(Arquivo[itens[i].sis]))
  <2>1. itens' = itens /\ lido' \in Leitura
        BY <1>1, <1>3, LeiaFalha
  <2>2. TypeOK'
        BY <1>1, <2>1 DEF IInv, TypeOK
  <2>3. ItensCertos'
        BY <1>1, <2>1 DEF IInv, ItensCertos
  <2> QED BY <1>2, <2>2, <2>3
<1>4. CASE itens[i].tipo = "arquivo" /\ Aponta(itens[i]) < TamDispositivo(Arquivo[itens[i].sis])
  <2>1. PICK cabe \in Nat :
              /\ itens' = [itens EXCEPT ![i].pos = @ + cabe]
              /\ lido' = [item |-> i, pedido |-> qtd, de |-> Aponta(itens[i]), qtd |-> cabe]
              /\ itens[i].pos <= itens[i].total => itens[i].pos + cabe <= itens[i].total
        BY <1>1, <1>4, LeiaEfeito
  <2>2. itens \in [Itens -> Item] /\ itens[i] \in Item
        BY DEF IInv, TypeOK
  <2>3. itens[i].pos + cabe \in Nat /\ Aponta(itens[i]) \in Nat
        BY <2>2 DEF Item, Aponta, TamCabecalho
  <2>4. itens' = [itens EXCEPT ![i].pos = itens[i].pos + cabe]
        BY <2>1
  <2>5. i \in firmes' => itens[i].tipo = "arquivo" /\ itens[i].pos + cabe <= itens[i].total
        BY <1>1, <2>1 DEF IInv, ItensCertos
  <2>6. itens' \in [Itens -> Item] /\ firmes' \subseteq Itens /\ ItensCertos'
        BY <1>1, <2>3, <2>4, <2>5, MoveItem
  <2>7. lido' \in Leitura
        BY <1>1, <2>1, <2>3 DEF Leitura
  <2>8. TypeOK'
        BY <1>1, <2>6, <2>7 DEF IInv, TypeOK
  <2> QED BY <1>2, <2>6, <2>8
<1> QED BY <1>3, <1>4

LEMMA PassoIInv == IInv /\ [Next]_vars => IInv'
<1> SUFFICES ASSUME IInv, [Next]_vars PROVE IInv'
    OBVIOUS
<1>1. Prefixo'
      BY PassoPrefixo DEF IInv
<1>2. TypeOK' /\ ItensCertos' /\ AbreCerta'
  <2>1. CASE Passo
    <3>1. CASE DiscoInvalido \/ DiscoNaoAchado \/ EsperadoDiretorio
          BY <3>1, FalhaCerta DEF DiscoInvalido, DiscoNaoAchado, EsperadoDiretorio
    <3>2. CASE AbreDisco \/ TrechoVazio \/ Primeiro
          BY <3>2, AbreDiscoCerta, TrechoVazioCerto, PrimeiroCerto
    <3>3. CASE FimDaLista
          BY <3>3, LivreTipo DEF FimDaLista
    <3>4. CASE Outro \/ Fantasma \/ Achado
          BY <3>4, OutroCerto, FantasmaCerto, AchadoCerto
    <3>5. CASE Termina \/ TerminaSemAlvo
          BY <3>5, LivreTipo DEF Termina, TerminaSemAlvo
    <3> QED BY <2>1, <3>1, <3>2, <3>3, <3>4, <3>5 DEF Passo
  <2>2. ASSUME NEW s \in Sistemas, Registra(s)
        PROVE  TypeOK' /\ ItensCertos' /\ AbreCerta'
        BY <2>2, LivreTipo DEF Registra
  <2>3. ASSUME NEW i \in Itens, NEW e \in Enderecos, ChamaAbre(i, e)
        PROVE  TypeOK' /\ ItensCertos' /\ AbreCerta'
        BY <2>3, ChamaCerta
  <2>4. ASSUME NEW i \in Itens, NEW p \in Posicoes, VaPara(i, p)
        PROVE  TypeOK' /\ ItensCertos' /\ AbreCerta'
        BY <2>4, VaParaCerta
  <2>5. ASSUME NEW i \in Itens, NEW n \in Tamanhos, Leia(i, n)
        PROVE  TypeOK' /\ ItensCertos' /\ AbreCerta'
        BY <2>5, LeiaCerta
  <2>6. CASE UNCHANGED vars
        BY <2>6 DEF vars, IInv, TypeOK, ItensCertos, AbreCerta, Caminho, DiscoAchado, SemNome,
                    NomeAchado, Feitos, Procurando
  <2> QED BY <2>1, <2>2, <2>3, <2>4, <2>5, <2>6 DEF Next
<1> QED BY <1>1, <1>2 DEF IInv

-----------------------------------------------------------------------------
(* The registry.                                                           *)

\* A new registration comes after every slot that already answers to the name.
LEMMA AchaEstavel ==
    ASSUME Prefixo, NEW s \in Sistemas, NEW v \in 1..Vagas, NEW nome,
           registro[v] = NADA,
           \A k \in 1..Vagas : registro[k] = NADA => v <= k,
           registro' = [registro EXCEPT ![v] = s],
           Acha(registro, nome) # NADA
    PROVE  Acha(registro', nome) = Acha(registro, nome)
<1> DEFINE A == ComNome(registro, nome)
           B == ComNome(registro', nome)
<1>1. A # {} /\ A \in SUBSET Nat /\ A \subseteq 1..Vagas
      BY SisArqAssumption DEF Acha, ComNome
<1>2. A \subseteq B /\ B \subseteq A \cup {v} /\ B \in SUBSET Nat
  <2>1. \A k \in 1..Vagas : k # v => registro'[k] = registro[k]
        BY DEF Prefixo
  <2>2. v \notin A
        BY DEF ComNome
  <2> QED BY <2>1, <2>2, SisArqAssumption DEF ComNome
<1>3. \A k \in A : k < v
  <2> SUFFICES ASSUME NEW k \in A PROVE k < v
      OBVIOUS
  <2>1. k \in 1..Vagas /\ registro[k] # NADA
        BY DEF ComNome
  <2>2. ~(v \in 1..k)
        BY <2>1 DEF Prefixo
  <2> QED BY <2>1, <2>2, SisArqAssumption
<1> DEFINE a == Min(A)
           b == Min(B)
<1>4. a \in A /\ \A y \in A : a <= y
      BY <1>1, MinimoDeNaturais
<1>5. b \in B /\ \A y \in B : b <= y
      BY <1>1, <1>2, MinimoDeNaturais
<1>6. a = b
  <2>1. b <= a
        BY <1>2, <1>4, <1>5
  <2>2. b # v
        BY <2>1, <1>3, <1>4, <1>1, SisArqAssumption
  <2>3. b \in A
        BY <2>2, <1>2, <1>5
  <2> QED BY <2>1, <2>3, <1>4, <1>1
<1>7. registro'[a] = registro[a]
      BY <1>3, <1>4, <1>1, SisArqAssumption DEF Prefixo
<1>8. B # {}
      BY <1>5
<1> QED BY <1>6, <1>7, <1>1, <1>8 DEF Acha

\* Once a disk name answers, every later call of Abre with it goes to the same
\* file system: a registration (SisArq.c 58-71) never takes a name over.
THEOREM NomeEstavel == Spec => RegistroEstavel
<1>1. ASSUME Prefixo, [Next]_vars
      PROVE  \A s \in Sistemas : Acha(registro, Nome[s]) # NADA =>
                 Acha(registro', Nome[s]) = Acha(registro, Nome[s])
  <2>1. CASE UNCHANGED registro
        BY <2>1 DEF Acha, ComNome
  <2>2. ASSUME NEW s \in Sistemas, Registra(s), ~UNCHANGED registro
        PROVE  \A n \in Sistemas : Acha(registro, Nome[n]) # NADA =>
                   Acha(registro', Nome[n]) = Acha(registro, Nome[n])
        BY <1>1, <2>2, RegistraNaPrimeiraVaga, AchaEstavel
  <2> QED BY <1>1, <2>1, <2>2, SoRegistraEscreve
<1>2. Prefixo /\ [Next]_vars =>
          [\A s \in Sistemas : Acha(registro, Nome[s]) # NADA =>
                 Acha(registro', Nome[s]) = Acha(registro, Nome[s])]_vars
      BY <1>1
<1> QED BY InitPrefixo, PassoPrefixo, <1>2, PTL DEF Spec, RegistroEstavel

-----------------------------------------------------------------------------

\* A positioned item and the last read of it.
Dentro(item, leitura) ==
    LET arq   == Arquivo[item.sis]
        k     == MembroEm(arq, item.id)
        dados == Inicio(arq, k) + TamCabecalho
    IN  /\ k # 0 /\ Apara(arq[k].nome) = item.nome
        /\ leitura.qtd > 0 => /\ dados <= leitura.de
                              /\ leitura.de + leitura.qtd <= dados + arq[k].tam
                              /\ leitura.de + leitura.qtd = dados + item.pos

LEMMA DentroSemBytes ==
    ASSUME NEW item, NEW leitura, leitura.qtd = 0, NEW s \in Sistemas, NEW k \in 1..Len(Arquivo[s]),
           Representa(item, s, k)
    PROVE  Dentro(item, leitura)
<1> DEFINE m == MembroEm(Arquivo[s], item.id)
<1>1. item.sis = s /\ item.id = Inicio(Arquivo[s], k) /\ item.nome = Apara(Arquivo[s][k].nome)
      BY DEF Representa
<1>2. m = k
      BY <1>1, ArquivoTipo, MembroEmCerto
<1>3. k # 0
      BY ArquivoTipo
<1> HIDE DEF m
<1> QED BY <1>1, <1>2, <1>3 DEF Dentro, m

LEMMA DentroComBytes ==
    ASSUME NEW it \in Item, NEW b, NEW leitura, NEW s \in Sistemas, NEW k \in 1..Len(Arquivo[s]),
           NEW cabe \in Nat, Representa(it, s, k), Representa(b, s, k), b.pos = it.pos + cabe,
           it.pos + cabe <= it.total, leitura.de = Aponta(it), leitura.qtd = cabe
    PROVE  Dentro(b, leitura)
<1> DEFINE m == MembroEm(Arquivo[s], b.id)
<1>1. /\ b.sis = s /\ b.id = Inicio(Arquivo[s], k) /\ b.nome = Apara(Arquivo[s][k].nome)
      /\ it.id = Inicio(Arquivo[s], k) /\ it.total = Arquivo[s][k].tam
      BY DEF Representa
<1>2. m = k
      BY <1>1, ArquivoTipo, MembroEmCerto
<1>3. k # 0
      BY ArquivoTipo
<1>4. it.pos \in Nat /\ it.id \in Nat /\ it.total \in Nat /\ TamCabecalho \in Nat
      BY DEF Item, TamCabecalho
<1>5. leitura.de = Inicio(Arquivo[s], k) + TamCabecalho + it.pos
      BY <1>1 DEF Aponta
<1>6. /\ Inicio(Arquivo[s], k) + TamCabecalho <= leitura.de
      /\ leitura.de + leitura.qtd <= Inicio(Arquivo[s], k) + TamCabecalho + Arquivo[s][k].tam
      /\ leitura.de + leitura.qtd = Inicio(Arquivo[s], k) + TamCabecalho + b.pos
      BY <1>1, <1>4, <1>5
<1> HIDE DEF m
<1> QED BY <1>1, <1>2, <1>3, <1>6 DEF Dentro, m

Curta(item, leitura) == leitura.qtd < leitura.pedido => item.pos = item.total

LeituraCerta ==
    lido.item \in firmes => Dentro(itens[lido.item], lido) /\ Curta(itens[lido.item], lido)

LEMMA InitLeitura == Init => LeituraCerta
  BY DEF Init, LeituraCerta

\* After a step that read nothing there is only the member to look at.
LEMMA SemLerCerta ==
    ASSUME IInv, lido' = SemLeitura, firmes' \subseteq Itens, ItensCertos'
    PROVE  LeituraCerta'
<1> SUFFICES ASSUME lido'.item \in firmes'
             PROVE  Dentro(itens'[lido'.item], lido') /\ Curta(itens'[lido'.item], lido')
    BY DEF LeituraCerta, Dentro, Curta
<1> DEFINE it == itens'[lido'.item]
<1>1. it.tipo = "arquivo" /\ lido'.item \in Itens
      BY DEF ItensCertos
<1>2. PICK s \in Sistemas : \E k \in 1..Len(Arquivo[s]) : Representa(it, s, k)
      BY <1>1 DEF ItensCertos, Representa
<1>3. lido'.qtd = 0 /\ lido'.pedido = 0
      BY DEF SemLeitura
<1> HIDE DEF it
<1>4. Dentro(it, lido')
      BY <1>2, <1>3, DentroSemBytes
<1>5. Curta(it, lido')
      BY <1>3 DEF Curta
<1> QED BY <1>4, <1>5 DEF it

LEMMA LeiaLeituraCerta ==
    ASSUME IInv, LeituraCerta, NEW i \in Itens, NEW qtd \in Tamanhos, Leia(i, qtd), i \in firmes
    PROVE  Dentro(itens'[i], lido') /\ Curta(itens'[i], lido')
<1>1. /\ itens \in [Itens -> Item] /\ itens[i] \in Item /\ qtd \in Nat
      /\ itens[i].tipo = "arquivo" /\ itens[i].pos <= itens[i].total
      BY SisArqAssumption DEF IInv, TypeOK, ItensCertos
<1>2. /\ itens[i].pos \in Nat /\ itens[i].total \in Nat /\ itens[i].id \in Nat
      BY <1>1 DEF Item
<1>3. CASE Aponta(itens[i]) < TamDispositivo(Arquivo[itens[i].sis])
  <2>1. PICK s \in Sistemas : \E k \in 1..Len(Arquivo[s]) : \E cabe \in Nat :
              /\ Representa(itens[i], s, k)
              /\ itens' = [itens EXCEPT ![i].pos = @ + cabe]
              /\ lido' = [item |-> i, pedido |-> qtd, de |-> Aponta(itens[i]), qtd |-> cabe]
              /\ itens[i].pos + cabe <= itens[i].total
              /\ cabe < qtd => itens[i].pos + cabe = itens[i].total
        BY <1>1, <1>3, LeiaEfeito
  <2>2. PICK k \in 1..Len(Arquivo[s]), cabe \in Nat :
              /\ Representa(itens[i], s, k)
              /\ itens' = [itens EXCEPT ![i].pos = @ + cabe]
              /\ lido' = [item |-> i, pedido |-> qtd, de |-> Aponta(itens[i]), qtd |-> cabe]
              /\ itens[i].pos + cabe <= itens[i].total
              /\ cabe < qtd => itens[i].pos + cabe = itens[i].total
        BY <2>1
  <2> DEFINE b == itens'[i]
  <2>3. /\ b.tipo = itens[i].tipo /\ b.sis = itens[i].sis /\ b.id = itens[i].id
        /\ b.nome = itens[i].nome /\ b.total = itens[i].total /\ b.pos = itens[i].pos + cabe
        BY <1>1, <2>2 DEF Item
  <2> HIDE DEF b
  <2>4. Representa(b, s, k)
        BY <2>2, <2>3, OutraPosicao
  <2>5. lido'.de = Aponta(itens[i]) /\ lido'.qtd = cabe /\ lido'.pedido = qtd
        BY <2>2
  <2>6. Dentro(b, lido')
        BY <1>1, <2>2, <2>3, <2>4, <2>5, DentroComBytes
  <2>7. Curta(b, lido')
        BY <2>2, <2>3, <2>5 DEF Curta
  <2> QED BY <2>6, <2>7 DEF b
<1>4. CASE ~(Aponta(itens[i]) < TamDispositivo(Arquivo[itens[i].sis]))
  <2>1. itens' = itens /\ lido'.qtd = 0 /\ lido'.pedido = qtd
        BY <1>1, <1>4, LeiaFalha
  <2>2. PICK s \in Sistemas : \E k \in 1..Len(Arquivo[s]) : Representa(itens[i], s, k)
        BY <1>1 DEF IInv, ItensCertos
  <2>3. PICK k \in 1..Len(Arquivo[s]) : Representa(itens[i], s, k)
        BY <2>2
  <2>4. Dentro(itens[i], lido')
        BY <2>1, <2>3, DentroSemBytes
  <2>5. itens[i].pos = itens[i].total
    <3>1. itens[i].sis = s /\ itens[i].id = Inicio(Arquivo[s], k) /\ itens[i].total = Arquivo[s][k].tam
          BY <2>3 DEF Representa
    <3>2. /\ TamDispositivo(Arquivo[s]) \in Nat
          /\ itens[i].id + TamCabecalho + itens[i].total <= TamDispositivo(Arquivo[s])
          BY <3>1, ArquivoTipo, MembroNoDispositivo
    <3>3. TamCabecalho \in Nat
          BY DEF TamCabecalho
    <3> QED BY <1>1, <1>2, <1>4, <3>1, <3>2, <3>3 DEF Aponta
  <2> QED BY <2>1, <2>4, <2>5 DEF Curta
<1> QED BY <1>3, <1>4

LEMMA PassoLeitura == IInv /\ IInv' /\ LeituraCerta /\ [Next]_vars => LeituraCerta'
<1> SUFFICES ASSUME IInv, IInv', LeituraCerta, [Next]_vars PROVE LeituraCerta'
    OBVIOUS
<1>1. firmes' \subseteq Itens /\ ItensCertos' /\ firmes \subseteq Itens
      BY DEF IInv, TypeOK
<1>2. CASE UNCHANGED <<itens, firmes, lido>>
      BY <1>2 DEF LeituraCerta, Dentro, Curta
<1>3. CASE Achado
  <2>1. firmes' = firmes \ {quadro.alvo} /\ lido' = lido
        BY <1>3 DEF Achado
  <2>2. \A i \in firmes' : itens'[i] = itens[i]
        BY <1>1, <1>3, <2>1 DEF Achado, IInv, TypeOK
  <2> QED BY <2>1, <2>2 DEF LeituraCerta, Dentro, Curta
<1>4. CASE lido' = SemLeitura
      BY <1>1, <1>4, SemLerCerta
<1>5. ASSUME NEW i \in Itens, NEW n \in Tamanhos, Leia(i, n)
      PROVE  LeituraCerta'
  <2>1. lido'.item = i /\ firmes' = firmes
    <3>1. n \in Nat
          BY SisArqAssumption
    <3>2. lido'.item = i
          BY <1>5, <3>1, LeiaEfeito, LeiaFalha
    <3> QED BY <1>5, <3>2 DEF Leia
  <2> QED BY <1>5, <2>1, LeiaLeituraCerta DEF LeituraCerta, Dentro, Curta
<1>6. CASE Passo
      BY <1>2, <1>3, <1>6 DEF Passo, DiscoInvalido, DiscoNaoAchado, AbreDisco, EsperadoDiretorio,
         TrechoVazio, Primeiro, FimDaLista, Outro, Fantasma, Termina, TerminaSemAlvo, Falha
<1> QED BY <1>2, <1>4, <1>5, <1>6 DEF Next, Registra, ChamaAbre, VaPara, vars

THEOREM LeituraSoDoMembro == Spec => []LeituraDentroDoMembro
<1>1. LeituraCerta => LeituraDentroDoMembro
      BY DEF LeituraCerta, LeituraDentroDoMembro, Dentro
<1> QED BY InitIInv, PassoIInv, InitLeitura, PassoLeitura, <1>1, PTL DEF Spec

THEOREM CurtaSoNoFim == Spec => []LeituraCurtaSoNoFim
<1>1. LeituraCerta => LeituraCurtaSoNoFim
      BY DEF LeituraCerta, LeituraCurtaSoNoFim, Curta
<1> QED BY InitIInv, PassoIInv, InitLeitura, PassoLeitura, <1>1, PTL DEF Spec

-----------------------------------------------------------------------------

\* The first name of the address, once Abre is at it.
LEMMA PrimeiroNome ==
    ASSUME NEW e \in Enderecos, NEW n \in Nat, n > 0, n <= Len(e.trechos), e.trechos[n] # << >>,
           \A j \in 1..(n - 1) : e.trechos[j] = << >>
    PROVE  Nomeados(e) # {} /\ Min(Nomeados(e)) = n
<1>1. e.trechos \in Seq(Seq(STRING)) /\ Len(e.trechos) \in Nat
      BY SisArqAssumption
<1>2. Nomeados(e) \subseteq 1..Len(e.trechos) /\ Nomeados(e) \in SUBSET Nat
      BY <1>1 DEF Nomeados
<1>3. n \in Nomeados(e)
      BY <1>1 DEF Nomeados
<1> DEFINE m == Min(Nomeados(e))
<1>4. m \in Nomeados(e) /\ m <= n
      BY <1>2, <1>3, MinimoDeNaturais
<1> HIDE DEF m
<1>5. ~(m \in 1..(n - 1))
      BY <1>4 DEF Nomeados
<1>6. m = n
      BY <1>1, <1>2, <1>4, <1>5
<1> QED BY <1>3, <1>6 DEF m

AchouOPrimeiro ==
    LET e == quadro.endereco
        s == Acha(registro, e.disco)
        j == Min(Nomeados(e))
    IN  /\ status'.ok <=> /\ e.separado
                          /\ s # NADA
                          /\ j = Len(e.trechos)
                          /\ Candidatos(s, e.trechos[j]) # {}
        /\ status'.ok =>
              LET k == Min(Candidatos(s, e.trechos[j]))
                  i == itens'[quadro.alvo]
              IN  /\ i.sis = s
                  /\ i.id = Inicio(Arquivo[s], k)
                  /\ i.total = Arquivo[s][k].tam

LEMMA FalhaSemAchar ==
    ASSUME NEW tipo, Falha(tipo),
           LET e == quadro.endereco
               j == Min(Nomeados(e))
           IN  ~(/\ e.separado
                 /\ Acha(registro, e.disco) # NADA
                 /\ j = Len(e.trechos)
                 /\ Candidatos(Acha(registro, e.disco), e.trechos[j]) # {})
    PROVE  AchouOPrimeiro
<1>1. status'.ok = FALSE
      BY DEF Falha, Erro
<1> QED BY <1>1 DEF AchouOPrimeiro

LEMMA AbriuCerto ==
    ASSUME IInv, [Next]_vars, Abriu, Nomeados(quadro.endereco) # {}
    PROVE  AchouOPrimeiro
<1> DEFINE e == quadro.endereco
<1>1. Passo
      BY DEF Abriu, Next, Registra, ChamaAbre, VaPara, Leia, vars
<1>2. CASE DiscoInvalido
      BY <1>2, FalhaSemAchar DEF DiscoInvalido
<1>3. CASE DiscoNaoAchado
      BY <1>3, FalhaSemAchar DEF DiscoNaoAchado
<1>4. CASE EsperadoDiretorio
  <2>1. Caminho /\ NomeAchado /\ TypeOK
        BY <1>4 DEF IInv, AbreCerta, EsperadoDiretorio, SemNome
  <2>2. /\ Feitos \in Nat /\ Len(e.trechos) \in Nat /\ Len(quadro.resto) \in Nat
        /\ Feitos + Len(quadro.resto) = Len(e.trechos) /\ quadro.resto \in Seq(Seq(STRING))
        BY <2>1, CaminhoTipo
  <2>3. Len(quadro.resto) > 0
        BY <1>4, <2>2 DEF EsperadoDiretorio
  <2>4. /\ e \in Enderecos /\ Feitos > 0 /\ e.trechos[Feitos] # << >>
        /\ \A j \in 1..(Feitos - 1) : e.trechos[j] = << >>
        BY <2>1 DEF NomeAchado, Caminho
  <2>5. Min(Nomeados(e)) = Feitos
    <3>1. Feitos <= Len(e.trechos) /\ Feitos \in Nat
          BY <2>2
    <3> QED BY <3>1, <2>4, PrimeiroNome
  <2>6. Min(Nomeados(e)) # Len(e.trechos)
        BY <2>2, <2>3, <2>5
  <2> QED BY <1>4, <2>6, FalhaSemAchar DEF EsperadoDiretorio
<1>5. CASE FimDaLista
  <2>1. /\ TypeOK /\ Caminho /\ DiscoAchado /\ SemNome
        /\ quadro.resto # << >> /\ Head(quadro.resto) # << >>
        BY <1>5 DEF IInv, AbreCerta, FimDaLista
  <2>2. /\ Feitos \in Nat /\ Len(e.trechos) \in Nat /\ Len(quadro.resto) \in Nat
        /\ Feitos + Len(quadro.resto) = Len(e.trechos) /\ quadro.resto \in Seq(Seq(STRING))
        BY <2>1, CaminhoTipo
  <2> DEFINE s == quadro.resto
  <2>3. Len(s) > 0 /\ Head(s) = s[1]
    <3>1. s \in Seq(Seq(STRING)) /\ s # << >>
          BY <2>1, <2>2
    <3> HIDE DEF s
    <3> QED BY <3>1, CabecaECauda
  <2>4. Head(s) = e.trechos[Feitos + 1]
        BY <2>1, <2>2, <2>3 DEF Caminho
  <2>5. Min(Nomeados(e)) = Feitos + 1
    <3>1. /\ e \in Enderecos /\ e.trechos[Feitos + 1] # << >>
          /\ \A j \in 1..Feitos : e.trechos[j] = << >>
          BY <2>1, <2>4 DEF Caminho, SemNome
    <3>2. Feitos + 1 \in Nat /\ Feitos + 1 > 0 /\ Feitos + 1 <= Len(e.trechos)
          /\ (Feitos + 1) - 1 = Feitos
          BY <2>2, <2>3
    <3> QED BY <3>1, <3>2, PrimeiroNome
  <2>6. Candidatos(quadro.sis, e.trechos[Feitos + 1]) = {}
        BY <1>5, <2>4, SemProximoSemCandidato DEF IInv, FimDaLista
  <2>7. status'.ok = FALSE
        BY <1>5 DEF FimDaLista, Erro
  <2> QED BY <2>1, <2>5, <2>6, <2>7 DEF AchouOPrimeiro, DiscoAchado
<1>6. CASE Termina
  <2>1. /\ Caminho /\ DiscoAchado /\ NomeAchado /\ TypeOK /\ quadro.resto = << >>
        BY <1>6 DEF IInv, AbreCerta, Termina, SemNome
  <2>2. /\ Feitos \in Nat /\ Len(e.trechos) \in Nat /\ Feitos = Len(e.trechos)
        BY <2>1, CaminhoTipo
  <2>3. /\ e \in Enderecos /\ Feitos > 0 /\ e.trechos[Feitos] # << >>
        /\ \A j \in 1..(Feitos - 1) : e.trechos[j] = << >>
        BY <2>1 DEF NomeAchado, Caminho
  <2>4. Min(Nomeados(e)) = Feitos
    <3>1. Feitos <= Len(e.trechos) /\ Feitos \in Nat
          BY <2>2
    <3> QED BY <3>1, <2>3, PrimeiroNome
  <2> DEFINE C == Candidatos(quadro.sis, e.trechos[Feitos])
  <2>5. PICK k \in C : (\A j \in C : k <= j) /\ Representa(itens[quadro.alvo], quadro.sis, k)
        BY <2>1 DEF NomeAchado
  <2>6. C \in SUBSET Nat
        BY <2>1, ArquivoTipo DEF Candidatos, Alcanca, DiscoAchado, Arquivos
  <2> HIDE DEF C
  <2>7. Min(C) = k
    <3>1. Min(C) \in C /\ \A j \in C : Min(C) <= j
          BY <2>5, <2>6, MinimoDeNaturais
    <3>2. Min(C) <= k /\ k <= Min(C) /\ k \in Nat /\ Min(C) \in Nat
          BY <3>1, <2>5, <2>6
    <3> QED BY <3>2
  <2>8. status'.ok = TRUE /\ itens' = itens
        BY <1>6 DEF Termina, Ok
  <2>9. /\ e.separado /\ Acha(registro, e.disco) = quadro.sis /\ quadro.sis # NADA
        BY <2>1, SisArqAssumption DEF DiscoAchado
  <2> QED BY <2>2, <2>4, <2>5, <2>7, <2>8, <2>9 DEF AchouOPrimeiro, Representa, C
<1>7. CASE TerminaSemAlvo
  <2>1. /\ Caminho /\ SemNome /\ TypeOK /\ quadro.resto = << >>
        BY <1>7 DEF IInv, AbreCerta, TerminaSemAlvo, NomeAchado
  <2>2. /\ Len(e.trechos) \in Nat /\ Feitos = Len(e.trechos) /\ e.trechos \in Seq(Seq(STRING))
        BY <2>1, CaminhoTipo
  <2>3. DOMAIN e.trechos = 1..Feitos
        BY <2>2
  <2>4. Nomeados(e) = {}
        BY <2>1, <2>3 DEF Nomeados, SemNome
  <2> QED BY <2>4
<1>8. CASE AbreDisco \/ TrechoVazio \/ Primeiro \/ Outro \/ Fantasma \/ Achado
      BY <1>8 DEF Abriu, AbreDisco, TrechoVazio, Primeiro, Outro, Fantasma, Achado
<1> QED BY <1>1, <1>2, <1>3, <1>4, <1>5, <1>6, <1>7, <1>8 DEF Passo

THEOREM AbreOPrimeiro == Spec => AbreAchaOPrimeiro
<1>1. IInv /\ [Next]_vars =>
        [ LET e == quadro.endereco
              s == Acha(registro, e.disco)
              j == Min(Nomeados(e))
          IN  Abriu /\ Nomeados(e) # {} =>
                /\ status'.ok <=> /\ e.separado
                                  /\ s # NADA
                                  /\ j = Len(e.trechos)
                                  /\ Candidatos(s, e.trechos[j]) # {}
                /\ status'.ok =>
                      LET k == Min(Candidatos(s, e.trechos[j]))
                          i == itens'[quadro.alvo]
                      IN  /\ i.sis = s
                          /\ i.id = Inicio(Arquivo[s], k)
                          /\ i.total = Arquivo[s][k].tam ]_vars
      BY AbriuCerto DEF AchouOPrimeiro
<1> QED BY InitIInv, PassoIInv, <1>1, PTL DEF Spec, AbreAchaOPrimeiro
=============================================================================
