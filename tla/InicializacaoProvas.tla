------------------------ MODULE InicializacaoProvas ------------------------
(***************************************************************************)
(* The boot, for every set of machines, geometry, disk contents and size of *)
(* memory within the assumptions:                                           *)
(*   - the block cache of the second stage holds what it says               *)
(*     (CacheSempreFiel), a sector is given up only after all its attempts  *)
(*     (SoDesisteNoLimite), and the bss of the kernel is cleared away from   *)
(*     what was loaded (BssNaoApaga), even when the disk deceives;           *)
(*   - on a disk that does not, a zone that is asked for is the one of the   *)
(*     file (AZonaDoArquivo), the loaders implement Carga (AsPromessas), and *)
(*     they halt only for a reason (ErroComMotivo).                          *)
(* The second group rests on what is known of the table of items, the       *)
(* indirect blocks and the transfers under way (NoVolume), of the chain of   *)
(* a FAT12 disk (NoFat), and of the files in memory (SegundoVem, NoMinix).   *)
(***************************************************************************)
EXTENDS Inicializacao, SequenceTheorems, WellFoundedInduction, TLAPS

(* The places where each program may be, where it may go after a transfer,  *)
(* and who may ask for a zone.                                             *)
Passos(e) ==
    IF e = 1 THEN {"extensao", "raiz_fat", "superbloco", "confere", "itens", "busca", "zona",
                   "busca_fat", "tabela", "conjunto", "conj_lido", "salta",
                   "setor", "carrega", "indireto", "parado", "perdida"}
    ELSE IF e = 2 THEN {"inicial", "a20", "tecla", "abre", "identifica", "monta", "montado",
                   "procura", "proximo", "leu",
                   "setor", "carrega", "indireto", "guarda", "parado", "perdida"}
    ELSE {"__start", "Inicial"}

Depois(e) ==
    IF e = 1 THEN {"superbloco", "confere", "itens", "busca", "zona", "indireto",
                   "busca_fat", "tabela", "conj_lido"}
    ELSE {"guarda", "indireto", "montado"}

Voltas(e) == IF e = 1 THEN {"busca", "zona"} ELSE {"identifica", "monta", "proximo", "leu"}

Pedindo ==
    \/ pc \in {"carrega", "indireto", "guarda"}
    \/ pc = "setor" /\ leitura.apos \in {"indireto", "guarda"}

Controle ==
    /\ etapa \in {1, 2, 3} /\ pc \in Passos(etapa)
    /\ pc = "setor" => leitura.apos \in Depois(etapa)
    /\ Pedindo => pedido.volta \in Voltas(etapa)

(* The drive is chosen before anything is in the cache.                    *)
SemCache == etapa = 1 \/ pc = "inicial" => cache = 0

(* A transfer for the buffer brings the two sectors of the block asked for. *)
Transferencia ==
    /\ pc = "setor" /\ leitura.apos = "guarda" =>
           \/ /\ leitura.resta = 2 /\ leitura.lba = 2 * pedido.bloco /\ lido = <<>>
           \/ /\ leitura.resta = 1 /\ leitura.lba = 2 * pedido.bloco + 1
              /\ lido = <<Celula(2 * pedido.bloco)>>
    /\ pc = "guarda" => lido = Bloco(pedido.bloco)

(* Attempts made and attempts left.                                        *)
Contagem ==
    pc = "setor" => /\ tentativas \in 1..6 /\ falhas \in 0..5
                    /\ tentativas + falhas = Limite

IInv == Controle /\ SemCache /\ Transferencia /\ CacheFiel /\ Contagem

-----------------------------------------------------------------------------
LEMMA InitIInv == Init => IInv
  BY DEF Init, IInv, Controle, SemCache, Transferencia, CacheFiel, Contagem, Passos, Pedindo

LEMMA Acrescenta ==
    ASSUME NEW a, NEW b
    PROVE  Append(<<a>>, b) = <<a, b>>
<1> DEFINE s == <<a>>
           t == <<a, b>>
<1>1. s \in Seq({a, b}) /\ t \in Seq({a, b})
  OBVIOUS
<1>2. /\ Append(s, b) \in Seq({a, b}) /\ Len(Append(s, b)) = 2
      /\ Append(s, b)[1] = a /\ Append(s, b)[2] = b
  BY <1>1
<1>3. Len(t) = 2 /\ t[1] = a /\ t[2] = b
  OBVIOUS
<1> HIDE DEF s, t
<1>4. Len(Append(s, b)) = Len(t) /\ \A i \in 1..Len(Append(s, b)) : Append(s, b)[i] = t[i]
  BY <1>2, <1>3
<1>5. Append(s, b) = t
  BY <1>1, <1>2, <1>4, SeqEqual
<1>6. QED
  BY <1>5 DEF s, t

(* One lemma for each kind of step.                                        *)
LEMMA DiscoIInv ==
    ASSUME IInv, PassoDisco
    PROVE  IInv'
<1> USE DEF IInv, PassoDisco, minix, segundoEstagio, transfere
<1>1. CASE LeSetor
  <2>1. Controle'
    BY <1>1 DEF LeSetor, Controle, Passos, Depois, Voltas, Pedindo
  <2>2. SemCache'
    BY <1>1 DEF LeSetor, SemCache, Controle, Depois
  <2>3. Transferencia'
    <3>1. lido' = Append(lido, Celula(leitura.lba))
      BY <1>1 DEF LeSetor, Celula
    <3>2. ASSUME NEW x PROVE Celula(x)' = Celula(x)
      BY <1>1 DEF LeSetor, Celula, M, Onde, CHS
    <3>3. /\ leitura'.resta = leitura.resta - 1 /\ leitura'.lba = leitura.lba + 1
          /\ leitura'.apos = leitura.apos /\ pc = "setor" /\ pedido' = pedido
          /\ pc' = IF leitura.resta = 1 THEN leitura.apos ELSE "setor"
      BY <1>1 DEF LeSetor
    <3>4. CASE leitura.apos = "guarda" /\ leitura.resta = 2
      <4>1. lido' = <<Celula(2 * pedido.bloco)>> /\ leitura.lba = 2 * pedido.bloco
        BY <3>1, <3>3, <3>4 DEF Transferencia
      <4>2. pc' = "setor"
        BY <3>3, <3>4
      <4>3. QED
        BY <3>2, <3>3, <3>4, <4>1, <4>2 DEF Transferencia
    <3>5. CASE leitura.apos = "guarda" /\ leitura.resta = 1
      <4>1. lido' = <<Celula(2 * pedido.bloco), Celula(2 * pedido.bloco + 1)>>
        <5>1. lido = <<Celula(2 * pedido.bloco)>> /\ leitura.lba = 2 * pedido.bloco + 1
          BY <3>3, <3>5 DEF Transferencia
        <5>2. QED
          BY <3>1, <5>1, Acrescenta
      <4>2. pc' = "guarda"
        BY <3>3, <3>5
      <4>3. QED
        BY <3>2, <3>3, <4>1, <4>2 DEF Transferencia, Bloco
    <3>6. CASE leitura.apos # "guarda"
      BY <3>3, <3>6 DEF Transferencia
    <3>7. QED
      BY <3>3, <3>4, <3>5, <3>6 DEF Transferencia
  <2>4. CacheFiel'
    BY <1>1 DEF LeSetor, CacheFiel, Celula, Bloco, M, Onde, CHS
  <2>5. Contagem'
    BY <1>1 DEF LeSetor, Contagem, Limite, M
  <2>6. QED
    BY <2>1, <2>2, <2>3, <2>4, <2>5
<1>2. CASE Falha
  BY <1>2 DEF Falha, Controle, Pedindo, SemCache, Transferencia, CacheFiel, Contagem,
              Celula, Bloco, M, Onde, CHS, Limite
<1>3. CASE Desiste
  BY <1>3 DEF Desiste, Controle, Pedindo, SemCache, Transferencia, CacheFiel, Contagem,
              Celula, Bloco, M, Onde, CHS, Limite, Passos
<1>4. QED
  BY <1>1, <1>2, <1>3

(* What a step that leaves the drive alone keeps.                          *)
LEMMA Quadro ==
    UNCHANGED <<maquina, unidade, geo>> => \A x : Bloco(x)' = Bloco(x)
<1> SUFFICES ASSUME UNCHANGED <<maquina, unidade, geo>>, NEW x PROVE Bloco(x)' = Bloco(x)
  OBVIOUS
<1>1. QED
  BY DEF Bloco, Celula, M, CHS, Onde

LEMMA CacheIgual ==
    CacheFiel /\ UNCHANGED <<maquina, unidade, geo, cache, bloco>> => CacheFiel'
  BY Quadro DEF CacheFiel

(* Which program runs, from the step it is at.                             *)
LEMMA Programa ==
    ASSUME Controle
    PROVE  /\ pc \in {"extensao", "raiz_fat", "superbloco", "confere", "itens", "busca", "zona",
                      "busca_fat", "tabela", "conjunto", "conj_lido", "salta"} => etapa = 1
           /\ pc \in {"inicial", "a20", "tecla", "abre", "identifica", "monta", "montado",
                      "procura", "proximo", "leu", "guarda"} => etapa = 2
           /\ pc \in {"carrega", "indireto"} => etapa \in {1, 2}
           /\ pc \in {"__start", "Inicial"} => etapa = 3
  BY DEF Controle, Passos

(* What a step of a program that keeps the drive and the buffer still owes. *)
Mantem == UNCHANGED <<maquina, etapa, unidade, geo, cache, bloco>>

LEMMA Segue ==
    ASSUME IInv, Mantem, pc' \in Passos(etapa), pc' \notin {"setor", "guarda", "inicial"},
           pc' \in {"carrega", "indireto"} => pedido'.volta \in Voltas(etapa)
    PROVE  IInv'
<1>1. Controle'
  BY DEF Controle, Pedindo, Mantem, IInv, Passos, Voltas
<1>2. SemCache' /\ Transferencia' /\ Contagem'
  BY DEF SemCache, Transferencia, Contagem, Mantem, IInv
<1>3. CacheFiel'
  BY CacheIgual DEF Mantem, IInv
<1>4. QED
  BY <1>1, <1>2, <1>3 DEF IInv

LEMMA Transfere ==
    ASSUME IInv, Mantem, NEW lba, NEW n, NEW apos, Comeca(lba, n, apos),
           apos \in Depois(etapa), etapa \in {1, 2},
           apos \in {"indireto", "guarda"} => pedido'.volta \in Voltas(etapa),
           apos = "guarda" => n = 2 /\ lba = 2 * pedido'.bloco
    PROVE  IInv'
<1>1. /\ pc' = "setor" /\ leitura' = [lba |-> lba, resta |-> n, apos |-> apos]
      /\ lido' = <<>> /\ tentativas' = Limite /\ falhas' = 0
  BY DEF Comeca
<1>2. Controle'
  BY <1>1 DEF Controle, Pedindo, Mantem, IInv, Passos, Voltas, Depois
<1>3. SemCache' /\ Transferencia'
  BY <1>1 DEF SemCache, Transferencia, Mantem, IInv
<1>4. Contagem'
  BY <1>1 DEF Contagem, Limite, M, Mantem
<1>5. CacheFiel'
  BY CacheIgual DEF Mantem, IInv
<1>6. QED
  BY <1>2, <1>3, <1>4, <1>5 DEF IInv

LEMMA VoltaServe ==
    ASSUME NEW e \in {1, 2}
    PROVE  /\ Voltas(e) \subseteq Passos(e) \ {"setor", "guarda", "inicial", "carrega", "indireto"}
           /\ {"indireto", "parado", "carrega"} \subseteq Passos(e) /\ "indireto" \in Depois(e)
           /\ e = 1 => Voltas(e) \subseteq Depois(e)
           /\ e = 2 => "guarda" \in Depois(e)
<1>1. CASE e = 1
  BY <1>1 DEF Voltas, Passos, Depois
<1>2. CASE e = 2
  BY <1>2 DEF Voltas, Passos, Depois
<1>3. QED
  BY <1>1, <1>2

(* The three ways an answer to a request begins.                           *)
LEMMA VazioIInv ==
    ASSUME IInv, Mantem, Vazio, pc \in {"carrega", "indireto"}
    PROVE  IInv'
<1>1. etapa \in {1, 2} /\ pedido.volta \in Voltas(etapa)
  BY Programa DEF IInv, Controle, Pedindo
<1>2. pc' = pedido.volta
  BY DEF Vazio
<1>3. QED
  BY <1>1, <1>2, VoltaServe, Segue

LEMMA LeBlocoIInv ==
    ASSUME IInv, Mantem, NEW p, NEW ds, NEW volta \in Voltas(2), etapa = 2, LeBloco(p, ds, volta)
    PROVE  IInv'
<1>1. pedido'.volta = volta /\ pedido'.bloco = p
  BY DEF LeBloco
<1>2. CASE pc' = volta
  BY <1>2, VoltaServe, Segue
<1>3. CASE Comeca(2 * p, 2, "guarda")
  BY <1>1, <1>3, VoltaServe, Transfere
<1>4. QED
  BY <1>2, <1>3 DEF LeBloco

LEMMA LeZonaIInv ==
    ASSUME IInv, Mantem, NEW p, LeZona(p), pc \in {"carrega", "indireto"}
    PROVE  IInv'
<1>1. etapa \in {1, 2} /\ pedido.volta \in Voltas(etapa)
  BY Programa DEF IInv, Controle, Pedindo
<1>2. CASE etapa = 1
  <2>1. Comeca(2 * p, 2, pedido.volta) /\ pedido' = pedido
    BY <1>2 DEF LeZona
  <2>2. pedido.volta # "guarda" /\ pedido.volta \in Depois(etapa)
    BY <1>1, <1>2, VoltaServe
  <2>3. QED
    BY <1>1, <2>1, <2>2, Transfere
<1>3. CASE etapa = 2
  BY <1>1, <1>3, LeBlocoIInv DEF LeZona
<1>4. QED
  BY <1>1, <1>2, <1>3

LEMMA ZonaIInv ==
    ASSUME IInv, PassoZona
    PROVE  IInv'
<1>1. CASE ZonaDemais
  <2>1. Mantem /\ pc' = "parado" /\ etapa \in {1, 2}
    BY <1>1, Programa DEF ZonaDemais, minix, Mantem, IInv
  <2>2. QED
    BY <2>1, VoltaServe, Segue
<1>2. CASE ZonaDireta
  <2>1. Mantem /\ pc = "carrega"
    BY <1>2 DEF ZonaDireta, Mantem
  <2>2. Vazio \/ \E p : LeZona(p)
    BY <1>2 DEF ZonaDireta
  <2>3. QED
    BY <2>1, <2>2, VazioIInv, LeZonaIInv
<1>3. CASE ZonaIndireta
  <2>1. Mantem /\ pc = "carrega"
    BY <1>3 DEF ZonaIndireta, Mantem
  <2>2. Vazio \/ \E p : Comeca(2 * p, 2, "indireto") /\ pedido' = pedido
    BY <1>3 DEF ZonaIndireta
  <2>3. ASSUME NEW p, Comeca(2 * p, 2, "indireto"), pedido' = pedido PROVE IInv'
    <3>1. etapa \in {1, 2} /\ pedido'.volta \in Voltas(etapa)
      BY <2>1, <2>3, Programa DEF IInv, Controle, Pedindo
    <3>2. QED
      BY <2>1, <2>3, <3>1, VoltaServe, Transfere
  <2>4. QED
    BY <2>1, <2>2, <2>3, VazioIInv
<1>4. CASE Indireto
  <2>1. Mantem /\ pc = "indireto"
    BY <1>4 DEF Indireto, Mantem
  <2>2. Vazio \/ \E p : LeZona(p)
    BY <1>4 DEF Indireto
  <2>3. QED
    BY <2>1, <2>2, VazioIInv, LeZonaIInv
<1>5. CASE Guarda
  <2>1. /\ pc = "guarda" /\ pc' = pedido.volta /\ pedido' = pedido /\ etapa' = etapa
        /\ bloco' = Bloco(pedido.bloco) /\ cache' = pedido.bloco
        /\ UNCHANGED <<maquina, unidade, geo>>
    BY <1>5 DEF Guarda, DsDoPonto, IInv, Transferencia
  <2>2. etapa = 2 /\ pedido.volta \in Voltas(2)
    BY <2>1, Programa DEF IInv, Controle, Pedindo
  <2>3. pc' \in Passos(2) /\ pc' \notin {"setor", "guarda", "inicial", "carrega", "indireto"}
    BY <2>1, <2>2, VoltaServe
  <2>4. Controle' /\ SemCache' /\ Transferencia' /\ Contagem'
    BY <2>1, <2>2, <2>3 DEF Controle, Pedindo, SemCache, Transferencia, Contagem
  <2>5. CacheFiel'
    BY <2>1, Quadro DEF CacheFiel
  <2>6. QED
    BY <2>4, <2>5 DEF IInv
<1>6. QED
  BY <1>1, <1>2, <1>3, <1>4, <1>5 DEF PassoZona, Zona

LEMMA MinixIInv ==
    ASSUME IInv, PassoMinix
    PROVE  IInv'
<1> USE DEF PassoMinix, minix, transfere, segundoEstagio
<1>1. CASE Extensao
  <2>1. /\ etapa = 1 /\ etapa' = 1 /\ cache = 0 /\ cache' = 0 /\ maquina' = maquina
        /\ pc' = "setor" /\ leitura'.apos = "superbloco" /\ tentativas' = Limite /\ falhas' = 0
    BY <1>1, Programa DEF Extensao, Comeca, IInv, SemCache
  <2>2. Controle' /\ SemCache' /\ Transferencia' /\ CacheFiel'
    BY <2>1 DEF Controle, Passos, Depois, Pedindo, SemCache, Transferencia, CacheFiel
  <2>3. Contagem'
    BY <2>1 DEF Contagem, Limite, M
  <2>4. QED
    BY <2>2, <2>3 DEF IInv
<1>2. CASE Superbloco
  <2>1. Mantem /\ etapa = 1
    BY <1>2, Programa DEF Superbloco, Mantem, IInv
  <2>2. \E x, y : Comeca(x, y, "confere")
    BY <1>2 DEF Superbloco
  <2>3. QED
    BY <2>1, <2>2, Transfere DEF Depois
<1>3. CASE Confere
  <2>1. Mantem /\ etapa = 1
    BY <1>3, Programa DEF Confere, Mantem, IInv
  <2>2. CASE pc' = "parado"
    BY <2>1, <2>2, Segue DEF Passos
  <2>3. ASSUME NEW x, NEW y, Comeca(x, y, "itens") PROVE IInv'
    BY <2>1, <2>3, Transfere DEF Depois
  <2>4. QED
    BY <1>3, <2>2, <2>3 DEF Confere
<1>4. CASE GuardaItens
  <2>1. Mantem /\ etapa = 1 /\ pc' = "carrega"
    BY <1>4, Programa DEF GuardaItens, Mantem, IInv, Pede
  <2>2. pc' = "carrega" => pedido'.volta = "busca"
    BY <1>4 DEF GuardaItens, Pede
  <2>3. QED
    BY <2>1, <2>2, Segue DEF Passos, Voltas
<1>5. CASE Busca
  <2>1. Mantem /\ etapa = 1 /\ (pc' = "carrega" \/ pc' = "parado")
    BY <1>5, Programa DEF Busca, Mantem, IInv, Pede
  <2>2. pc' = "carrega" => pedido'.volta = "zona"
    BY <1>5 DEF Busca, Pede
  <2>3. QED
    BY <2>1, <2>2, Segue DEF Passos, Voltas
<1>6. CASE CarregaZona
  <2>1. Mantem /\ etapa = 1 /\ pc' = "carrega"
    BY <1>6, Programa DEF CarregaZona, Mantem, IInv, Pede
  <2>2. pc' = "carrega" => pedido'.volta = "zona"
    BY <1>6 DEF CarregaZona, Pede
  <2>3. QED
    BY <2>1, <2>2, Segue DEF Passos, Voltas
<1>7. CASE SaltaMinix
  <2>1. /\ etapa \in {1, 2} /\ etapa' = 2 /\ pc' = "inicial"
        /\ UNCHANGED <<maquina, unidade, geo, cache, bloco>>
    BY <1>7, Programa DEF SaltaMinix, IInv
  <2>2. cache = 0
    BY <1>7, Programa DEF SaltaMinix, IInv, SemCache
  <2>3. Controle' /\ SemCache' /\ Transferencia' /\ Contagem'
    BY <2>1, <2>2 DEF Controle, Passos, Pedindo, SemCache, Transferencia, Contagem
  <2>4. QED
    BY <2>1, <2>3, CacheIgual DEF IInv
<1>8. QED
  BY <1>1, <1>2, <1>3, <1>4, <1>5, <1>6, <1>7 DEF SetorMinix

LEMMA FatIInv ==
    ASSUME IInv, PassoFat
    PROVE  IInv'
<1> USE DEF PassoFat, minix, transfere, segundoEstagio
<1>1. CASE Monta
  <2>1. /\ etapa = 1 /\ etapa' = 1 /\ cache = 0 /\ cache' = 0 /\ maquina' = maquina
        /\ pc' = "setor" /\ leitura'.apos = "busca_fat" /\ tentativas' = Limite /\ falhas' = 0
    BY <1>1, Programa DEF Monta, Comeca, IInv, SemCache
  <2>2. Controle' /\ SemCache' /\ Transferencia' /\ CacheFiel'
    BY <2>1 DEF Controle, Passos, Depois, Pedindo, SemCache, Transferencia, CacheFiel
  <2>3. Contagem'
    BY <2>1 DEF Contagem, Limite, M
  <2>4. QED
    BY <2>2, <2>3 DEF IInv
<1>2. CASE BuscaFat
  <2>1. Mantem /\ etapa = 1
    BY <1>2, Programa DEF BuscaFat, Mantem, IInv
  <2>2. CASE pc' = "parado"
    BY <2>1, <2>2, Segue DEF Passos
  <2>3. ASSUME NEW x, NEW y, Comeca(x, y, "tabela") PROVE IInv'
    BY <2>1, <2>3, Transfere DEF Depois
  <2>4. QED
    BY <1>2, <2>2, <2>3 DEF BuscaFat
<1>3. CASE GuardaTabela
  <2>1. Mantem /\ etapa = 1 /\ pc' = "conjunto"
    BY <1>3, Programa DEF GuardaTabela, Mantem, IInv
  <2>2. QED
    BY <2>1, Segue DEF Passos
<1>4. CASE LeConjunto
  <2>1. Mantem /\ etapa = 1
    BY <1>4, Programa DEF LeConjunto, Mantem, IInv
  <2>2. \E x, y : Comeca(x, y, "conj_lido")
    BY <1>4 DEF LeConjunto
  <2>3. QED
    BY <2>1, <2>2, Transfere DEF Depois
<1>5. CASE SegueCadeia
  <2>1. Mantem /\ etapa = 1 /\ (pc' = "perdida" \/ pc' = "salta" \/ pc' = "conjunto")
    BY <1>5, Programa DEF SegueCadeia, Mantem, IInv
  <2>2. QED
    BY <2>1, Segue DEF Passos
<1>6. CASE SaltaFat
  <2>1. /\ etapa \in {1, 2} /\ etapa' = 2 /\ pc' = "inicial"
        /\ UNCHANGED <<maquina, unidade, geo, cache, bloco>>
    BY <1>6, Programa DEF SaltaFat, IInv
  <2>2. cache = 0
    BY <1>6, Programa DEF SaltaFat, IInv, SemCache
  <2>3. Controle' /\ SemCache' /\ Transferencia' /\ Contagem'
    BY <2>1, <2>2 DEF Controle, Passos, Pedindo, SemCache, Transferencia, Contagem
  <2>4. QED
    BY <2>1, <2>3, CacheIgual DEF IInv
<1>7. QED
  BY <1>1, <1>2, <1>3, <1>4, <1>5, <1>6 DEF SetorFat

LEMMA DoisIInv ==
    ASSUME IInv, PassoDois
    PROVE  IInv'
<1> USE DEF PassoDois, minix, transfere, segundoEstagio
<1>1. CASE Entra
  <2>1. etapa = 2 /\ etapa' = 2 /\ pc' = "a20" /\ cache = 0 /\ cache' = 0
    BY <1>1, Programa DEF Entra, IInv, SemCache
  <2>2. QED
    BY <2>1 DEF IInv, Controle, Passos, Pedindo, SemCache, Transferencia, CacheFiel,
       Contagem
<1>2. CASE Desvia
  <2>1. Mantem /\ etapa = 2 /\ pc' = "perdida"
    BY <1>2, Programa DEF Desvia, Mantem, IInv
  <2>2. QED
    BY <2>1, Segue DEF Passos
<1>3. CASE TestaA20
  <2>1. Mantem /\ etapa = 2 /\ (pc' = "abre" \/ pc' = "parado" \/ pc' = "tecla" \/ pc' = "a20")
    BY <1>3, Programa DEF TestaA20, Mantem, IInv
  <2>2. QED
    BY <2>1, Segue DEF Passos
<1>4. CASE Abre
  <2>1. Mantem /\ etapa = 2 /\ LeBloco(1, "cs", "identifica")
    BY <1>4, Programa DEF Abre, Mantem, IInv
  <2>2. QED
    BY <2>1, LeBlocoIInv DEF Voltas
<1>5. CASE Identifica
  <2>1. Mantem /\ etapa = 2 /\ (LeBloco(1, "cs", "monta") \/ pc' = "parado")
    BY <1>5, Programa DEF Identifica, Mantem, IInv
  <2>2. CASE pc' = "parado"
    BY <2>1, <2>2, Segue DEF Passos
  <2>3. CASE LeBloco(1, "cs", "monta")
    BY <2>1, <2>3, LeBlocoIInv DEF Voltas
  <2>4. QED
    BY <2>1, <2>2, <2>3
<1>6. CASE MontaMinix
  <2>1. Mantem /\ etapa = 2
    BY <1>6, Programa DEF MontaMinix, Mantem, IInv
  <2>2. \E x, y : Comeca(x, y, "montado")
    BY <1>6 DEF MontaMinix
  <2>3. QED
    BY <2>1, <2>2, Transfere DEF Depois
<1>7. CASE Montado
  <2>1. Mantem /\ etapa = 2 /\ pc' = "procura"
    BY <1>7, Programa DEF Montado, Mantem, IInv
  <2>2. QED
    BY <2>1, Segue DEF Passos
<1>8. CASE Procura
  <2>1. Mantem /\ etapa = 2 /\ pc' = "carrega"
    BY <1>8, Programa DEF Procura, Mantem, IInv, Pede
  <2>2. pc' = "carrega" => pedido'.volta = "proximo"
    BY <1>8 DEF Procura, Pede
  <2>3. QED
    BY <2>1, <2>2, Segue DEF Passos, Voltas
<1>9. CASE FimDoDiretorio
  <2>1. Mantem /\ etapa = 2 /\ pc' = "parado"
    BY <1>9, Programa DEF FimDoDiretorio, Mantem, IInv
  <2>2. QED
    BY <2>1, Segue DEF Passos
<1>10. CASE OutroBloco
  <2>1. Mantem /\ etapa = 2 /\ pc' = "carrega"
    BY <1>10, Programa DEF OutroBloco, Mantem, IInv, Pede
  <2>2. pc' = "carrega" => pedido'.volta = "proximo"
    BY <1>10 DEF OutroBloco, Pede
  <2>3. QED
    BY <2>1, <2>2, Segue DEF Passos, Voltas
<1>11. CASE OutroNome
  <2>1. Mantem /\ etapa = 2 /\ pc' = "carrega"
    BY <1>11, Programa DEF OutroNome, Mantem, IInv, Pede
  <2>2. pc' = "carrega" => pedido'.volta = "proximo"
    BY <1>11 DEF OutroNome, Pede
  <2>3. QED
    BY <2>1, <2>2, Segue DEF Passos, Voltas
<1>12. CASE Encontrado
  <2>1. Mantem /\ etapa = 2 /\ pc' = "carrega"
    BY <1>12, Programa DEF Encontrado, Mantem, IInv, Pede
  <2>2. pc' = "carrega" => pedido'.volta = "leu"
    BY <1>12 DEF Encontrado, Pede
  <2>3. QED
    BY <2>1, <2>2, Segue DEF Passos, Voltas
<1>13. CASE CfgIlegivel
  <2>1. Mantem /\ etapa = 2 /\ pc' = "parado"
    BY <1>13, Programa DEF CfgIlegivel, Mantem, IInv
  <2>2. QED
    BY <2>1, Segue DEF Passos
<1>14. CASE LeCfg
  <2>1. Mantem /\ etapa = 2 /\ pc' = "procura"
    BY <1>14, Programa DEF LeCfg, Mantem, IInv
  <2>2. QED
    BY <2>1, Segue DEF Passos
<1>15. CASE Copia
  <2>1. Mantem /\ etapa = 2 /\ pc' = "carrega"
    BY <1>15, Programa DEF Copia, Mantem, IInv, Pede
  <2>2. pc' = "carrega" => pedido'.volta = "leu"
    BY <1>15 DEF Copia, Pede
  <2>3. QED
    BY <2>1, <2>2, Segue DEF Passos, Voltas
<1>16. CASE FimDoNucleo
  <2>1. Mantem /\ etapa = 2 /\ pc' = "procura"
    BY <1>16, Programa DEF FimDoNucleo, Mantem, IInv
  <2>2. QED
    BY <2>1, Segue DEF Passos
<1>17. CASE Protegido
  <2>1. /\ etapa \in {1, 2} /\ etapa' = 3 /\ pc' = "__start"
        /\ UNCHANGED <<maquina, unidade, geo, cache, bloco>>
    BY <1>17, Programa DEF Protegido, IInv
  <2>2. Controle' /\ SemCache' /\ Transferencia' /\ Contagem'
    BY <2>1 DEF Controle, Passos, Pedindo, SemCache, Transferencia, Contagem
  <2>3. QED
    BY <2>1, <2>2, CacheIgual DEF IInv
<1>18. QED
  BY <1>1, <1>2, <1>3, <1>4, <1>5, <1>6, <1>7, <1>8, <1>9, <1>10, <1>11, <1>12,
     <1>13, <1>14, <1>15, <1>16, <1>17 DEF SegundoEstagio

LEMMA NextIInv == IInv /\ [Next]_vars => IInv'
<1> SUFFICES ASSUME IInv, [Next]_vars PROVE IInv'
  OBVIOUS
<1>1. CASE LimpaBss
  <2>1. Mantem /\ etapa = 3 /\ pc' = "Inicial"
    BY <1>1, Programa DEF LimpaBss, Mantem, IInv, minix
  <2>2. QED
    BY <2>1, Segue DEF Passos
<1>2. CASE PassoTecla
  <2>1. Mantem /\ etapa = 2 /\ pc' = "a20"
    BY <1>2, Programa DEF PassoTecla, Tecla, Mantem, IInv, minix
  <2>2. QED
    BY <2>1, Segue DEF Passos
<1>3. CASE UNCHANGED vars
  <2>1. Controle' /\ SemCache' /\ Contagem'
    BY <1>3 DEF vars, disco, minix, transfere, IInv, Controle, Pedindo, SemCache, Contagem,
                Limite, M
  <2>2. Transferencia' /\ CacheFiel'
    BY <1>3, Quadro, CacheIgual DEF vars, disco, minix, transfere, IInv, Transferencia,
                Celula, Bloco, CHS, Onde, M
  <2>3. QED
    BY <2>1, <2>2 DEF IInv
<1>4. QED
  BY <1>1, <1>2, <1>3, DiscoIInv, ZonaIInv, MinixIInv, FatIInv, DoisIInv DEF Next, Passo

LEMMA Indutivo == Spec => []IInv
<1>1. QED
  BY InitIInv, NextIInv, PTL DEF Spec

\* Whatever the disks hold and however often the drive fails: when the block
\* number in bloco_pos matches, the buffer holds that block of the drive in use
\* (Estagio2.asm, disco_leia_1kib).
THEOREM CacheSempreFiel == Spec => []CacheFiel
  BY Indutivo, PTL DEF IInv

\* A sector is given up only when it has failed as many times in a row as it is
\* tried, five or six: the count is not shared with the sectors before it.
TentaTudo == [][Desiste => falhas' = Limite]_vars

THEOREM SoDesisteNoLimite == Spec => TentaTudo
<1>1. IInv /\ [Next]_vars => [Desiste => falhas' = Limite]_vars
  BY DEF IInv, Contagem, Desiste, Limite
<1>2. QED
  BY <1>1, Indutivo, PTL DEF Spec, TentaTudo

-----------------------------------------------------------------------------
(* Where the zeros of __start go.  edi is left by rep movsb after the last  *)
(* block copied, or below 1 MiB by the comparison of names when the image   *)
(* has no block; and no file is longer than the zones of an item.           *)

(* A zone of the configuration, of the kernel or of the image is asked for. *)
Lendo == (Pedindo \/ pc = "leu") /\ pedido.volta = "leu"

Fins == {Baixa, ImagemInicio + tam.imagem}

ZonasNaturais ==
    pedido.zona \in Nat /\ dir.bloco \in Nat /\ DOMAIN dir = {"bloco", "sub"}

Enderecos ==
    /\ alvo \in Alvos
    /\ tam \in [{"nucleo", "imagem"} -> 0..Zonas]
    /\ DOMAIN memoria = NucleoInicio..(FimDaMemoria - 1)
    /\ pc = "leu" => pedido.volta = "leu"
    /\ Lendo => /\ alvo # "cfg" => pedido.zona = tam[alvo]
                /\ pc # "carrega" => pedido.zona < Zonas
                /\ alvo = "imagem" => edi \in Fins
    /\ pc = "__start" => edi \in Fins

LEMMA InitEnderecos == Init => Enderecos /\ ZonasNaturais
<1> SUFFICES ASSUME Init PROVE Enderecos /\ ZonasNaturais
  OBVIOUS
<1>1. Zonas \in Nat
  BY MinixFSAssumption DEF Zonas, PorIndice
<1>2. tam = [nucleo |-> 0, imagem |-> 0] /\ alvo = "cfg" /\ pedido.volta = "nada"
      /\ pc \in {"raiz_fat", "extensao"} /\ DOMAIN memoria = NucleoInicio..(FimDaMemoria - 1)
      /\ pedido.zona = 0 /\ dir = [bloco |-> 0, sub |-> 0]
  BY DEF Init
<1>3. tam \in [{"nucleo", "imagem"} -> 0..Zonas]
  BY <1>1, <1>2
<1>4. QED
  BY <1>2, <1>3 DEF Enderecos, Alvos, Lendo, ZonasNaturais

(* The zone asked for is 0, the next one, or the block of the directory.   *)
LEMMA NextZonas == ZonasNaturais /\ [Next]_vars => ZonasNaturais'
<1> SUFFICES ASSUME ZonasNaturais, [Next]_vars PROVE ZonasNaturais'
  OBVIOUS
<1>1. pedido'.zona \in {pedido.zona, pedido.zona + 1, 0, dir.bloco, dir.bloco + 1}
  <2> USE DEF minix, Pede, LeZona, LeBloco, Vazio
  <2>1. CASE PassoZona
    <3>1. CASE ZonaDemais \/ Guarda
      BY <3>1 DEF ZonaDemais, Guarda
    <3>2. CASE ZonaDireta \/ ZonaIndireta \/ Indireto
      <4>1. pedido' = pedido \/ \E p : LeZona(p)
        BY <3>2 DEF ZonaDireta, ZonaIndireta, Indireto
      <4>2. QED
        BY <4>1
    <3>3. QED
      BY <2>1, <3>1, <3>2 DEF PassoZona, Zona
  <2>2. CASE PassoMinix
    BY <2>2 DEF PassoMinix, SetorMinix, Extensao, Superbloco, Confere, GuardaItens, Busca,
                CarregaZona, SaltaMinix
  <2>3. CASE PassoDois
    <3>1. CASE Entra \/ Desvia \/ TestaA20 \/ Abre \/ Identifica \/ MontaMinix \/ Montado
      BY <3>1 DEF Entra, Desvia, TestaA20, Abre, Identifica, MontaMinix, Montado
    <3>2. CASE FimDoDiretorio \/ CfgIlegivel \/ LeCfg \/ FimDoNucleo \/ Protegido
      BY <3>2 DEF FimDoDiretorio, CfgIlegivel, LeCfg, FimDoNucleo, Protegido
    <3>3. CASE Procura \/ OutroBloco \/ OutroNome \/ Encontrado \/ Copia
      BY <3>3 DEF Procura, OutroBloco, OutroNome, Encontrado, Copia
    <3>4. QED
      BY <2>3, <3>1, <3>2, <3>3 DEF PassoDois, SegundoEstagio
  <2>4. CASE PassoDisco \/ PassoFat \/ LimpaBss \/ PassoTecla \/ UNCHANGED vars
    BY <2>4 DEF PassoDisco, PassoFat, LimpaBss, PassoTecla, Tecla, vars
  <2>5. QED
    BY <2>1, <2>2, <2>3, <2>4 DEF Next, Passo
<1>2. dir'.bloco \in {dir.bloco, dir.bloco + 1, 0} /\ DOMAIN dir' = {"bloco", "sub"}
  <2> USE DEF segundoEstagio, ZonasNaturais
  <2>1. CASE PassoDois
    <3>1. CASE Entra \/ Desvia \/ TestaA20 \/ Abre \/ Identifica \/ MontaMinix \/ Montado
      BY <3>1 DEF Entra, Desvia, TestaA20, Abre, Identifica, MontaMinix, Montado
    <3>2. CASE FimDoDiretorio \/ CfgIlegivel \/ LeCfg \/ FimDoNucleo \/ Protegido \/ Copia
      BY <3>2 DEF FimDoDiretorio, CfgIlegivel, LeCfg, FimDoNucleo, Protegido, Copia
    <3>3. CASE Procura \/ OutroBloco
      BY <3>3 DEF Procura, OutroBloco
    <3>4. CASE OutroNome \/ Encontrado
      <4>1. dir' = [dir EXCEPT !.sub = Min(Restantes)]
        BY <3>4 DEF OutroNome, Encontrado
      <4>2. QED
        BY <4>1
    <3>5. QED
      BY <2>1, <3>1, <3>2, <3>3, <3>4 DEF PassoDois, SegundoEstagio
  <2>2. CASE PassoDisco \/ PassoZona \/ PassoMinix \/ PassoFat \/ LimpaBss \/ PassoTecla
             \/ UNCHANGED vars
    BY <2>2 DEF PassoDisco, PassoZona, PassoMinix, PassoFat, LimpaBss, PassoTecla, Tecla, vars
  <2>3. QED
    BY <2>1, <2>2 DEF Next, Passo
<1>3. QED
  BY <1>1, <1>2 DEF ZonasNaturais

(* A step that asks for no zone of the three files.                        *)
LEMMA SemLer ==
    ASSUME Enderecos, alvo' \in Alvos, tam' = tam, DOMAIN memoria' = DOMAIN memoria,
           ~ Lendo', pc' \notin {"leu", "__start"}
    PROVE  Enderecos'
  BY DEF Enderecos

(* A step of a request that is already being answered.                     *)
LEMMA SegueLendo ==
    ASSUME Enderecos, UNCHANGED <<alvo, tam, edi, memoria>>, pc' # "__start",
           pc' = "leu" => pedido'.volta = "leu",
           Lendo' => Lendo /\ pedido'.zona = pedido.zona /\ pedido.zona < Zonas
    PROVE  Enderecos'
  BY DEF Enderecos, Fins

LEMMA SetorDeBootNaoLe ==
    ASSUME Controle', Enderecos, UNCHANGED segundoEstagio, etapa' = 1
    PROVE  Enderecos'
<1>1. ~ Lendo' /\ pc' \notin {"leu", "__start"}
  BY DEF Controle, Passos, Voltas, Lendo
<1>2. QED
  BY <1>1, SemLer DEF segundoEstagio, Enderecos

LEMMA DiscoEnderecos ==
    ASSUME IInv, Enderecos, PassoDisco
    PROVE  Enderecos'
<1> USE DEF PassoDisco, minix, segundoEstagio
<1>1. pedido' = pedido /\ leitura'.apos = leitura.apos /\ pc = "setor"
  BY DEF LeSetor, Falha, Desiste
<1>2. pc' \in {"setor", "parado"} \/ (pc' = leitura.apos /\ leitura.apos \in Depois(etapa))
  BY DEF LeSetor, Falha, Desiste, IInv, Controle
<1>3. pc' \notin {"leu", "__start", "carrega"}
  BY <1>1, <1>2 DEF Depois
<1>4. Lendo' => Lendo
  BY <1>1, <1>2, <1>3 DEF Lendo, Pedindo
<1>5. Lendo => pedido.zona < Zonas
  BY <1>1 DEF Enderecos
<1>6. QED
  BY <1>1, <1>3, <1>4, <1>5, SegueLendo

LEMMA VazioEnderecos ==
    ASSUME Enderecos, UNCHANGED segundoEstagio, Pedindo, pedido.zona < Zonas, Vazio,
           pedido.volta # "__start"
    PROVE  Enderecos'
<1>1. pc' = pedido.volta /\ pedido' = pedido
  BY DEF Vazio
<1>2. Lendo' => Lendo
  BY <1>1 DEF Lendo
<1>3. QED
  BY <1>1, <1>2, SegueLendo DEF segundoEstagio

LEMMA LeZonaEnderecos ==
    ASSUME Enderecos, UNCHANGED segundoEstagio, Pedindo, pedido.zona < Zonas, NEW p, LeZona(p),
           pedido.volta # "__start"
    PROVE  Enderecos'
<1>1. pedido'.volta = pedido.volta /\ pedido'.zona = pedido.zona
  BY DEF LeZona, LeBloco
<1>2. pc' = "setor" \/ pc' = pedido.volta
  BY DEF LeZona, LeBloco, Comeca
<1>3. Lendo' => Lendo
  BY <1>1 DEF Lendo
<1>4. QED
  BY <1>1, <1>2, <1>3, SegueLendo DEF segundoEstagio

LEMMA ZonaEnderecos ==
    ASSUME IInv, ZonasNaturais, Enderecos, PassoZona
    PROVE  Enderecos'
<1>1. UNCHANGED segundoEstagio /\ Zonas \in Nat /\ Diretas \in Nat /\ Zonas = Diretas + PorIndice
  BY MinixFSAssumption DEF PassoZona, Zonas, PorIndice
<1>2. Pedindo => pedido.volta \in Voltas(etapa) /\ pedido.volta # "__start"
  BY DEF IInv, Controle, Voltas
<1>3. CASE ZonaDemais
  <2>1. pc' = "parado"
    BY <1>3 DEF ZonaDemais
  <2>2. ~ Lendo'
    BY <2>1 DEF Lendo, Pedindo
  <2>3. QED
    BY <1>1, <2>1, <2>2, SemLer DEF segundoEstagio, Enderecos
<1>4. CASE ZonaDireta
  <2>1. Pedindo /\ pedido.zona < Diretas
    BY <1>4 DEF ZonaDireta, Pedindo
  <2>2. Vazio \/ \E p : LeZona(p)
    BY <1>4 DEF ZonaDireta
  <2>3. pedido.zona < Zonas
    <3>1. PorIndice \in Nat
      BY MinixFSAssumption DEF PorIndice
    <3>2. QED
      BY <1>1, <2>1, <3>1 DEF ZonasNaturais
  <2>4. QED
    BY <1>1, <1>2, <2>1, <2>2, <2>3, VazioEnderecos, LeZonaEnderecos
<1>5. CASE ZonaIndireta
  <2>1. Pedindo /\ pedido.zona < Zonas /\ pc = "carrega"
    <3>1. pedido.zona \in Diretas..(Diretas + PorIndice - 1) /\ pc = "carrega"
      BY <1>5 DEF ZonaIndireta
    <3>2. PorIndice \in Nat
      BY MinixFSAssumption DEF PorIndice
    <3>3. QED
      BY <1>1, <3>1, <3>2 DEF Pedindo
  <2>2. Vazio \/ \E p : Comeca(2 * p, 2, "indireto") /\ pedido' = pedido
    BY <1>5 DEF ZonaIndireta
  <2>3. ASSUME NEW p, Comeca(2 * p, 2, "indireto"), pedido' = pedido PROVE Enderecos'
    <3>1. pc' = "setor"
      BY <2>3 DEF Comeca
    <3>2. Lendo' => Lendo
      BY <2>1, <2>3 DEF Lendo
    <3>3. QED
      BY <1>1, <2>1, <2>3, <3>1, <3>2, SegueLendo DEF segundoEstagio
  <2>4. QED
    BY <1>1, <1>2, <2>1, <2>2, <2>3, VazioEnderecos
<1>6. CASE Indireto
  <2>1. Pedindo /\ pc = "indireto"
    BY <1>6 DEF Indireto, Pedindo
  <2>2. Vazio \/ \E p : LeZona(p)
    BY <1>6 DEF Indireto
  <2>3. CASE pedido.volta = "leu"
    <3>1. pedido.zona < Zonas
      BY <2>1, <2>3 DEF Enderecos, Lendo
    <3>2. QED
      BY <1>1, <1>2, <2>1, <2>2, <3>1, VazioEnderecos, LeZonaEnderecos
  <2>4. CASE pedido.volta # "leu"
    <3>1. pedido'.volta = pedido.volta /\ (pc' = "setor" \/ pc' = pedido.volta)
      BY <2>2 DEF Vazio, LeZona, LeBloco, Comeca
    <3>2. ~ Lendo' /\ pc' \notin {"leu", "__start"}
      BY <1>2, <2>1, <2>4, <3>1 DEF Lendo
    <3>3. QED
      BY <1>1, <3>2, SemLer DEF segundoEstagio, Enderecos
  <2>5. QED
    BY <2>3, <2>4
<1>7. CASE Guarda
  <2>1. pc = "guarda" /\ pc' = pedido.volta /\ pedido' = pedido /\ Pedindo
    BY <1>7 DEF Guarda, Pedindo
  <2>2. Lendo' => Lendo
    BY <2>1 DEF Lendo
  <2>3. Lendo => pedido.zona < Zonas
    BY <2>1 DEF Enderecos
  <2>4. QED
    BY <1>1, <1>2, <2>1, <2>2, <2>3, SegueLendo DEF segundoEstagio
<1>8. QED
  BY <1>3, <1>4, <1>5, <1>6, <1>7 DEF PassoZona, Zona

(* Where the second stage asks for a zone, and where it does not.          *)
LEMMA DoisEnderecos ==
    ASSUME IInv, IInv', Enderecos, PassoDois
    PROVE  Enderecos'
<1>1. CASE Entra \/ Desvia \/ TestaA20 \/ MontaMinix \/ FimDoDiretorio \/ CfgIlegivel
  <2>1. /\ UNCHANGED <<alvo, tam, memoria>>
        /\ \/ pc' \in {"a20", "abre", "parado", "tecla", "perdida"}
           \/ pc' = "setor" /\ leitura'.apos = "montado"
    BY <1>1 DEF Entra, Desvia, TestaA20, MontaMinix, FimDoDiretorio, CfgIlegivel,
                segundoEstagio, Comeca
  <2>2. ~ Lendo'
    BY <2>1 DEF Lendo, Pedindo
  <2>3. QED
    BY <2>1, <2>2, SemLer DEF Enderecos
<1>2. CASE Abre \/ Identifica
  <2>1. /\ UNCHANGED <<alvo, tam, memoria>>
        /\ \/ pc' = "parado"
           \/ pedido'.volta # "leu" /\ pc' \in {"identifica", "monta", "setor"}
    BY <1>2 DEF Abre, Identifica, LeBloco, segundoEstagio, Comeca
  <2>2. ~ Lendo'
    BY <2>1 DEF Lendo, Pedindo
  <2>3. QED
    BY <2>1, <2>2, SemLer DEF Enderecos
<1>3. CASE Montado \/ LeCfg \/ FimDoNucleo
  <2>1. alvo' \in Alvos /\ UNCHANGED <<tam, memoria>> /\ pc' = "procura"
    BY <1>3 DEF Montado, LeCfg, FimDoNucleo, Alvos
  <2>2. ~ Lendo'
    BY <2>1 DEF Lendo, Pedindo
  <2>3. QED
    BY <2>1, <2>2, SemLer
<1>4. CASE Procura \/ OutroBloco \/ OutroNome
  <2>1. /\ UNCHANGED <<alvo, tam, memoria>>
        /\ pc' = "carrega" /\ pedido'.volta = "proximo"
    BY <1>4 DEF Procura, OutroBloco, OutroNome, Pede
  <2>2. ~ Lendo'
    BY <2>1 DEF Lendo
  <2>3. QED
    BY <2>1, <2>2, SemLer DEF Enderecos
<1>5. CASE Encontrado
  <2>1. /\ alvo' = alvo /\ memoria' = memoria /\ edi' = Baixa /\ pc' = "carrega"
        /\ pedido'.zona = 0 /\ pedido'.volta = "leu"
        /\ tam' = IF alvo = "cfg" THEN tam ELSE [tam EXCEPT ![alvo] = 0]
    BY <1>5 DEF Encontrado, Pede
  <2>2. Zonas \in Nat /\ alvo \in {"cfg", "nucleo", "imagem"}
    BY MinixFSAssumption DEF Zonas, PorIndice, Enderecos, Alvos
  <2>3. tam' \in [{"nucleo", "imagem"} -> 0..Zonas] /\ (alvo # "cfg" => tam'[alvo] = 0)
    BY <2>1, <2>2 DEF Enderecos
  <2>4. QED
    BY <2>1, <2>3 DEF Enderecos, Fins
<1>6. CASE Copia
  <2>1. /\ pc = "leu" /\ alvo # "cfg" /\ alvo' = alvo
        /\ memoria' = [memoria EXCEPT ![Destino + tam[alvo]] = bloco]
        /\ tam' = [tam EXCEPT ![alvo] = @ + 1]
        /\ edi' = Destino + tam[alvo] + 1
        /\ pc' = "carrega" /\ pedido'.zona = pedido.zona + 1 /\ pedido'.volta = "leu"
    BY <1>6 DEF Copia, Pede
  <2>2. Lendo
    BY <2>1 DEF Enderecos, Lendo
  <2>3. alvo \in {"nucleo", "imagem"} /\ tam[alvo] \in Nat /\ tam[alvo] < Zonas /\ Zonas \in Nat
    <3>1. alvo \in {"nucleo", "imagem"} /\ Zonas \in Nat
      BY <2>1, MinixFSAssumption DEF Enderecos, Alvos, Zonas, PorIndice
    <3>2. tam[alvo] \in 0..Zonas /\ pedido.zona = tam[alvo] /\ pedido.zona < Zonas
      BY <2>1, <2>2, <3>1 DEF Enderecos
    <3>3. QED
      BY <3>1, <3>2
  <2>4. tam' \in [{"nucleo", "imagem"} -> 0..Zonas] /\ tam'[alvo] = tam[alvo] + 1
    BY <2>1, <2>3 DEF Enderecos
  <2>5. DOMAIN memoria' = DOMAIN memoria
    BY <2>1
  <2>6. pedido'.zona = tam'[alvo]
    BY <2>1, <2>2, <2>4 DEF Enderecos
  <2>7. alvo = "imagem" => edi' = ImagemInicio + tam'.imagem
    BY <2>1, <2>3, <2>4, Estagio2Assumption DEF Destino
  <2>8. QED
    BY <2>1, <2>4, <2>5, <2>6, <2>7 DEF Enderecos, Fins
<1>7. CASE Protegido
  <2>1. pc = "leu" /\ alvo = "imagem" /\ pc' = "__start" /\ UNCHANGED <<alvo, tam, edi, memoria>>
    BY <1>7 DEF Protegido, segundoEstagio
  <2>2. edi \in Fins /\ ~ Lendo'
    BY <2>1 DEF Enderecos, Lendo, Pedindo
  <2>3. QED
    BY <2>1, <2>2 DEF Enderecos, Fins
<1>8. QED
  BY <1>1, <1>2, <1>3, <1>4, <1>5, <1>6, <1>7 DEF PassoDois, SegundoEstagio

LEMMA NextEnderecos == IInv /\ IInv' /\ ZonasNaturais /\ Enderecos /\ [Next]_vars => Enderecos'
<1> SUFFICES ASSUME IInv, IInv', ZonasNaturais, Enderecos, [Next]_vars PROVE Enderecos'
  OBVIOUS
<1>1. CASE PassoMinix \/ PassoFat
  <2>1. UNCHANGED segundoEstagio /\ (etapa' = 1 \/ pc' = "inicial")
    BY <1>1, Programa
    DEF IInv, PassoMinix, PassoFat, SetorMinix, Extensao, Superbloco, Confere, GuardaItens,
        Busca, CarregaZona, SaltaMinix, SetorFat, Monta, BuscaFat, GuardaTabela, LeConjunto,
        SegueCadeia, SaltaFat
  <2>2. CASE etapa' = 1
    BY <2>1, <2>2, SetorDeBootNaoLe DEF IInv
  <2>3. CASE pc' = "inicial"
    <3>1. ~ Lendo'
      BY <2>3 DEF Lendo, Pedindo
    <3>2. QED
      BY <2>1, <2>3, <3>1, SemLer DEF segundoEstagio, Enderecos
  <2>4. QED
    BY <2>1, <2>2, <2>3
<1>2. CASE LimpaBss \/ PassoTecla
  <2>1. pc' \in {"Inicial", "a20"} /\ UNCHANGED <<alvo, tam>> /\ DOMAIN memoria' = DOMAIN memoria
    BY <1>2 DEF LimpaBss, PassoTecla, Tecla, segundoEstagio
  <2>2. ~ Lendo'
    BY <2>1 DEF Lendo, Pedindo
  <2>3. QED
    BY <2>1, <2>2, SemLer DEF Enderecos
<1>3. CASE UNCHANGED vars
  BY <1>3 DEF vars, disco, minix, transfere, segundoEstagio, Enderecos, Lendo, Pedindo, Fins
<1>4. QED
  BY <1>1, <1>2, <1>3, DiscoEnderecos, ZonaEnderecos, DoisEnderecos DEF Next, Passo

(* The zeros go to no address of the files.                                *)
LEMMA ZerosLonge ==
    ASSUME Enderecos, LimpaBss
    PROVE  /\ tam' = tam
           /\ \A i \in 1..tam.nucleo : memoria'[NucleoInicio + i - 1] = memoria[NucleoInicio + i - 1]
           /\ \A i \in 1..tam.imagem : memoria'[ImagemInicio + i - 1] = memoria[ImagemInicio + i - 1]
<1>1. /\ tam' = tam
      /\ memoria' = [e \in DOMAIN memoria |->
                        IF e \in edi..(edi + TamBss - 1) THEN Zeros ELSE memoria[e]]
  BY DEF LimpaBss
<1>2. /\ NucleoInicio \in Nat \ {0} /\ TamBss \in 1..NucleoInicio
      /\ Zonas \in Nat /\ NucleoInicio + Zonas <= ImagemInicio
      /\ ImagemInicio + Zonas <= FimDaMemoria
  BY Estagio2Assumption, InicializacaoAssumption, MinixFSAssumption DEF Zonas, PorIndice
<1>3. /\ tam.nucleo \in 0..Zonas /\ tam.imagem \in 0..Zonas
      /\ edi = 0 \/ edi = ImagemInicio + tam.imagem
      /\ DOMAIN memoria = NucleoInicio..(FimDaMemoria - 1)
      /\ ImagemInicio \in Nat /\ FimDaMemoria \in Nat
  BY Estagio2Assumption DEF Enderecos, LimpaBss, Fins, Baixa
<1>4. ASSUME NEW e \in DOMAIN memoria, e < ImagemInicio + tam.imagem
      PROVE  memoria'[e] = memoria[e]
  <2>1. e \notin edi..(edi + TamBss - 1)
    BY <1>2, <1>3, <1>4
  <2>2. QED
    BY <1>1, <2>1
<1>5. ASSUME NEW i \in 1..tam.nucleo
      PROVE  memoria'[NucleoInicio + i - 1] = memoria[NucleoInicio + i - 1]
  <2>1. NucleoInicio + i - 1 \in NucleoInicio..(FimDaMemoria - 1)
    BY <1>2, <1>3
  <2>2. NucleoInicio + i - 1 < ImagemInicio + tam.imagem
    BY <1>2, <1>3
  <2>3. QED
    BY <1>3, <1>4, <2>1, <2>2
<1>6. ASSUME NEW i \in 1..tam.imagem
      PROVE  memoria'[ImagemInicio + i - 1] = memoria[ImagemInicio + i - 1]
  <2>1. ImagemInicio + i - 1 \in NucleoInicio..(FimDaMemoria - 1)
    BY <1>2, <1>3
  <2>2. ImagemInicio + i - 1 < ImagemInicio + tam.imagem
    BY <1>2, <1>3
  <2>3. QED
    BY <1>3, <1>4, <2>1, <2>2
<1>7. QED
  BY <1>1, <1>5, <1>6

\* The zeros that the kernel writes at edi instead of at its bss
\* (Nucleo/Inicial.asm) touch no block of the kernel nor of the image, whatever
\* their sizes and even when the image has no block.
BssForaDaCarga ==
    [][LimpaBss => /\ Blocos("nucleo", NucleoInicio)' = Blocos("nucleo", NucleoInicio)
                   /\ Blocos("imagem", ImagemInicio)' = Blocos("imagem", ImagemInicio)]_vars

THEOREM BssNaoApaga == Spec => BssForaDaCarga
<1> DEFINE A == /\ Blocos("nucleo", NucleoInicio)' = Blocos("nucleo", NucleoInicio)
                /\ Blocos("imagem", ImagemInicio)' = Blocos("imagem", ImagemInicio)
<1>1. ASSUME Enderecos, LimpaBss PROVE A
  BY <1>1, ZerosLonge DEF Blocos
<1>2. QED
  BY <1>1, Indutivo, InitEnderecos, NextZonas, NextEnderecos, PTL DEF Spec, BssForaDaCarga

-----------------------------------------------------------------------------
(* Zones asked for are zones of the file.  On a disk that does not deceive, *)
(* the table in memory is the table of the disk (Montada), a request is of  *)
(* an item in it (Pergunta), and what is under way to answer it is what the *)
(* file system gives for its item and zone (Resposta).                      *)

Bons == Serve /\ M.setor = "minix"

Perguntas == {"busca", "zona", "proximo", "leu"}

(* The transfer for p, a block of two sectors.                             *)
DoBloco(p) ==
    \/ leitura.resta = 2 /\ leitura.lba = 2 * p /\ lido = <<>>
    \/ leitura.resta = 1 /\ leitura.lba = 2 * p + 1 /\ lido = <<CelulaEm(maquina, 2 * p)>>

Trecho(a, n) == [j \in 1..n |-> CelulaEm(maquina, a + j - 1)]

(* The transfer of n sectors from a, some of them read.                    *)
Vem(a, n) ==
    LET k == leitura.lba - a
    IN  k \in Nat /\ leitura.lba = a + k /\ leitura.resta = n - k /\ lido = Trecho(a, k)

BaseItens == 2 * PosItens(SuperEm(maquina))
SetoresItens == 2 * BlocosItens(SuperEm(maquina))

(* Before the table is in memory, and the steps that only FAT12.asm has.   *)
Antes1 ==
    \/ pc \in {"extensao", "superbloco", "confere", "itens"}
    \/ pc = "setor" /\ etapa = 1 /\ leitura.apos \in {"superbloco", "confere", "itens"}
SoFat == {"raiz_fat", "busca_fat", "tabela", "conjunto", "conj_lido", "salta"}

NoDrive == maquina \in DOMAIN Maquinas /\ geo = Geometria /\ unidade = M.boot

NaUnidade ==
    /\ NoDrive
    /\ dir.sub \in Int /\ dir.sub >= -1
    /\ pc \notin SoFat /\ (pc = "setor" => leitura.apos \notin SoFat)

TabelaVem ==
    /\ pc = "setor" /\ leitura.apos = "confere" =>
           leitura.lba = 2 /\ leitura.resta = 1 /\ lido = <<>>
    /\ pc = "confere" => lido = <<CelulaEm(maquina, 2)>>
    /\ pc = "setor" /\ leitura.apos \in {"itens", "montado"} =>
           SuperEm(maquina).magico /\ Vem(BaseItens, SetoresItens)
    /\ pc \in {"itens", "montado"} =>
           /\ SuperEm(maquina).magico
           /\ lido = Trecho(BaseItens, SetoresItens)

Montada ==
    ~ Antes1 /\ pc \notin {"parado", "perdida"} =>
        SuperEm(maquina).magico /\ itens = Trecho(BaseItens, SetoresItens)

\* A block of the second stage that is not of a file: the superblock.
Identificando ==
    /\ pc \in {"identifica", "monta"} => bloco = BlocoEm(maquina, 1)
    /\ /\ pc = "guarda" \/ (pc = "setor" /\ leitura.apos = "guarda")
       /\ pedido.volta \in {"identifica", "monta"}
       => pedido.bloco = 1
    /\ pc \in {"carrega", "indireto"} \/ (pc = "setor" /\ leitura.apos = "indireto") =>
           pedido.volta \in Perguntas

Querendo ==
    /\ pedido.volta \in Perguntas
    /\ pc = pedido.volta \/ Pedindo \/ (pc = "setor" /\ leitura.apos = pedido.volta)

Pergunta ==
    /\ pc \in Perguntas => pedido.volta = pc
    /\ pc = "setor" /\ leitura.apos \in {"busca", "zona"} => pedido.volta = leitura.apos
    /\ Querendo => /\ pedido.item \in NaTabela(maquina)
                   /\ pedido.volta \in {"busca", "proximo"} => pedido.item = 1
                   /\ pc # "carrega" => pedido.zona < Zonas

AZona == ZonaEm(maquina, pedido.item, pedido.zona)
OIndireto == ItemEm(maquina, pedido.item)[Diretas + 1]

Resposta ==
    Querendo =>
        /\ pc = "guarda" \/ (pc = "setor" /\ leitura.apos = "guarda") =>
               pedido.bloco = AZona /\ AZona # 0
        /\ pc = "setor" /\ leitura.apos = pedido.volta => AZona # 0 /\ cf /\ DoBloco(AZona)
        /\ pc = "setor" /\ leitura.apos = "indireto" =>
               pedido.zona >= Diretas /\ OIndireto # 0 /\ DoBloco(OIndireto)
        /\ pc = "indireto" =>
               pedido.zona >= Diretas /\ OIndireto # 0 /\ lido = BlocoEm(maquina, OIndireto)
        /\ pc = pedido.volta =>
               /\ cf <=> AZona # 0
               /\ cf => (IF etapa = 1 THEN lido ELSE bloco) = BlocoEm(maquina, AZona)

NoVolume == Bons => NaUnidade /\ TabelaVem /\ Montada /\ Identificando /\ Pergunta /\ Resposta

LEMMA Fatos ==
    ASSUME NoVolume, Bons
    PROVE  Integro(maquina) /\ NoDrive /\ NaUnidade /\ TabelaVem /\ Montada /\ Identificando /\ Pergunta /\ Resposta
  BY VolumeAssumption DEF NoVolume, NaUnidade, NoDrive, Bons, Serve, M

LEMMA Enderecada ==
    ASSUME NoDrive
    PROVE  /\ \A x : Celula(x) = CelulaEm(maquina, x)
           /\ \A p : Bloco(p) = BlocoEm(maquina, p)
  BY DEF NoDrive, Celula, CelulaEm, Bloco, BlocoEm, M

LEMMA SetorDaMaquina == \A c : Setor(c) = SetorDa(maquina, c)
  BY DEF Setor, SetorDa, M

LEMMA TabelaTipo ==
    ASSUME Integro(maquina), SuperEm(maquina).magico
    PROVE  /\ BaseItens \in Nat /\ SetoresItens \in Nat /\ PosItens(SuperEm(maquina)) \in Nat
           /\ NaTabela(maquina) = 1..(SetoresItens * ItensPorSetor)
<1> DEFINE s == SuperEm(maquina)
<1>1. s.mapas \in Nat /\ s.itensTotal \in Nat
  BY DEF Integro
<1>2. ItensPorBloco \in Nat \ {0}
  BY MinixFSAssumption DEF ItensPorBloco
<1> HIDE DEF s
<1>3. s.itensTotal \div ItensPorBloco \in Nat
  BY <1>1, <1>2
<1>4. QED
  BY <1>1, <1>3 DEF BaseItens, SetoresItens, PosItens, BlocosItens, NaTabela, s

LEMMA Cociente ==
    ASSUME NEW a \in Nat, NEW b \in Nat \ {0}, NEW c \in Nat, a < c * b
    PROVE  a \div b \in 0..(c - 1)
<1> DEFINE q == a \div b
<1>1. q \in Nat /\ a >= q * b
  BY SMT
<1> HIDE DEF q
<1>2. ASSUME q >= c PROVE FALSE
  <2>1. PICK d \in Nat : q = c + d
    <3>1. q - c \in Nat /\ q = c + (q - c)
      BY <1>1, <1>2
    <3>2. QED
      BY <3>1
  <2>2. q * b = c * b + d * b
    BY <2>1
  <2>3. d * b \in Nat /\ c * b \in Nat /\ q * b \in Nat
    BY <1>1, <2>1
  <2>4. QED
    BY <1>1, <2>2, <2>3
<1>3. QED
  BY <1>1, <1>2 DEF q

LEMMA TrechoTipo ==
    ASSUME NEW a \in Int, NEW n \in Nat
    PROVE  /\ Trecho(a, n) \in Seq({CelulaEm(maquina, x) : x \in Int})
           /\ Len(Trecho(a, n)) = n
           /\ \A j \in 1..n : Trecho(a, n)[j] = CelulaEm(maquina, a + j - 1)
<1> DEFINE S == {CelulaEm(maquina, x) : x \in Int}
<1>1. \A j \in 1..n : CelulaEm(maquina, a + j - 1) \in S
  OBVIOUS
<1> HIDE DEF S
<1>2. Trecho(a, n) \in [1..n -> S]
  BY <1>1 DEF Trecho
<1>3. Trecho(a, n) \in Seq(S) /\ Len(Trecho(a, n)) = n
  BY <1>2
<1>4. QED
  BY <1>3 DEF Trecho, S

LEMMA TrechoVazio == ASSUME NEW a \in Int PROVE Trecho(a, 0) = <<>>
<1>1. Trecho(a, 0) \in Seq({CelulaEm(maquina, x) : x \in Int}) /\ Len(Trecho(a, 0)) = 0
  BY TrechoTipo
<1>2. QED
  BY <1>1, EmptySeq

LEMMA TrechoMais ==
    ASSUME NEW a \in Int, NEW n \in Nat
    PROVE  Append(Trecho(a, n), CelulaEm(maquina, a + n)) = Trecho(a, n + 1)
<1> DEFINE S == {CelulaEm(maquina, x) : x \in Int}
           s == Trecho(a, n)
           t == Trecho(a, n + 1)
           c == CelulaEm(maquina, a + n)
<1>1. s \in Seq(S) /\ Len(s) = n /\ \A j \in 1..n : s[j] = CelulaEm(maquina, a + j - 1)
  BY TrechoTipo
<1>2. t \in Seq(S) /\ Len(t) = n + 1 /\ \A j \in 1..(n + 1) : t[j] = CelulaEm(maquina, a + j - 1)
  BY TrechoTipo
<1>3. c \in S /\ c = CelulaEm(maquina, a + (n + 1) - 1)
  <2>1. a + n \in Int /\ a + (n + 1) - 1 = a + n
    OBVIOUS
  <2>2. QED
    BY <2>1
<1> HIDE DEF S, s, t, c
<1>4. /\ Append(s, c) \in Seq(S) /\ Len(Append(s, c)) = n + 1
      /\ \A j \in 1..n : Append(s, c)[j] = s[j]
      /\ Append(s, c)[n + 1] = c
  BY <1>1, <1>3
<1>5. \A j \in 1..(n + 1) : Append(s, c)[j] = t[j]
  <2>1. TAKE j \in 1..(n + 1)
  <2>2. CASE j = n + 1
    BY <1>2, <1>3, <1>4, <2>2
  <2>3. CASE j # n + 1
    <3>1. j \in 1..n
      BY <2>3
    <3>2. QED
      BY <1>1, <1>2, <1>4, <3>1
  <2>4. QED
    BY <2>2, <2>3
<1>6. Append(s, c) = t
  BY <1>2, <1>4, <1>5, SeqEqual
<1>7. QED
  BY <1>6 DEF s, t, c

LEMMA TrechoComeca ==
    ASSUME NEW a \in Nat, NEW n \in Nat, NEW apos, Comeca(a, n, apos), maquina' = maquina
    PROVE  Vem(a, n)'
<1>1. leitura' = [lba |-> a, resta |-> n, apos |-> apos] /\ lido' = <<>>
  BY DEF Comeca
<1>2. leitura'.lba = a /\ leitura'.lba - a = 0 /\ leitura'.resta = n - 0
  BY <1>1
<1>3. Trecho(a, 0) = <<>> /\ Trecho(a, 0)' = Trecho(a, 0)
  BY TrechoVazio DEF Trecho
<1>4. QED
  BY <1>1, <1>2, <1>3 DEF Vem

LEMMA TrechoLido ==
    ASSUME NoDrive, LeSetor, NEW a \in Nat, NEW n \in Nat, Vem(a, n)
    PROVE  \/ pc' = "setor" /\ Vem(a, n)'
           \/ pc' = leitura.apos /\ lido' = Trecho(a, n)
<1>1. /\ lido' = Append(lido, CelulaEm(maquina, leitura.lba))
      /\ leitura'.lba = leitura.lba + 1 /\ leitura'.resta = leitura.resta - 1
      /\ pc' = IF leitura.resta = 1 THEN leitura.apos ELSE "setor"
      /\ maquina' = maquina
  BY DEF LeSetor, NoDrive, CelulaEm, M
<1> DEFINE k == leitura.lba - a
<1>2. k \in Nat /\ leitura.lba = a + k /\ leitura.resta = n - k /\ lido = Trecho(a, k)
  BY DEF Vem
<1>3. PICK h \in Nat : h = k
  BY <1>2
<1> HIDE DEF k
<1>4. leitura'.lba = a + (h + 1) /\ leitura'.lba - a = h + 1 /\ leitura'.resta = n - (h + 1)
  BY <1>1, <1>2, <1>3
<1>5. lido' = Trecho(a, h + 1)
  <2>1. Append(Trecho(a, h), CelulaEm(maquina, a + h)) = Trecho(a, h + 1)
    <3>1. a \in Int
      OBVIOUS
    <3>2. QED
      BY <3>1, TrechoMais
  <2>2. leitura.lba = a + h /\ lido = Trecho(a, h)
    BY <1>2, <1>3
  <2>3. QED
    BY <1>1, <2>1, <2>2
<1>6. Trecho(a, h + 1)' = Trecho(a, h + 1)
  BY <1>1 DEF Trecho
<1>7. CASE leitura.resta = 1
  <2>1. h + 1 = n
    BY <1>2, <1>3, <1>7
  <2>2. QED
    BY <1>1, <1>5, <1>7, <2>1
<1>8. CASE leitura.resta # 1
  <2>1. h + 1 \in Nat
    BY <1>3
  <2>2. Vem(a, n)'
    BY <1>4, <1>5, <1>6, <2>1 DEF Vem
  <2>3. QED
    BY <1>1, <1>8, <2>2
<1>9. QED
  BY <1>7, <1>8

(* A pointer of an item in the table, read from the table in memory.       *)
LEMMA DaTabela ==
    ASSUME Integro(maquina), SuperEm(maquina).magico, itens = Trecho(BaseItens, SetoresItens),
           NEW n \in NaTabela(maquina), NEW z
    PROVE  Ponteiros(n, z) = {ItemEm(maquina, n)[z]}
<1> DEFINE q == (n - 1) \div ItensPorSetor
<1>1. /\ BaseItens \in Nat /\ SetoresItens \in Nat /\ ItensPorSetor \in Nat \ {0}
      /\ n \in 1..(SetoresItens * ItensPorSetor)
  BY TabelaTipo, MinixFSAssumption
<1>2. Len(itens) = SetoresItens /\ \A j \in 1..SetoresItens : itens[j] = CelulaEm(maquina, BaseItens + j - 1)
  <2>1. BaseItens \in Int
    BY <1>1
  <2>2. QED
    BY <1>1, <2>1, TrechoTipo
<1>3. q \in 0..(SetoresItens - 1)
  <2>1. SetoresItens * ItensPorSetor \in Nat
    BY <1>1
  <2>2. n - 1 \in Nat /\ n - 1 < SetoresItens * ItensPorSetor
    BY <1>1, <2>1
  <2>3. QED
    BY <1>1, <2>2, Cociente
<1> HIDE DEF q
<1>4. q + 1 \in 1..SetoresItens /\ BaseItens + (q + 1) - 1 = BaseItens + q
  BY <1>1, <1>3
<1>5. itens[q + 1] = CelulaEm(maquina, BaseItens + q)
  BY <1>2, <1>4
<1>6. Ponteiros(n, z) = {SetorDa(maquina, CelulaEm(maquina, BaseItens + q)).itens[((n - 1) % ItensPorSetor) + 1][z]}
  BY <1>1, <1>2, <1>5, SetorDaMaquina DEF Ponteiros, q
<1>7. QED
  BY <1>6 DEF ItemEm, BaseItens, q

(* What one sector read does to a transfer.                                *)
LEMMA BlocoLido ==
    ASSUME NoDrive, LeSetor, NEW p, DoBloco(p), leitura.apos # "setor"
    PROVE  /\ pc' = "setor" => DoBloco(p)'
           /\ pc' # "setor" => pc' = leitura.apos /\ lido' = BlocoEm(maquina, p)
<1>1. /\ lido' = Append(lido, CelulaEm(maquina, leitura.lba))
      /\ leitura'.lba = leitura.lba + 1 /\ leitura'.resta = leitura.resta - 1
      /\ pc' = IF leitura.resta = 1 THEN leitura.apos ELSE "setor"
      /\ maquina' = maquina
  BY DEF LeSetor, NoDrive, CelulaEm, M
<1>2. CASE leitura.resta = 2 /\ leitura.lba = 2 * p /\ lido = <<>>
  <2>1. lido' = <<CelulaEm(maquina, 2 * p)>>
    BY <1>1, <1>2
  <2>2. pc' = "setor" /\ leitura'.lba = 2 * p + 1 /\ leitura'.resta = 1
    BY <1>1, <1>2
  <2>3. QED
    BY <1>1, <2>1, <2>2 DEF DoBloco
<1>3. CASE leitura.resta = 1 /\ leitura.lba = 2 * p + 1 /\ lido = <<CelulaEm(maquina, 2 * p)>>
  <2>1. lido' = BlocoEm(maquina, p)
    BY <1>1, <1>3, Acrescenta DEF BlocoEm
  <2>2. pc' = leitura.apos
    BY <1>1, <1>3
  <2>3. QED
    BY <1>1, <1>3, <2>1, <2>2 DEF DoBloco
<1>4. QED
  BY <1>2, <1>3 DEF DoBloco

(* A step after which no transfer runs and no request is open.             *)
LEMMA Calmo ==
    ASSUME IInv, NoVolume, UNCHANGED <<maquina, geo, itens>>, Bons => unidade' = unidade,
           Bons => dir'.sub \in Int /\ dir'.sub >= -1,
           pc' \in {"parado", "perdida", "inicial", "a20", "abre", "tecla", "procura", "__start",
                    "Inicial"},
           pc' \in {"parado", "perdida"} \/ (~ Antes1 /\ pc \notin {"parado", "perdida"})
    PROVE  NoVolume'
<1> SUFFICES ASSUME Bons'
             PROVE  NaUnidade' /\ TabelaVem' /\ Montada' /\ Identificando' /\ Pergunta' /\ Resposta'
  BY DEF NoVolume
<1>1. Bons /\ NaUnidade /\ Montada
  BY Fatos DEF Bons, Serve, M
<1>2. NaUnidade'
  BY <1>1 DEF NaUnidade, NoDrive, SoFat, M
<1>3. ~ Querendo'
  BY DEF Querendo, Pedindo, Perguntas
<1>4. TabelaVem' /\ Identificando' /\ Pergunta' /\ Resposta'
  BY <1>3 DEF TabelaVem, Identificando, Pergunta, Resposta, Perguntas
<1>5. Montada'
  BY <1>1 DEF Montada, BaseItens, SetoresItens, Trecho
<1>6. QED
  BY <1>2, <1>4, <1>5

(* A request for a zone.                                                   *)
LEMMA PedeVolume ==
    ASSUME IInv, NoVolume, UNCHANGED <<maquina, geo, unidade>>,
           Bons => dir'.sub \in Int /\ dir'.sub >= -1,
           NEW n, NEW z, NEW volta \in Perguntas, Pede(n, z, volta),
           Bons => n \in NaTabela(maquina),
           volta \in {"busca", "proximo"} => n = 1,
           Bons => /\ SuperEm(maquina).magico
                   /\ itens' = Trecho(BaseItens, SetoresItens)
    PROVE  NoVolume'
<1> SUFFICES ASSUME Bons'
             PROVE  NaUnidade' /\ TabelaVem' /\ Montada' /\ Identificando' /\ Pergunta' /\ Resposta'
  BY DEF NoVolume
<1>1. Bons /\ NaUnidade
  BY Fatos DEF Bons, Serve, M
<1>2. pc' = "carrega" /\ pedido' = [item |-> n, zona |-> z, volta |-> volta, bloco |-> 0]
  BY DEF Pede
<1>3. NaUnidade' /\ TabelaVem' /\ Identificando'
  BY <1>1, <1>2 DEF NaUnidade, NoDrive, SoFat, M, TabelaVem, Identificando
<1>4. Montada'
  BY <1>1 DEF Montada, BaseItens, SetoresItens, Trecho
<1>5. Pergunta'
  BY <1>1, <1>2 DEF Pergunta, Perguntas
<1>6. Resposta'
  BY <1>2 DEF Resposta, Perguntas
<1>7. QED
  BY <1>3, <1>4, <1>5, <1>6

(* The answers to a request under way.                                     *)
Parado == UNCHANGED <<maquina, etapa, unidade, geo, itens, bloco, cache, dir>>

LEMMA NaoAntes ==
    ASSUME pc \in {"carrega", "indireto", "guarda"} \/ pc \in Perguntas
    PROVE  ~ Antes1 /\ pc \notin {"parado", "perdida"}
  BY DEF Antes1, Perguntas

LEMMA ParadoVolume ==
    ASSUME NoVolume, Bons, Parado, ~ Antes1, pc \notin {"parado", "perdida"},
           pc' \notin SoFat, pc' = "setor" => leitura'.apos \notin SoFat
    PROVE  Bons' /\ NaUnidade' /\ Montada'
<1>1. NaUnidade /\ Montada
  BY Fatos
<1>2. Bons'
  BY DEF Bons, Serve, M, Parado
<1>3. NaUnidade'
  BY <1>1 DEF NaUnidade, NoDrive, SoFat, M, Parado
<1>4. Montada'
  BY <1>1 DEF Montada, BaseItens, SetoresItens, Trecho, Parado
<1>5. QED
  BY <1>2, <1>3, <1>4

LEMMA Querem ==
    ASSUME IInv, NoVolume, Bons, pc \in {"carrega", "indireto"}
    PROVE  /\ Querendo /\ pedido.volta \in Voltas(etapa) \cap Perguntas /\ etapa \in {1, 2}
           /\ pedido.item \in NaTabela(maquina)
           /\ pedido.volta \in {"busca", "proximo"} => pedido.item = 1
           /\ SuperEm(maquina).magico /\ itens = Trecho(BaseItens, SetoresItens)
<1>1. Querendo /\ pedido.volta \in Perguntas
  BY Fatos DEF Identificando, Querendo, Pedindo
<1>2. pedido.volta \in Voltas(etapa) /\ etapa \in {1, 2}
  BY Programa DEF IInv, Controle, Pedindo
<1>3. QED
  BY <1>1, <1>2, Fatos, NaoAntes DEF Pergunta, Montada

LEMMA VazioVolume ==
    ASSUME IInv, NoVolume, Bons, Parado, pc \in {"carrega", "indireto"}, Vazio, AZona = 0,
           pedido.zona < Zonas
    PROVE  NoVolume'
<1>1. pc' = pedido.volta /\ pedido' = pedido /\ cf' = FALSE
  BY DEF Vazio
<1>2. pedido.volta \in Perguntas
  BY Querem
<1>3. Bons' /\ NaUnidade' /\ Montada'
  BY <1>1, <1>2, NaoAntes, ParadoVolume DEF SoFat, Perguntas
<1>4. TabelaVem' /\ Identificando'
  BY <1>1, <1>2 DEF TabelaVem, Identificando, Perguntas
<1>5. Pergunta'
  BY <1>1, <1>2, Querem DEF Pergunta, Perguntas, Parado
<1>6. Resposta'
  <2>1. AZona' = 0
    BY <1>1 DEF AZona, Parado
  <2>2. pc' \notin {"guarda", "setor", "indireto"}
    BY <1>1, <1>2 DEF Perguntas
  <2>3. QED
    BY <1>1, <2>1, <2>2 DEF Resposta
<1>7. QED
  BY <1>3, <1>4, <1>5, <1>6 DEF NoVolume

LEMMA LeBlocoNoCs ==
    ASSUME NEW p, NEW volta, LeBloco(p, "cs", volta)
    PROVE  /\ pedido' = [item |-> pedido.item, zona |-> pedido.zona, volta |-> volta, bloco |-> p]
           /\ \/ cache = p /\ pc' = volta /\ cf' = TRUE
              \/ Comeca(2 * p, 2, "guarda")
<1>1. PICK acerto \in Acertos(p, "cs") :
         /\ pedido' = [item |-> pedido.item, zona |-> pedido.zona, volta |-> volta, bloco |-> p]
         /\ IF acerto THEN pc' = volta /\ cf' = TRUE /\ UNCHANGED transfere
            ELSE Comeca(2 * p, 2, "guarda") /\ cf' = cf
  BY Zenon DEF LeBloco
<1>2. acerto = (cache = p)
  BY Zenon DEF Acertos
<1>3. CASE acerto
  BY <1>1, <1>2, <1>3, Zenon
<1>4. CASE ~ acerto
  BY <1>1, <1>4, Zenon
<1>5. QED
  BY <1>3, <1>4

LEMMA LeZonaVolume ==
    ASSUME IInv, NoVolume, Bons, Parado, pc \in {"carrega", "indireto"}, NEW p, LeZona(p),
           p = AZona, p # 0, pedido.zona < Zonas
    PROVE  NoVolume'
<1>1. pedido.volta \in Voltas(etapa) \cap Perguntas /\ etapa \in {1, 2}
  BY Querem
<1>2. CASE etapa = 1
  <2>1. /\ leitura' = [lba |-> 2 * p, resta |-> 2, apos |-> pedido.volta] /\ lido' = <<>>
        /\ pc' = "setor" /\ cf' = TRUE /\ pedido' = pedido
    BY <1>2 DEF LeZona, Comeca
  <2>2. pedido.volta \in {"busca", "zona"}
    BY <1>1, <1>2 DEF Voltas
  <2>3. Bons' /\ NaUnidade' /\ Montada'
    BY <2>1, <2>2, NaoAntes, ParadoVolume DEF SoFat
  <2>4. TabelaVem' /\ Identificando'
    BY <2>1, <2>2 DEF TabelaVem, Identificando
  <2>5. Pergunta'
    BY <2>1, <2>2, Querem DEF Pergunta, Perguntas, Parado
  <2>6. Resposta'
    <3>1. AZona' = p
      BY <2>1 DEF AZona, Parado
    <3>2. DoBloco(p)'
      BY <2>1 DEF DoBloco
    <3>3. leitura'.apos = pedido'.volta /\ leitura'.apos \notin {"guarda", "indireto"}
          /\ pc' \notin {"guarda", "indireto", pedido'.volta}
      BY <2>1, <2>2
    <3>4. QED
      BY <2>1, <3>1, <3>2, <3>3 DEF Resposta, DoBloco
  <2>7. QED
    BY <2>3, <2>4, <2>5, <2>6 DEF NoVolume
<1>3. CASE etapa = 2
  <2>1. /\ pedido' = [item |-> pedido.item, zona |-> pedido.zona, volta |-> pedido.volta, bloco |-> p]
        /\ \/ cache = p /\ pc' = pedido.volta /\ cf' = TRUE
           \/ /\ pc' = "setor" /\ leitura'.apos = "guarda"
    <3>1. LeBloco(p, "cs", pedido.volta)
      BY <1>3 DEF LeZona, DsDoPonto
    <3>2. /\ pedido' = [item |-> pedido.item, zona |-> pedido.zona, volta |-> pedido.volta, bloco |-> p]
          /\ \/ cache = p /\ pc' = pedido.volta /\ cf' = TRUE
             \/ Comeca(2 * p, 2, "guarda")
      BY <3>1, LeBlocoNoCs, Zenon
    <3>3. Comeca(2 * p, 2, "guarda") => pc' = "setor" /\ leitura'.apos = "guarda"
      BY DEF Comeca
    <3>4. QED
      BY <3>2, <3>3
  <2>2. pedido.volta \in {"proximo", "leu"}
    BY <1>1, <1>3 DEF Voltas, Perguntas
  <2>3. Bons' /\ NaUnidade' /\ Montada'
    BY <2>1, <2>2, NaoAntes, ParadoVolume DEF SoFat
  <2>4. TabelaVem' /\ Identificando'
    BY <1>3, <2>1, <2>2 DEF TabelaVem, Identificando
  <2>5. Pergunta'
    BY <2>1, <2>2, Querem DEF Pergunta, Perguntas, Parado
  <2>6. AZona' = p
    BY <2>1 DEF AZona, Parado
  <2>7. CASE pc' = "setor"
    <3>1. leitura'.apos = "guarda" /\ pedido'.volta # "guarda"
      BY <2>1, <2>2, <2>7
    <3>2. Resposta'
      BY <2>1, <2>2, <2>6, <2>7, <3>1 DEF Resposta
    <3>3. QED
      BY <2>3, <2>4, <2>5, <3>2 DEF NoVolume
  <2>8. CASE cache = p /\ pc' = pedido.volta /\ cf' = TRUE
    <3>1. bloco' = BlocoEm(maquina, p) /\ etapa' = 2 /\ maquina' = maquina
      BY <1>3, <2>8, Fatos, Enderecada DEF IInv, CacheFiel, Parado
    <3>2. Resposta'
      BY <2>1, <2>2, <2>6, <2>8, <3>1 DEF Resposta
    <3>3. QED
      BY <2>3, <2>4, <2>5, <3>2 DEF NoVolume
  <2>9. QED
    BY <2>1, <2>7, <2>8
<1>4. QED
  BY <1>1, <1>2, <1>3

LEMMA ZonaVolume ==
    ASSUME IInv, ZonasNaturais, NoVolume, PassoZona
    PROVE  NoVolume'
<1> SUFFICES ASSUME Bons PROVE NoVolume'
  <2>1. maquina' = maquina
    BY DEF PassoZona, Zona, ZonaDemais, ZonaDireta, ZonaIndireta, Indireto, Guarda
  <2>2. QED
    BY <2>1 DEF NoVolume, Bons, Serve, M
<1>1. /\ Zonas \in Nat /\ Diretas \in Nat \ {0} /\ Zonas = Diretas + PorIndice /\ PorIndice \in Nat
      /\ dir' = dir
  BY MinixFSAssumption DEF PassoZona, Zonas, PorIndice, segundoEstagio
<1>2. CASE ZonaDemais
  <2>1. pc' = "parado" /\ UNCHANGED <<maquina, geo, unidade, itens>>
    BY <1>2 DEF ZonaDemais, minix
  <2>2. QED
    BY <1>1, <2>1, Calmo, Fatos DEF NaUnidade
<1>3. CASE ZonaDireta
  <2>1. Parado /\ pc = "carrega" /\ pedido.zona < Diretas /\ pedido.zona \in Nat
    BY <1>1, <1>3 DEF ZonaDireta, Parado, ZonasNaturais
  <2>2. Ponteiros(pedido.item, pedido.zona + 1) = {AZona}
    <3>1. Ponteiros(pedido.item, pedido.zona + 1) = {ItemEm(maquina, pedido.item)[pedido.zona + 1]}
      BY <2>1, Querem, Fatos, DaTabela
    <3>2. QED
      BY <2>1, <3>1 DEF AZona, ZonaEm
  <2>3. pedido.zona < Zonas
    BY <1>1, <2>1
  <2>4. IF AZona = 0 THEN Vazio ELSE LeZona(AZona)
    BY <1>3, <2>2 DEF ZonaDireta
  <2>5. QED
    BY <2>1, <2>3, <2>4, VazioVolume, LeZonaVolume
<1>4. CASE ZonaIndireta
  <2>1. /\ Parado /\ pc = "carrega" /\ pedido.zona \in Nat
        /\ pedido.zona >= Diretas /\ pedido.zona < Zonas
    <3>1. pedido.zona \in Diretas..(Diretas + PorIndice - 1) /\ Parado /\ pc = "carrega"
      BY <1>1, <1>4 DEF ZonaIndireta, Parado
    <3>2. QED
      BY <1>1, <3>1
  <2>2. Ponteiros(pedido.item, Diretas + 1) = {OIndireto}
    BY <2>1, Querem, Fatos, DaTabela DEF OIndireto
  <2>3. CASE OIndireto = 0
    <3>1. Vazio
      BY <1>4, <2>2, <2>3 DEF ZonaIndireta
    <3>2. AZona = 0
      BY <1>1, <2>1, <2>3 DEF AZona, ZonaEm, OIndireto
    <3>3. QED
      BY <2>1, <3>1, <3>2, VazioVolume
  <2>4. CASE OIndireto # 0
    <3>1. /\ leitura' = [lba |-> 2 * OIndireto, resta |-> 2, apos |-> "indireto"] /\ lido' = <<>>
          /\ pc' = "setor" /\ pedido' = pedido
      BY <1>4, <2>2, <2>4 DEF ZonaIndireta, Comeca
    <3>2. Bons' /\ NaUnidade' /\ Montada'
      BY <2>1, <3>1, NaoAntes, ParadoVolume DEF SoFat
    <3>3. TabelaVem' /\ Identificando'
      BY <2>1, <3>1, Querem DEF TabelaVem, Identificando
    <3>4. Pergunta'
      BY <2>1, <3>1, Querem DEF Pergunta, Perguntas, Parado
    <3>5. Resposta'
      <4>1. OIndireto' = OIndireto /\ maquina' = maquina
        BY <2>1, <3>1 DEF OIndireto, Parado
      <4>2. DoBloco(OIndireto)'
        BY <3>1, <4>1 DEF DoBloco
      <4>3. pedido'.volta \in Perguntas
        BY <2>1, <3>1, Querem
      <4>4. QED
        BY <2>1, <2>4, <3>1, <4>1, <4>2, <4>3 DEF Resposta, Perguntas
    <3>6. QED
      BY <3>2, <3>3, <3>4, <3>5 DEF NoVolume
  <2>5. QED
    BY <2>3, <2>4
<1>5. CASE Indireto
  <2>1. Parado /\ pc = "indireto"
    BY <1>1, <1>5 DEF Indireto, Parado
  <2>2. /\ pedido.zona >= Diretas /\ OIndireto # 0 /\ lido = BlocoEm(maquina, OIndireto)
        /\ pedido.zona < Zonas
    BY <2>1, Querem, Fatos DEF Resposta, Pergunta
  <2>3. AZona = PonteiroEm(maquina, OIndireto, Indice(pedido.zona))
    <3>1. ~ (pedido.zona < Diretas)
      BY <1>1, <2>2 DEF ZonasNaturais
    <3>2. QED
      BY <2>2, <3>1 DEF AZona, ZonaEm, OIndireto, Indice
  <2>4. IF AZona = 0 THEN Vazio ELSE LeZona(AZona)
    BY <1>5, <2>2, <2>3, SetorDaMaquina DEF Indireto, PonteiroEm
  <2>5. QED
    BY <2>1, <2>2, <2>4, VazioVolume, LeZonaVolume
<1>6. CASE Guarda
  <2>1. /\ pc = "guarda" /\ pc' = pedido.volta /\ pedido' = pedido /\ cf' = TRUE
        /\ bloco' = BlocoEm(maquina, pedido.bloco)
        /\ UNCHANGED <<maquina, etapa, unidade, geo, itens>>
    BY <1>6, Fatos, Enderecada DEF Guarda, IInv, Transferencia
  <2>2. etapa = 2 /\ pedido.volta \in Voltas(2)
    BY <2>1, Programa DEF IInv, Controle, Pedindo
  <2>3. pedido.volta \in {"identifica", "monta", "proximo", "leu"}
    BY <2>2 DEF Voltas
  <2>4. Bons' /\ NaUnidade'
    BY <1>1, <2>1, <2>3, Fatos DEF Bons, Serve, M, NaUnidade, NoDrive, SoFat
  <2>5. Montada'
    BY <2>1, Fatos, NaoAntes DEF Montada, BaseItens, SetoresItens, Trecho
  <2>6. TabelaVem'
    BY <2>1, <2>3 DEF TabelaVem
  <2>7. Identificando'
    <3>1. pedido.volta \in {"identifica", "monta"} => pedido.bloco = 1
      BY <2>1, Fatos DEF Identificando
    <3>2. QED
      BY <2>1, <2>3, <3>1 DEF Identificando
  <2>8. Pergunta'
    <3>1. Querendo' => Querendo
      BY <2>1, <2>3 DEF Querendo, Pedindo, Perguntas
    <3>2. QED
      BY <2>1, <2>3, <3>1, Fatos DEF Pergunta, Perguntas
  <2>9. Resposta'
    <3>1. Querendo' => Querendo
      BY <2>1, <2>3 DEF Querendo, Pedindo, Perguntas
    <3>2. AZona' = AZona
      BY <2>1 DEF AZona
    <3>3. Querendo' => pedido.bloco = AZona /\ AZona # 0
      BY <2>1, <3>1, Fatos DEF Resposta
    <3>4. QED
      BY <2>1, <2>2, <2>3, <3>2, <3>3 DEF Resposta
  <2>10. QED
    BY <2>4, <2>5, <2>6, <2>7, <2>8, <2>9 DEF NoVolume
<1>7. QED
  BY <1>2, <1>3, <1>4, <1>5, <1>6 DEF PassoZona, Zona

LEMMA MinimoDe ==
    ASSUME NEW T \in SUBSET Nat, T # {}
    PROVE  Min(T) \in T /\ \A y \in T : Min(T) <= y
<1>1. PICK x \in T : \A y \in T : <<y, x>> \notin OpToRel(<, Nat)
  BY NatLessThanWellFounded, WFMin
<1>2. \A y \in T : ~(y < x)
  BY <1>1 DEF OpToRel
<1>3. \A y \in T : x <= y
  BY <1>2
<1>4. QED
  BY <1>3 DEF Min

LEMMA DiscoVolume ==
    ASSUME IInv, IInv', NoVolume, PassoDisco
    PROVE  NoVolume'
<1> USE DEF PassoDisco, minix
<1> SUFFICES ASSUME Bons PROVE NoVolume'
  <2>1. maquina' = maquina
    BY DEF LeSetor, Falha, Desiste
  <2>2. QED
    BY <2>1 DEF NoVolume, Bons, Serve, M
<1>1. CASE LeSetor
  <2>1. /\ pc = "setor" /\ leitura'.apos = leitura.apos
        /\ (pc' = "setor" \/ pc' = leitura.apos) /\ leitura.apos \in Depois(etapa)
        /\ UNCHANGED <<maquina, etapa, unidade, geo, itens, bloco, cache, cf, pedido, dir>>
        /\ leitura'.lba = leitura.lba + 1 /\ leitura'.resta = leitura.resta - 1
        /\ pc' = (IF leitura.resta = 1 THEN leitura.apos ELSE "setor")
        /\ etapa \in {1, 2}
    BY <1>1 DEF LeSetor, IInv, Controle, Passos, segundoEstagio
  <2>2. lido' = Append(lido, CelulaEm(maquina, leitura.lba))
    BY <1>1, Fatos DEF LeSetor, NoDrive, CelulaEm, M
  <2>3. leitura.apos \in {"superbloco", "confere", "itens", "montado", "busca", "zona", "indireto", "guarda"}
        /\ (leitura.apos \in {"superbloco", "confere", "itens", "busca", "zona"} => etapa = 1)
        /\ (leitura.apos \in {"montado", "guarda"} => etapa = 2)
    BY <2>1, Fatos DEF Depois, NaUnidade, SoFat
  <2>4. Bons' /\ NaUnidade'
    BY <2>1, <2>3, Fatos DEF Bons, Serve, M, NaUnidade, NoDrive, SoFat
  <2>5. Montada'
    <3>1. ~ Antes1' => ~ Antes1
      BY <2>1, <2>3 DEF Antes1
    <3>2. QED
      BY <2>1, <3>1, Fatos DEF Montada, BaseItens, SetoresItens, Trecho
  <2>6. TabelaVem'
    <3>1. CASE leitura.apos = "confere"
      <4>1. leitura.lba = 2 /\ leitura.resta = 1 /\ lido = <<>>
        BY <2>1, <3>1, Fatos DEF TabelaVem
      <4>2. lido' = <<CelulaEm(maquina, 2)>> /\ pc' = "confere"
        BY <2>1, <2>2, <3>1, <4>1
      <4>3. QED
        BY <2>1, <4>2 DEF TabelaVem
    <3>2. CASE leitura.apos \in {"itens", "montado"}
      <4>1. SuperEm(maquina).magico /\ Vem(BaseItens, SetoresItens)
        BY <2>1, <3>2, Fatos DEF TabelaVem
      <4>2. /\ BaseItens \in Nat /\ SetoresItens \in Nat
            /\ BaseItens' = BaseItens /\ SetoresItens' = SetoresItens
            /\ SuperEm(maquina)' = SuperEm(maquina)
        BY <2>1, <4>1, Fatos, TabelaTipo DEF BaseItens, SetoresItens
      <4>3. PICK a \in Nat, n \in Nat : a = BaseItens /\ n = SetoresItens
        BY <4>2
      <4>4. \/ pc' = "setor" /\ Vem(a, n)'
            \/ pc' = leitura.apos /\ lido' = Trecho(a, n)
        BY <1>1, <4>1, <4>3, Fatos, TrechoLido
      <4>5. Trecho(a, n)' = Trecho(a, n)
        BY <2>1 DEF Trecho
      <4>6. pc' = "setor" /\ Vem(a, n)' => Vem(BaseItens, SetoresItens)'
        BY <4>2, <4>3 DEF Vem
      <4>7. QED
        BY <2>1, <3>2, <4>1, <4>2, <4>3, <4>4, <4>5, <4>6 DEF TabelaVem
    <3>3. CASE leitura.apos \notin {"confere", "itens", "montado"}
      BY <2>1, <2>3, <3>3 DEF TabelaVem
    <3>4. QED
      BY <3>1, <3>2, <3>3
  <2>7. Identificando'
    BY <2>1, <2>3, Fatos DEF Identificando
  <2>8. Querendo' => Querendo
    BY <2>1, <2>3 DEF Querendo, Pedindo, Perguntas
  <2>9. Pergunta'
    BY <2>1, <2>3, <2>8, Fatos DEF Pergunta, Perguntas
  <2>10. AZona' = AZona /\ OIndireto' = OIndireto /\ maquina' = maquina
    BY <2>1 DEF AZona, OIndireto
  <2>11. Resposta'
    <3> SUFFICES ASSUME Querendo' PROVE Resposta'
      BY DEF Resposta
    <3>1. Resposta /\ Querendo /\ pedido.volta \in Perguntas /\ leitura.apos # "setor"
      BY <2>3, <2>8, Fatos DEF Querendo
    <3>2. CASE leitura.apos = "guarda"
      BY <2>1, <2>10, <3>1, <3>2 DEF Resposta, Perguntas
    <3>3. CASE leitura.apos = "indireto"
      <4>1. PICK p : p = OIndireto
        OBVIOUS
      <4>2. pedido.zona >= Diretas /\ p # 0 /\ DoBloco(p)
        BY <2>1, <3>1, <3>3, <4>1 DEF Resposta
      <4>3. /\ pc' = "setor" => DoBloco(p)'
            /\ pc' # "setor" => pc' = leitura.apos /\ lido' = BlocoEm(maquina, p)
        BY <1>1, <3>1, <4>2, Fatos, BlocoLido
      <4>4. QED
        BY <2>1, <2>10, <3>1, <3>3, <4>1, <4>2, <4>3 DEF Resposta, Perguntas, DoBloco
    <3>4. CASE leitura.apos \in {"busca", "zona"}
      <4>1. leitura.apos = pedido.volta
        BY <2>1, <3>4, Fatos DEF Pergunta
      <4>2. PICK p : p = AZona
        OBVIOUS
      <4>3. p # 0 /\ cf /\ DoBloco(p)
        BY <2>1, <3>1, <4>1, <4>2 DEF Resposta
      <4>4. /\ pc' = "setor" => DoBloco(p)'
            /\ pc' # "setor" => pc' = leitura.apos /\ lido' = BlocoEm(maquina, p)
        BY <1>1, <3>1, <4>3, Fatos, BlocoLido
      <4>5. QED
        BY <2>1, <2>3, <2>10, <3>1, <3>4, <4>1, <4>2, <4>3, <4>4 DEF Resposta, Perguntas, DoBloco
    <3>5. CASE leitura.apos \in {"superbloco", "confere", "itens", "montado"}
      BY <2>1, <3>1, <3>5 DEF Querendo, Pedindo, Perguntas
    <3>6. QED
      BY <2>3, <3>2, <3>3, <3>4, <3>5
  <2>12. QED
    BY <2>4, <2>5, <2>6, <2>7, <2>9, <2>11 DEF NoVolume
<1>2. CASE Falha
  BY <1>2
  DEF Falha, segundoEstagio, NoVolume, Bons, Serve, M, NaUnidade, NoDrive, TabelaVem, Vem, Montada, Antes1,
      BaseItens, SetoresItens, Trecho, Identificando, Pergunta, Resposta, Querendo, Pedindo, AZona,
      OIndireto, DoBloco
<1>3. CASE Desiste
  <2>1. pc' = "parado" /\ UNCHANGED <<maquina, geo, itens, unidade, dir>>
    BY <1>3 DEF Desiste, segundoEstagio
  <2>2. QED
    BY <2>1, Calmo, Fatos DEF NaUnidade
<1>4. QED
  BY <1>1, <1>2, <1>3

(* The steps of the boot sector.                                           *)
LEMMA NaPergunta ==
    ASSUME NoVolume, Bons, pc \in Perguntas
    PROVE  /\ pedido.volta = pc /\ pedido.item \in NaTabela(maquina) /\ pedido.zona < Zonas
           /\ pc \in {"busca", "proximo"} => pedido.item = 1
           /\ cf <=> AZona # 0
           /\ cf => (IF etapa = 1 THEN lido ELSE bloco) = BlocoEm(maquina, AZona)
           /\ SuperEm(maquina).magico /\ itens = Trecho(BaseItens, SetoresItens)
<1>1. pedido.volta = pc /\ Querendo
  BY Fatos DEF Pergunta, Querendo
<1>2. QED
  BY <1>1, Fatos, NaoAntes DEF Pergunta, Resposta, Montada, Perguntas

LEMMA DeComeca ==
    ASSUME NEW lba, NEW n, NEW apos, Comeca(lba, n, apos)
    PROVE  pc' = "setor" /\ leitura' = [lba |-> lba, resta |-> n, apos |-> apos] /\ lido' = <<>>
  BY DEF Comeca

LEMMA DoDiretorio ==
    ASSUME NoVolume, Bons, ZonasNaturais, pc \in {"busca", "proximo"}, cf, NEW e \in 0..(Entradas - 1)
    PROVE  \/ EntradaEm(maquina, pedido.zona, e).item \in NaTabela(maquina)
           \/ /\ EntradaEm(maquina, pedido.zona, e).item = 0
              /\ EntradaEm(maquina, pedido.zona, e).nome # NomeInicial
<1>1. pedido.item = 1 /\ pedido.zona < Zonas /\ AZona # 0 /\ SuperEm(maquina).magico
  BY NaPergunta DEF Perguntas
<1>2. pedido.zona \in 0..(Zonas - 1)
  BY <1>1, MinixFSAssumption DEF ZonasNaturais, Zonas, PorIndice
<1>3. ZonaEm(maquina, 1, pedido.zona) # 0
  BY <1>1 DEF AZona
<1>4. QED
  BY <1>1, <1>2, <1>3, Fatos DEF Integro

LEMMA MinixVolume ==
    ASSUME IInv, ZonasNaturais, NoVolume, Bons, PassoMinix
    PROVE  NoVolume'
<1>1. dir' = dir /\ maquina' = maquina /\ geo' = geo
  BY DEF PassoMinix, segundoEstagio, SetorMinix, Extensao, Superbloco, Confere, GuardaItens,
         Busca, CarregaZona, SaltaMinix
<1>2. Bons' /\ NaUnidade /\ Integro(maquina)
  BY <1>1, Fatos DEF Bons, Serve, M
<1>3. CASE Extensao \/ Superbloco
  <2>1. /\ pc' = "setor" /\ leitura'.apos \in {"superbloco", "confere"} /\ unidade' = M.boot
        /\ pedido' = pedido /\ lido' = <<>>
        /\ leitura'.apos = "confere" => leitura'.lba = 2 /\ leitura'.resta = 1
    BY <1>2, <1>3 DEF Extensao, Superbloco, Comeca, NaUnidade, NoDrive, minix
  <2>2. NaUnidade'
    BY <1>1, <1>2, <2>1 DEF NaUnidade, NoDrive, SoFat, M
  <2>3. ~ Querendo' /\ Antes1'
    BY <1>3, <2>1, Programa DEF Querendo, Pedindo, Perguntas, Antes1, Extensao, Superbloco, IInv
  <2>4. TabelaVem'
    BY <2>1 DEF TabelaVem
  <2>5. Montada' /\ Identificando' /\ Pergunta' /\ Resposta'
    BY <2>1, <2>3 DEF Montada, Identificando, Pergunta, Resposta, Perguntas
  <2>6. QED
    BY <2>2, <2>4, <2>5 DEF NoVolume
<1>4. CASE Confere
  <2>1. /\ pc = "confere" /\ UNCHANGED <<etapa, unidade, itens, pedido>> /\ etapa = 1
        /\ lido[1] = CelulaEm(maquina, 2)
    BY <1>4, Fatos, Programa DEF Confere, minix, TabelaVem, IInv
  <2>2. Setor(lido[1]) = SuperEm(maquina)
    BY <2>1, SetorDaMaquina DEF SuperEm
  <2>3. CASE ~ SuperEm(maquina).magico
    <3>1. pc' = "parado"
      BY <1>4, <2>2, <2>3 DEF Confere
    <3>2. QED
      BY <1>1, <1>2, <2>1, <3>1, Calmo DEF NaUnidade
  <2>4. CASE SuperEm(maquina).magico
    <3>1. Comeca(BaseItens, SetoresItens, "itens")
      BY <1>4, <2>2, <2>4 DEF Confere, BaseItens, SetoresItens
    <3>2. /\ pc' = "setor" /\ lido' = <<>>
          /\ leitura' = [lba |-> BaseItens, resta |-> SetoresItens, apos |-> "itens"]
      BY <3>1, DeComeca
    <3>3. /\ BaseItens \in Nat /\ SetoresItens \in Nat
          /\ BaseItens' = BaseItens /\ SetoresItens' = SetoresItens
          /\ SuperEm(maquina)' = SuperEm(maquina)
      BY <1>1, <1>2, <2>4, TabelaTipo DEF BaseItens, SetoresItens
    <3>4. PICK a \in Nat, n \in Nat : a = BaseItens /\ n = SetoresItens
      BY <3>3
    <3>5. Vem(a, n)'
      BY <1>1, <3>1, <3>4, TrechoComeca
    <3>6. TabelaVem'
      BY <2>4, <3>2, <3>3, <3>4, <3>5 DEF TabelaVem
    <3>7. NaUnidade'
      BY <1>1, <1>2, <2>1, <3>2 DEF NaUnidade, NoDrive, SoFat, M
    <3>8. ~ Querendo' /\ Antes1'
      BY <2>1, <3>2 DEF Querendo, Pedindo, Perguntas, Antes1
    <3>9. Montada' /\ Identificando' /\ Pergunta' /\ Resposta'
      BY <3>2, <3>8 DEF Montada, Identificando, Pergunta, Resposta, Perguntas
    <3>10. QED
      BY <3>6, <3>7, <3>9 DEF NoVolume
  <2>5. QED
    BY <2>3, <2>4
<1>5. CASE GuardaItens
  <2>1. /\ SuperEm(maquina).magico /\ itens' = Trecho(BaseItens, SetoresItens)
        /\ Pede(1, 0, "busca") /\ unidade' = unidade
    BY <1>5, Fatos DEF GuardaItens, TabelaVem
  <2>2. 1 \in NaTabela(maquina)
    BY <1>2, <2>1 DEF Integro
  <2>3. QED
    BY <1>1, <1>2, <2>1, <2>2, PedeVolume DEF NaUnidade, Perguntas
<1>6. CASE Busca
  <2> DEFINE achadas == {e \in 0..(Entradas - 1) : Entrada(lido, e).nome = NomeInicial}
  <2>1. pc = "busca" /\ etapa = 1 /\ UNCHANGED <<unidade, itens>>
    BY <1>6, Programa DEF Busca, IInv
  <2>2. CASE cf /\ achadas # {}
    <3>1. Min(achadas) \in achadas
      <4>1. achadas \in SUBSET Nat
        OBVIOUS
      <4>2. QED
        BY <2>2, <4>1, MinimoDe
    <3>2. PICK e \in 0..(Entradas - 1) :
             e = Min(achadas) /\ Entrada(lido, e).nome = NomeInicial
      BY <3>1
    <3>3. Pede(Entrada(lido, e).item, 0, "zona")
      BY <1>6, <2>2, <3>2 DEF Busca
    <3>4. lido = BlocoEm(maquina, ZonaEm(maquina, 1, pedido.zona))
      BY <2>1, <2>2, NaPergunta DEF Perguntas, AZona
    <3>5. Entrada(lido, e) = EntradaEm(maquina, pedido.zona, e)
      BY <3>4, SetorDaMaquina DEF Entrada, EntradaEm
    <3>6. Entrada(lido, e).item \in NaTabela(maquina)
      BY <2>1, <2>2, <3>2, <3>5, DoDiretorio
    <3>7. SuperEm(maquina).magico /\ itens' = Trecho(BaseItens, SetoresItens)
      BY <2>1, NaPergunta DEF Perguntas
    <3>8. QED
      BY <1>1, <1>2, <2>1, <3>3, <3>6, <3>7, PedeVolume DEF NaUnidade, Perguntas
  <2>3. CASE ~ (cf /\ achadas # {})
    <3>1. pc' = "parado"
      BY <1>6, <2>3 DEF Busca
    <3>2. QED
      BY <1>1, <1>2, <2>1, <3>1, Calmo DEF NaUnidade
  <2>4. QED
    BY <2>2, <2>3
<1>7. CASE CarregaZona
  <2>1. pc = "zona" /\ UNCHANGED <<unidade, itens>> /\ Pede(pedido.item, pedido.zona + 1, "zona")
    BY <1>7 DEF CarregaZona
  <2>2. /\ pedido.item \in NaTabela(maquina)
        /\ SuperEm(maquina).magico /\ itens' = Trecho(BaseItens, SetoresItens)
    BY <2>1, NaPergunta DEF Perguntas
  <2>3. QED
    BY <1>1, <1>2, <2>1, <2>2, PedeVolume DEF NaUnidade, Perguntas
<1>8. CASE SaltaMinix
  <2>1. pc = "zona" /\ pc' = "inicial" /\ UNCHANGED <<unidade, itens>>
    BY <1>8 DEF SaltaMinix, minix
  <2>2. ~ Antes1
    BY <2>1, NaoAntes DEF Perguntas
  <2>3. QED
    BY <1>1, <1>2, <2>1, <2>2, Calmo DEF NaUnidade
<1>9. QED
  BY <1>3, <1>4, <1>5, <1>6, <1>7, <1>8 DEF PassoMinix, SetorMinix

(* The steps of the second stage.                                          *)
LEMMA SuperVolume ==
    ASSUME IInv, NoVolume, Bons, NEW volta \in {"identifica", "monta"}, LeBloco(1, "cs", volta),
           pc \in {"abre", "identifica"},
           UNCHANGED <<maquina, etapa, unidade, geo, itens, bloco, cache, dir>>
    PROVE  NoVolume'
<1>1. /\ pedido'.volta = volta /\ pedido'.bloco = 1
      /\ \/ cache = 1 /\ pc' = volta
         \/ pc' = "setor" /\ leitura'.apos = "guarda"
  <2>1. /\ pedido' = [item |-> pedido.item, zona |-> pedido.zona, volta |-> volta, bloco |-> 1]
        /\ \/ cache = 1 /\ pc' = volta /\ cf' = TRUE
           \/ Comeca(2 * 1, 2, "guarda")
    BY LeBlocoNoCs, Zenon
  <2>2. Comeca(2 * 1, 2, "guarda") => pc' = "setor" /\ leitura'.apos = "guarda"
    BY DEF Comeca
  <2>3. QED
    BY <2>1, <2>2
<1>2. Bons' /\ NaUnidade' /\ Montada'
  BY <1>1, ParadoVolume DEF Parado, Antes1, SoFat
<1>3. TabelaVem'
  BY <1>1 DEF TabelaVem
<1>4. Identificando'
  <2>1. pc' = volta => bloco' = BlocoEm(maquina, 1)'
    BY <1>1, Fatos, Enderecada DEF IInv, CacheFiel, BlocoEm, CelulaEm
  <2>2. QED
    BY <1>1, <2>1 DEF Identificando
<1>5. ~ Querendo'
  BY <1>1 DEF Querendo, Perguntas
<1>6. Pergunta' /\ Resposta'
  BY <1>1, <1>5 DEF Pergunta, Resposta, Perguntas
<1>7. QED
  BY <1>2, <1>3, <1>4, <1>6 DEF NoVolume

LEMMA MontaVolume ==
    ASSUME IInv, NoVolume, Bons, MontaMinix, UNCHANGED segundoEstagio
    PROVE  NoVolume'
<1>1. pc = "monta" /\ Parado /\ UNCHANGED <<cf, pedido>>
  BY DEF MontaMinix, minix, Parado, segundoEstagio
<1>2. SuperEm(maquina).magico /\ Integro(maquina)
  BY <1>1, Fatos DEF Montada, Antes1
<1>3. Setor(bloco[1]) = SuperEm(maquina)
  <2>1. bloco[1] = CelulaEm(maquina, 2 * 1)
    BY <1>1, Fatos DEF Identificando, BlocoEm
  <2>2. 2 * 1 = 2
    OBVIOUS
  <2>3. QED
    BY <2>1, <2>2, SetorDaMaquina DEF SuperEm
<1>4. Comeca(BaseItens, SetoresItens, "montado")
  BY <1>3 DEF MontaMinix, BaseItens, SetoresItens, PosItens, BlocosItens
<1>5. /\ pc' = "setor" /\ lido' = <<>>
      /\ leitura' = [lba |-> BaseItens, resta |-> SetoresItens, apos |-> "montado"]
  BY <1>4, DeComeca
<1>6. /\ BaseItens \in Nat /\ SetoresItens \in Nat
      /\ BaseItens' = BaseItens /\ SetoresItens' = SetoresItens
      /\ SuperEm(maquina)' = SuperEm(maquina)
  BY <1>1, <1>2, TabelaTipo DEF BaseItens, SetoresItens, Parado
<1>7. PICK a \in Nat, n \in Nat : a = BaseItens /\ n = SetoresItens
  BY <1>6
<1>8. Vem(a, n)'
  BY <1>1, <1>4, <1>7, TrechoComeca DEF Parado
<1>9. TabelaVem'
  BY <1>2, <1>5, <1>6, <1>7, <1>8 DEF TabelaVem
<1>10. Bons' /\ NaUnidade' /\ Montada'
  BY <1>1, <1>5, ParadoVolume DEF Antes1, SoFat
<1>11. ~ Querendo'
  BY <1>1, <1>5 DEF Querendo, Pedindo, Perguntas
<1>12. Identificando' /\ Pergunta' /\ Resposta'
  BY <1>5, <1>11 DEF Identificando, Pergunta, Resposta, Perguntas
<1>13. QED
  BY <1>9, <1>10, <1>12 DEF NoVolume

LEMMA AindaNoBloco ==
    ASSUME NoVolume, Bons, Restantes # {}
    PROVE  Min(Restantes) \in Restantes /\ Min(Restantes) \in 0..(Cheio - 1)
<1>1. dir.sub \in Int /\ dir.sub >= -1 /\ Cheio \in Nat
  BY Fatos, MinixFSAssumption DEF NaUnidade, Cheio
<1>2. Restantes \subseteq 0..(Cheio - 1)
  BY <1>1 DEF Restantes
<1>3. Restantes \in SUBSET Nat
  BY <1>1, <1>2
<1>4. QED
  BY <1>2, <1>3, MinimoDe

LEMMA DoisVolume ==
    ASSUME IInv, ZonasNaturais, NoVolume, Bons, PassoDois
    PROVE  NoVolume'
<1>1. maquina' = maquina /\ geo' = geo
  BY DEF PassoDois, SegundoEstagio, Entra, Desvia, TestaA20, Abre, Identifica, MontaMinix, Montado,
         Procura, FimDoDiretorio, OutroBloco, OutroNome, Encontrado,
         CfgIlegivel, LeCfg, Copia, FimDoNucleo, Protegido
<1>2. NaUnidade /\ Integro(maquina) /\ dir.sub \in Int /\ dir.sub >= -1 /\ Cheio \in Nat
  BY Fatos, MinixFSAssumption DEF NaUnidade, Cheio
<1>3. CASE Entra \/ Desvia \/ TestaA20
  <2>1. /\ pc \in {"inicial", "a20"} /\ pc' \in {"a20", "perdida", "abre", "tecla", "parado"}
        /\ UNCHANGED <<itens, dir>> /\ unidade' \in {unidade, unidade % 16}
    BY <1>3 DEF Entra, Desvia, TestaA20, minix, segundoEstagio
  <2>2. unidade \in 0..15
    BY <1>2 DEF NaUnidade, NoDrive, Integro, M
  <2>3. unidade' = unidade
    BY <2>1, <2>2
  <2>4. QED
    BY <1>1, <1>2, <2>1, <2>3, Calmo DEF Antes1
<1>4. CASE Abre
  <2>1. /\ LeBloco(1, "cs", "identifica") /\ pc = "abre"
        /\ UNCHANGED <<maquina, etapa, unidade, geo, itens, bloco, cache, dir>>
    BY <1>4 DEF Abre, segundoEstagio
  <2>2. QED
    BY <2>1, SuperVolume
<1>5. CASE Identifica
  <2>1. /\ pc = "identifica" /\ (LeBloco(1, "cs", "monta") \/ pc' = "parado")
        /\ UNCHANGED <<maquina, etapa, unidade, geo, itens, bloco, cache, dir>>
    BY <1>5 DEF Identifica, segundoEstagio
  <2>2. CASE pc' = "parado"
    BY <1>2, <2>1, <2>2, Calmo
  <2>3. CASE LeBloco(1, "cs", "monta")
    BY <2>1, <2>3, SuperVolume
  <2>4. QED
    BY <2>1, <2>2, <2>3
<1>6. CASE MontaMinix
  BY <1>6, MontaVolume DEF MontaMinix
<1>7. CASE Montado
  <2>1. pc = "montado" /\ pc' = "procura" /\ itens' = lido /\ UNCHANGED <<unidade, dir>>
    BY <1>7 DEF Montado
  <2>2. itens' = itens
    BY <2>1, Fatos DEF TabelaVem, Montada, Antes1
  <2>3. QED
    BY <1>1, <1>2, <2>1, <2>2, Calmo DEF Antes1
<1>8. CASE Procura
  <2>1. /\ pc = "procura" /\ Pede(1, 0, "proximo") /\ UNCHANGED <<unidade, itens>>
        /\ dir' = [bloco |-> 0, sub |-> -1]
    BY <1>8 DEF Procura
  <2>2. SuperEm(maquina).magico /\ itens' = Trecho(BaseItens, SetoresItens)
    BY <2>1, Fatos DEF Montada, Antes1
  <2>3. 1 \in NaTabela(maquina)
    BY <1>2, <2>2 DEF Integro
  <2>4. dir'.sub \in Int /\ dir'.sub >= -1
    BY <2>1
  <2>5. QED
    BY <1>1, <2>1, <2>2, <2>3, <2>4, PedeVolume DEF Perguntas
<1>9. CASE OutroBloco \/ OutroNome
  <2>1. /\ pc = "proximo" /\ UNCHANGED <<unidade, itens>>
        /\ \E z : Pede(1, z, "proximo")
    BY <1>9 DEF OutroBloco, OutroNome
  <2>2. dir'.sub \in Int /\ dir'.sub >= -1
    <3>1. CASE OutroBloco
      <4>1. dir'.sub = IF dir.sub < Cheio THEN Cheio ELSE dir.sub + 1
        BY <3>1 DEF OutroBloco
      <4>2. QED
        BY <1>2, <4>1
    <3>2. CASE OutroNome
      <4>1. dir'.sub = Min(Restantes)
        BY <3>2 DEF OutroNome, ZonasNaturais
      <4>2. Min(Restantes) \in 0..(Cheio - 1)
        BY <3>2, AindaNoBloco DEF OutroNome
      <4>3. QED
        BY <1>2, <4>1, <4>2
    <3>3. QED
      BY <1>9, <3>1, <3>2
  <2>3. /\ 1 \in NaTabela(maquina)
        /\ SuperEm(maquina).magico /\ itens' = Trecho(BaseItens, SetoresItens)
    BY <2>1, NaPergunta DEF Perguntas
  <2>4. QED
    BY <1>1, <2>1, <2>2, <2>3, PedeVolume DEF Perguntas
<1>10. CASE Encontrado
  <2>1. /\ pc = "proximo" /\ cf /\ Restantes # {} /\ UNCHANGED <<unidade, itens>>
        /\ dir' = [dir EXCEPT !.sub = Min(Restantes)]
        /\ Pede(EntradaDir(Min(Restantes)).item, 0, "leu") /\ etapa = 2
    BY <1>10, Programa DEF Encontrado, IInv
  <2>2. PICK e \in 0..(Cheio - 1) : e = Min(Restantes) /\ e \in Restantes
    BY <2>1, AindaNoBloco
  <2>3. bloco = BlocoEm(maquina, ZonaEm(maquina, 1, pedido.zona))
    BY <2>1, NaPergunta DEF Perguntas, AZona
  <2>4. EntradaDir(e) = EntradaEm(maquina, pedido.zona, e)
    BY <2>3, SetorDaMaquina DEF EntradaDir, EntradaEm
  <2>5. EntradaDir(e).item # 0
    BY <2>2 DEF Restantes
  <2>6. EntradaDir(e).item \in NaTabela(maquina)
    <3>1. e \in 0..(Entradas - 1)
      BY <2>2 DEF Entradas, Cheio
    <3>2. QED
      BY <2>1, <2>4, <2>5, <3>1, DoDiretorio
  <2>7. dir'.sub \in Int /\ dir'.sub >= -1
    <3>1. dir'.sub = e
      BY <2>1, <2>2 DEF ZonasNaturais
    <3>2. QED
      BY <1>2, <3>1
  <2>8. SuperEm(maquina).magico /\ itens' = Trecho(BaseItens, SetoresItens)
    BY <2>1, NaPergunta DEF Perguntas
  <2>9. Pede(EntradaDir(e).item, 0, "leu")
    BY <2>1, <2>2
  <2>10. QED
    BY <1>1, <2>1, <2>6, <2>7, <2>8, <2>9, PedeVolume DEF Perguntas
<1>11. CASE FimDoDiretorio \/ CfgIlegivel \/ LeCfg \/ FimDoNucleo \/ Protegido
  <2>1. /\ pc \in {"proximo", "leu"} /\ pc' \in {"parado", "procura", "__start"}
        /\ UNCHANGED <<unidade, itens, dir>>
    BY <1>11 DEF FimDoDiretorio, CfgIlegivel, LeCfg, FimDoNucleo, Protegido, minix, segundoEstagio
  <2>2. QED
    BY <1>1, <1>2, <2>1, Calmo DEF Antes1
<1>12. CASE Copia
  <2>1. /\ pc = "leu" /\ UNCHANGED <<unidade, itens, dir>>
        /\ Pede(pedido.item, pedido.zona + 1, "leu")
    BY <1>12 DEF Copia
  <2>2. /\ pedido.item \in NaTabela(maquina)
        /\ SuperEm(maquina).magico /\ itens' = Trecho(BaseItens, SetoresItens)
    BY <2>1, NaPergunta DEF Perguntas
  <2>3. QED
    BY <1>1, <1>2, <2>1, <2>2, PedeVolume DEF Perguntas
<1>13. QED
  BY <1>3, <1>4, <1>5, <1>6, <1>7, <1>8, <1>9, <1>10, <1>11, <1>12 DEF PassoDois, SegundoEstagio

LEMMA NextVolume == IInv /\ IInv' /\ ZonasNaturais /\ NoVolume /\ [Next]_vars => NoVolume'
<1> SUFFICES ASSUME IInv, IInv', ZonasNaturais, NoVolume, [Next]_vars PROVE NoVolume'
  OBVIOUS
<1>1. CASE PassoFat
  <2>1. maquina' = maquina /\ (pc \in SoFat \/ pc = "raiz_fat")
    BY <1>1 DEF PassoFat, SetorFat, Monta, BuscaFat, GuardaTabela, LeConjunto, SegueCadeia,
                SaltaFat, SoFat
  <2>2. ~ Bons
    BY <2>1, Fatos DEF NaUnidade, NoDrive, SoFat
  <2>3. QED
    BY <2>1, <2>2 DEF NoVolume, Bons, Serve, M
<1>2. CASE PassoDisco \/ PassoZona
  BY <1>2, DiscoVolume, ZonaVolume
<1>3. CASE PassoMinix \/ PassoDois
  <2>1. maquina' = maquina
    <3>1. CASE PassoMinix
      BY <3>1 DEF PassoMinix, SetorMinix, Extensao, Superbloco, Confere, GuardaItens,
                  Busca, CarregaZona, SaltaMinix
    <3>2. CASE PassoDois
      BY <3>2 DEF PassoDois, SegundoEstagio, Entra, Desvia, TestaA20, Abre, Identifica, MontaMinix,
                  Montado, Procura, FimDoDiretorio, OutroBloco, OutroNome, Encontrado,
                  CfgIlegivel, LeCfg, Copia, FimDoNucleo, Protegido
    <3>3. QED
      BY <1>3, <3>1, <3>2
  <2>2. CASE Bons
    BY <1>3, <2>2, MinixVolume, DoisVolume
  <2>3. CASE ~ Bons
    BY <2>1, <2>3 DEF NoVolume, Bons, Serve, M
  <2>4. QED
    BY <2>2, <2>3
<1>4. CASE LimpaBss \/ PassoTecla
  <2>1. /\ pc \in {"__start", "tecla"} /\ pc' \in {"Inicial", "a20"}
        /\ UNCHANGED <<maquina, geo, itens, unidade, dir>>
    BY <1>4 DEF LimpaBss, PassoTecla, Tecla, minix, segundoEstagio
  <2>2. Bons => dir.sub \in Int /\ dir.sub >= -1
    BY Fatos DEF NaUnidade
  <2>3. QED
    BY <2>1, <2>2, Calmo DEF Antes1
<1>5. CASE UNCHANGED vars
  BY <1>5
  DEF vars, disco, minix, transfere, segundoEstagio, NoVolume, Bons, Serve, M, NaUnidade, NoDrive, TabelaVem,
      Vem, Montada, Antes1, BaseItens, SetoresItens, Trecho, Identificando, Pergunta, Resposta,
      Querendo, Pedindo, AZona, OIndireto, DoBloco
<1>6. QED
  BY <1>1, <1>2, <1>3, <1>4, <1>5 DEF Next, Passo

LEMMA InitVolume == Init => NoVolume
<1> SUFFICES ASSUME Init, Bons
             PROVE  NaUnidade /\ TabelaVem /\ Montada /\ Identificando /\ Pergunta /\ Resposta
  BY DEF NoVolume
<1>1. pc = "extensao" /\ pedido.volta = "nada"
  BY DEF Init, Bons, M
<1>2. NaUnidade
  <2>1. maquina \in DOMAIN Maquinas /\ geo = Geometria /\ unidade = M.boot
    BY DEF Init, Geometria
  <2>2. dir.sub = 0
    BY DEF Init
  <2>3. QED
    BY <1>1, <2>1, <2>2 DEF NaUnidade, NoDrive, SoFat
<1>3. ~ Querendo /\ Antes1
  BY <1>1 DEF Querendo, Perguntas, Antes1
<1>4. TabelaVem /\ Montada /\ Identificando /\ Pergunta /\ Resposta
  BY <1>1, <1>3 DEF TabelaVem, Montada, Identificando, Pergunta, Resposta, Perguntas
<1>5. QED
  BY <1>2, <1>4

\* The zone that the boot sector (CarregaBloco of MinixFS.asm) and the second
\* stage (minixfs1_carrega_bloco) bring is that of the file on the disk, or
\* carry is clear and there is none, for every volume whose directory names
\* items of the table: the table in memory, the indirect block in temp and the
\* block in the buffer are those of the disk whenever they are used.
THEOREM AZonaDoArquivo == Spec => []ZonaCerta
<1>1. IInv /\ NoVolume => ZonaCerta
  <2> SUFFICES ASSUME NoVolume, pc \in Perguntas, Bons
               PROVE  /\ cf <=> AZona # 0
                      /\ cf => (IF etapa = 1 THEN lido ELSE bloco) = BlocoEm(maquina, AZona)
    BY DEF ZonaCerta, Perguntas, Bons, AZona
  <2>1. QED
    BY NaPergunta
<1>2. QED
  BY <1>1, Indutivo, InitEnderecos, InitVolume, NextZonas, NextIInv, NextVolume, PTL DEF Spec

-----------------------------------------------------------------------------
(* What the chain of loaders has done, for each disk that does not deceive. *)
(* On a FAT12 disk, the boot sector follows the chain and the second stage  *)
(* stops at the superblock.                                                *)

FatServe == Serve /\ M.setor = "fat"

PassosFat == {"raiz_fat", "busca_fat", "tabela", "conjunto", "conj_lido", "salta", "inicial", "a20",
              "tecla", "abre", "guarda", "identifica", "setor", "parado", "perdida"}

Em(apos) == pc = "setor" /\ leitura.apos = apos

Tabelas == 2 * SetoresPorTabela
EnderecoConj == (conj - 2 + DadosEndereco) % 65536

RaizVem ==
    /\ Em("busca_fat") => Vem(RaizEndereco, SetoresDaRaiz)
    /\ pc = "busca_fat" => lido = Trecho(RaizEndereco, SetoresDaRaiz)
    /\ Em("busca_fat") \/ pc \in {"raiz_fat", "busca_fat"} => segundo = <<>>

TabelasVem ==
    /\ Em("tabela") => Vem(1, Tabelas)
    /\ pc = "tabela" => lido = Trecho(1, Tabelas)
    /\ Em("tabela") \/ pc = "tabela" =>
           AchadasEm(maquina) # {} /\ segundo = <<>> /\ conj = ConjuntoEm(maquina, 1)

NaCadeia ==
    /\ Em("conj_lido") \/ pc \in {"conjunto", "conj_lido"} =>
           /\ AchadasEm(maquina) # {} /\ tabela = Trecho(1, Tabelas)
           /\ Len(segundo) + 1 \in 1..Len(M.arquivos[1])
           /\ conj = ConjuntoEm(maquina, Len(segundo) + 1)
    /\ Em("conj_lido") => leitura.lba = EnderecoConj /\ leitura.resta = 1 /\ lido = <<>>
    /\ pc = "conj_lido" => lido = <<CelulaEm(maquina, EnderecoConj)>>
    /\ pc = "salta" => Len(segundo) = Len(M.arquivos[1])

FatDois ==
    /\ Em("guarda") \/ pc = "guarda" => pedido.volta = "identifica" /\ pedido.bloco = 1
    /\ pc = "identifica" => bloco = BlocoEm(maquina, 1)

NoFat ==
    FatServe =>
        /\ NoDrive /\ pc \in PassosFat
        /\ pc = "setor" => leitura.apos \in {"busca_fat", "tabela", "conj_lido", "guarda"}
        /\ RaizVem /\ TabelasVem /\ NaCadeia /\ FatDois

(* The second stage in memory: a beginning of it, and all of it once it     *)
(* runs.                                                                   *)
Comeco(s, t) == Len(s) \in 0..Len(t) /\ s = SubSeq(t, 1, Len(s))

SegundoVem ==
    Serve => /\ etapa = 1 => Comeco(segundo, M.arquivos[1])
             /\ etapa # 1 => segundo = M.arquivos[1]

Pede1(volta) == Querendo /\ pedido.volta = volta

(* On a Minix disk: the item sought and the zones loaded so far.           *)
NoInicial ==
    /\ Pede1("busca") => pedido.zona = 0
    /\ Pede1("zona") => /\ Nomeadas(maquina, NomeInicial) # {}
                        /\ pedido.item = ItemDe(maquina, NomeInicial)
                        /\ Len(segundo) = 2 * pedido.zona
    /\ etapa = 1 /\ ~ Pede1("zona") /\ pc # "parado" => segundo = <<>>

(* The names, and the moment from which they are known.                    *)
Antes2 ==
    \/ etapa = 1 \/ pc \in {"inicial", "a20", "tecla", "abre", "identifica", "monta", "montado"}
    \/ (pc = "guarda" \/ Em("guarda")) /\ pedido.volta \in {"identifica", "monta"}
    \/ Em("montado")

Nomeado ==
    /\ DOMAIN nomes = Alvos /\ alvo \in Alvos /\ nomes.cfg = NomeCfg
    /\ alvo # "cfg" => \A a \in Alvos : nomes[a] = NomeEm(maquina, a)
    /\ Antes2 => alvo = "cfg"

(* The search: what it has passed has another name.                        *)
Procurados == Nomeadas(maquina, NomeEm(maquina, alvo))

NaBusca ==
    /\ Pede1("proximo") =>
           /\ pedido.zona = dir.bloco
           /\ \/ dir.bloco = 0 /\ \A e \in Procurados : dir.sub < e
              \/ dir.sub >= Cheio /\ Procurados = {}
    /\ Pede1("leu") => /\ Procurados # {} /\ pedido.item = ItemDe(maquina, NomeEm(maquina, alvo))
                       /\ alvo = "cfg" => pedido.zona = 0

(* The files in memory.                                                    *)
ArquivoDe(a) == IF a = "nucleo" THEN M.arquivos[2] ELSE M.arquivos[3]
Lugar(a) == IF a = "nucleo" THEN NucleoInicio ELSE ImagemInicio

Carregados ==
    /\ \A a \in {"nucleo", "imagem"} :
           /\ tam[a] <= Len(ArquivoDe(a))
           /\ \A i \in 1..tam[a] : memoria[Lugar(a) + i - 1] = ArquivoDe(a)[i]
           /\ alvo = a /\ etapa # 3 /\ ~ Pede1("leu") /\ pc # "parado" => tam[a] = 0
    /\ alvo = "cfg" => tam.nucleo = 0
    /\ alvo # "imagem" => tam.imagem = 0
    /\ alvo = "imagem" => tam.nucleo = Len(M.arquivos[2])
    /\ etapa = 3 => alvo = "imagem" /\ tam.imagem = Len(M.arquivos[3])

NoMinix == Bons => NoInicial /\ Nomeado /\ NaBusca /\ Carregados

LEMMA FatosFat ==
    ASSUME NoFat, FatServe
    PROVE  /\ Encadeado(maquina) /\ NoDrive /\ pc \in PassosFat
           /\ pc = "setor" => leitura.apos \in {"busca_fat", "tabela", "conj_lido", "guarda"}
           /\ RaizVem /\ TabelasVem /\ NaCadeia /\ FatDois
  BY VolumeAssumption DEF NoFat, FatServe, Serve, M, NoDrive

LEMMA Enderecamento ==
    /\ RaizEndereco \in Nat /\ SetoresDaRaiz \in Nat /\ DadosEndereco \in Nat
    /\ Tabelas \in Nat \ {0} /\ BytesPorSetor \in Nat \ {0}
  BY FAT12Assumption DEF RaizEndereco, DadosEndereco, Tabelas

(* The boot sector is over, or the machine has stopped.                    *)
LEMMA FatCalmo ==
    ASSUME NoFat, UNCHANGED <<maquina, geo>>, FatServe => unidade' = unidade,
           pc' \in {"inicial", "a20", "tecla", "abre", "parado", "perdida"}
    PROVE  NoFat'
<1> SUFFICES ASSUME FatServe PROVE NoFat'
  BY DEF NoFat, FatServe, Serve, M
<1>1. NoDrive' /\ pc' \in PassosFat
  BY FatosFat DEF NoDrive, PassosFat, M
<1>2. RaizVem' /\ TabelasVem' /\ NaCadeia' /\ FatDois'
  BY DEF RaizVem, TabelasVem, NaCadeia, FatDois, Em
<1>3. QED
  BY <1>1, <1>2 DEF NoFat

(* The first sector of a chain to be read.                                 *)
LEMMA FatDisco ==
    ASSUME IInv, NoFat, FatServe, PassoDisco
    PROVE  NoFat'
<1> USE DEF PassoDisco, minix
<1>1. CASE LeSetor
  <2>1. /\ pc = "setor" /\ UNCHANGED <<maquina, etapa, unidade, geo, pedido, segundo, tabela, conj>>
        /\ leitura'.apos = leitura.apos /\ (pc' = "setor" \/ pc' = leitura.apos)
        /\ leitura.apos \in {"busca_fat", "tabela", "conj_lido", "guarda"}
        /\ lido' = Append(lido, CelulaEm(maquina, leitura.lba))
        /\ pc' = (IF leitura.resta = 1 THEN leitura.apos ELSE "setor")
    BY <1>1, FatosFat DEF LeSetor, NoDrive, CelulaEm, M
  <2>2. NoDrive' /\ FatServe' /\ pc' \in PassosFat
    BY <2>1, FatosFat DEF NoDrive, FatServe, Serve, M, PassosFat
  <2>3. RaizVem'
    <3>1. CASE leitura.apos = "busca_fat"
      <4>1. Vem(RaizEndereco, SetoresDaRaiz) /\ segundo = <<>>
        BY <2>1, <3>1, FatosFat DEF RaizVem, Em
      <4>2. \/ pc' = "setor" /\ Vem(RaizEndereco, SetoresDaRaiz)'
            \/ pc' = leitura.apos /\ lido' = Trecho(RaizEndereco, SetoresDaRaiz)
        BY <1>1, <4>1, FatosFat, Enderecamento, TrechoLido
      <4>3. Trecho(RaizEndereco, SetoresDaRaiz)' = Trecho(RaizEndereco, SetoresDaRaiz)
        BY <2>1 DEF Trecho
      <4>4. QED
        BY <2>1, <3>1, <4>1, <4>2, <4>3 DEF RaizVem, Em
    <3>2. CASE leitura.apos # "busca_fat"
      BY <2>1, <3>2 DEF RaizVem, Em
    <3>3. QED
      BY <3>1, <3>2
  <2>4. TabelasVem'
    <3>1. CASE leitura.apos = "tabela"
      <4>1. /\ Vem(1, Tabelas) /\ segundo = <<>> /\ AchadasEm(maquina) # {}
            /\ conj = ConjuntoEm(maquina, 1)
        BY <2>1, <3>1, FatosFat DEF TabelasVem, Em
      <4>2. \/ pc' = "setor" /\ Vem(1, Tabelas)'
            \/ pc' = leitura.apos /\ lido' = Trecho(1, Tabelas)
        BY <1>1, <4>1, FatosFat, Enderecamento, TrechoLido
      <4>3. Trecho(1, Tabelas)' = Trecho(1, Tabelas)
        BY <2>1 DEF Trecho
      <4>4. QED
        BY <2>1, <3>1, <4>1, <4>2, <4>3 DEF TabelasVem, Em
    <3>2. CASE leitura.apos # "tabela"
      BY <2>1, <3>2 DEF TabelasVem, Em
    <3>3. QED
      BY <3>1, <3>2
  <2>5. NaCadeia'
    <3>1. CASE leitura.apos = "conj_lido"
      <4>1. leitura.lba = EnderecoConj /\ leitura.resta = 1 /\ lido = <<>>
        BY <2>1, <3>1, FatosFat DEF NaCadeia, Em
      <4>2. pc' = "conj_lido" /\ lido' = <<CelulaEm(maquina, EnderecoConj)>>
        BY <2>1, <3>1, <4>1
      <4>3. EnderecoConj' = EnderecoConj /\ M' = M
        BY <2>1 DEF EnderecoConj, M
      <4>4. Trecho(1, Tabelas)' = Trecho(1, Tabelas)
        BY <2>1 DEF Trecho
      <4>5. QED
        BY <2>1, <3>1, <4>2, <4>3, <4>4, FatosFat DEF NaCadeia, Em
    <3>2. CASE leitura.apos # "conj_lido"
      BY <2>1, <3>2 DEF NaCadeia, Em
    <3>3. QED
      BY <3>1, <3>2
  <2>6. FatDois'
    BY <2>1, FatosFat DEF FatDois, Em
  <2>7. QED
    BY <2>1, <2>2, <2>3, <2>4, <2>5, <2>6 DEF NoFat
<1>2. CASE Falha
  BY <1>2
  DEF Falha, NoFat, FatServe, Serve, M, NoDrive, RaizVem, TabelasVem, NaCadeia, FatDois, Em, Vem,
      Trecho, EnderecoConj
<1>3. CASE Desiste
  <2>1. pc' = "parado" /\ UNCHANGED <<maquina, geo, unidade>>
    BY <1>3 DEF Desiste
  <2>2. QED
    BY <2>1, FatCalmo
<1>4. QED
  BY <1>1, <1>2, <1>3

(* A word of the tables in memory is that of the disk.                     *)
LEMMA OctetoLido ==
    ASSUME NoDrive, tabela = Trecho(1, Tabelas), NEW i \in Nat, i < Tabelas * BytesPorSetor
    PROVE  Octeto(i) = OctetoEm(maquina, i)
<1> DEFINE q == i \div BytesPorSetor
<1>1. q \in 0..(Tabelas - 1)
  BY Enderecamento, Cociente
<1> HIDE DEF q
<1>2. q + 1 \in 1..Tabelas /\ 1 + (q + 1) - 1 = 1 + q /\ Tabelas \in Nat
  BY <1>1, Enderecamento
<1>3. tabela[q + 1] = CelulaEm(maquina, 1 + q)
  <2>1. \A j \in 1..Tabelas : Trecho(1, Tabelas)[j] = CelulaEm(maquina, 1 + j - 1)
    <3>1. PICK u \in Int : u = 1
      OBVIOUS
    <3>2. \A j \in 1..Tabelas : Trecho(u, Tabelas)[j] = CelulaEm(maquina, u + j - 1)
      BY <1>2, TrechoTipo
    <3>3. QED
      BY <3>1, <3>2
  <2>2. QED
    BY <1>2, <2>1
<1>4. QED
  BY <1>3, SetorDaMaquina DEF Octeto, OctetoEm, q

LEMMA SeguinteLido ==
    ASSUME NoDrive, tabela = Trecho(1, Tabelas), NEW n \in Nat,
           n + (n \div 2) + 1 < Tabelas * BytesPorSetor
    PROVE  Seguinte(n) = SeguinteEm(maquina, n)
<1> DEFINE i == n + (n \div 2)
<1>1. i \in Nat /\ i + 1 \in Nat
  OBVIOUS
<1>2. Tabelas * BytesPorSetor \in Nat
  BY Enderecamento
<1> HIDE DEF i
<1>3. i + 1 < Tabelas * BytesPorSetor
  BY DEF i
<1>4. i < Tabelas * BytesPorSetor
  BY <1>1, <1>2, <1>3
<1>5. Octeto(i) = OctetoEm(maquina, i) /\ Octeto(i + 1) = OctetoEm(maquina, i + 1)
  BY <1>1, <1>3, <1>4, OctetoLido
<1>6. QED
  BY <1>5 DEF Seguinte, SeguinteEm, i

(* The search in the root directory.                                       *)
LEMMA AchadasLidas ==
    ASSUME NoDrive, lido = Trecho(RaizEndereco, SetoresDaRaiz)
    PROVE  /\ Achadas = AchadasEm(maquina)
           /\ \A e \in Achadas : Raiz(e) = NaRaizEm(maquina, e)
<1>1. /\ Len(lido) = SetoresDaRaiz
      /\ \A j \in 1..SetoresDaRaiz : lido[j] = CelulaEm(maquina, RaizEndereco + j - 1)
  <2>1. RaizEndereco \in Int /\ SetoresDaRaiz \in Nat
    BY Enderecamento
  <2>2. QED
    BY <2>1, TrechoTipo
<1>2. ASSUME NEW e \in (1..SetoresDaRaiz) \X (1..BytesPorSetor)
      PROVE  /\ Setor(lido[e[1]]) = SetorDa(maquina, CelulaEm(maquina, RaizEndereco + e[1] - 1))
             /\ Raiz(e) = NaRaizEm(maquina, e)
  <2>1. e[1] \in 1..SetoresDaRaiz
    OBVIOUS
  <2>2. Setor(lido[e[1]]) = SetorDa(maquina, CelulaEm(maquina, RaizEndereco + e[1] - 1))
    BY <1>1, <2>1, SetorDaMaquina
  <2>3. QED
    BY <2>2 DEF Raiz, NaRaizEm
<1>3. QED
  BY <1>1, <1>2 DEF Achadas, AchadasEm

(* A beginning that grows by what follows it.                              *)
LEMMA ComecoTipo ==
    ASSUME NEW S, NEW s, NEW t \in Seq(S), Comeco(s, t)
    PROVE  s \in Seq(S) /\ Len(s) \in 0..Len(t) /\ \A j \in 1..Len(s) : s[j] = t[j]
<1>1. PICK k \in 0..Len(t) : k = Len(s) /\ s = SubSeq(t, 1, k)
  BY DEF Comeco
<1>2. 1 \in Nat /\ k \in Nat /\ Len(t) \in Nat /\ k <= Len(t)
  BY <1>1
<1>3. SubSeq(t, 1, k) \in Seq(S) /\ \A j \in 1..k : SubSeq(t, 1, k)[j] = t[j]
  BY <1>2
<1>4. QED
  BY <1>1, <1>2, <1>3

LEMMA ComecoTodo ==
    ASSUME NEW S, NEW s, NEW t \in Seq(S), Comeco(s, t), Len(s) = Len(t)
    PROVE  s = t
<1>1. s \in Seq(S) /\ \A j \in 1..Len(s) : s[j] = t[j]
  BY ComecoTipo
<1>2. QED
  BY <1>1, SeqEqual

LEMMA ComecoDe ==
    ASSUME NEW S, NEW s \in Seq(S), NEW t \in Seq(S), Len(s) <= Len(t),
           \A j \in 1..Len(s) : s[j] = t[j]
    PROVE  Comeco(s, t)
<1> DEFINE k == Len(s)
           u == SubSeq(t, 1, k)
<1>1. k \in 0..Len(t)
  OBVIOUS
<1>2. u \in Seq(S) /\ Len(u) = k /\ \A j \in 1..k : u[j] = t[j]
  BY <1>1
<1>3. s = u
  BY <1>2, SeqEqual
<1>4. QED
  BY <1>1, <1>3 DEF Comeco

LEMMA Prolonga ==
    ASSUME NEW S, NEW s, NEW t \in Seq(S), Comeco(s, t), NEW u \in Seq(S), Len(s) + Len(u) <= Len(t),
           \A j \in 1..Len(u) : u[j] = t[Len(s) + j]
    PROVE  Comeco(s \o u, t) /\ Len(s \o u) = Len(s) + Len(u)
<1>1. s \in Seq(S) /\ Len(s) \in Nat /\ \A j \in 1..Len(s) : s[j] = t[j]
  BY ComecoTipo
<1>2. s \o u \in Seq(S) /\ Len(s \o u) = Len(s) + Len(u)
  BY <1>1
<1>3. \A j \in 1..Len(s \o u) : (s \o u)[j] = t[j]
  <2>1. TAKE j \in 1..Len(s \o u)
  <2>2. CASE j <= Len(s)
    <3>1. j \in 1..Len(s)
      BY <1>1, <1>2, <2>2
    <3>2. QED
      BY <1>1, <3>1
  <2>3. CASE j > Len(s)
    <3>1. j - Len(s) \in 1..Len(u) /\ Len(s) + (j - Len(s)) = j
      BY <1>1, <1>2, <2>3
    <3>2. (s \o u)[j] = u[j - Len(s)]
      BY <1>1, <1>2, <2>3
    <3>3. QED
      BY <3>1, <3>2
  <2>4. QED
    BY <1>1, <1>2, <2>2, <2>3
<1>4. Comeco(s \o u, t)
  BY <1>2, <1>3, ComecoDe
<1>5. QED
  BY <1>2, <1>4

(* The sectors of the disk.                                                *)
LEMMA ArquivosTipo ==
    ASSUME Serve, maquina \in DOMAIN Maquinas
    PROVE  /\ M.arquivos[1] \in Seq(Int \X Int)
           /\ M.setor = "minix" => M.arquivos[2] \in Seq(UmBloco) /\ M.arquivos[3] \in Seq(UmBloco)
<1>1. CASE M.setor = "minix"
  <2>1. Arquivado(maquina)
    BY <1>1, VolumeAssumption DEF Serve, M
  <2>2. QED
    BY <2>1, Zenon DEF Arquivado, M
<1>2. CASE M.setor # "minix"
  <2>1. Encadeado(maquina)
    BY <1>2, VolumeAssumption DEF Serve, M
  <2>2. M.arquivos[1] \in Seq(Int \X Int)
    BY <2>1, SMT DEF Encadeado, M
  <2>3. QED
    BY <1>2, <2>2
<1>3. QED
  BY <1>1, <1>2, VolumeAssumption DEF Serve, M

LEMMA DaCadeia ==
    ASSUME Encadeado(maquina), AchadasEm(maquina) # {}, NEW n \in 1..Len(M.arquivos[1])
    PROVE  Len(M.arquivos[1]) \in 1..Livres /\ Elo(maquina, n)
  BY DEF Encadeado, M

(* A cluster read is the next sector of the second stage.                   *)
LEMMA MaisUmElo ==
    ASSUME IInv, NoFat, SegundoVem, FatServe, SegueCadeia
    PROVE  Comeco(segundo', M.arquivos[1]) /\ Len(segundo') = Len(segundo) + 1
<1>1. PICK a : a = M.arquivos[1]
  OBVIOUS
<1>2. pc = "conj_lido" /\ segundo' = segundo \o lido
  BY DEF SegueCadeia
<1>3. PICK n \in 1..Len(a) :
         /\ n = Len(segundo) + 1 /\ conj = ConjuntoEm(maquina, n)
         /\ lido = <<CelulaEm(maquina, EnderecoConj)>> /\ AchadasEm(maquina) # {}
  BY <1>1, <1>2, FatosFat DEF NaCadeia
<1>4. a \in Seq(Int \X Int) /\ a[n] = CelulaEm(maquina, EnderecoConj)
  <2>1. Elo(maquina, n)
    BY <1>1, <1>3, FatosFat, DaCadeia
  <2>2. a \in Seq(Int \X Int)
    BY <1>1, FatosFat, ArquivosTipo DEF FatServe, NoDrive
  <2>3. QED
    BY <1>1, <1>3, <2>1, <2>2 DEF Elo, EnderecoConj, M
<1>5. Comeco(segundo, a)
  BY <1>1, <1>2, Programa DEF FatServe, SegundoVem, IInv
<1>6. Len(segundo) \in Nat /\ n \in Nat /\ n <= Len(a)
  BY <1>3, <1>4, <1>5 DEF Comeco
<1>7. lido = <<a[n]>> /\ a[n] \in Int \X Int
  BY <1>3, <1>4
<1>8. lido \in Seq(Int \X Int) /\ Len(lido) = 1 /\ lido[1] = a[n]
  BY <1>7
<1>9. \A j \in 1..Len(lido) : lido[j] = a[Len(segundo) + j]
  BY <1>3, <1>8
<1>10. Len(segundo) + Len(lido) <= Len(a)
  BY <1>3, <1>6, <1>8
<1>11. PICK s : s = segundo
  OBVIOUS
<1>12. PICK u : u = lido
  OBVIOUS
<1>13. /\ u \in Seq(Int \X Int) /\ Comeco(s, a) /\ Len(s) + Len(u) <= Len(a)
       /\ \A j \in 1..Len(u) : u[j] = a[Len(s) + j]
  BY <1>5, <1>8, <1>9, <1>10, <1>11, <1>12
<1>14. Comeco(s \o u, a) /\ Len(s \o u) = Len(s) + Len(u)
  BY <1>4, <1>13, Prolonga, Zenon
<1>15. QED
  BY <1>1, <1>2, <1>8, <1>11, <1>12, <1>14

LEMMA FatSetor ==
    ASSUME IInv, NoFat, SegundoVem, FatServe, PassoFat
    PROVE  NoFat'
<1>1. maquina' = maquina /\ geo' = geo /\ pedido' = pedido
  BY DEF PassoFat, minix, SetorFat, Monta, BuscaFat, GuardaTabela, LeConjunto, SegueCadeia, SaltaFat
<1>2. FatServe' /\ M' = M /\ Encadeado(maquina)
  BY <1>1, FatosFat DEF FatServe, Serve, M
<1>3. CASE Monta
  <2>1. Comeca(RaizEndereco, SetoresDaRaiz, "busca_fat") /\ pc = "raiz_fat" /\ segundo' = segundo
    BY <1>3 DEF Monta
  <2>2. pc' = "setor" /\ leitura'.apos = "busca_fat"
    BY <2>1 DEF Comeca
  <2>3. Vem(RaizEndereco, SetoresDaRaiz)'
    BY <1>1, <2>1, Enderecamento, TrechoComeca
  <2>4. NoDrive' /\ pc' \in PassosFat
    BY <1>1, <1>2, <1>3, <2>2, FatosFat DEF Monta, NoDrive, PassosFat, Encadeado, M
  <2>5. segundo = <<>>
    BY <2>1, FatosFat DEF RaizVem
  <2>6. RaizVem' /\ TabelasVem' /\ NaCadeia' /\ FatDois'
    BY <2>1, <2>2, <2>3, <2>5 DEF RaizVem, TabelasVem, NaCadeia, FatDois, Em
  <2>7. QED
    BY <2>2, <2>4, <2>6 DEF NoFat
<1>4. CASE BuscaFat
  <2>1. pc = "busca_fat" /\ UNCHANGED <<unidade, segundo>>
    BY <1>4 DEF BuscaFat
  <2>2. lido = Trecho(RaizEndereco, SetoresDaRaiz) /\ segundo = <<>>
    BY <2>1, FatosFat DEF RaizVem
  <2>3. Achadas = AchadasEm(maquina) /\ \A e \in Achadas : Raiz(e) = NaRaizEm(maquina, e)
    BY <2>2, FatosFat, AchadasLidas
  <2>4. CASE Achadas = {}
    <3>1. pc' = "parado"
      BY <1>4, <2>4 DEF BuscaFat
    <3>2. QED
      BY <1>1, <2>1, <3>1, FatCalmo
  <2>5. CASE Achadas # {}
    <3>1. PICK a \in Achadas : (\A b \in Achadas : Antes(a, b)) /\ conj' = Raiz(a).conj
      BY <1>4, <2>5 DEF BuscaFat
    <3>2. conj' = ConjuntoEm(maquina, 1)
      BY <1>2, <2>3, <3>1 DEF Encadeado
    <3>3. Comeca(1, Tabelas, "tabela")
      BY <1>4, <2>5 DEF BuscaFat, Tabelas
    <3>4. pc' = "setor" /\ leitura'.apos = "tabela"
      BY <3>3 DEF Comeca
    <3>5. Vem(1, Tabelas)'
      BY <1>1, <3>3, Enderecamento, TrechoComeca
    <3>6. NoDrive' /\ pc' \in PassosFat
      BY <1>1, <2>1, <3>4, FatosFat DEF NoDrive, PassosFat, M
    <3>7. ConjuntoEm(maquina, 1)' = ConjuntoEm(maquina, 1) /\ AchadasEm(maquina)' = AchadasEm(maquina)
      BY <1>1
    <3>8. RaizVem' /\ TabelasVem' /\ NaCadeia' /\ FatDois'
      BY <2>1, <2>2, <2>3, <2>5, <3>2, <3>4, <3>5, <3>7
      DEF RaizVem, TabelasVem, NaCadeia, FatDois, Em
    <3>9. QED
      BY <3>4, <3>6, <3>8 DEF NoFat
  <2>6. QED
    BY <2>4, <2>5
<1>5. CASE GuardaTabela
  <2>1. /\ pc = "tabela" /\ pc' = "conjunto" /\ tabela' = lido
        /\ UNCHANGED <<unidade, segundo, conj>>
    BY <1>5 DEF GuardaTabela
  <2>2. /\ lido = Trecho(1, Tabelas) /\ AchadasEm(maquina) # {} /\ segundo = <<>>
        /\ conj = ConjuntoEm(maquina, 1)
    BY <2>1, FatosFat DEF TabelasVem
  <2>3. Len(M.arquivos[1]) \in 1..Livres
    BY <1>2, <2>2 DEF Encadeado, M
  <2>4. Len(segundo) + 1 = 1 /\ Len(segundo) + 1 \in 1..Len(M.arquivos[1])
    BY <2>2, <2>3, FAT12Assumption
  <2>5. tabela' = Trecho(1, Tabelas)'
    BY <1>1, <2>1, <2>2 DEF Trecho
  <2>6. NaCadeia'
    BY <1>1, <1>2, <2>1, <2>2, <2>4, <2>5 DEF NaCadeia, Em
  <2>7. NoDrive' /\ pc' \in PassosFat /\ RaizVem' /\ TabelasVem' /\ FatDois'
    BY <1>1, <2>1, FatosFat DEF NoDrive, PassosFat, M, RaizVem, TabelasVem, FatDois, Em
  <2>8. QED
    BY <2>1, <2>6, <2>7 DEF NoFat
<1>6. CASE LeConjunto
  <2>1. /\ pc = "conjunto" /\ Comeca(EnderecoConj, 1, "conj_lido")
        /\ UNCHANGED <<unidade, segundo, conj, tabela>>
    BY <1>6 DEF LeConjunto, EnderecoConj
  <2>2. /\ pc' = "setor" /\ lido' = <<>>
        /\ leitura' = [lba |-> EnderecoConj, resta |-> 1, apos |-> "conj_lido"]
    BY <2>1, DeComeca
  <2>3. EnderecoConj' = EnderecoConj /\ Trecho(1, Tabelas)' = Trecho(1, Tabelas)
    BY <1>1, <2>1 DEF EnderecoConj, Trecho
  <2>4. NaCadeia'
    BY <1>1, <1>2, <2>1, <2>2, <2>3, FatosFat DEF NaCadeia, Em
  <2>5. NoDrive' /\ pc' \in PassosFat /\ RaizVem' /\ TabelasVem' /\ FatDois'
    BY <1>1, <2>1, <2>2, FatosFat DEF NoDrive, PassosFat, M, RaizVem, TabelasVem, FatDois, Em
  <2>6. QED
    BY <2>2, <2>4, <2>5 DEF NoFat
<1>7. CASE SegueCadeia
  <2>0. PICK a : a = M.arquivos[1]
    OBVIOUS
  <2>1. /\ pc = "conj_lido" /\ segundo' = segundo \o lido /\ UNCHANGED <<unidade, tabela>>
        /\ IF Len(segundo') > Livres
           THEN pc' = "perdida" /\ conj' = conj
           ELSE /\ conj' = Seguinte(conj)
                /\ pc' = IF conj' >= 4080 THEN "salta" ELSE "conjunto"
    BY <1>7 DEF SegueCadeia
  <2>2. PICK n \in 1..Len(a) :
           /\ n = Len(segundo) + 1 /\ conj = ConjuntoEm(maquina, n)
           /\ lido = <<CelulaEm(maquina, EnderecoConj)>> /\ tabela = Trecho(1, Tabelas)
           /\ AchadasEm(maquina) # {}
    BY <2>0, <2>1, FatosFat DEF NaCadeia
  <2>3. /\ a \in Seq(Int \X Int) /\ Len(a) \in 1..Livres
        /\ conj \in 2..4079 /\ conj + (conj \div 2) + 1 < 2 * SetoresPorTabela * BytesPorSetor
        /\ a[n] = CelulaEm(maquina, EnderecoConj)
        /\ IF n < Len(a) THEN SeguinteEm(maquina, conj) = ConjuntoEm(maquina, n + 1)
           ELSE SeguinteEm(maquina, conj) >= 4080
    <3>1. Len(a) \in 1..Livres /\ Elo(maquina, n)
      BY <1>2, <2>0, <2>2, DaCadeia
    <3>2. a \in Seq(Int \X Int)
      BY <2>0, FatosFat, ArquivosTipo DEF FatServe, NoDrive
    <3>3. QED
      BY <2>0, <2>2, <3>1, <3>2 DEF Elo, EnderecoConj, M
  <2>4. Comeco(segundo, a)
    BY <2>0, <2>1, Programa DEF FatServe, SegundoVem, IInv
  <2>5. Len(segundo) \in Nat /\ n \in Nat /\ n <= Len(a) /\ Len(a) <= Livres
    BY <2>2, <2>3, <2>4, FAT12Assumption DEF Comeco
  <2>6. Len(segundo') = n
    BY <1>7, <2>2, MaisUmElo
  <2>7. conj' = SeguinteEm(maquina, conj) /\ pc' = (IF conj' >= 4080 THEN "salta" ELSE "conjunto")
    <3>1. ~ (Len(segundo') > Livres)
      BY <2>5, <2>6, FAT12Assumption
    <3>2. conj \in Nat /\ conj + (conj \div 2) + 1 < Tabelas * BytesPorSetor
      BY <2>3 DEF Tabelas
    <3>3. Seguinte(conj) = SeguinteEm(maquina, conj)
      BY <2>2, <3>2, FatosFat, SeguinteLido
    <3>4. QED
      BY <2>1, <3>1, <3>3
  <2>8. NoDrive' /\ pc' \in PassosFat /\ RaizVem' /\ TabelasVem' /\ FatDois' /\ pc' # "setor"
    BY <1>1, <2>1, <2>7, FatosFat DEF NoDrive, PassosFat, M, RaizVem, TabelasVem, FatDois, Em
  <2>9. CASE n < Len(a)
    <3>1. conj' = ConjuntoEm(maquina, n + 1)
      BY <2>3, <2>7, <2>9
    <3>2. n + 1 \in 1..Len(a)
      BY <2>5, <2>9
    <3>3. conj' \in 2..4079
      <4>1. ConjuntoEm(maquina, n + 1) \in 2..4079
        <5>1. Elo(maquina, n + 1)
          BY <1>2, <2>0, <2>2, <3>2, DaCadeia
        <5>2. QED
          BY <5>1 DEF Elo
      <4>2. QED
        BY <3>1, <4>1
    <3>4. pc' = "conjunto"
      <4>1. ~ (conj' >= 4080)
        BY <3>3
      <4>2. QED
        BY <2>7, <4>1
    <3>5. tabela' = Trecho(1, Tabelas)'
      BY <1>1, <2>1, <2>2 DEF Trecho
    <3>6. Len(segundo)' + 1 = n + 1
      BY <2>6
    <3>7. AchadasEm(maquina)' # {} /\ ConjuntoEm(maquina, n + 1)' = ConjuntoEm(maquina, n + 1)
      BY <1>1, <2>2
    <3>8. NaCadeia'
      BY <1>1, <1>2, <2>0, <3>1, <3>2, <3>4, <3>5, <3>6, <3>7 DEF NaCadeia, Em
    <3>9. QED
      BY <2>8, <3>8 DEF NoFat
  <2>10. CASE ~ (n < Len(a))
    <3>1. n = Len(a)
      BY <2>3, <2>5, <2>10
    <3>2. pc' = "salta"
      BY <2>3, <2>7, <2>10
    <3>3. NaCadeia'
      BY <1>2, <2>0, <2>6, <3>1, <3>2 DEF NaCadeia, Em
    <3>4. QED
      BY <2>8, <3>3 DEF NoFat
  <2>11. QED
    BY <2>9, <2>10
<1>8. CASE SaltaFat
  <2>1. pc' = "inicial" /\ UNCHANGED unidade
    BY <1>8 DEF SaltaFat
  <2>2. QED
    BY <1>1, <2>1, FatCalmo
<1>9. QED
  BY <1>3, <1>4, <1>5, <1>6, <1>7, <1>8 DEF PassoFat, SetorFat

LEMMA FatResto ==
    ASSUME IInv, NoFat, FatServe, PassoZona \/ PassoMinix \/ PassoDois \/ LimpaBss \/ PassoTecla
    PROVE  NoFat'
<1>1. pc \in PassosFat /\ pc # "setor"
  BY FatosFat
  DEF PassoZona, Zona, ZonaDemais, ZonaDireta, ZonaIndireta, Indireto, Guarda,
      PassoMinix, SetorMinix, Extensao, Superbloco, Confere, GuardaItens, Busca, CarregaZona, SaltaMinix,
      PassoDois, SegundoEstagio, Entra, Desvia, TestaA20, Abre, Identifica, MontaMinix, Montado,
      Procura, FimDoDiretorio, OutroBloco, OutroNome, Encontrado,
      CfgIlegivel, LeCfg, Copia, FimDoNucleo, Protegido, LimpaBss, PassoTecla, Tecla
<1>2. CASE Guarda
  <2>1. /\ pc = "guarda" /\ pc' = pedido.volta /\ pedido' = pedido
        /\ pedido.volta = "identifica" /\ bloco' = lido /\ pedido.bloco = 1
        /\ UNCHANGED <<maquina, geo, unidade>>
    BY <1>2, FatosFat DEF Guarda, FatDois
  <2>2. bloco' = BlocoEm(maquina, 1)'
    BY <2>1, FatosFat, Enderecada DEF IInv, Transferencia, BlocoEm, CelulaEm
  <2>3. NoDrive' /\ pc' \in PassosFat /\ FatDois'
    BY <2>1, <2>2, FatosFat DEF NoDrive, PassosFat, M, FatDois, Em
  <2>4. RaizVem' /\ TabelasVem' /\ NaCadeia' /\ pc' # "setor"
    BY <2>1 DEF RaizVem, TabelasVem, NaCadeia, Em
  <2>5. QED
    BY <2>3, <2>4 DEF NoFat
<1>3. CASE Entra \/ Desvia \/ TestaA20 \/ PassoTecla
  <2>1. /\ pc' \in {"a20", "perdida", "abre", "tecla", "parado"}
        /\ UNCHANGED <<maquina, geo>> /\ unidade' \in {unidade, unidade % 16}
    BY <1>3 DEF Entra, Desvia, TestaA20, PassoTecla, Tecla
  <2>2. unidade = 0
    BY FatosFat DEF NoDrive, Encadeado, M
  <2>3. unidade' = unidade
    BY <2>1, <2>2
  <2>4. QED
    BY <2>1, <2>3, FatCalmo
<1>4. CASE Abre
  <2>1. LeBloco(1, "cs", "identifica") /\ UNCHANGED <<maquina, geo, unidade, bloco, cache>>
    BY <1>4 DEF Abre
  <2>2. /\ pedido' = [item |-> pedido.item, zona |-> pedido.zona, volta |-> "identifica", bloco |-> 1]
        /\ \/ cache = 1 /\ pc' = "identifica" /\ cf' = TRUE
           \/ Comeca(2 * 1, 2, "guarda")
    BY <2>1, LeBlocoNoCs, Zenon
  <2>3. Comeca(2 * 1, 2, "guarda") => pc' = "setor" /\ leitura'.apos = "guarda"
    BY DEF Comeca
  <2>4. /\ pedido'.volta = "identifica" /\ pedido'.bloco = 1
        /\ \/ cache = 1 /\ pc' = "identifica"
           \/ pc' = "setor" /\ leitura'.apos = "guarda"
    BY <2>2, <2>3
  <2>5. pc' = "identifica" => bloco' = BlocoEm(maquina, 1)'
    BY <2>1, <2>4, FatosFat, Enderecada DEF IInv, CacheFiel, BlocoEm, CelulaEm
  <2>6. NoDrive' /\ pc' \in PassosFat /\ FatDois'
    BY <2>1, <2>4, <2>5, FatosFat DEF NoDrive, PassosFat, M, FatDois, Em
  <2>7. RaizVem' /\ TabelasVem' /\ NaCadeia' /\ (pc' = "setor" => leitura'.apos = "guarda")
    BY <2>4 DEF RaizVem, TabelasVem, NaCadeia, Em
  <2>8. QED
    BY <2>6, <2>7 DEF NoFat
<1>5. CASE Identifica
  <2>1. bloco = BlocoEm(maquina, 1) /\ ~ SuperEm(maquina).magico
    BY <1>5, FatosFat DEF Identifica, FatDois, Encadeado
  <2>2. Setor(bloco[1]) = SuperEm(maquina)
    <3>1. bloco[1] = CelulaEm(maquina, 2 * 1) /\ 2 * 1 = 2
      BY <2>1 DEF BlocoEm
    <3>2. QED
      BY <3>1, SetorDaMaquina DEF SuperEm
  <2>3. pc' = "parado" /\ UNCHANGED <<maquina, geo, unidade>>
    BY <1>5, <2>1, <2>2 DEF Identifica
  <2>4. QED
    BY <2>3, FatCalmo
<1>6. QED
  BY <1>1, <1>2, <1>3, <1>4, <1>5
  DEF PassosFat, PassoZona, Zona, ZonaDemais, ZonaDireta, ZonaIndireta, Indireto,
      PassoMinix, SetorMinix, Extensao, Superbloco, Confere, GuardaItens, Busca, CarregaZona, SaltaMinix,
      PassoDois, SegundoEstagio, MontaMinix, Montado, Procura, FimDoDiretorio, OutroBloco, OutroNome,
      Encontrado, CfgIlegivel, LeCfg, Copia, FimDoNucleo, Protegido, LimpaBss

(* The machine is the same all the time.                                   *)
LEMMA MesmaMaquina == [Next]_vars => maquina' = maquina
<1> SUFFICES ASSUME [Next]_vars PROVE maquina' = maquina
  OBVIOUS
<1>1. CASE PassoDisco \/ PassoZona \/ PassoTecla \/ LimpaBss \/ UNCHANGED vars
  BY <1>1 DEF PassoDisco, LeSetor, Falha, Desiste, PassoZona, Zona, ZonaDemais, ZonaDireta,
              ZonaIndireta, Indireto, Guarda, PassoTecla, Tecla, LimpaBss, vars, disco
<1>2. CASE PassoMinix \/ PassoFat
  BY <1>2 DEF PassoMinix, SetorMinix, Extensao, Superbloco, Confere, GuardaItens, Busca, CarregaZona,
              SaltaMinix, PassoFat, SetorFat, Monta, BuscaFat, GuardaTabela, LeConjunto, SegueCadeia,
              SaltaFat
<1>3. CASE PassoDois
  BY <1>3 DEF PassoDois, SegundoEstagio, Entra, Desvia, TestaA20, Abre, Identifica, MontaMinix,
              Montado, Procura, FimDoDiretorio, OutroBloco, OutroNome, Encontrado,
              CfgIlegivel, LeCfg, Copia, FimDoNucleo, Protegido
<1>4. QED
  BY <1>1, <1>2, <1>3 DEF Next, Passo

LEMMA NextFat == IInv /\ NoFat /\ SegundoVem /\ [Next]_vars => NoFat'
<1> SUFFICES ASSUME IInv, NoFat, SegundoVem, [Next]_vars PROVE NoFat'
  OBVIOUS
<1>1. CASE UNCHANGED vars
  BY <1>1
  DEF vars, disco, minix, transfere, segundoEstagio, NoFat, FatServe, Serve, M, NoDrive, RaizVem,
      TabelasVem, NaCadeia, FatDois, Em, Vem, Trecho, EnderecoConj
<1>2. CASE FatServe
  BY <1>1, <1>2, FatDisco, FatSetor, FatResto DEF Next, Passo
<1>3. CASE ~ FatServe
  BY <1>3, MesmaMaquina DEF NoFat, FatServe, Serve, M
<1>4. QED
  BY <1>2, <1>3

LEMMA InitFat == Init => NoFat
<1> SUFFICES ASSUME Init, FatServe PROVE NoFat
  BY DEF NoFat
<1>1. pc = "raiz_fat" /\ segundo = <<>> /\ pc \in PassosFat
  BY DEF Init, FatServe, M, PassosFat
<1>2. NoDrive
  BY DEF Init, NoDrive, Geometria
<1>3. RaizVem /\ TabelasVem /\ NaCadeia /\ FatDois
  BY <1>1 DEF RaizVem, TabelasVem, NaCadeia, FatDois, Em
<1>4. QED
  BY <1>1, <1>2, <1>3 DEF NoFat

-----------------------------------------------------------------------------
LEMMA FatosMinix ==
    ASSUME NoMinix, Bons
    PROVE  NoInicial /\ Nomeado /\ NaBusca /\ Carregados
  BY DEF NoMinix

LEMMA DoConteudo ==
    ASSUME NEW n, NEW s, Len(s) \in Nat, Conteudo(maquina, n, s), NEW z \in Nat, z <= Len(s), z < Zonas
    PROVE  /\ ZonaEm(maquina, n, z) # 0 <=> z < Len(s)
           /\ z < Len(s) => s[z + 1] = BlocoEm(maquina, ZonaEm(maquina, n, z))
<1>1. CASE z < Len(s)
  <2>1. z \in 0..(Len(s) - 1)
    BY <1>1
  <2>2. QED
    BY <1>1, <2>1 DEF Conteudo
<1>2. CASE ~ (z < Len(s))
  <2>1. z = Len(s)
    BY <1>2
  <2>2. QED
    BY <1>2, <2>1 DEF Conteudo
<1>3. QED
  BY <1>1, <1>2

(* What a transfer and the way to a zone leave alone.                      *)
MesmoPedido ==
    /\ UNCHANGED <<maquina, etapa, segundo, alvo, nomes, dir, memoria, tam>>
    /\ pedido'.item = pedido.item /\ pedido'.zona = pedido.zona /\ pedido'.volta = pedido.volta
    /\ pc # "parado" /\ (Querendo' => Querendo) /\ (pc' = "parado" \/ (Querendo => Querendo'))
    /\ (Antes2' => Antes2)

LEMMA PedidoMinix ==
    ASSUME NoMinix, Bons, MesmoPedido
    PROVE  NoMinix'
<1>1. NoInicial /\ Nomeado /\ NaBusca /\ Carregados
  BY FatosMinix
<1>2. \A v : Pede1(v)' => Pede1(v)
  BY DEF Pede1, MesmoPedido
<1>3. \A v : pc' # "parado" /\ Pede1(v) => Pede1(v)'
  BY DEF Pede1, MesmoPedido
<1>4. Procurados' = Procurados
  BY DEF Procurados, MesmoPedido
<1>5. NoInicial'
  BY <1>1, <1>2, <1>3 DEF NoInicial, MesmoPedido
<1>6. Nomeado'
  BY <1>1 DEF Nomeado, MesmoPedido
<1>7. NaBusca'
  BY <1>1, <1>2, <1>4 DEF NaBusca, MesmoPedido
<1>8. Carregados'
  BY <1>1, <1>3 DEF Carregados, MesmoPedido, ArquivoDe, M
<1>9. QED
  BY <1>5, <1>6, <1>7, <1>8 DEF NoMinix

LEMMA DiscoPedido ==
    ASSUME IInv, PassoDisco
    PROVE  MesmoPedido
<1> USE DEF PassoDisco, minix, segundoEstagio
<1>1. /\ pc = "setor" /\ leitura'.apos = leitura.apos /\ pedido' = pedido
      /\ UNCHANGED <<maquina, etapa, segundo, alvo, nomes, dir, memoria, tam>>
      /\ leitura.apos \in Depois(etapa) /\ (pc' \in {"setor", "parado"} \/ pc' = leitura.apos)
  BY DEF LeSetor, Falha, Desiste, IInv, Controle
<1>2. leitura.apos \notin {"carrega", "parado", "setor"} /\ (leitura.apos \in Perguntas => etapa = 1)
  BY <1>1 DEF Depois, Perguntas
<1>3. Querendo' => Querendo
  BY <1>1, <1>2 DEF Querendo, Pedindo, Perguntas
<1>4. pc' = "parado" \/ (Querendo => Querendo')
  BY <1>1, <1>2 DEF Querendo, Pedindo, Perguntas
<1>5. Antes2' => Antes2
  BY <1>1, <1>2 DEF Antes2, Em, Depois
<1>6. QED
  BY <1>1, <1>3, <1>4, <1>5 DEF MesmoPedido

LEMMA ZonaPedido ==
    ASSUME IInv, NoVolume, Bons, PassoZona
    PROVE  MesmoPedido
<1>1. UNCHANGED <<maquina, etapa, segundo, alvo, nomes, dir, memoria, tam>>
  BY DEF PassoZona, segundoEstagio, Zona, ZonaDemais, ZonaDireta, ZonaIndireta, Indireto, Guarda
<1>2. ASSUME pc \in {"carrega", "indireto"}, Vazio
      PROVE  MesmoPedido
  <2>1. pc' = pedido.volta /\ pedido' = pedido /\ pedido.volta \in Perguntas /\ Querendo
    BY <1>2, Querem DEF Vazio
  <2>2. Querendo' /\ (Antes2' => Antes2)
    BY <1>1, <2>1 DEF Querendo, Perguntas, Antes2, Em
  <2>3. QED
    BY <1>1, <1>2, <2>1, <2>2 DEF MesmoPedido
<1>3. ASSUME pc \in {"carrega", "indireto"}, NEW p, LeZona(p)
      PROVE  MesmoPedido
  <2>1. pedido.volta \in Perguntas /\ Querendo
    BY <1>3, Querem
  <2>2. /\ pedido'.item = pedido.item /\ pedido'.zona = pedido.zona /\ pedido'.volta = pedido.volta
        /\ pc' = pedido.volta \/ (pc' = "setor" /\ leitura'.apos \in {pedido.volta, "guarda"})
    <3>1. CASE etapa = 1
      BY <1>3, <3>1 DEF LeZona, Comeca
    <3>2. CASE etapa # 1
      <4>1. PICK acerto \in Acertos(p, DsDoPonto("itens")) :
               /\ pedido' = [item |-> pedido.item, zona |-> pedido.zona, volta |-> pedido.volta, bloco |-> p]
               /\ IF acerto THEN pc' = pedido.volta /\ cf' = TRUE /\ UNCHANGED transfere
                  ELSE Comeca(2 * p, 2, "guarda") /\ cf' = cf
        BY <1>3, <3>2, Zenon DEF LeZona, LeBloco
      <4>2. pc' = pedido.volta \/ Comeca(2 * p, 2, "guarda")
        BY <4>1, Zenon
      <4>3. pc' = pedido.volta \/ (pc' = "setor" /\ leitura'.apos = "guarda")
        BY <4>2 DEF Comeca
      <4>4. QED
        BY <4>1, <4>3
    <3>3. QED
      BY <3>1, <3>2
  <2>3. Querendo' /\ (Antes2' => Antes2)
    BY <1>1, <2>1, <2>2 DEF Querendo, Pedindo, Perguntas, Antes2, Em
  <2>4. QED
    BY <1>1, <1>3, <2>1, <2>2, <2>3 DEF MesmoPedido
<1>4. CASE ZonaDemais
  <2>1. pc' = "parado" /\ pedido' = pedido /\ pc = "carrega"
    BY <1>4 DEF ZonaDemais, minix
  <2>2. ~ Querendo' /\ (Antes2' => Antes2)
    BY <1>1, <2>1 DEF Querendo, Pedindo, Perguntas, Antes2, Em
  <2>3. QED
    BY <1>1, <2>1, <2>2 DEF MesmoPedido
<1>5. CASE ZonaDireta \/ Indireto
  <2>1. pc \in {"carrega", "indireto"} /\ (Vazio \/ \E p : LeZona(p))
    BY <1>5 DEF ZonaDireta, Indireto
  <2>2. QED
    BY <1>2, <1>3, <2>1
<1>6. CASE ZonaIndireta
  <2>1. /\ pc = "carrega"
        /\ \/ Vazio
           \/ pc' = "setor" /\ leitura'.apos = "indireto" /\ pedido' = pedido
    BY <1>6 DEF ZonaIndireta, Comeca
  <2>2. CASE pc' = "setor" /\ leitura'.apos = "indireto" /\ pedido' = pedido
    <3>1. Querendo /\ pedido.volta \in Perguntas
      BY <2>1, Querem
    <3>2. Querendo' /\ (Antes2' => Antes2)
      BY <1>1, <2>2, <3>1 DEF Querendo, Pedindo, Perguntas, Antes2, Em
    <3>3. QED
      BY <1>1, <2>1, <2>2, <3>1, <3>2 DEF MesmoPedido
  <2>3. QED
    BY <1>2, <2>1, <2>2
<1>7. CASE Guarda
  <2>1. pc = "guarda" /\ pc' = pedido.volta /\ pedido' = pedido /\ pedido.volta \in Voltas(2)
    BY <1>7, Programa DEF Guarda, IInv, Controle, Pedindo
  <2>2. pedido.volta \in {"identifica", "monta", "proximo", "leu"}
    BY <2>1 DEF Voltas
  <2>3. (Querendo' => Querendo) /\ (Querendo => Querendo') /\ (Antes2' => Antes2)
    BY <1>1, <2>1, <2>2 DEF Querendo, Pedindo, Perguntas, Antes2, Em
  <2>4. QED
    BY <1>1, <2>1, <2>2, <2>3 DEF MesmoPedido
<1>8. QED
  BY <1>4, <1>5, <1>6, <1>7 DEF PassoZona, Zona

(* The steps of the boot sector.                                           *)
LEMMA FatosArquivo ==
    ASSUME NoVolume, Bons
    PROVE  Arquivado(maquina) /\ Integro(maquina) /\ maquina \in DOMAIN Maquinas
  BY Fatos, VolumeAssumption DEF NoDrive, Bons, Serve, M

LEMMA SetorNoMinix ==
    ASSUME NoMinix, Bons, etapa = 1, etapa' \in {1, 2}, UNCHANGED <<maquina, segundoEstagio>>,
           ~ Pede1("proximo")', ~ Pede1("leu")'
    PROVE  Nomeado' /\ NaBusca' /\ Carregados'
<1> USE DEF segundoEstagio
<1>1. Nomeado /\ Carregados /\ alvo = "cfg"
  BY FatosMinix DEF Nomeado, Antes2
<1>2. tam.nucleo = 0 /\ tam.imagem = 0
  BY <1>1 DEF Carregados
<1>3. Nomeado'
  BY <1>1 DEF Nomeado
<1>4. NaBusca'
  BY DEF NaBusca
<1>5. Carregados'
  BY <1>1, <1>2 DEF Carregados, ArquivoDe, M
<1>6. QED
  BY <1>3, <1>4, <1>5

LEMMA AchadasNoDisco ==
    ASSUME IInv, NoVolume, ZonasNaturais, Bons, pc = "busca", cf, pedido.zona = 0
    PROVE  /\ {e \in 0..(Entradas - 1) : Entrada(lido, e).nome = NomeInicial}
                  = Nomeadas(maquina, NomeInicial)
           /\ \A e : Entrada(lido, e) = EntradaEm(maquina, 0, e)
<1>1. lido = BlocoEm(maquina, ZonaEm(maquina, 1, 0)) /\ ZonaEm(maquina, 1, 0) # 0
  BY NaPergunta, Programa DEF Perguntas, AZona, IInv
<1>2. \A e : Entrada(lido, e) = EntradaEm(maquina, 0, e)
  BY <1>1, SetorDaMaquina DEF Entrada, EntradaEm
<1>3. 0 \notin NaTabela(maquina)
  BY DEF NaTabela
<1>4. ASSUME NEW e \in 0..(Entradas - 1), Entrada(lido, e).nome = NomeInicial
      PROVE  EntradaEm(maquina, 0, e).item # 0
  <2>1. \/ EntradaEm(maquina, 0, e).item \in NaTabela(maquina)
        \/ EntradaEm(maquina, 0, e).nome # NomeInicial
    BY DoDiretorio
  <2>2. QED
    BY <1>2, <1>3, <1>4, <2>1
<1>5. QED
  BY <1>1, <1>2, <1>4 DEF Nomeadas

LEMMA ParesTipo ==
    ASSUME NEW S, NEW s \in Seq(S)
    PROVE  /\ Len(AosPares(s)) = Len(s) \div 2
           /\ \A z \in 1..(Len(s) \div 2) : AosPares(s)[z] = <<s[2 * z - 1], s[2 * z]>>
<1> DEFINE k == Len(s) \div 2
<1>1. k \in Nat /\ 2 * k <= Len(s)
  OBVIOUS
<1>2. \A z \in 1..k : 2 * z - 1 \in 1..Len(s) /\ 2 * z \in 1..Len(s)
  BY <1>1
<1> HIDE DEF k
<1>3. AosPares(s) = [z \in 1..k |-> <<s[2 * z - 1], s[2 * z]>>]
  BY DEF AosPares, k
<1>4. [z \in 1..k |-> <<s[2 * z - 1], s[2 * z]>>] \in [1..k -> S \X S]
  BY <1>2
<1>5. AosPares(s) \in Seq(S \X S) /\ Len(AosPares(s)) = k
  BY <1>1, <1>3, <1>4
<1>6. QED
  BY <1>3, <1>5 DEF k

(* The next zone of the second stage, or its end.                          *)
LEMMA ZonaDoSegundo ==
    ASSUME IInv, NoVolume, ZonasNaturais, SegundoVem, NoMinix, Bons, pc = "zona"
    PROVE  /\ cf => Comeco(segundo \o lido, M.arquivos[1]) /\ Len(segundo \o lido) = 2 * (pedido.zona + 1)
           /\ ~ cf => segundo = M.arquivos[1]
<1> DEFINE a == M.arquivos[1]
           z == pedido.zona
           n == ItemDe(maquina, NomeInicial)
<1>1. /\ Pede1("zona") /\ etapa = 1 /\ SuperEm(maquina).magico
      /\ (cf <=> AZona # 0) /\ (cf => lido = BlocoEm(maquina, AZona)) /\ z \in Nat /\ z < Zonas
  BY NaPergunta, Programa DEF Perguntas, Pede1, Querendo, IInv, ZonasNaturais
<1>2. Nomeadas(maquina, NomeInicial) # {} /\ pedido.item = n /\ Len(segundo) = 2 * z
  BY <1>1, FatosMinix DEF NoInicial
<1>3. a \in Seq(Int \X Int) /\ Comeco(segundo, a)
  BY <1>1, FatosArquivo, ArquivosTipo DEF Bons, SegundoVem
<1>4. Len(a) % 2 = 0 /\ Conteudo(maquina, n, AosPares(a))
  BY <1>1, <1>2, FatosArquivo DEF Arquivado, M
<1>5. AZona = ZonaEm(maquina, n, z)
  BY <1>2 DEF AZona
<1> HIDE DEF a, z, n
<1>6. PICK k \in Nat : Len(a) = 2 * k /\ k = Len(a) \div 2
  BY <1>3, <1>4
<1>7. /\ Len(AosPares(a)) = k
      /\ \A y \in 1..k : AosPares(a)[y] = <<a[2 * y - 1], a[2 * y]>>
  BY <1>3, <1>6, ParesTipo
<1>8. z \in Nat /\ z <= k
  BY <1>1, <1>2, <1>3, <1>6 DEF Comeco, z
<1>9. /\ ZonaEm(maquina, n, z) # 0 <=> z < k
      /\ z < k => AosPares(a)[z + 1] = BlocoEm(maquina, ZonaEm(maquina, n, z))
  <2>1. Len(AosPares(a)) \in Nat /\ z <= Len(AosPares(a)) /\ z < Zonas
    BY <1>1, <1>7, <1>8 DEF z
  <2>2. QED
    BY <1>4, <1>7, <1>8, <2>1, DoConteudo
<1>10. CASE z < k
  <2>1. z + 1 \in 1..k /\ 2 * (z + 1) - 1 = 2 * z + 1 /\ 2 * (z + 1) = 2 * z + 2
    BY <1>8, <1>10
  <2>2. lido = <<a[2 * z + 1], a[2 * z + 2]>> /\ cf
    <3>1. cf /\ lido = AosPares(a)[z + 1]
      BY <1>1, <1>5, <1>9, <1>10
    <3>2. AosPares(a)[z + 1] = <<a[2 * (z + 1) - 1], a[2 * (z + 1)]>>
      BY <1>7, <2>1
    <3>3. QED
      BY <2>1, <3>1, <3>2
  <2>3. 2 * z + 1 \in 1..Len(a) /\ 2 * z + 2 \in 1..Len(a)
    BY <1>6, <1>8, <1>10
  <2>4. a[2 * z + 1] \in Int \X Int /\ a[2 * z + 2] \in Int \X Int
    BY <1>3, <2>3
  <2>5. PICK u \in Seq(Int \X Int) : u = lido /\ Len(u) = 2 /\ u[1] = a[2 * z + 1] /\ u[2] = a[2 * z + 2]
    <3>1. PICK p \in Int \X Int, q \in Int \X Int : p = a[2 * z + 1] /\ q = a[2 * z + 2]
      BY <2>4
    <3>2. <<p, q>> \in Seq(Int \X Int) /\ Len(<<p, q>>) = 2 /\ <<p, q>>[1] = p /\ <<p, q>>[2] = q
      OBVIOUS
    <3>3. QED
      BY <2>2, <3>1, <3>2
  <2>6. Len(segundo) + Len(u) <= Len(a) /\ \A j \in 1..Len(u) : u[j] = a[Len(segundo) + j]
    <3>1. Len(segundo) = 2 * z
      BY <1>2 DEF z
    <3>2. \A j \in 1..2 : j = 1 \/ j = 2
      OBVIOUS
    <3>3. QED
      BY <1>6, <1>8, <1>10, <2>3, <2>5, <3>1, <3>2
  <2>7. Comeco(segundo \o u, a) /\ Len(segundo \o u) = Len(segundo) + Len(u)
    BY <1>3, <2>5, <2>6, Prolonga
  <2>8. Len(segundo \o lido) = 2 * (z + 1)
    BY <1>2, <1>8, <2>5, <2>7 DEF z
  <2>9. QED
    BY <2>2, <2>5, <2>7, <2>8 DEF a, z
<1>11. CASE ~ (z < k)
  <2>1. z = k /\ ~ cf
    BY <1>1, <1>5, <1>8, <1>9, <1>11
  <2>2. Len(segundo) = Len(a)
    BY <1>2, <1>6, <2>1 DEF z
  <2>3. segundo = a
    BY <1>3, <2>2, ComecoTodo
  <2>4. QED
    BY <2>1, <2>3 DEF a
<1>12. QED
  BY <1>10, <1>11

LEMMA SetorMinixMinix ==
    ASSUME IInv, NoVolume, ZonasNaturais, SegundoVem, NoMinix, Bons, PassoMinix
    PROVE  NoMinix' /\ SegundoVem'
<1>1. /\ UNCHANGED <<maquina, segundoEstagio>> /\ etapa = 1 /\ pc # "parado"
      /\ Bons' /\ Serve' /\ M' = M
  BY Programa
  DEF IInv, PassoMinix, SetorMinix, Extensao, Superbloco, Confere, GuardaItens, Busca, CarregaZona, SaltaMinix,
      Bons, Serve, M
<1>2. Comeco(segundo, M.arquivos[1])
  BY <1>1 DEF SegundoVem, Bons
<1>3. CASE Extensao \/ Superbloco \/ Confere
  <2>1. /\ pc \in {"extensao", "superbloco", "confere"} /\ UNCHANGED <<etapa, segundo>>
        /\ pc' = "parado" \/ (pc' = "setor" /\ leitura'.apos \in {"superbloco", "confere", "itens"})
    BY <1>3 DEF Extensao, Superbloco, Confere, Comeca
  <2>2. ~ Querendo /\ ~ Querendo'
    BY <2>1 DEF Querendo, Pedindo, Perguntas
  <2>3. segundo = <<>>
    BY <1>1, <2>2, FatosMinix DEF NoInicial, Pede1
  <2>4. NoInicial'
    BY <2>1, <2>2, <2>3 DEF NoInicial, Pede1
  <2>5. Nomeado' /\ NaBusca' /\ Carregados'
    BY <1>1, <2>1, <2>2, SetorNoMinix DEF Pede1
  <2>6. SegundoVem'
    BY <1>1, <1>2, <2>1 DEF SegundoVem
  <2>7. QED
    BY <2>4, <2>5, <2>6 DEF NoMinix
<1>4. CASE GuardaItens
  <2>1. /\ pc = "itens" /\ UNCHANGED <<etapa, segundo>>
        /\ pedido' = [item |-> 1, zona |-> 0, volta |-> "busca", bloco |-> 0]
    BY <1>4 DEF GuardaItens, Pede
  <2>2. ~ Querendo
    BY <2>1 DEF Querendo, Pedindo, Perguntas
  <2>3. segundo = <<>>
    BY <1>1, <2>2, FatosMinix DEF NoInicial, Pede1
  <2>4. NoInicial'
    BY <2>1, <2>3 DEF NoInicial, Pede1
  <2>5. Nomeado' /\ NaBusca' /\ Carregados'
    BY <1>1, <2>1, SetorNoMinix DEF Pede1
  <2>6. SegundoVem'
    BY <1>1, <1>2, <2>1 DEF SegundoVem
  <2>7. QED
    BY <2>4, <2>5, <2>6 DEF NoMinix
<1>5. CASE Busca
  <2> DEFINE achadas == {e \in 0..(Entradas - 1) : Entrada(lido, e).nome = NomeInicial}
  <2>1. pc = "busca" /\ UNCHANGED <<etapa, segundo>> /\ Pede1("busca") /\ pedido.zona = 0
    <3>1. pc = "busca" /\ UNCHANGED <<etapa, segundo>>
      BY <1>5 DEF Busca
    <3>2. Pede1("busca")
      BY <3>1, NaPergunta DEF Perguntas, Pede1, Querendo
    <3>3. QED
      BY <3>1, <3>2, FatosMinix DEF NoInicial
  <2>2. segundo = <<>>
    BY <1>1, <2>1, FatosMinix DEF NoInicial, Pede1
  <2>3. CASE cf /\ achadas # {}
    <3>1. Pede(Entrada(lido, Min(achadas)).item, 0, "zona")
      BY <1>5, <2>3 DEF Busca
    <3>2. achadas = Nomeadas(maquina, NomeInicial) /\ \A e : Entrada(lido, e) = EntradaEm(maquina, 0, e)
      BY <2>1, <2>3, AchadasNoDisco
    <3>3. Entrada(lido, Min(achadas)).item = ItemDe(maquina, NomeInicial)
      BY <3>2 DEF ItemDe
    <3>4. /\ pedido'.item = ItemDe(maquina, NomeInicial) /\ pedido'.zona = 0
          /\ pedido'.volta = "zona" /\ pc' = "carrega"
      BY <3>1, <3>3 DEF Pede
    <3>5. Pede1("zona")' /\ ~ Pede1("busca")' /\ ~ Pede1("proximo")' /\ ~ Pede1("leu")'
      BY <3>4 DEF Pede1, Querendo, Perguntas, Pedindo
    <3>6. Len(segundo') = 2 * pedido'.zona
      BY <2>1, <2>2, <3>4
    <3>7. NoInicial'
      <4>1. Nomeadas(maquina, NomeInicial)' # {} /\ pedido'.item = ItemDe(maquina, NomeInicial)'
        BY <1>1, <2>3, <3>2, <3>4
      <4>2. QED
        BY <3>5, <3>6, <4>1 DEF NoInicial
    <3>8. Nomeado' /\ NaBusca' /\ Carregados'
      BY <1>1, <2>1, <3>5, SetorNoMinix
    <3>9. SegundoVem'
      BY <1>1, <1>2, <2>1 DEF SegundoVem
    <3>10. QED
      BY <3>7, <3>8, <3>9 DEF NoMinix
  <2>4. CASE ~ (cf /\ achadas # {})
    <3>1. pc' = "parado"
      BY <1>5, <2>4 DEF Busca
    <3>2. ~ Querendo'
      BY <3>1 DEF Querendo, Pedindo, Perguntas
    <3>3. NoInicial'
      BY <3>1, <3>2 DEF NoInicial, Pede1
    <3>4. Nomeado' /\ NaBusca' /\ Carregados'
      BY <1>1, <2>1, <3>2, SetorNoMinix DEF Pede1
    <3>5. SegundoVem'
      BY <1>1, <1>2, <2>1 DEF SegundoVem
    <3>6. QED
      BY <3>3, <3>4, <3>5 DEF NoMinix
  <2>5. QED
    BY <2>3, <2>4
<1>6. CASE CarregaZona
  <2>1. /\ pc = "zona" /\ cf /\ segundo' = segundo \o lido /\ etapa' = etapa
        /\ pedido'.item = pedido.item /\ pedido'.zona = pedido.zona + 1
        /\ pedido'.volta = "zona" /\ pc' = "carrega"
    BY <1>6 DEF CarregaZona, Pede
  <2>2. Comeco(segundo', M.arquivos[1]) /\ Len(segundo') = 2 * pedido'.zona
    BY <2>1, ZonaDoSegundo
  <2>3. Pede1("zona") /\ Nomeadas(maquina, NomeInicial) # {} /\ pedido.item = ItemDe(maquina, NomeInicial)
    <3>1. Pede1("zona")
      BY <2>1, NaPergunta DEF Perguntas, Pede1, Querendo
    <3>2. QED
      BY <3>1, FatosMinix DEF NoInicial
  <2>4. Pede1("zona")' /\ ~ Pede1("busca")' /\ ~ Pede1("proximo")' /\ ~ Pede1("leu")'
    BY <2>1 DEF Pede1, Querendo, Perguntas, Pedindo
  <2>5. NoInicial'
    <3>1. Nomeadas(maquina, NomeInicial)' # {} /\ pedido'.item = ItemDe(maquina, NomeInicial)'
      BY <1>1, <2>1, <2>3
    <3>2. QED
      BY <2>2, <2>4, <3>1 DEF NoInicial
  <2>6. Nomeado' /\ NaBusca' /\ Carregados'
    BY <1>1, <2>1, <2>4, SetorNoMinix
  <2>7. SegundoVem'
    BY <1>1, <2>1, <2>2 DEF SegundoVem
  <2>8. QED
    BY <2>5, <2>6, <2>7 DEF NoMinix
<1>7. CASE SaltaMinix
  <2>1. pc = "zona" /\ ~ cf /\ etapa' = 2 /\ pc' = "inicial" /\ segundo' = segundo
    BY <1>7 DEF SaltaMinix
  <2>2. ~ Querendo'
    BY <2>1 DEF Querendo, Pedindo, Perguntas
  <2>3. NoInicial'
    BY <2>1, <2>2 DEF NoInicial, Pede1
  <2>4. Nomeado' /\ NaBusca' /\ Carregados'
    BY <1>1, <2>1, <2>2, SetorNoMinix DEF Pede1
  <2>5. SegundoVem'
    BY <1>1, <2>1, ZonaDoSegundo DEF SegundoVem
  <2>6. QED
    BY <2>3, <2>4, <2>5 DEF NoMinix
<1>8. QED
  BY <1>3, <1>4, <1>5, <1>6, <1>7 DEF PassoMinix, SetorMinix

(* The steps of the second stage: without a request.                       *)
LEMMA CalmoMinix ==
    ASSUME NoMinix, Bons, etapa = 2, UNCHANGED <<maquina, etapa, alvo, nomes, dir, memoria, tam>>,
           ~ Querendo', alvo = "cfg" \/ (pc' = "parado" /\ ~ Antes2')
    PROVE  NoMinix'
<1>1. Nomeado /\ Carregados
  BY FatosMinix
<1>2. NoInicial' /\ NaBusca'
  BY DEF NoInicial, NaBusca, Pede1
<1>3. Nomeado'
  BY <1>1 DEF Nomeado
<1>4. Carregados'
  BY <1>1 DEF Carregados, ArquivoDe, M
<1>5. QED
  BY <1>2, <1>3, <1>4 DEF NoMinix

(* With one: the boot sector is over and the names are known.              *)
LEMMA SemInicial ==
    ASSUME etapa' # 1, pedido'.volta \notin {"busca", "zona"} \/ ~ Querendo'
    PROVE  NoInicial'
  BY DEF NoInicial, Pede1

(* The search.                                                             *)
LEMMA NomeProcurado ==
    ASSUME NoMinix, Bons
    PROVE  alvo \in Alvos /\ nomes[alvo] = NomeEm(maquina, alvo)
  BY FatosMinix DEF Nomeado, NomeEm

LEMMA Procurar ==
    ASSUME IInv, NoVolume, ZonasNaturais, NoMinix, Bons, pc = "proximo", cf
    PROVE  /\ Pede1("proximo") /\ pedido.zona = dir.bloco
           /\ \A e : EntradaDir(e) = EntradaEm(maquina, dir.bloco, e)
           /\ ZonaEm(maquina, 1, dir.bloco) # 0
           /\ dir.bloco = 0 => Procurados \subseteq Restantes
           /\ Restantes # {} => dir.bloco = 0
           /\ dir.bloco = 0 \/ (dir.sub >= Cheio /\ Procurados = {})
<1>1. Pede1("proximo") /\ etapa = 2
  BY NaPergunta, Programa DEF Perguntas, Pede1, Querendo, IInv
<1>2. /\ pedido.zona = dir.bloco
      /\ \/ dir.bloco = 0 /\ \A e \in Procurados : dir.sub < e
         \/ dir.sub >= Cheio /\ Procurados = {}
  BY <1>1, FatosMinix DEF NaBusca
<1>3. bloco = BlocoEm(maquina, ZonaEm(maquina, 1, dir.bloco)) /\ ZonaEm(maquina, 1, dir.bloco) # 0
  BY <1>1, <1>2, NaPergunta DEF Perguntas, AZona
<1>4. \A e : EntradaDir(e) = EntradaEm(maquina, dir.bloco, e)
  BY <1>3, SetorDaMaquina DEF EntradaDir, EntradaEm
<1>5. dir.sub \in Int /\ dir.sub >= -1 /\ Cheio \in Nat /\ Cheio = Entradas
  BY Fatos, MinixFSAssumption DEF NaUnidade, Cheio, Entradas
<1>6. ASSUME dir.bloco = 0, NEW e \in Procurados PROVE e \in Restantes
  <2>1. e \in 0..(Cheio - 1) /\ EntradaEm(maquina, 0, e).item # 0
    BY <1>5 DEF Procurados, Nomeadas
  <2>2. dir.sub < e
    BY <1>2, <1>5, <1>6, <2>1
  <2>3. e \in (dir.sub + 1)..(Cheio - 1)
    BY <1>5, <2>1, <2>2
  <2>4. QED
    BY <1>4, <1>6, <2>1, <2>3 DEF Restantes
<1>7. dir.sub >= Cheio => Restantes = {}
  BY <1>5 DEF Restantes
<1>8. QED
  BY <1>1, <1>2, <1>3, <1>4, <1>6, <1>7

(* A step of the search keeps the files.                                   *)
LEMMA BuscandoMinix ==
    ASSUME NoMinix, Bons, etapa = 2, pc # "parado", ~ Pede1("leu"),
           UNCHANGED <<maquina, etapa, alvo, nomes, memoria, tam>>, pc' = "carrega",
           pedido'.volta \in {"proximo", "leu"}
    PROVE  NoInicial' /\ Nomeado' /\ Carregados'
<1>1. Nomeado /\ Carregados
  BY FatosMinix
<1>2. NoInicial'
  BY SemInicial
<1>3. Nomeado'
  BY <1>1 DEF Nomeado, Antes2, Em
<1>4. Carregados'
  BY <1>1 DEF Carregados, ArquivoDe, M
<1>5. QED
  BY <1>2, <1>3, <1>4

(* The size of a file found was 0 before it was set to 0.                   *)
LEMMA TamanhoZero ==
    ASSUME IInv, Enderecos, NoVolume, NoMinix, Bons, Encontrado
    PROVE  tam' = tam
<1>1. /\ alvo \in Alvos /\ tam' = (IF alvo = "cfg" THEN tam ELSE [tam EXCEPT ![alvo] = 0])
      /\ pc = "proximo" /\ etapa = 2
  BY Programa DEF Encontrado, Enderecos, IInv
<1>2. ~ Pede1("leu")
  BY <1>1, NaPergunta DEF Perguntas, Pede1
<1>3. CASE alvo = "cfg"
  BY <1>1, <1>3
<1>4. CASE alvo # "cfg"
  <2>1. PICK a \in {"nucleo", "imagem"} : a = alvo
    BY <1>1, <1>4 DEF Alvos
  <2>2. tam[a] = 0
    BY <1>1, <1>2, <2>1, FatosMinix DEF Carregados
  <2>3. tam \in [{"nucleo", "imagem"} -> 0..Zonas] /\ tam' = [tam EXCEPT ![a] = 0]
    BY <1>1, <1>4, <2>1 DEF Enderecos
  <2>4. QED
    BY <2>2, <2>3
<1>5. QED
  BY <1>3, <1>4

LEMMA ProcuraMinix ==
    ASSUME IInv, Enderecos, ZonasNaturais, NoVolume, NoMinix, Bons,
           Procura \/ OutroBloco \/ OutroNome \/ Encontrado
    PROVE  NoMinix'
<1>1. /\ etapa = 2 /\ pc \in {"procura", "proximo"} /\ pc' = "carrega"
      /\ pedido'.volta \in {"proximo", "leu"} /\ UNCHANGED <<maquina, etapa, alvo, nomes, memoria>>
  BY Programa DEF IInv, Procura, OutroBloco, OutroNome, Encontrado, Pede
<1>2. ~ Pede1("leu")
  <2>1. pc = "procura" => ~ Querendo
    BY DEF Querendo, Pedindo, Perguntas
  <2>2. pc = "proximo" => pedido.volta = "proximo"
    BY NaPergunta DEF Perguntas
  <2>3. QED
    BY <1>1, <2>1, <2>2 DEF Pede1
<1>3. tam' = tam
  BY TamanhoZero DEF Procura, OutroBloco, OutroNome
<1>4. NoInicial' /\ Nomeado' /\ Carregados'
  BY <1>1, <1>2, <1>3, BuscandoMinix
<1>5. Procurados' = Procurados
  BY <1>1 DEF Procurados
<1>6. dir.sub \in Int /\ dir.sub >= -1 /\ Cheio \in Nat /\ DOMAIN dir = {"bloco", "sub"} /\ dir.bloco \in Nat
  BY Fatos, MinixFSAssumption DEF NaUnidade, Cheio, ZonasNaturais
<1>7. Procurados \in SUBSET Nat
  <2>1. \A e \in Procurados : e \in 0..(Entradas - 1)
    BY DEF Procurados, Nomeadas
  <2>2. QED
    BY <2>1
<1>8. NaBusca'
  <2>1. CASE Procura
    <3>1. dir' = [bloco |-> 0, sub |-> -1] /\ pedido'.zona = 0 /\ pedido'.volta = "proximo"
      BY <2>1 DEF Procura, Pede
    <3>2. \A e \in Procurados : dir'.sub < e
      BY <1>7, <3>1
    <3>3. QED
      BY <1>5, <3>1, <3>2 DEF NaBusca, Pede1
  <2>2. CASE OutroBloco
    <3>1. /\ pc = "proximo" /\ cf /\ Restantes = {} /\ pedido'.zona = dir.bloco + 1
          /\ pedido'.volta = "proximo"
          /\ dir' = [bloco |-> dir.bloco + 1, sub |-> IF dir.sub < Cheio THEN Cheio ELSE dir.sub + 1]
      BY <2>2 DEF OutroBloco, Pede
    <3>2. Procurados = {}
      BY <3>1, Procurar
    <3>3. dir'.bloco = pedido'.zona /\ dir'.sub >= Cheio
      BY <1>6, <3>1
    <3>4. QED
      BY <1>5, <3>1, <3>2, <3>3 DEF NaBusca, Pede1, Cheio
  <2>3. CASE OutroNome
    <3>1. /\ pc = "proximo" /\ cf /\ Restantes # {} /\ pedido'.zona = dir.bloco
          /\ pedido'.volta = "proximo" /\ dir' = [dir EXCEPT !.sub = Min(Restantes)]
          /\ EntradaDir(Min(Restantes)).nome # nomes[alvo]
      BY <2>3 DEF OutroNome, Pede
    <3>2. dir.bloco = 0 /\ Procurados \subseteq Restantes
      BY <3>1, Procurar
    <3>3. PICK k \in 0..(Cheio - 1) : k = Min(Restantes)
      BY <3>1, AindaNoBloco
    <3>4. dir'.bloco = 0 /\ dir'.sub = k /\ pedido'.zona = 0
      BY <1>6, <3>1, <3>2, <3>3
    <3>5. ASSUME NEW e \in Procurados PROVE k < e
      <4>1. e # k
        <5>1. EntradaEm(maquina, 0, e).nome = NomeEm(maquina, alvo)
          BY DEF Procurados, Nomeadas
        <5>2. EntradaEm(maquina, 0, k).nome # NomeEm(maquina, alvo)
          BY <3>1, <3>2, <3>3, Procurar, NomeProcurado
        <5>3. QED
          BY <5>1, <5>2
      <4>2. k <= e
        <5>1. Restantes \in SUBSET Nat
          BY <1>6 DEF Restantes
        <5>2. QED
          BY <3>1, <3>2, <3>3, <5>1, MinimoDe
      <4>3. QED
        BY <1>7, <4>1, <4>2
    <3>6. QED
      BY <1>5, <3>1, <3>4, <3>5 DEF NaBusca, Pede1
  <2>4. CASE Encontrado
    <3>1. /\ pc = "proximo" /\ cf /\ Restantes # {} /\ pedido'.zona = 0
          /\ pedido'.volta = "leu"
          /\ pedido'.item = EntradaDir(Min(Restantes)).item
          /\ EntradaDir(Min(Restantes)).nome = nomes[alvo]
      BY <2>4 DEF Encontrado, Pede
    <3>2. dir.bloco = 0 /\ Procurados \subseteq Restantes /\ ZonaEm(maquina, 1, 0) # 0
      BY <3>1, Procurar
    <3>3. PICK k \in 0..(Cheio - 1) : k = Min(Restantes) /\ k \in Restantes
      BY <3>1, AindaNoBloco
    <3>4. EntradaDir(k) = EntradaEm(maquina, 0, k)
      BY <3>1, <3>2, Procurar
    <3>5. k \in Procurados
      <4>1. k \in 0..(Entradas - 1) /\ EntradaDir(k).item # 0
        BY <3>3 DEF Entradas, Cheio, Restantes
      <4>2. EntradaEm(maquina, 0, k).nome = NomeEm(maquina, alvo)
        BY <3>1, <3>3, <3>4, NomeProcurado
      <4>3. QED
        BY <3>2, <3>4, <4>1, <4>2 DEF Procurados, Nomeadas
    <3>6. Min(Procurados) = k
      <4>1. Restantes \in SUBSET Nat
        BY <1>6 DEF Restantes
      <4>2. PICK j \in Nat : j = Min(Procurados) /\ j \in Procurados /\ \A y \in Procurados : j <= y
        BY <1>7, <3>5, MinimoDe
      <4>3. k <= j
        BY <3>1, <3>2, <3>3, <4>1, <4>2, MinimoDe
      <4>4. j <= k
        BY <3>5, <4>2
      <4>5. QED
        BY <4>2, <4>3, <4>4
    <3>7. pedido'.item = ItemDe(maquina, NomeEm(maquina, alvo))
      BY <3>1, <3>3, <3>4, <3>6 DEF ItemDe, Procurados
    <3>8. QED
      BY <1>1, <1>5, <3>1, <3>5, <3>7 DEF NaBusca, Pede1
  <2>5. QED
    BY <2>1, <2>2, <2>3, <2>4
<1>9. QED
  BY <1>4, <1>8 DEF NoMinix

(* The files.  The next zone of the kernel or of the image, or its end.     *)
LEMMA ZonaDoArquivo ==
    ASSUME IInv, Enderecos, NoVolume, ZonasNaturais, NoMinix, Bons, pc = "leu",
           NEW a \in {"nucleo", "imagem"}, alvo = a
    PROVE  /\ tam[a] \in Nat /\ tam[a] < Zonas /\ pedido.zona = tam[a]
           /\ cf => tam[a] < Len(ArquivoDe(a)) /\ bloco = ArquivoDe(a)[tam[a] + 1]
           /\ ~ cf => tam[a] = Len(ArquivoDe(a))
<1> DEFINE n == ItemDe(maquina, NomeEm(maquina, a))
           z == pedido.zona
           s == ArquivoDe(a)
<1>1. /\ Pede1("leu") /\ etapa = 2 /\ SuperEm(maquina).magico
      /\ (cf <=> AZona # 0) /\ (cf => bloco = BlocoEm(maquina, AZona)) /\ z \in Nat /\ z < Zonas
  BY NaPergunta, Programa DEF Perguntas, Pede1, Querendo, IInv, ZonasNaturais
<1>2. Procurados # {} /\ pedido.item = n
  BY <1>1, FatosMinix DEF NaBusca
<1>3. s \in Seq(UmBloco) /\ Conteudo(maquina, n, s)
  <2>1. Nomeadas(maquina, NomeEm(maquina, a)) # {}
    BY <1>2 DEF Procurados
  <2>2. Arquivado(maquina)
    BY FatosArquivo
  <2>3. CASE a = "nucleo"
    BY <1>1, <2>1, <2>2, <2>3 DEF Arquivado, ArquivoDe, M
  <2>4. CASE a = "imagem"
    BY <1>1, <2>1, <2>2, <2>4 DEF Arquivado, ArquivoDe, M
  <2>5. QED
    BY <2>3, <2>4
<1>4. z = tam[a] /\ tam[a] <= Len(s)
  <2>1. Lendo
    BY <1>1 DEF Lendo, Pede1
  <2>2. z = tam[a]
    BY <2>1 DEF Enderecos
  <2>3. tam[a] <= Len(s)
    BY FatosMinix DEF Carregados
  <2>4. QED
    BY <2>2, <2>3
<1>5. AZona = ZonaEm(maquina, n, z)
  BY <1>2 DEF AZona
<1> HIDE DEF n, z, s
<1>6. /\ ZonaEm(maquina, n, z) # 0 <=> z < Len(s)
      /\ z < Len(s) => s[z + 1] = BlocoEm(maquina, ZonaEm(maquina, n, z))
  <2>1. Len(s) \in Nat /\ z \in Nat /\ z <= Len(s) /\ z < Zonas
    BY <1>1, <1>3, <1>4 DEF z
  <2>2. QED
    BY <1>3, <2>1, DoConteudo
<1>7. cf => z < Len(s) /\ bloco = s[z + 1]
  BY <1>1, <1>5, <1>6
<1>8. ~ cf => z = Len(s)
  <2>1. ~ cf => ~ (z < Len(s))
    BY <1>1, <1>5, <1>6
  <2>2. Len(s) \in Nat /\ z \in Nat
    BY <1>1, <1>3 DEF z
  <2>3. QED
    BY <1>4, <2>1, <2>2
<1>9. QED
  BY <1>1, <1>4, <1>7, <1>8 DEF z, s

LEMMA CfgMinix ==
    ASSUME IInv, NoVolume, NoMinix, Bons, LeCfg
    PROVE  NoMinix'
<1>1. /\ pc = "leu" /\ alvo = "cfg" /\ cf /\ alvo' = "nucleo" /\ pc' = "procura"
      /\ UNCHANGED <<maquina, etapa, memoria, tam>>
      /\ nomes' = [nomes EXCEPT !.nucleo = Setor(bloco[1]).linhas[1],
                                !.imagem = Setor(bloco[1]).linhas[2]]
      /\ etapa = 2
  BY Programa DEF LeCfg, IInv
<1>2. ~ Querendo'
  BY <1>1 DEF Querendo, Pedindo, Perguntas
<1>3. Setor(bloco[1]).linhas = LinhasCfg(maquina)
  <2>1. Pede1("leu") /\ bloco = BlocoEm(maquina, AZona)
    BY <1>1, NaPergunta DEF Perguntas, Pede1, Querendo
  <2>2. pedido.item = ItemDe(maquina, NomeCfg) /\ pedido.zona = 0
    BY <1>1, <2>1, FatosMinix DEF NaBusca, NomeEm
  <2>3. QED
    BY <2>1, <2>2, SetorDaMaquina DEF AZona, LinhasCfg
<1>4. Nomeado'
  <2>1. DOMAIN nomes = Alvos /\ nomes.cfg = NomeCfg
    BY FatosMinix DEF Nomeado
  <2>2. /\ DOMAIN nomes' = Alvos /\ nomes'.cfg = NomeCfg
        /\ nomes'.nucleo = LinhasCfg(maquina)[1] /\ nomes'.imagem = LinhasCfg(maquina)[2]
    BY <1>1, <1>3, <2>1 DEF Alvos
  <2>3. \A a \in Alvos : nomes'[a] = NomeEm(maquina, a)
    BY <2>2 DEF Alvos, NomeEm
  <2>4. alvo' \in Alvos /\ ~ Antes2'
    BY <1>1 DEF Alvos, Antes2, Em
  <2>5. QED
    BY <1>1, <2>2, <2>3, <2>4 DEF Nomeado
<1>5. Carregados'
  BY <1>1, FatosMinix DEF Carregados, ArquivoDe, M
<1>6. NoInicial' /\ NaBusca'
  BY <1>1, <1>2 DEF NoInicial, NaBusca, Pede1
<1>7. QED
  BY <1>4, <1>5, <1>6 DEF NoMinix

LEMMA CopiaMinix ==
    ASSUME IInv, Enderecos, NoVolume, ZonasNaturais, NoMinix, Bons, Copia
    PROVE  NoMinix'
<1>1. PICK a \in {"nucleo", "imagem"} : a = alvo
  BY DEF Copia, Enderecos, Alvos
<1>2. /\ pc = "leu" /\ cf /\ alvo' = a /\ pc' = "carrega" /\ etapa = 2
      /\ UNCHANGED <<maquina, etapa, nomes, dir>>
      /\ memoria' = [memoria EXCEPT ![Lugar(a) + tam[a]] = bloco]
      /\ tam' = [tam EXCEPT ![a] = @ + 1]
      /\ pedido'.item = pedido.item /\ pedido'.volta = "leu"
  BY <1>1, Programa DEF Copia, Pede, IInv, Destino, Lugar
<1>3. PICK z \in Nat : z = tam[a] /\ z < Zonas /\ z < Len(ArquivoDe(a)) /\ bloco = ArquivoDe(a)[z + 1]
  BY <1>1, <1>2, ZonaDoArquivo
<1>4. Pede1("leu") /\ Procurados # {} /\ pedido.item = ItemDe(maquina, NomeEm(maquina, alvo))
  <2>1. Pede1("leu")
    BY <1>2, NaPergunta DEF Perguntas, Pede1, Querendo
  <2>2. QED
    BY <2>1, FatosMinix DEF NaBusca
<1>5. NoInicial' /\ NaBusca'
  <2>1. pedido'.volta = "leu" /\ Procurados' = Procurados
    BY <1>1, <1>2 DEF Procurados
  <2>2. QED
    BY <1>1, <1>2, <1>4, <2>1 DEF NoInicial, NaBusca, Pede1
<1>6. Nomeado'
  <2>1. ~ Antes2'
    BY <1>2 DEF Antes2, Em
  <2>2. QED
    BY <1>1, <1>2, <2>1, FatosMinix DEF Nomeado
<1>7. Carregados'
  <2>1. /\ NucleoInicio \in Nat /\ ImagemInicio \in Nat /\ FimDaMemoria \in Nat /\ Zonas \in Nat
        /\ NucleoInicio + Zonas <= ImagemInicio /\ ImagemInicio + Zonas <= FimDaMemoria
    BY Estagio2Assumption, MinixFSAssumption DEF Zonas, PorIndice
  <2>2. /\ tam \in [{"nucleo", "imagem"} -> 0..Zonas] /\ DOMAIN memoria = NucleoInicio..(FimDaMemoria - 1)
    BY DEF Enderecos
  <2>3. /\ \A b \in {"nucleo", "imagem"} :
              /\ tam[b] <= Len(ArquivoDe(b))
              /\ \A i \in 1..tam[b] : memoria[Lugar(b) + i - 1] = ArquivoDe(b)[i]
        /\ alvo # "imagem" => tam.imagem = 0
        /\ alvo = "imagem" => tam.nucleo = Len(M.arquivos[2])
    BY FatosMinix DEF Carregados
  <2>4. tam'[a] = z + 1 /\ \A b \in {"nucleo", "imagem"} : b # a => tam'[b] = tam[b]
    BY <1>2, <1>3, <2>2
  <2>5. Lugar(a) \in Nat /\ Lugar(a) + z \in DOMAIN memoria
    BY <1>3, <2>1, <2>2 DEF Lugar
  <2>6. /\ memoria'[Lugar(a) + z] = bloco
        /\ \A e \in DOMAIN memoria : e # Lugar(a) + z => memoria'[e] = memoria[e]
    BY <1>2, <1>3, <2>5
  <2>7. ASSUME NEW b \in {"nucleo", "imagem"}, NEW i \in 1..tam[b]
        PROVE  memoria'[Lugar(b) + i - 1] = memoria[Lugar(b) + i - 1]
    <3>1. tam[b] \in 0..Zonas /\ (a = "nucleo" /\ b = "imagem" => tam[b] = 0)
      BY <1>1, <2>2, <2>3
    <3>2. Lugar(b) + i - 1 \in NucleoInicio..(FimDaMemoria - 1)
      BY <2>1, <3>1 DEF Lugar
    <3>3. Lugar(b) + i - 1 # Lugar(a) + z
      <4>1. CASE a = b
        BY <1>3, <2>5, <4>1
      <4>2. CASE a = "imagem" /\ b = "nucleo"
        BY <1>3, <2>1, <3>1, <4>2 DEF Lugar
      <4>3. CASE a = "nucleo" /\ b = "imagem"
        BY <3>1, <4>3
      <4>4. QED
        BY <4>1, <4>2, <4>3
    <3>4. QED
      BY <2>2, <2>6, <3>2, <3>3
  <2>8. ASSUME NEW b \in {"nucleo", "imagem"}
        PROVE  /\ tam'[b] <= Len(ArquivoDe(b))
               /\ \A i \in 1..tam'[b] : memoria'[Lugar(b) + i - 1] = ArquivoDe(b)[i]
    <3>1. CASE b # a
      BY <2>3, <2>4, <2>7, <3>1
    <3>2. CASE b = a
      <4>1. Len(ArquivoDe(a)) \in Nat
        BY FatosArquivo, ArquivosTipo DEF Bons, ArquivoDe
      <4>2. z + 1 <= Len(ArquivoDe(a))
        BY <1>3, <4>1
      <4>3. ASSUME NEW i \in 1..(z + 1) PROVE memoria'[Lugar(a) + i - 1] = ArquivoDe(a)[i]
        <5>1. CASE i = z + 1
          <6>1. Lugar(a) + i - 1 = Lugar(a) + z
            BY <1>3, <2>5, <5>1
          <6>2. QED
            BY <1>3, <2>6, <5>1, <6>1
        <5>2. CASE i # z + 1
          <6>1. i \in 1..tam[a]
            BY <1>3, <5>2
          <6>2. QED
            BY <2>3, <2>7, <6>1
        <5>3. QED
          BY <5>1, <5>2
      <4>4. QED
        BY <2>4, <3>2, <4>2, <4>3
    <3>3. QED
      BY <3>1, <3>2
  <2>9. \A b \in {"nucleo", "imagem"} : ArquivoDe(b)' = ArquivoDe(b) /\ Lugar(b)' = Lugar(b)
    BY <1>2 DEF ArquivoDe, Lugar, M
  <2>10. Pede1("leu")' /\ M' = M /\ etapa' = 2
    BY <1>2 DEF Pede1, Querendo, Perguntas, Pedindo, M
  <2>11. /\ alvo' = "imagem" => tam'.nucleo = Len(M.arquivos[2])'
         /\ alvo' # "imagem" => tam'.imagem = 0
    BY <1>1, <1>2, <2>3, <2>4, <2>10
  <2>12. QED
    BY <1>1, <1>2, <2>8, <2>9, <2>10, <2>11 DEF Carregados
<1>8. QED
  BY <1>5, <1>6, <1>7 DEF NoMinix

LEMMA FimMinix ==
    ASSUME IInv, Enderecos, NoVolume, ZonasNaturais, NoMinix, Bons, FimDoNucleo \/ Protegido
    PROVE  NoMinix'
<1>1. /\ pc = "leu" /\ ~ cf /\ etapa = 2
      /\ UNCHANGED <<maquina, nomes, dir, memoria, tam>> /\ pc' \in {"procura", "__start"}
  BY Programa DEF FimDoNucleo, Protegido, IInv, segundoEstagio
<1>2. ~ Querendo' /\ M' = M /\ \A a : ArquivoDe(a)' = ArquivoDe(a)
  BY <1>1 DEF Querendo, Pedindo, Perguntas, M, ArquivoDe
<1>3. Nomeado /\ Carregados
  BY FatosMinix
<1>4. NoInicial' /\ NaBusca'
  BY <1>1, <1>2 DEF NoInicial, NaBusca, Pede1, FimDoNucleo, Protegido
<1>5. CASE FimDoNucleo
  <2>1. alvo = "nucleo" /\ alvo' = "imagem" /\ etapa' = 2 /\ pc' = "procura"
    BY <1>1, <1>5 DEF FimDoNucleo
  <2>2. tam["nucleo"] = Len(ArquivoDe("nucleo"))
    BY <1>1, <2>1, ZonaDoArquivo
  <2>3. Nomeado'
    BY <1>1, <1>3, <2>1 DEF Nomeado, Antes2, Em, Alvos
  <2>4. Carregados'
    BY <1>1, <1>2, <1>3, <2>1, <2>2 DEF Carregados, ArquivoDe
  <2>5. QED
    BY <1>4, <2>3, <2>4 DEF NoMinix
<1>6. CASE Protegido
  <2>1. alvo = "imagem" /\ alvo' = "imagem" /\ etapa' = 3 /\ pc' = "__start"
    BY <1>1, <1>6 DEF Protegido, segundoEstagio
  <2>2. tam["imagem"] = Len(ArquivoDe("imagem"))
    BY <1>1, <2>1, ZonaDoArquivo
  <2>3. Nomeado'
    BY <1>1, <1>3, <2>1 DEF Nomeado, Antes2, Em, Alvos
  <2>4. Carregados'
    BY <1>1, <1>2, <1>3, <2>1, <2>2 DEF Carregados, ArquivoDe
  <2>5. QED
    BY <1>4, <2>3, <2>4 DEF NoMinix
<1>7. QED
  BY <1>5, <1>6

LEMMA DoisMinix ==
    ASSUME IInv, Enderecos, NoVolume, ZonasNaturais, NoMinix, Bons, PassoDois
    PROVE  NoMinix'
<1>1. CASE Entra \/ Desvia \/ TestaA20 \/ Abre \/ Identifica \/ MontaMinix
  <2>1. /\ pc \in {"inicial", "a20", "abre", "identifica", "monta"} /\ etapa = 2
        /\ UNCHANGED <<maquina, etapa, alvo, nomes, dir, memoria, tam>>
    BY <1>1, Programa DEF IInv, Entra, Desvia, TestaA20, Abre, Identifica, MontaMinix, segundoEstagio
  <2>2. \/ pc' \in {"a20", "perdida", "abre", "tecla", "parado"}
        \/ pc' = "setor" /\ leitura'.apos = "montado"
        \/ pc' \in {"setor", "identifica", "monta"} /\ pedido'.volta \in {"identifica", "monta"}
    BY <1>1 DEF Entra, Desvia, TestaA20, Abre, Identifica, MontaMinix, LeBloco, Comeca
  <2>3. ~ Querendo'
    BY <2>2 DEF Querendo, Pedindo, Perguntas
  <2>4. alvo = "cfg"
    BY <2>1, FatosMinix DEF Nomeado, Antes2
  <2>5. QED
    BY <2>1, <2>3, <2>4, CalmoMinix
<1>2. CASE Montado \/ FimDoDiretorio \/ CfgIlegivel
  <2>1. /\ pc \in {"montado", "proximo", "leu"} /\ etapa = 2
        /\ UNCHANGED <<maquina, etapa, nomes, dir, memoria, tam>>
    BY <1>2, Programa DEF IInv, Montado, FimDoDiretorio, CfgIlegivel, segundoEstagio
  <2>2. \/ pc' = "procura" /\ alvo' = "cfg" /\ pc = "montado"
        \/ pc' = "parado" /\ alvo' = alvo
    BY <1>2 DEF Montado, FimDoDiretorio, CfgIlegivel, segundoEstagio
  <2>3. ~ Querendo'
    BY <2>2 DEF Querendo, Pedindo, Perguntas
  <2>4. pc = "montado" => alvo = "cfg"
    BY <2>1, FatosMinix DEF Nomeado, Antes2
  <2>5. pc' = "parado" => ~ Antes2'
    BY <2>1 DEF Antes2, Em
  <2>6. QED
    BY <2>1, <2>2, <2>3, <2>4, <2>5, CalmoMinix
<1>3. QED
  BY <1>1, <1>2, ProcuraMinix, CfgMinix, CopiaMinix, FimMinix DEF PassoDois, SegundoEstagio

LEMMA RestoMinix ==
    ASSUME IInv, Enderecos, NoMinix, Bons, LimpaBss \/ PassoTecla
    PROVE  NoMinix'
<1>1. CASE PassoTecla
  <2>1. /\ pc = "tecla" /\ pc' = "a20" /\ etapa = 2
        /\ UNCHANGED <<maquina, etapa, alvo, nomes, dir, memoria, tam>>
    BY <1>1, Programa DEF IInv, PassoTecla, Tecla, segundoEstagio
  <2>2. ~ Querendo' /\ alvo = "cfg"
    BY <2>1, FatosMinix DEF Querendo, Pedindo, Perguntas, Nomeado, Antes2
  <2>3. QED
    BY <2>1, <2>2, CalmoMinix
<1>2. CASE LimpaBss
  <2>1. /\ pc = "__start" /\ pc' = "Inicial" /\ etapa = 3
        /\ UNCHANGED <<maquina, etapa, alvo, nomes, dir, segundo>>
    BY <1>2, Programa DEF IInv, LimpaBss
  <2>2. /\ tam' = tam
        /\ \A a \in {"nucleo", "imagem"} : \A i \in 1..tam[a] :
               memoria'[Lugar(a) + i - 1] = memoria[Lugar(a) + i - 1]
    BY <1>2, ZerosLonge DEF Lugar
  <2>3. ~ Querendo' /\ ~ Antes2'
    BY <2>1 DEF Querendo, Pedindo, Perguntas, Antes2, Em
  <2>4. NoInicial' /\ NaBusca' /\ Nomeado'
    BY <2>1, <2>3, FatosMinix DEF NoInicial, NaBusca, Pede1, Nomeado
  <2>5. Carregados'
    <3>1. M' = M /\ (\A a : ArquivoDe(a)' = ArquivoDe(a)) /\ \A a : Lugar(a)' = Lugar(a)
      BY <2>1 DEF M, ArquivoDe, Lugar
    <3>2. QED
      BY <2>1, <2>2, <3>1, FatosMinix DEF Carregados
  <2>6. QED
    BY <2>4, <2>5 DEF NoMinix
<1>3. QED
  BY <1>1, <1>2

LEMMA NextMinix ==
    IInv /\ Enderecos /\ NoVolume /\ ZonasNaturais /\ SegundoVem /\ NoMinix /\ [Next]_vars => NoMinix'
<1> SUFFICES ASSUME IInv, Enderecos, NoVolume, ZonasNaturais, SegundoVem, NoMinix, [Next]_vars
             PROVE  NoMinix'
  OBVIOUS
<1>1. CASE Bons
  <2>1. CASE PassoDisco \/ PassoZona
    BY <1>1, <2>1, DiscoPedido, ZonaPedido, PedidoMinix
  <2>2. CASE PassoFat
    <3>1. pc \in SoFat \/ pc = "raiz_fat"
      BY <2>2 DEF PassoFat, SetorFat, Monta, BuscaFat, GuardaTabela, LeConjunto, SegueCadeia,
                  SaltaFat, SoFat
    <3>2. QED
      BY <1>1, <3>1, Fatos DEF NaUnidade, SoFat
  <2>3. CASE UNCHANGED vars
    BY <2>3
    DEF vars, disco, minix, transfere, segundoEstagio, NoMinix, Bons, Serve, M, NoInicial, Nomeado,
        NaBusca, Carregados, Pede1, Querendo, Pedindo, Antes2, Em, Procurados, ArquivoDe
  <2>4. QED
    BY <1>1, <2>1, <2>2, <2>3, SetorMinixMinix, DoisMinix, RestoMinix DEF Next, Passo
<1>2. CASE ~ Bons
  BY <1>2, MesmaMaquina DEF NoMinix, Bons, Serve, M
<1>3. QED
  BY <1>1, <1>2

LEMMA InitMinix == Init => NoMinix
<1> SUFFICES ASSUME Init, Bons PROVE NoInicial /\ Nomeado /\ NaBusca /\ Carregados
  BY DEF NoMinix
<1>1. /\ etapa = 1 /\ pedido.volta = "nada" /\ segundo = <<>> /\ alvo = "cfg"
      /\ tam = [nucleo |-> 0, imagem |-> 0]
      /\ nomes = [cfg |-> NomeCfg, nucleo |-> "", imagem |-> ""]
  BY DEF Init
<1>2. ~ Querendo
  BY <1>1 DEF Querendo, Perguntas
<1>3. NoInicial /\ NaBusca /\ Nomeado
  BY <1>1, <1>2 DEF NoInicial, NaBusca, Nomeado, Pede1, Alvos
<1>4. \A a \in {"nucleo", "imagem"} : Len(ArquivoDe(a)) \in Nat
  <2>1. maquina \in DOMAIN Maquinas
    BY DEF Init
  <2>2. QED
    BY <2>1, ArquivosTipo DEF Bons, ArquivoDe
<1>5. Carregados
  <2>1. tam["nucleo"] = 0 /\ tam["imagem"] = 0
    BY <1>1
  <2>2. ASSUME NEW a \in {"nucleo", "imagem"}
        PROVE  /\ tam[a] <= Len(ArquivoDe(a))
               /\ \A i \in 1..tam[a] : memoria[Lugar(a) + i - 1] = ArquivoDe(a)[i]
               /\ tam[a] = 0
    <3>1. tam[a] = 0
      BY <2>1
    <3>2. Len(ArquivoDe(a)) \in Nat
      BY <1>4
    <3>3. tam[a] <= Len(ArquivoDe(a)) /\ 1..tam[a] = {}
      BY <3>1, <3>2
    <3>4. QED
      BY <3>1, <3>3
  <2>3. alvo = "cfg" /\ etapa = 1
    BY <1>1
  <2>4. QED
    BY <2>1, <2>2, <2>3 DEF Carregados
<1>6. QED
  BY <1>3, <1>5

(* The second stage whole, from either disk.                               *)
LEMMA SegundoIgual ==
    ASSUME SegundoVem, UNCHANGED <<maquina, segundo>>, etapa = 1 <=> etapa' = 1
    PROVE  SegundoVem'
  BY DEF SegundoVem, Serve, M

LEMMA NextSegundo ==
    /\ maquina \in DOMAIN Maquinas
    /\ IInv /\ NoVolume /\ ZonasNaturais /\ NoFat /\ SegundoVem /\ NoMinix /\ [Next]_vars
    => SegundoVem'
<1> SUFFICES ASSUME maquina \in DOMAIN Maquinas, Serve,
                    IInv, NoVolume, ZonasNaturais, NoFat, SegundoVem, NoMinix, [Next]_vars
             PROVE  SegundoVem'
  BY MesmaMaquina DEF SegundoVem, Serve, M
<1>1. maquina' = maquina /\ M' = M /\ Serve' = Serve
  BY MesmaMaquina DEF M, Serve
<1>2. CASE PassoFat
  <2>1. FatServe
    <3>1. pc \in SoFat \/ pc = "raiz_fat"
      BY <1>2 DEF PassoFat, SetorFat, Monta, BuscaFat, GuardaTabela, LeConjunto, SegueCadeia,
                  SaltaFat, SoFat
    <3>2. ~ Bons
      BY <3>1, Fatos DEF NaUnidade, SoFat
    <3>3. QED
      BY <3>2, VolumeAssumption DEF FatServe, Bons, M
  <2>2. CASE Monta \/ BuscaFat \/ GuardaTabela \/ LeConjunto
    <3>1. etapa' = etapa /\ segundo' = segundo
      BY <2>2 DEF Monta, BuscaFat, GuardaTabela, LeConjunto
    <3>2. QED
      BY <1>1, <3>1, SegundoIgual
  <2>3. CASE SegueCadeia
    <3>1. Comeco(segundo', M.arquivos[1]) /\ etapa = 1 /\ etapa' = 1
      BY <2>1, <2>3, MaisUmElo, Programa DEF SegueCadeia, IInv
    <3>2. QED
      BY <1>1, <3>1 DEF SegundoVem
  <2>4. CASE SaltaFat
    <3>1. pc = "salta" /\ segundo' = segundo /\ etapa' = 2 /\ etapa = 1
      BY <2>4, Programa DEF SaltaFat, IInv
    <3>2. Len(segundo) = Len(M.arquivos[1]) /\ Comeco(segundo, M.arquivos[1])
      BY <2>1, <3>1, FatosFat DEF NaCadeia, SegundoVem
    <3>3. M.arquivos[1] \in Seq(Int \X Int)
      BY <2>1, FatosFat, ArquivosTipo DEF NoDrive
    <3>4. segundo = M.arquivos[1]
      BY <3>2, <3>3, ComecoTodo
    <3>5. QED
      BY <1>1, <3>1, <3>4 DEF SegundoVem
  <2>5. QED
    BY <1>2, <2>2, <2>3, <2>4 DEF PassoFat, SetorFat
<1>3. CASE PassoMinix
  <2>1. CASE Bons
    BY <1>3, <2>1, SetorMinixMinix
  <2>2. CASE ~ Bons
    <3>1. FatServe
      BY <2>2, VolumeAssumption DEF FatServe, Bons, M
    <3>2. pc \in PassosFat
      BY <3>1, FatosFat
    <3>3. QED
      BY <1>3, <3>2
      DEF PassosFat, PassoMinix, SetorMinix, Extensao, Superbloco, Confere, GuardaItens, Busca, CarregaZona,
          SaltaMinix
  <2>3. QED
    BY <2>1, <2>2
<1>4. CASE PassoDisco \/ PassoZona \/ LimpaBss \/ PassoTecla \/ UNCHANGED vars
  <2>1. segundo' = segundo /\ (etapa = 1 <=> etapa' = 1)
    BY <1>4
    DEF PassoDisco, LeSetor, Falha, Desiste, PassoZona, Zona, ZonaDemais, ZonaDireta, ZonaIndireta, Indireto,
        Guarda, LimpaBss, PassoTecla, Tecla, vars, disco
  <2>2. QED
    BY <1>1, <2>1, SegundoIgual
<1>5. CASE PassoDois
  <2>1. segundo' = segundo /\ etapa' # 1
    BY <1>5, Programa
    DEF IInv, PassoDois, SegundoEstagio, Entra, Desvia, TestaA20, Abre, Identifica, MontaMinix,
        Montado, Procura, FimDoDiretorio, OutroBloco, OutroNome, Encontrado,
        CfgIlegivel, LeCfg, Copia, FimDoNucleo, Protegido
  <2>2. etapa # 1
    BY <1>5, Programa
    DEF IInv, PassoDois, SegundoEstagio, Entra, Desvia, TestaA20, Abre, Identifica, MontaMinix,
        Montado, Procura, FimDoDiretorio, OutroBloco, OutroNome, Encontrado,
        CfgIlegivel, LeCfg, Copia, FimDoNucleo, Protegido
  <2>3. QED
    BY <1>1, <2>1, <2>2, SegundoIgual
<1>6. QED
  BY <1>2, <1>3, <1>4, <1>5 DEF Next, Passo

-----------------------------------------------------------------------------
(* The promise.                                                            *)

Prometido == <<M.arquivos, Serve, Vez, NaMemoria, pc = "parado">>

(* On FAT12 no configuration is ever read.                                 *)
FatCfg == FatServe => alvo = "cfg"

LEMMA NextCfg == NoFat /\ FatCfg /\ [Next]_vars => FatCfg'
<1> SUFFICES ASSUME NoFat, FatCfg, [Next]_vars, FatServe PROVE FatCfg'
  BY MesmaMaquina DEF FatCfg, FatServe, Serve, M
<1>1. pc \in PassosFat /\ alvo = "cfg"
  BY FatosFat DEF FatCfg
<1>2. alvo' = alvo
  <2>1. CASE PassoDois
    BY <1>1, <2>1
    DEF PassosFat, PassoDois, SegundoEstagio, Entra, Desvia, TestaA20, Abre, Identifica, MontaMinix,
        Montado, Procura, FimDoDiretorio, OutroBloco, OutroNome, Encontrado,
        CfgIlegivel, LeCfg, Copia, FimDoNucleo, Protegido, segundoEstagio
  <2>2. CASE ~ PassoDois
    BY <2>2
    DEF Next, Passo, PassoDisco, PassoZona, PassoMinix, PassoFat, LimpaBss, PassoTecla, Tecla, vars,
        segundoEstagio
  <2>3. QED
    BY <2>1, <2>2
<1>3. QED
  BY <1>1, <1>2 DEF FatCfg

(* The three kinds of step.                                                *)
LEMMA NadaMuda ==
    ASSUME maquina' = maquina, Serve, pc # "parado", Vez' = Vez, NaMemoria' = NaMemoria
    PROVE  [Promessa!Next]_Prometido
<1>1. M' = M /\ Serve' = Serve
  BY DEF M, Serve
<1>2. CASE pc' = "parado"
  <2>1. Promessa!Para
    BY <1>1, <1>2 DEF Promessa!Para
  <2>2. QED
    BY <2>1 DEF Promessa!Next
<1>3. CASE pc' # "parado"
  BY <1>1, <1>3 DEF Prometido
<1>4. QED
  BY <1>2, <1>3

LEMMA Passou ==
    ASSUME maquina' = maquina, Serve, pc # "parado", pc' # "parado", Vez \in 1..3, Vez' = Vez + 1,
           NaMemoria' = NaMemoria, NaMemoria[Vez] = M.arquivos[Vez]
    PROVE  [Promessa!Next]_Prometido
<1>1. M' = M /\ Serve' = Serve
  BY DEF M, Serve
<1>2. Promessa!Passa
  BY <1>1 DEF Promessa!Passa
<1>3. QED
  BY <1>2 DEF Promessa!Next

LEMMA LeuMais ==
    ASSUME maquina' = maquina, Serve, pc # "parado", pc' # "parado", Vez \in 1..3, Vez' = Vez,
           NEW n \in (Len(NaMemoria[Vez]) + 1)..Len(M.arquivos[Vez]),
           NaMemoria' = [NaMemoria EXCEPT ![Vez] = SubSeq(M.arquivos[Vez], 1, n)]
    PROVE  [Promessa!Next]_Prometido
<1>1. M' = M /\ Serve' = Serve
  BY DEF M, Serve
<1>2. \E k \in (Len(NaMemoria[Vez]) + 1)..Len(M.arquivos[Vez]) :
         NaMemoria' = [NaMemoria EXCEPT ![Vez] = SubSeq(M.arquivos[Vez], 1, k)]
  BY Zenon
<1>3. Vez <= 3 /\ (pc = "parado") = FALSE /\ (pc = "parado")' = FALSE
  OBVIOUS
<1>4. Promessa!Le
  BY <1>1, <1>2, <1>3, Zenon DEF Promessa!Le
<1>5. QED
  BY <1>4 DEF Promessa!Next

(* What is in memory of the kernel and of the image.                       *)
LEMMA Copiado ==
    ASSUME NEW s \in Seq(UmBloco), NEW k \in Nat, k <= Len(s), NEW f, NEW x,
           \A i \in 1..k : f[x + i - 1] = s[i]
    PROVE  /\ [i \in 1..k |-> f[x + i - 1]] = SubSeq(s, 1, k)
           /\ Len([i \in 1..k |-> f[x + i - 1]]) = k
<1> DEFINE b == [i \in 1..k |-> f[x + i - 1]]
           u == SubSeq(s, 1, k)
<1>1. u \in Seq(UmBloco) /\ Len(u) = k /\ \A i \in 1..k : u[i] = s[i]
  OBVIOUS
<1>2. b = [i \in 1..k |-> s[i]]
  OBVIOUS
<1> HIDE DEF b, u
<1>3. b \in Seq(UmBloco) /\ Len(b) = k /\ \A i \in 1..k : b[i] = s[i]
  BY <1>2
<1>4. b = u
  BY <1>1, <1>3, SeqEqual
<1>5. QED
  BY <1>3, <1>4 DEF b, u

LEMMA BlocosDe ==
    ASSUME NoMinix, Enderecos, NoVolume, Bons, NEW a \in {"nucleo", "imagem"}
    PROVE  /\ Blocos(a, Lugar(a)) = SubSeq(ArquivoDe(a), 1, tam[a]) /\ Len(Blocos(a, Lugar(a))) = tam[a]
           /\ ArquivoDe(a) \in Seq(UmBloco) /\ tam[a] \in Nat /\ tam[a] <= Len(ArquivoDe(a))
<1>1. ArquivoDe(a) \in Seq(UmBloco)
  BY FatosArquivo, ArquivosTipo DEF Bons, ArquivoDe
<1>2. /\ tam[a] \in Nat /\ tam[a] <= Len(ArquivoDe(a))
      /\ \A i \in 1..tam[a] : memoria[Lugar(a) + i - 1] = ArquivoDe(a)[i]
  BY FatosMinix DEF Enderecos, Carregados
<1>3. QED
  BY <1>1, <1>2, Copiado DEF Blocos

LEMMA InteiroNaMemoria ==
    ASSUME NoMinix, Enderecos, NoVolume, Bons, NEW a \in {"nucleo", "imagem"}, tam[a] = Len(ArquivoDe(a))
    PROVE  Blocos(a, Lugar(a)) = ArquivoDe(a)
<1>1. PICK s \in Seq(UmBloco) : s = ArquivoDe(a)
  BY BlocosDe
<1>2. SubSeq(s, 1, Len(s)) = s
  BY <1>1
<1>3. QED
  BY <1>1, <1>2, BlocosDe

LEMMA PromessaInit == Init => Promessa!Init
<1> SUFFICES ASSUME Init PROVE Promessa!Init
  OBVIOUS
<1>1. etapa = 1 /\ segundo = <<>> /\ (pc = "raiz_fat" \/ pc = "extensao")
  BY DEF Init
<1>2. tam["nucleo"] = 0 /\ tam["imagem"] = 0
  BY DEF Init
<1>3. \A a \in {"nucleo", "imagem"} : \A x : Blocos(a, x) = <<>>
  BY <1>2 DEF Blocos
<1>4. NaMemoria = <<<<>>, <<>>, <<>>>>
  BY <1>1, <1>3 DEF NaMemoria
<1>5. NaMemoria = [e \in 1..3 |-> <<>>]
  BY <1>4
<1>6. Vez = 1 /\ (pc = "parado") = FALSE
  BY <1>1 DEF Vez
<1>7. QED
  BY <1>5, <1>6 DEF Promessa!Init

LEMMA NadaPrometido ==
    ASSUME UNCHANGED <<maquina, etapa, alvo, segundo, tam, memoria>>, Serve, pc # "parado"
    PROVE  [Promessa!Next]_Prometido
<1>1. Vez' = Vez /\ NaMemoria' = NaMemoria
  BY DEF Vez, NaMemoria, Blocos
<1>2. QED
  BY <1>1, NadaMuda

(* The boot sectors.                                                       *)
LEMMA SegundoPrometido ==
    ASSUME UNCHANGED <<maquina, etapa, alvo, tam, memoria>>, Serve, etapa = 1, pc # "parado", pc' # "parado",
           M.arquivos[1] \in Seq(Int \X Int), Comeco(segundo', M.arquivos[1]),
           Len(segundo) \in Nat, Len(segundo') > Len(segundo)
    PROVE  [Promessa!Next]_Prometido
<1>1. Vez = 1 /\ Vez' = 1 /\ NaMemoria[Vez] = segundo
  BY DEF Vez, NaMemoria
<1>2. PICK n \in Nat : n \in (Len(segundo) + 1)..Len(M.arquivos[1])
                       /\ segundo' = SubSeq(M.arquivos[1], 1, n)
  <2>1. PICK a \in Seq(Int \X Int) : a = M.arquivos[1]
    OBVIOUS
  <2>2. PICK s : s = segundo'
    OBVIOUS
  <2>3. PICK k : k = Len(segundo)
    OBVIOUS
  <2>4. k \in Nat /\ Len(s) \in 0..Len(a) /\ Len(s) > k /\ s = SubSeq(a, 1, Len(s)) /\ Len(a) \in Nat
    BY <2>1, <2>2, <2>3 DEF Comeco
  <2>5. Len(s) \in Nat /\ Len(s) \in (k + 1)..Len(a)
    BY <2>4
  <2>6. QED
    BY <2>1, <2>2, <2>3, <2>4, <2>5
<1>3. /\ Blocos("nucleo", NucleoInicio)' = Blocos("nucleo", NucleoInicio)
      /\ Blocos("imagem", ImagemInicio)' = Blocos("imagem", ImagemInicio)
  BY DEF Blocos
<1>4. NaMemoria' = [NaMemoria EXCEPT ![1] = segundo']
  BY <1>3 DEF NaMemoria
<1>5. n \in (Len(NaMemoria[Vez]) + 1)..Len(M.arquivos[Vez])
  BY <1>1, <1>2
<1>6. NaMemoria' = [NaMemoria EXCEPT ![Vez] = SubSeq(M.arquivos[Vez], 1, n)]
  BY <1>1, <1>2, <1>4
<1>7. Vez \in 1..3 /\ Vez' = Vez
  BY <1>1
<1>8. QED
  BY <1>5, <1>6, <1>7, LeuMais

LEMMA SaltoPrometido ==
    ASSUME UNCHANGED <<maquina, alvo, segundo, tam, memoria>>, Serve, etapa = 1, etapa' = 2,
           alvo = "cfg", pc # "parado", pc' # "parado", segundo = M.arquivos[1]
    PROVE  [Promessa!Next]_Prometido
<1>1. Vez = 1 /\ Vez' = 2 /\ NaMemoria[Vez] = segundo
  BY DEF Vez, NaMemoria
<1>2. NaMemoria' = NaMemoria
  BY DEF NaMemoria, Blocos
<1>3. QED
  BY <1>1, <1>2, Passou

Tudo ==
    /\ maquina \in DOMAIN Maquinas
    /\ IInv /\ Enderecos /\ ZonasNaturais /\ NoVolume /\ NoFat /\ SegundoVem /\ NoMinix /\ FatCfg

LEMMA Qual ==
    ASSUME Tudo, Serve
    PROVE  Bons \/ (FatServe /\ pc \in PassosFat /\ alvo = "cfg" /\ ~ Bons)
  BY FatosFat, VolumeAssumption DEF Tudo, FatCfg, FatServe, Bons, M

LEMMA MinixPromete ==
    ASSUME Tudo, Serve, PassoMinix
    PROVE  [Promessa!Next]_Prometido
<1>1. /\ UNCHANGED <<maquina, alvo, tam, memoria>> /\ etapa = 1 /\ pc # "parado" /\ pc \notin PassosFat
  BY Programa
  DEF Tudo, IInv, PassoMinix, SetorMinix, Extensao, Superbloco, Confere, GuardaItens, Busca, CarregaZona,
      SaltaMinix, segundoEstagio, PassosFat
<1>2. Bons /\ M.arquivos[1] \in Seq(Int \X Int)
  BY <1>1, Qual, ArquivosTipo DEF Tudo
<1>3. CASE Extensao \/ Superbloco \/ Confere \/ GuardaItens \/ Busca
  <2>1. UNCHANGED <<etapa, segundo>>
    BY <1>3 DEF Extensao, Superbloco, Confere, GuardaItens, Busca
  <2>2. QED
    BY <1>1, <2>1, NadaPrometido
<1>4. CASE CarregaZona
  <2>1. pc = "zona" /\ cf /\ segundo' = segundo \o lido /\ pc' = "carrega" /\ etapa' = etapa
    BY <1>4 DEF CarregaZona, Pede
  <2>2. Comeco(segundo', M.arquivos[1]) /\ Len(segundo') = 2 * (pedido.zona + 1)
    BY <1>2, <2>1, ZonaDoSegundo DEF Tudo
  <2>3. pedido.zona \in Nat /\ Len(segundo) = 2 * pedido.zona
    <3>1. Pede1("zona")
      BY <1>2, <2>1, NaPergunta DEF Perguntas, Pede1, Querendo, Tudo
    <3>2. QED
      BY <1>2, <3>1, FatosMinix DEF NoInicial, Tudo, ZonasNaturais
  <2>4. Len(segundo) \in Nat /\ Len(segundo') > Len(segundo)
    BY <2>2, <2>3
  <2>5. QED
    BY <1>1, <1>2, <2>1, <2>2, <2>4, SegundoPrometido
<1>5. CASE SaltaMinix
  <2>1. pc = "zona" /\ ~ cf /\ pc' = "inicial" /\ etapa' = 2 /\ segundo' = segundo
    BY <1>5 DEF SaltaMinix
  <2>2. segundo = M.arquivos[1] /\ alvo = "cfg"
    BY <1>1, <1>2, <2>1, ZonaDoSegundo, FatosMinix DEF Tudo, Nomeado, Antes2
  <2>3. QED
    BY <1>1, <2>1, <2>2, SaltoPrometido
<1>6. QED
  BY <1>3, <1>4, <1>5 DEF PassoMinix, SetorMinix

LEMMA FatPromete ==
    ASSUME Tudo, Serve, PassoFat
    PROVE  [Promessa!Next]_Prometido
<1>1. /\ UNCHANGED <<maquina, alvo, tam, memoria>> /\ etapa = 1 /\ pc # "parado"
      /\ pc \in SoFat \/ pc = "raiz_fat"
  BY Programa
  DEF Tudo, IInv, PassoFat, SetorFat, Monta, BuscaFat, GuardaTabela, LeConjunto, SegueCadeia, SaltaFat,
      segundoEstagio, SoFat
<1>2. FatServe /\ alvo = "cfg"
  BY <1>1, Qual, Fatos DEF Tudo, NaUnidade, SoFat
<1>3. M.arquivos[1] \in Seq(Int \X Int) /\ Comeco(segundo, M.arquivos[1]) /\ Len(segundo) \in Nat
  <2>1. M.arquivos[1] \in Seq(Int \X Int) /\ Comeco(segundo, M.arquivos[1])
    BY <1>1, ArquivosTipo DEF Tudo, SegundoVem
  <2>2. QED
    BY <2>1 DEF Comeco
<1>4. CASE Monta \/ BuscaFat \/ GuardaTabela \/ LeConjunto
  <2>1. UNCHANGED <<etapa, segundo>>
    BY <1>4 DEF Monta, BuscaFat, GuardaTabela, LeConjunto
  <2>2. QED
    BY <1>1, <2>1, NadaPrometido
<1>5. CASE SegueCadeia
  <2>1. pc' \in {"perdida", "salta", "conjunto"} /\ etapa' = etapa
    BY <1>5 DEF SegueCadeia
  <2>2. Comeco(segundo', M.arquivos[1]) /\ Len(segundo') = Len(segundo) + 1
    BY <1>2, <1>5, MaisUmElo DEF Tudo
  <2>3. Len(segundo') > Len(segundo)
    BY <1>3, <2>2
  <2>4. QED
    BY <1>1, <1>3, <2>1, <2>2, <2>3, SegundoPrometido
<1>6. CASE SaltaFat
  <2>1. pc = "salta" /\ pc' = "inicial" /\ etapa' = 2 /\ segundo' = segundo
    BY <1>6 DEF SaltaFat
  <2>2. Len(segundo) = Len(M.arquivos[1])
    BY <1>2, <2>1, FatosFat DEF NaCadeia, Tudo
  <2>3. segundo = M.arquivos[1]
    BY <1>3, <2>2, ComecoTodo
  <2>4. QED
    BY <1>1, <1>2, <2>1, <2>3, SaltoPrometido
<1>7. QED
  BY <1>4, <1>5, <1>6 DEF PassoFat, SetorFat

(* The second stage.  The files are copied block after block.              *)
SoOLido ==
    NaMemoria = <<segundo, SubSeq(M.arquivos[2], 1, tam["nucleo"]), SubSeq(M.arquivos[3], 1, tam["imagem"])>>

LEMMA MemoriaDe == Tudo /\ Bons => SoOLido
<1> SUFFICES ASSUME Tudo, Bons PROVE SoOLido
  OBVIOUS
<1>1. NoMinix /\ Enderecos /\ NoVolume
  BY DEF Tudo
<1>2. Blocos("nucleo", NucleoInicio) = SubSeq(M.arquivos[2], 1, tam["nucleo"])
  BY <1>1, BlocosDe DEF ArquivoDe, Lugar
<1>3. Blocos("imagem", ImagemInicio) = SubSeq(M.arquivos[3], 1, tam["imagem"])
  BY <1>1, BlocosDe DEF ArquivoDe, Lugar
<1>4. QED
  BY <1>2, <1>3 DEF NaMemoria, SoOLido

LEMMA MemoriaDepois == Tudo' /\ Bons' => SoOLido'
  BY MemoriaDe, PTL

LEMMA MesmaMemoria ==
    ASSUME Tudo, Bons, Tudo', UNCHANGED <<maquina, segundo, tam>>
    PROVE  NaMemoria' = NaMemoria
<1>1. M' = M /\ Bons'
  BY DEF M, Bons, Serve
<1>2. SoOLido /\ SoOLido'
  BY <1>1, MemoriaDe, MemoriaDepois
<1>3. QED
  BY <1>1, <1>2 DEF SoOLido

LEMMA CopiaPromete ==
    ASSUME Tudo, Tudo', Bons, Copia, segundo' = segundo
    PROVE  [Promessa!Next]_Prometido
<1>1. IInv /\ Enderecos /\ NoVolume /\ ZonasNaturais /\ NoMinix /\ maquina \in DOMAIN Maquinas
  BY DEF Tudo
<1>2. PICK a \in {"nucleo", "imagem"} : a = alvo
  BY <1>1 DEF Copia, Enderecos, Alvos
<1>3. /\ pc = "leu" /\ cf /\ alvo' = a /\ pc' = "carrega" /\ etapa = 2 /\ etapa' = 2
      /\ maquina' = maquina /\ tam' = [tam EXCEPT ![a] = @ + 1]
  BY <1>1, <1>2, Programa DEF Copia, Pede, IInv
<1>4. M' = M /\ Bons' /\ Serve
  BY <1>3 DEF M, Bons, Serve
<1>5. PICK v \in 2..3 : v = IF a = "imagem" THEN 3 ELSE 2
  OBVIOUS
<1>6. Vez = v /\ Vez' = v /\ M.arquivos[v] = ArquivoDe(a)
  BY <1>2, <1>3, <1>5 DEF Vez, ArquivoDe
<1>7. PICK z \in Nat : z = tam[a] /\ z < Len(ArquivoDe(a))
  BY <1>1, <1>2, <1>3, ZonaDoArquivo
<1>8. Len(ArquivoDe(a)) \in Nat
  BY <1>1, BlocosDe, <1>4 DEF Bons
<1>9. z + 1 \in (Len(NaMemoria[v]) + 1)..Len(M.arquivos[v])
  <2>1. Len(NaMemoria[v]) = z
    <3>1. NaMemoria[v] = Blocos(a, Lugar(a))
      BY <1>5 DEF NaMemoria, Lugar
    <3>2. QED
      BY <1>1, <1>7, <3>1, BlocosDe
  <2>2. QED
    BY <1>6, <1>7, <1>8, <2>1
<1>10. NaMemoria' = [NaMemoria EXCEPT ![v] = SubSeq(M.arquivos[v], 1, z + 1)]
  <2>1. tam \in [{"nucleo", "imagem"} -> 0..Zonas]
    BY <1>1 DEF Enderecos
  <2>2. tam'[a] = z + 1 /\ \A b \in {"nucleo", "imagem"} : b # a => tam'[b] = tam[b]
    BY <1>3, <1>7, <2>1
  <2>3. SoOLido /\ SoOLido'
    BY <1>4, MemoriaDe, MemoriaDepois
  <2>4. CASE a = "nucleo"
    BY <1>4, <1>5, <2>2, <2>3, <2>4 DEF SoOLido
  <2>5. CASE a = "imagem"
    BY <1>4, <1>5, <2>2, <2>3, <2>5 DEF SoOLido
  <2>6. QED
    BY <2>4, <2>5
<1>11. /\ NaMemoria' = [NaMemoria EXCEPT ![Vez] = SubSeq(M.arquivos[Vez], 1, z + 1)]
       /\ z + 1 \in (Len(NaMemoria[Vez]) + 1)..Len(M.arquivos[Vez])
       /\ Vez \in 1..3 /\ Vez' = Vez /\ pc # "parado" /\ pc' # "parado"
  BY <1>3, <1>5, <1>6, <1>9, <1>10
<1>12. QED
  BY <1>3, <1>4, <1>11, LeuMais

LEMMA FimPromete ==
    ASSUME Tudo, Tudo', Bons, FimDoNucleo \/ Protegido, segundo' = segundo
    PROVE  [Promessa!Next]_Prometido
<1>1. IInv /\ Enderecos /\ NoVolume /\ ZonasNaturais /\ NoMinix
  BY DEF Tudo
<1>2. /\ pc = "leu" /\ ~ cf /\ etapa = 2 /\ UNCHANGED <<maquina, tam>>
      /\ pc' # "parado" /\ alvo \in {"nucleo", "imagem"}
  BY <1>1, Programa DEF FimDoNucleo, Protegido, IInv, segundoEstagio
<1>3. PICK a \in {"nucleo", "imagem"} : a = alvo
  BY <1>2
<1>4. PICK v \in 2..3 : v = IF a = "imagem" THEN 3 ELSE 2
  OBVIOUS
<1>5. Vez = v /\ Vez' = v + 1
  <2>1. CASE FimDoNucleo
    <3>1. alvo = "nucleo" /\ alvo' = "imagem" /\ etapa' = 2
      BY <1>2, <2>1 DEF FimDoNucleo
    <3>2. QED
      BY <1>2, <1>3, <1>4, <3>1 DEF Vez
  <2>2. CASE Protegido
    <3>1. alvo = "imagem" /\ etapa' = 3
      BY <2>2 DEF Protegido
    <3>2. QED
      BY <1>2, <1>3, <1>4, <3>1 DEF Vez
  <2>3. QED
    BY <2>1, <2>2
<1>6. NaMemoria[v] = M.arquivos[v]
  <2>1. tam[a] = Len(ArquivoDe(a))
    BY <1>1, <1>2, <1>3, ZonaDoArquivo
  <2>2. Blocos(a, Lugar(a)) = ArquivoDe(a)
    BY <1>1, <2>1, InteiroNaMemoria
  <2>3. QED
    BY <1>4, <2>2 DEF NaMemoria, Lugar, ArquivoDe
<1>7. NaMemoria' = NaMemoria
  BY <1>2, MesmaMemoria
<1>8. Vez \in 1..3 /\ Vez' = Vez + 1 /\ NaMemoria[Vez] = M.arquivos[Vez] /\ pc # "parado"
  BY <1>2, <1>4, <1>5, <1>6
<1>9. QED
  BY <1>2, <1>7, <1>8, Passou DEF Bons

LEMMA DoisPromete ==
    ASSUME Tudo, Tudo', Serve, PassoDois
    PROVE  [Promessa!Next]_Prometido
<1>1. segundo' = segundo
  BY DEF PassoDois
<1>2. CASE Entra \/ Desvia \/ TestaA20 \/ Abre \/ Identifica
  <2>1. UNCHANGED <<maquina, etapa, alvo, tam, memoria>> /\ pc # "parado"
    BY <1>2 DEF Entra, Desvia, TestaA20, Abre, Identifica, segundoEstagio
  <2>2. QED
    BY <1>1, <2>1, NadaPrometido
<1>3. CASE MontaMinix \/ Procura \/ FimDoDiretorio \/ OutroBloco \/ OutroNome \/ CfgIlegivel
  <2>1. UNCHANGED <<maquina, etapa, alvo, tam, memoria>> /\ pc # "parado"
    BY <1>3 DEF MontaMinix, Procura, FimDoDiretorio, OutroBloco, OutroNome, CfgIlegivel, segundoEstagio
  <2>2. QED
    BY <1>1, <2>1, NadaPrometido
<1>4. CASE Montado \/ Encontrado \/ LeCfg \/ Copia \/ FimDoNucleo \/ Protegido
  <2>1. Bons
    <3>1. pc \in {"montado", "proximo", "leu"}
      BY <1>4 DEF Montado, Encontrado, LeCfg, Copia, FimDoNucleo, Protegido
    <3>2. pc \notin PassosFat
      BY <3>1 DEF PassosFat
    <3>3. QED
      BY <3>2, Qual
  <2>2. IInv /\ Enderecos /\ NoVolume /\ NoMinix
    BY DEF Tudo
  <2>3. CASE Montado
    <3>1. UNCHANGED <<maquina, etapa, tam, memoria>> /\ pc = "montado" /\ alvo' = "cfg"
      BY <2>3 DEF Montado
    <3>2. alvo = "cfg"
      BY <2>1, <2>2, <3>1, FatosMinix DEF Nomeado, Antes2
    <3>3. QED
      BY <1>1, <3>1, <3>2, NadaPrometido
  <2>4. CASE Encontrado
    <3>1. UNCHANGED <<maquina, etapa, alvo, memoria>> /\ pc = "proximo"
      BY <2>4 DEF Encontrado
    <3>2. tam' = tam
      BY <2>1, <2>2, <2>4, TamanhoZero
    <3>3. QED
      BY <1>1, <3>1, <3>2, NadaPrometido
  <2>5. CASE LeCfg
    <3>1. /\ UNCHANGED <<maquina, etapa, memoria, tam>> /\ pc = "leu"
          /\ alvo = "cfg" /\ alvo' = "nucleo"
      BY <2>5 DEF LeCfg
    <3>2. Vez' = Vez /\ NaMemoria' = NaMemoria
      BY <1>1, <3>1 DEF Vez, NaMemoria, Blocos
    <3>3. QED
      BY <3>1, <3>2, NadaMuda
  <2>6. QED
    BY <1>1, <1>4, <2>1, <2>3, <2>4, <2>5, CopiaPromete, FimPromete
<1>5. QED
  BY <1>2, <1>3, <1>4 DEF PassoDois, SegundoEstagio

LEMMA RestoPromete ==
    ASSUME Tudo, Tudo', Serve, PassoDisco \/ PassoZona \/ LimpaBss \/ PassoTecla
    PROVE  [Promessa!Next]_Prometido
<1>1. CASE PassoDisco \/ PassoZona \/ PassoTecla
  <2>1. UNCHANGED <<maquina, etapa, alvo, segundo, tam, memoria>> /\ pc # "parado"
    BY <1>1
    DEF PassoDisco, LeSetor, Falha, Desiste, PassoZona, Zona, ZonaDemais, ZonaDireta, ZonaIndireta,
        Indireto, Guarda, PassoTecla, Tecla, segundoEstagio
  <2>2. QED
    BY <2>1, NadaPrometido
<1>2. CASE LimpaBss
  <2>1. UNCHANGED <<maquina, etapa, alvo, segundo, tam>> /\ pc = "__start"
    BY <1>2 DEF LimpaBss
  <2>2. Bons
    BY <2>1, Qual DEF PassosFat
  <2>3. Vez' = Vez /\ NaMemoria' = NaMemoria
    BY <2>1, <2>2, MesmaMemoria DEF Vez
  <2>4. QED
    BY <2>1, <2>3, NadaMuda
<1>3. QED
  BY <1>1, <1>2

LEMMA Promete == Tudo /\ Tudo' /\ [Next]_vars => [Promessa!Next]_Prometido
<1> SUFFICES ASSUME Tudo, Tudo', [Next]_vars PROVE [Promessa!Next]_Prometido
  OBVIOUS
<1>1. CASE ~ Serve
  <2>1. M' = M /\ Serve' = Serve
    BY MesmaMaquina DEF M, Serve
  <2>2. Promessa!Qualquer
    BY <1>1, <2>1 DEF Promessa!Qualquer
  <2>3. QED
    BY <2>2 DEF Promessa!Next
<1>2. CASE Serve
  <2>1. CASE UNCHANGED vars
    BY <2>1 DEF vars, disco, minix, transfere, segundoEstagio, Prometido, M, Serve, Vez, NaMemoria, Blocos
  <2>2. QED
    BY <1>2, <2>1, MinixPromete, FatPromete, DoisPromete, RestoPromete DEF Next, Passo
<1>3. QED
  BY <1>1, <1>2

LEMMA InitTudo == Init => Tudo
<1> SUFFICES ASSUME Init PROVE Tudo
  OBVIOUS
<1>1. maquina \in DOMAIN Maquinas /\ alvo = "cfg" /\ etapa = 1 /\ segundo = <<>>
  BY DEF Init
<1>2. SegundoVem
  <2> SUFFICES ASSUME Serve PROVE Comeco(segundo, M.arquivos[1])
    BY <1>1 DEF SegundoVem
  <2>1. PICK t \in Seq(Int \X Int) : t = M.arquivos[1]
    BY <1>1, ArquivosTipo
  <2>2. SubSeq(t, 1, 0) = <<>> /\ Len(t) \in Nat
    OBVIOUS
  <2>3. QED
    BY <1>1, <2>1, <2>2 DEF Comeco
<1>3. QED
  BY <1>1, <1>2, InitIInv, InitEnderecos, InitVolume, InitFat, InitMinix DEF Tudo, FatCfg

LEMMA NextTudo == Tudo /\ [Next]_vars => Tudo'
<1> SUFFICES ASSUME Tudo, [Next]_vars PROVE Tudo'
  OBVIOUS
<1>1. /\ maquina \in DOMAIN Maquinas /\ maquina' = maquina
      /\ IInv /\ Enderecos /\ ZonasNaturais /\ NoVolume /\ NoFat /\ SegundoVem /\ NoMinix /\ FatCfg
  BY MesmaMaquina DEF Tudo
<1>2. IInv' /\ ZonasNaturais' /\ NoFat' /\ FatCfg'
  BY <1>1, NextIInv, NextZonas, NextFat, NextCfg
<1>3. Enderecos' /\ NoVolume' /\ NoMinix' /\ SegundoVem'
  BY <1>1, <1>2, NextEnderecos, NextVolume, NextMinix, NextSegundo
<1>4. QED
  BY <1>1, <1>2, <1>3 DEF Tudo

\* On every disk that does not deceive, Minix or FAT12, the two boot sectors,
\* the second stage and Inicial.asm behave as a chain of loaders that keeps its
\* promise (Carga): what is in memory is always a beginning of the file on the
\* disk, each program starts with the file before it whole, the kernel finds
\* itself and the image intact, and after Erro nothing runs.
THEOREM AsPromessas == Spec => CumprePromessa
<1>1. Init => Promessa!Init
  BY PromessaInit
<1>2. QED
  BY <1>1, InitTudo, NextTudo, Promete, PTL DEF Spec, CumprePromessa, Promessa!Spec, Prometido

-----------------------------------------------------------------------------
(* Why a loader stops: on a Minix disk without a defect nothing is missing  *)
(* and no file takes all the zones of an item.                             *)
Perfeita == M.setor # "fat" /\ M.defeito = "nenhum"

LEMMA SemDefeito ==
    ASSUME Tudo, Perfeita
    PROVE  /\ Bons /\ SuperEm(maquina).magico
           /\ Nomeadas(maquina, NomeInicial) # {}
           /\ \A a \in Alvos : Nomeadas(maquina, NomeEm(maquina, a)) # {}
           /\ ZonaEm(maquina, ItemDe(maquina, NomeCfg), 0) # 0
           /\ Len(M.arquivos[1]) < 2 * Zonas
           /\ \A a \in {"nucleo", "imagem"} : Len(ArquivoDe(a)) < Zonas
<1>1. maquina \in DOMAIN Maquinas
  BY DEF Tudo
<1>2. M.setor = "minix" /\ Serve /\ Completo(maquina)
  BY <1>1, VolumeAssumption DEF Perfeita, Serve, Engana, M
<1>3. Bons
  BY <1>2 DEF Bons
<1>4. /\ SuperEm(maquina).magico
      /\ ZonaEm(maquina, ItemDe(maquina, NomeCfg), 0) # 0
      /\ Len(M.arquivos[1]) < 2 * Zonas
      /\ \A a \in {"nucleo", "imagem"} : Len(ArquivoDe(a)) < Zonas
  BY <1>2 DEF Completo, ArquivoDe, M
<1>5. Nomeadas(maquina, NomeInicial) # {} /\ \A a \in Alvos : Nomeadas(maquina, NomeEm(maquina, a)) # {}
  BY <1>2 DEF Completo, Alvos
<1>6. QED
  BY <1>3, <1>4, <1>5

LEMMA ZonaCabe ==
    ASSUME Tudo, Perfeita, pc = "carrega"
    PROVE  pedido.zona < Zonas
<1>1. /\ IInv /\ NoMinix /\ Enderecos /\ ZonasNaturais /\ Bons /\ SegundoVem
      /\ maquina \in DOMAIN Maquinas /\ Procurados # {}
  BY SemDefeito DEF Tudo, Enderecos, Procurados
<1>2. PICK v \in Perguntas : Pede1(v)
  BY <1>1, Fatos DEF Tudo, Identificando, Querendo, Pede1, Pedindo
<1>3. Zonas \in Nat \ {0}
  BY MinixFSAssumption DEF Zonas, PorIndice
<1>4. PICK z \in Nat : z = pedido.zona
  BY <1>1 DEF ZonasNaturais
<1>5. CASE v = "busca"
  BY <1>1, <1>2, <1>3, <1>5, FatosMinix DEF NoInicial
<1>6. CASE v = "zona"
  <2>1. Len(segundo) = 2 * z
    BY <1>1, <1>2, <1>4, <1>6, FatosMinix DEF NoInicial
  <2>2. etapa = 1
    BY <1>1, <1>2, <1>6 DEF IInv, Controle, Passos, Voltas, Pede1, Querendo, Pedindo
  <2>3. Len(segundo) \in 0..Len(M.arquivos[1]) /\ Len(M.arquivos[1]) \in Nat
    BY <1>1, <2>2, ArquivosTipo DEF SegundoVem, Comeco, Bons
  <2>4. Len(M.arquivos[1]) < 2 * Zonas
    BY SemDefeito
  <2>5. QED
    BY <1>3, <1>4, <2>1, <2>3, <2>4
<1>7. CASE v = "proximo"
  <2>1. pedido.zona = 0
    BY <1>1, <1>2, <1>7, FatosMinix DEF NaBusca
  <2>2. QED
    BY <1>3, <2>1
<1>8. CASE v = "leu"
  <2>1. Lendo
    BY <1>2, <1>8 DEF Lendo, Pede1, Pedindo
  <2>2. CASE alvo = "cfg"
    <3>1. pedido.zona = 0
      BY <1>1, <1>2, <1>8, <2>2, FatosMinix DEF NaBusca
    <3>2. QED
      BY <1>3, <3>1
  <2>3. CASE alvo # "cfg"
    <3>1. PICK a \in {"nucleo", "imagem"} : a = alvo
      BY <1>1, <2>3 DEF Enderecos, Alvos
    <3>2. z = tam[a]
      BY <1>1, <1>4, <2>1, <2>3, <3>1 DEF Enderecos
    <3>3. tam[a] <= Len(ArquivoDe(a))
      BY <1>1, FatosMinix DEF Carregados
    <3>4. Len(ArquivoDe(a)) < Zonas /\ Len(ArquivoDe(a)) \in Nat
      BY <1>1, SemDefeito, ArquivosTipo DEF ArquivoDe, Bons
    <3>5. QED
      BY <1>3, <1>4, <3>2, <3>3, <3>4
  <2>4. QED
    BY <2>2, <2>3
<1>9. QED
  BY <1>2, <1>5, <1>6, <1>7, <1>8 DEF Perguntas

LEMMA SempreMagico ==
    ASSUME Tudo, Perfeita
    PROVE  /\ pc = "confere" => Setor(lido[1]).magico
           /\ pc = "identifica" => Setor(bloco[1]).magico
<1>1. SuperEm(maquina).magico /\ Bons /\ NoVolume
  BY SemDefeito DEF Tudo
<1>2. pc = "confere" => lido[1] = CelulaEm(maquina, 2)
  BY <1>1, Fatos DEF TabelaVem
<1>3. pc = "identifica" => bloco[1] = CelulaEm(maquina, 2)
  BY <1>1, Fatos DEF Identificando, BlocoEm
<1>4. QED
  BY <1>1, <1>2, <1>3, SetorDaMaquina DEF SuperEm

(* The names are in the first block of the directory, which is there.      *)
LEMMA SempreAchado ==
    ASSUME Tudo, Perfeita
    PROVE  /\ pc = "busca" => cf /\ {e \in 0..(Entradas - 1) : Entrada(lido, e).nome = NomeInicial} # {}
           /\ pc = "proximo" => cf
           /\ pc = "leu" /\ alvo = "cfg" => cf
<1>1. /\ IInv /\ NoVolume /\ NoMinix /\ ZonasNaturais /\ Bons /\ Procurados # {}
      /\ Nomeadas(maquina, NomeInicial) # {}
  BY SemDefeito DEF Tudo, Enderecos, Procurados
<1>2. ZonaEm(maquina, 1, 0) # 0
  BY <1>1 DEF Nomeadas
<1>3. ASSUME pc \in {"busca", "proximo"} PROVE cf /\ pedido.zona = 0
  <2>1. Querendo /\ pedido.volta = pc /\ pedido.item = 1 /\ (cf <=> AZona # 0)
    BY <1>1, <1>3, NaPergunta DEF Perguntas, Querendo
  <2>2. pedido.zona = 0
    BY <1>1, <1>3, <2>1, FatosMinix DEF NoInicial, NaBusca, Pede1
  <2>3. QED
    BY <1>2, <2>1, <2>2 DEF AZona
<1>4. pc = "busca" => {e \in 0..(Entradas - 1) : Entrada(lido, e).nome = NomeInicial} # {}
  BY <1>1, <1>3, AchadasNoDisco
<1>5. pc = "leu" /\ alvo = "cfg" => cf
  <2> SUFFICES ASSUME pc = "leu", alvo = "cfg" PROVE cf
    OBVIOUS
  <2>1. Pede1("leu") /\ (cf <=> AZona # 0)
    BY <1>1, NaPergunta DEF Perguntas, Querendo, Pede1
  <2>2. pedido.item = ItemDe(maquina, NomeCfg) /\ pedido.zona = 0
    BY <1>1, <2>1, FatosMinix DEF NaBusca, NomeEm
  <2>3. QED
    BY <2>1, <2>2, SemDefeito DEF AZona
<1>6. QED
  BY <1>3, <1>4, <1>5

LEMMA LeBlocoAnda ==
    ASSUME NEW p, NEW ds, NEW volta, LeBloco(p, ds, volta)
    PROVE  pc' \in {volta, "setor"}
<1>1. pc' = volta \/ Comeca(2 * p, 2, "guarda")
  BY Zenon DEF LeBloco
<1>2. QED
  BY <1>1 DEF Comeca

\* Requests go on, unless the zone is one too many.
LEMMA ZonaAnda ==
    ASSUME Tudo, Zona, pc' = "parado"
    PROVE  ZonaDemais
<1>1. IInv /\ pc \in {"carrega", "indireto", "guarda"}
  BY DEF Tudo, Zona, ZonaDemais, ZonaDireta, ZonaIndireta, Indireto, Guarda
<1>2. pedido.volta \in Voltas(etapa) /\ etapa \in {1, 2}
  BY <1>1, Programa DEF IInv, Controle, Pedindo
<1>3. pedido.volta # "parado"
  BY <1>2 DEF Voltas
<1>4. ~ Vazio /\ ~ Guarda
  BY <1>3 DEF Vazio, Guarda
<1>5. \A p : ~ LeZona(p)
  BY <1>3, LeBlocoAnda DEF LeZona, Comeca
<1>6. ~ ZonaDireta /\ ~ Indireto
  BY <1>4, <1>5 DEF ZonaDireta, Indireto
<1>7. ~ ZonaIndireta
  BY <1>4 DEF ZonaIndireta, Comeca
<1>8. QED
  BY <1>4, <1>6, <1>7 DEF Zona

LEMMA DiscoAnda ==
    ASSUME Tudo, LeSetor \/ Falha \/ Desiste, pc' = "parado"
    PROVE  falhas' = Limite'
<1>1. IInv /\ pc = "setor" /\ M' = M
  BY DEF Tudo, LeSetor, Falha, Desiste, M
<1>2. leitura.apos # "parado"
  BY <1>1 DEF IInv, Controle, Depois
<1>3. Desiste
  BY <1>1, <1>2 DEF LeSetor, Falha
<1>4. falhas' = falhas + 1 /\ tentativas = 1 /\ Limite' = Limite
  BY <1>1, <1>3 DEF Desiste, Limite
<1>5. tentativas + falhas = Limite /\ falhas \in 0..5
  BY <1>1 DEF IInv, Contagem
<1>6. QED
  BY <1>4, <1>5

LEMMA NextMotivo == Tudo /\ [Next]_vars /\ ErroSoComMotivo => ErroSoComMotivo'
<1> SUFFICES ASSUME Tudo, Perfeita, [Next]_vars, ErroSoComMotivo, pc' = "parado"
             PROVE  falhas' = Limite' \/ M.a20 > 4
  <2>1. ASSUME Tudo, [Next]_vars PROVE M' = M
    BY <2>1, MesmaMaquina DEF M
  <2>2. QED
    BY <2>1 DEF ErroSoComMotivo, Perfeita
<1>1. CASE PassoDisco
  BY <1>1, DiscoAnda DEF PassoDisco
<1>2. ~ PassoZona
  <2>1. ASSUME ZonaDemais PROVE FALSE
    BY <2>1, ZonaCabe, MinixFSAssumption DEF ZonaDemais, Zonas, PorIndice, ZonasNaturais, Tudo
  <2>2. QED
    BY <2>1, ZonaAnda DEF PassoZona
<1>3. ~ PassoMinix
  <2> SUFFICES ASSUME SetorMinix PROVE FALSE
    BY DEF PassoMinix
  <2>1. ~ Confere /\ ~ Busca
    BY SempreMagico, SempreAchado DEF Confere, Comeca, Busca, Pede
  <2>2. ~ Extensao /\ ~ Superbloco /\ ~ GuardaItens /\ ~ CarregaZona /\ ~ SaltaMinix
    BY DEF Extensao, Superbloco, Comeca, GuardaItens, CarregaZona, SaltaMinix, Pede
  <2>3. QED
    BY <2>1, <2>2 DEF SetorMinix
<1>4. ~ PassoFat
  <2>1. pc \notin SoFat /\ pc # "raiz_fat"
    BY SemDefeito, Fatos DEF Tudo, NaUnidade, SoFat
  <2>2. QED
    BY <2>1 DEF PassoFat, SetorFat, Monta, BuscaFat, GuardaTabela, LeConjunto, SegueCadeia, SaltaFat, SoFat
<1>5. CASE PassoDois
  <2>1. ~ Entra /\ ~ Desvia /\ ~ MontaMinix /\ ~ Montado /\ ~ LeCfg /\ ~ FimDoNucleo /\ ~ Protegido
    BY DEF Entra, Desvia, MontaMinix, Comeca, Montado, LeCfg, FimDoNucleo, Protegido
  <2>2. ~ Procura /\ ~ OutroBloco /\ ~ OutroNome /\ ~ Encontrado /\ ~ Copia
    BY DEF Procura, OutroBloco, OutroNome, Encontrado, Copia, Pede
  <2>3. ~ Abre /\ ~ Identifica
    BY LeBlocoAnda, SempreMagico DEF Abre, Identifica
  <2>4. ~ FimDoDiretorio /\ ~ CfgIlegivel
    BY SempreAchado DEF FimDoDiretorio, CfgIlegivel
  <2>5. TestaA20
    BY <1>5, <2>1, <2>2, <2>3, <2>4 DEF PassoDois, SegundoEstagio
  <2>6. M.a20 \in Nat
    BY VolumeAssumption DEF Tudo, M
  <2>7. a20 = 4 /\ ~ (a20 >= M.a20)
    BY <2>5 DEF TestaA20
  <2>8. QED
    BY <2>6, <2>7
<1>6. ~ LimpaBss /\ ~ PassoTecla
  BY DEF LimpaBss, PassoTecla, Tecla
<1>7. CASE UNCHANGED vars
  <2>1. pc = "parado" /\ UNCHANGED <<falhas, maquina, etapa>>
    BY <1>7 DEF vars, disco, transfere
  <2>2. QED
    BY <2>1 DEF ErroSoComMotivo, Perfeita, Limite, M
<1>8. QED
  BY <1>1, <1>2, <1>3, <1>4, <1>5, <1>6, <1>7 DEF Next, Passo

\* hlt in MinixFS.asm, FAT12.asm and Estagio2.asm comes only from a sector that
\* failed every attempt, an A20 line that no method opens, a FAT12 disk, or a
\* disk on which something is missing or too big.
THEOREM ErroComMotivo == Spec => []ErroSoComMotivo
<1>1. Init => ErroSoComMotivo
  BY DEF Init, ErroSoComMotivo
<1>2. QED
  BY <1>1, InitTudo, NextTudo, NextMotivo, PTL DEF Spec
=============================================================================
