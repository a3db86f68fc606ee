---------------------------- MODULE LinhasProvas ----------------------------
(***************************************************************************)
(* What the line reader does for every file, every size of its buffer and  *)
(* every length of the caller's line: it stays in its buffers, it loses no *)
(* letter of the file, and simple text comes out line by line.             *)
(*                                                                         *)
(* The argument: the block in the buffer is the part of the file before    *)
(* tirados (Bloco), so that a byte copied from it is the next one of the   *)
(* file; positions of letters and of line feeds are counted with Ate.      *)
(***************************************************************************)
EXTENDS Linhas, FiniteSetTheorems, WellFoundedInduction, TLAPS

-----------------------------------------------------------------------------
(* The reader stays in its buffers.                                        *)

LEMMA EnchidoTipo ==
    ASSUME TypeOK
    PROVE  /\ Proximos \in 0..TamBuffer
           /\ tirados + Proximos \in 0..Len(arquivo)
           /\ Enchido \in [0..(TamBuffer - 1) -> Bytes]
<1>1. arquivo \in Seq(Bytes) /\ Len(arquivo) \in Nat /\ tirados \in 0..Len(arquivo)
      BY LinhasAssumption DEF TypeOK
<1>2. Proximos \in 0..TamBuffer /\ tirados + Proximos \in 0..Len(arquivo)
      BY <1>1, LinhasAssumption DEF Proximos
<1>3. ASSUME NEW k \in 0..(TamBuffer - 1)
      PROVE  Enchido[k] \in Bytes
  <2>1. CASE k < Proximos
    <3>1. tirados + k + 1 \in 1..Len(arquivo)  BY <2>1, <1>1, <1>2, LinhasAssumption
    <3>2. arquivo[tirados + k + 1] \in Bytes   BY <3>1, <1>1
    <3> QED BY <3>2, <2>1 DEF Enchido, TypeOK
  <2>2. CASE ~(k < Proximos)
        BY <2>2 DEF Enchido, TypeOK
  <2> QED BY <2>1, <2>2
<1>4. Enchido = [k \in 0..(TamBuffer - 1) |-> Enchido[k]]
      BY DEF Enchido, TypeOK
<1> QED BY <1>2, <1>3, <1>4

\* A copy puts one byte in the line and moves by one or two, inside the buffer:
\* the byte after it is never taken for a carriage return.
LEMMA CopiaTipo ==
    ASSUME TypeOK, Cabe, NEW b \in [0..(TamBuffer - 1) -> Bytes], NEW p \in 0..(TamBuffer - 1),
           Copia(b, p)
    PROVE  /\ linha' \in Seq(Bytes) /\ Len(linha') < TamLinha
           /\ pos' \in 0..TamBuffer
           /\ ok' \in BOOLEAN
<1>1. linha \in Seq(Bytes) /\ Len(linha) \in Nat  BY DEF TypeOK
<1>2. linha' \in Seq(Bytes) /\ Len(linha') = Len(linha) + 1
      BY <1>1 DEF Copia
<1>3. Len(linha') < TamLinha
      BY <1>1, <1>2, LinhasAssumption DEF Cabe
<1>4. ASSUME Byte(b, p + 1) = CR
      PROVE  p + 1 # TamBuffer
      BY <1>4 DEF Byte, CR
<1>5. pos' \in 0..TamBuffer
      BY <1>4, LinhasAssumption DEF Copia
<1> QED BY <1>2, <1>3, <1>5 DEF Copia

LEMMA InitTipo == Init => TypeOK
<1> SUFFICES ASSUME Init PROVE TypeOK
    OBVIOUS
<1>1. arquivo \in Seq(Bytes) /\ Len(arquivo) \in Nat
      BY LinhasAssumption DEF Init
<1>2. buffer \in [0..(TamBuffer - 1) -> Bytes]
      BY DEF Init, Bytes
<1>3. linha \in Seq(Bytes) /\ Len(linha) < TamLinha
      BY LinhasAssumption DEF Init
<1> QED BY <1>1, <1>2, <1>3, LinhasAssumption DEF Init, TypeOK

\* What the line feed adds to the position is never past the buffer.
LEMMA PassaTipo == ASSUME TypeOK PROVE Passa \in 0..TamBuffer
<1>1. Byte(buffer, pos) = LF => pos # TamBuffer  BY DEF Byte, LF
<1> QED BY <1>1, LinhasAssumption DEF Passa, TypeOK

LEMMA PassoTipo == TypeOK /\ [Next]_vars => TypeOK'
<1> SUFFICES ASSUME TypeOK, [Next]_vars PROVE TypeOK'
    OBVIOUS
<1>1. CASE StrBuffer
      BY <1>1, EnchidoTipo, LinhasAssumption DEF StrBuffer, TypeOK
<1>2. CASE Chama
  <2>1. linha' \in Seq(Bytes) /\ Len(linha') < TamLinha
        BY <1>2, LinhasAssumption DEF Chama
  <2> QED BY <1>2, <2>1 DEF Chama, TypeOK
<1>3. CASE CopiaByte
  <2>1. pos \in 0..(TamBuffer - 1)
        BY <1>3, LinhasAssumption DEF CopiaByte, TypeOK
  <2>2. Cabe /\ Copia(buffer, pos) /\ buffer \in [0..(TamBuffer - 1) -> Bytes]
        BY <1>3 DEF CopiaByte, Continua, TypeOK
  <2>3. linha' \in Seq(Bytes) /\ Len(linha') < TamLinha /\ pos' \in 0..TamBuffer /\ ok' \in BOOLEAN
        BY <2>1, <2>2, CopiaTipo
  <2> QED BY <1>3, <2>3 DEF CopiaByte, TypeOK
<1>4. CASE Enche
  <2>1. 0 \in 0..(TamBuffer - 1)
        BY LinhasAssumption
  <2>2. Cabe /\ Copia(Enchido, 0)
        BY <1>4 DEF Enche, Continua
  <2>3. linha' \in Seq(Bytes) /\ Len(linha') < TamLinha /\ pos' \in 0..TamBuffer /\ ok' \in BOOLEAN
        BY <2>1, <2>2, CopiaTipo, EnchidoTipo
  <2> QED BY <1>4, <2>3, EnchidoTipo DEF Enche, TypeOK
<1>5. CASE FimDoArquivo
  <2>1. tam' \in 0..TamBuffer /\ pos' \in 0..TamBuffer
        BY <1>5, LinhasAssumption DEF FimDoArquivo
  <2>2. ok' \in BOOLEAN /\ fase' \in {"nova", "fora", "laco", "fim", "acabou"}
        BY <1>5 DEF FimDoArquivo
  <2> QED BY <1>5, <2>1, <2>2 DEF FimDoArquivo, TypeOK
<1>6. CASE FimDoLaco
      BY <1>6 DEF FimDoLaco, TypeOK
<1>7. CASE Responde
      BY <1>7, PassaTipo DEF Responde, TypeOK
<1>8. CASE UNCHANGED vars
      BY <1>8 DEF vars, TypeOK
<1> QED BY <1>1, <1>2, <1>3, <1>4, <1>5, <1>6, <1>7, <1>8 DEF Next, Passo

\* The reader keeps Posicao at most one past the buffer and the line, with its
\* zero, inside what the caller gave, for every file, every block size and every
\* line size: StrBuffer_LeiaLinha (String.c 30-66) writes nowhere else.
THEOREM LeituraNosBuffers == Spec => []TypeOK
<1> QED BY InitTipo, PassoTipo, PTL DEF Spec

-----------------------------------------------------------------------------
(* Counting positions.                                                     *)

LEMMA MenorDeTodos ==
    ASSUME NEW T \in SUBSET Nat, T # {}
    PROVE  \E x \in T : \A y \in T : x <= y
<1>1. \E x \in T : \A y \in T : <<y, x>> \notin OpToRel(<, Nat)
      BY NatLessThanWellFounded, WFMin
<1>2. PICK x \in T : \A y \in T : <<y, x>> \notin OpToRel(<, Nat)
      BY <1>1
<1>3. \A y \in T : ~(y < x)
      BY <1>2 DEF OpToRel
<1>4. \A y \in T : x <= y
      BY <1>3
<1> QED BY <1>4

LEMMA AteTipo ==
    ASSUME NEW m \in Nat, NEW ps \in SUBSET (1..m), NEW n \in Nat
    PROVE  /\ IsFiniteSet(ps) /\ Cardinality(ps) \in Nat
           /\ IsFiniteSet({k \in ps : k <= n})
           /\ Ate(ps, n) \in Nat /\ Ate(ps, n) <= Cardinality(ps)
<1>1. IsFiniteSet(1..m)
      BY FS_Interval
<1>2. IsFiniteSet(ps) /\ Cardinality(ps) \in Nat
      BY <1>1, FS_Subset, FS_CardinalityType
<1>3. IsFiniteSet({k \in ps : k <= n}) /\ Cardinality({k \in ps : k <= n}) <= Cardinality(ps)
      BY <1>2, FS_Subset
<1>4. Cardinality({k \in ps : k <= n}) \in Nat
      BY <1>3, FS_CardinalityType
<1> QED BY <1>2, <1>3, <1>4 DEF Ate

LEMMA AteZero ==
    ASSUME NEW m \in Nat, NEW ps \in SUBSET (1..m)
    PROVE  Ate(ps, 0) = 0
<1>1. ASSUME NEW k \in ps PROVE ~(k <= 0)
  <2>1. k \in 1..m  OBVIOUS
  <2> QED BY <2>1
<1>2. {k \in ps : k <= 0} = {}
      BY <1>1
<1> QED BY <1>2, FS_EmptySet DEF Ate

LEMMA AteTodas ==
    ASSUME NEW m \in Nat, NEW ps \in SUBSET (1..m)
    PROVE  Ate(ps, m) = Cardinality(ps)
<1>1. ASSUME NEW k \in ps PROVE k <= m
  <2>1. k \in 1..m  OBVIOUS
  <2> QED BY <2>1
<1>2. {k \in ps : k <= m} = ps
      BY <1>1
<1> QED BY <1>2 DEF Ate

\* The next position counts when it is one of them.
LEMMA AteMais ==
    ASSUME NEW m \in Nat, NEW ps \in SUBSET (1..m), NEW n \in Nat
    PROVE  Ate(ps, n + 1) = IF n + 1 \in ps THEN Ate(ps, n) + 1 ELSE Ate(ps, n)
<1>0. ASSUME NEW k \in ps PROVE k <= n + 1 <=> k <= n \/ k = n + 1
  <2>1. k \in 1..m  OBVIOUS
  <2> QED BY <2>1
<1>1. CASE n + 1 \in ps
  <2>1. {k \in ps : k <= n + 1} = {k \in ps : k <= n} \cup {n + 1}
        BY <1>0, <1>1
  <2>2. n + 1 \notin {k \in ps : k <= n}
        OBVIOUS
  <2> QED BY <1>1, <2>1, <2>2, AteTipo, FS_AddElement DEF Ate
<1>2. CASE n + 1 \notin ps
  <2>1. {k \in ps : k <= n + 1} = {k \in ps : k <= n}
        BY <1>0, <1>2
  <2> QED BY <1>2, <2>1 DEF Ate
<1> QED BY <1>1, <1>2

\* The count never goes down, and goes up at each of them.
LEMMA AteCresce ==
    ASSUME NEW m \in Nat, NEW ps \in SUBSET (1..m), NEW a \in Nat, NEW b \in Nat, a <= b
    PROVE  Ate(ps, a) <= Ate(ps, b) /\ (a # b /\ b \in ps => Ate(ps, a) < Ate(ps, b))
<1> DEFINE A == {k \in ps : k <= a}
           B == {k \in ps : k <= b}
<1>0. ASSUME NEW k \in ps, k <= a PROVE k <= b
  <2>1. k \in 1..m  OBVIOUS
  <2> QED BY <2>1, <1>0
<1>1. A \subseteq B
      BY <1>0
<1>2. IsFiniteSet(A) /\ IsFiniteSet(B) /\ Cardinality(A) \in Nat /\ Cardinality(B) \in Nat
      BY AteTipo, FS_CardinalityType
<1>3. Cardinality(A) <= Cardinality(B)
      BY <1>1, <1>2, FS_Subset
<1>4. ASSUME a # b, b \in ps
      PROVE  Cardinality(A) < Cardinality(B)
  <2>1. b \notin A /\ b \in B
        BY <1>4
  <2>2. A \in SUBSET B /\ A # B
        BY <1>1, <2>1
  <2>3. Cardinality(A) # Cardinality(B)
        BY <1>2, <2>2, FS_Subset
  <2> QED BY <1>2, <1>3, <2>3
<1> QED BY <1>3, <1>4 DEF Ate

-----------------------------------------------------------------------------
(* No letter is lost.                                                      *)

\* The block in the buffer is the part of the file before tirados.
Bloco ==
    /\ tam <= tirados
    /\ fase = "nova" => tam = 0 /\ tirados = 0 /\ linhas = << >>
    /\ \A k \in 0..(TamBuffer - 1) : k < tam => buffer[k] = arquivo[tirados - tam + k + 1]

\* cs holds the letters of the first c bytes.
LetrasDe(cs, c) ==
    /\ Len(cs) = Ate(PosLetras, c)
    /\ \A k \in PosLetras : k <= c => cs[Ate(PosLetras, k)] = arquivo[k]

ILetras == TypeOK /\ Bloco /\ copiados \in Seq(Letras) /\ NadaPerdido

LEMMA ArquivoTipo ==
    ASSUME TypeOK
    PROVE  /\ arquivo \in Seq(Bytes) /\ Len(arquivo) \in Nat /\ DOMAIN arquivo = 1..Len(arquivo)
           /\ tirados \in 0..Len(arquivo) /\ tam \in 0..TamBuffer /\ pos \in 0..TamBuffer
           /\ TamBuffer \in Nat \ {0} /\ TamLinha \in Nat \ {0, 1}
           /\ PosLetras \in SUBSET (1..Len(arquivo))
  BY LinhasAssumption DEF TypeOK, PosLetras

LEMMA MaisUm ==
    ASSUME TypeOK, NEW cs \in Seq(Letras), NEW c \in Nat, c < Len(arquivo), LetrasDe(cs, c)
    PROVE  /\ ComLetra(cs, arquivo[c + 1]) \in Seq(Letras)
           /\ LetrasDe(ComLetra(cs, arquivo[c + 1]), c + 1)
<1>1. c + 1 \in DOMAIN arquivo /\ PosLetras \in SUBSET (1..Len(arquivo)) /\ Len(arquivo) \in Nat
      BY ArquivoTipo
<1>2. Ate(PosLetras, c) \in Nat
      BY <1>1, AteTipo
<1>3. CASE arquivo[c + 1] \in Letras
  <2> DEFINE ds == Append(cs, arquivo[c + 1])
  <2>1. ds \in Seq(Letras) /\ Len(ds) = Len(cs) + 1 /\ ds[Len(cs) + 1] = arquivo[c + 1]
        BY <1>3
  <2>2. \A i \in 1..Len(cs) : ds[i] = cs[i]
        BY <1>3
  <2>3. c + 1 \in PosLetras
        BY <1>1, <1>3 DEF PosLetras
  <2>4. Ate(PosLetras, c + 1) = Len(cs) + 1
        BY <1>1, <2>3, AteMais DEF LetrasDe
  <2>5. ASSUME NEW k \in PosLetras, k <= c + 1
        PROVE  ds[Ate(PosLetras, k)] = arquivo[k]
    <3>1. CASE k = c + 1
          BY <3>1, <2>1, <2>4
    <3>2. CASE k # c + 1
      <4>1. k <= c /\ k \in Nat /\ k # 0
            BY <3>2, <2>5, <1>1
      <4>2. Ate(PosLetras, k) <= Len(cs) /\ Ate(PosLetras, k) \in Nat
            BY <4>1, <1>1, AteCresce, AteTipo DEF LetrasDe
      <4>3. Ate(PosLetras, k) # 0
        <5>1. 0 \in Nat /\ 0 <= k /\ 0 # k
              BY <4>1
        <5>2. Ate(PosLetras, 0) < Ate(PosLetras, k)
              BY <5>1, <4>1, <1>1, AteCresce
        <5>3. Ate(PosLetras, 0) = 0
              BY <1>1, AteZero
        <5> QED BY <5>2, <5>3, <4>2
      <4>4. cs[Ate(PosLetras, k)] = arquivo[k]
            BY <4>1 DEF LetrasDe
      <4>5. Ate(PosLetras, k) \in 1..Len(cs)
            BY <4>2, <4>3, <1>2
      <4> QED BY <4>4, <4>5, <2>2
    <3> QED BY <3>1, <3>2
  <2>6. ComLetra(cs, arquivo[c + 1]) = ds
        BY <1>3 DEF ComLetra
  <2> HIDE DEF ds
  <2> QED BY <2>1, <2>4, <2>5, <2>6 DEF LetrasDe
<1>4. CASE arquivo[c + 1] \notin Letras
  <2>1. c + 1 \notin PosLetras
        BY <1>4 DEF PosLetras
  <2>2. Ate(PosLetras, c + 1) = Ate(PosLetras, c)
        BY <1>1, <2>1, AteMais
  <2>3. ComLetra(cs, arquivo[c + 1]) = cs
        BY <1>4 DEF ComLetra
  <2>4. \A k \in PosLetras : k <= c + 1 => k <= c
        BY <1>1, <2>1
  <2> QED BY <2>2, <2>3, <2>4 DEF LetrasDe
<1> QED BY <1>3, <1>4

LEMMA ConsumidosTipo ==
    ASSUME TypeOK, Bloco
    PROVE  Consumidos \in 0..Len(arquivo)
  BY ArquivoTipo DEF Consumidos, Bloco

LEMMA ContaDoBloco ==
    ASSUME NEW t \in Nat, NEW n \in Nat, NEW p \in Nat, NEW c \in Nat, p < n, n <= t, c = t - n + p
    PROVE  (p + 1 < n => c + 1 < t) /\ (~(p + 1 < n) => t = c + 1)
  OBVIOUS

\* A copied byte is the next one of the file, and what is skipped over with it is no
\* letter.  c, t and i are the bytes done with, the size of the block and the number
\* of bytes delivered, once the block is in the buffer.
LEMMA CopiaAvanca ==
    ASSUME TypeOK, TypeOK', arquivo' = arquivo, copiados \in Seq(Letras),
           NEW b, NEW p \in Nat, NEW c \in Nat, LetrasDe(copiados, c), Copia(b, p),
           NEW t \in Nat, NEW i \in Nat, tam' = t, tirados' = i,
           p < t, t <= i, c = i - t + p,
           \A k \in 0..(TamBuffer - 1) : k < t => b[k] = arquivo[i - t + k + 1]
    PROVE  copiados' \in Seq(Letras) /\ LetrasDe(copiados', Consumidos')
<1>1. i <= Len(arquivo) /\ t <= TamBuffer /\ TamBuffer \in Nat \ {0} /\ Len(arquivo) \in Nat
      BY ArquivoTipo, LinhasAssumption DEF TypeOK
<1>2. /\ p \in 0..(TamBuffer - 1) /\ c < Len(arquivo)
      /\ p + 1 < t => c + 1 < Len(arquivo)
      BY <1>1, ContaDoBloco
<1>3. b[p] = arquivo[c + 1]
      BY <1>1, <1>2
<1>4. copiados' \in Seq(Letras) /\ LetrasDe(copiados', c + 1)
      BY <1>2, <1>3, MaisUm DEF Copia
<1>5. ~(p + 1 < t) => i = c + 1
      BY ContaDoBloco
<1>6. Consumidos' = IF pos' < t THEN i - t + pos' ELSE i
      BY DEF Consumidos
<1>7. CASE pos' = p + 1
  <2>1. Consumidos' = c + 1
        BY <1>5, <1>6, <1>7
  <2> QED BY <1>4, <2>1
<1>8. CASE pos' # p + 1
  <2>1. pos' = p + 2 /\ Byte(b, p + 1) = CR
        BY <1>8 DEF Copia
  <2>2. p + 1 # TamBuffer /\ b[p + 1] = CR
        BY <2>1 DEF Byte, CR
  <2>3. CASE p + 1 < t
    <3>1. p + 1 \in 0..(TamBuffer - 1) /\ b[p + 1] = arquivo[i - t + (p + 1) + 1]
          BY <2>3, <1>1
    <3>2. i - t + (p + 1) + 1 = (c + 1) + 1
          OBVIOUS
    <3>3. arquivo[(c + 1) + 1] = CR /\ CR \notin Letras
          BY <3>1, <3>2, <2>2, LinhasAssumption
    <3>4. LetrasDe(ComLetra(copiados', CR), (c + 1) + 1)
          BY <1>2, <1>4, <2>3, <3>3, MaisUm
    <3>5. Consumidos' = (c + 1) + 1
          BY <1>6, <2>1, <2>3
    <3> QED BY <1>4, <3>3, <3>4, <3>5 DEF ComLetra
  <2>4. CASE ~(p + 1 < t)
    <3>1. Consumidos' = c + 1
          BY <1>5, <1>6, <2>1, <2>4
    <3> QED BY <1>4, <3>1
  <2> QED BY <2>3, <2>4
<1> QED BY <1>7, <1>8

\* A full buffer holds the next bytes of the file.
LEMMA BlocoNovo ==
    ASSUME TypeOK
    PROVE  \A k \in 0..(TamBuffer - 1) :
              k < Proximos => Enchido[k] = arquivo[(tirados + Proximos) - Proximos + k + 1]
<1>1. DOMAIN buffer = 0..(TamBuffer - 1)
      BY DEF TypeOK
<1>2. Proximos \in Nat /\ tirados \in Nat
      BY EnchidoTipo, ArquivoTipo
<1>3. (tirados + Proximos) - Proximos = tirados
      BY <1>2
<1> QED BY <1>1, <1>3 DEF Enchido

LEMMA InitLetras == Init => ILetras
<1> SUFFICES ASSUME Init PROVE ILetras
    OBVIOUS
<1>1. TypeOK
      BY InitTipo
<1>2. Bloco
      BY <1>1, ArquivoTipo DEF Init, Bloco
<1>3. copiados \in Seq(Letras) /\ Len(copiados) = 0 /\ Consumidos = 0
      BY DEF Init, Consumidos
<1>4. PosLetras \in SUBSET (1..Len(arquivo)) /\ Len(arquivo) \in Nat
      BY <1>1, ArquivoTipo
<1>5. Ate(PosLetras, 0) = 0
      BY <1>4, AteZero
<1>6. ASSUME NEW k \in PosLetras PROVE ~(k <= 0)
  <2>1. k \in 1..Len(arquivo)  BY <1>4
  <2> QED BY <2>1, <1>4
<1> QED BY <1>1, <1>2, <1>3, <1>5, <1>6 DEF ILetras, NadaPerdido

LEMMA PassoBloco == TypeOK /\ Bloco /\ [Next]_vars => Bloco'
<1> SUFFICES ASSUME TypeOK, Bloco, [Next]_vars PROVE Bloco'
    OBVIOUS
<1> USE ArquivoTipo
<1>1. TypeOK'
      BY PassoTipo
<1>2. CASE StrBuffer
  <2>1. buffer' = Enchido /\ tam' = Proximos /\ tirados' = tirados + Proximos /\ arquivo' = arquivo
        BY <1>2 DEF StrBuffer
  <2>2. tam' <= tirados'
        BY <2>1, EnchidoTipo
  <2>3. \A k \in 0..(TamBuffer - 1) : k < tam' => buffer'[k] = arquivo'[tirados' - tam' + k + 1]
        BY <2>1, BlocoNovo
  <2>4. fase' # "nova"
        BY <1>2 DEF StrBuffer
  <2> QED BY <2>2, <2>3, <2>4 DEF Bloco
<1>3. CASE Chama
      BY <1>3 DEF Chama, Bloco
<1>4. CASE CopiaByte
      BY <1>4 DEF CopiaByte, Bloco
<1>5. CASE Enche
  <2>1. buffer' = Enchido /\ tam' = Proximos /\ tirados' = tirados + Proximos /\ arquivo' = arquivo
        BY <1>5 DEF Enche
  <2>2. tam' <= tirados'
        BY <2>1, EnchidoTipo
  <2>3. \A k \in 0..(TamBuffer - 1) : k < tam' => buffer'[k] = arquivo'[tirados' - tam' + k + 1]
        BY <2>1, BlocoNovo
  <2>4. fase' # "nova"
        BY <1>5 DEF Enche
  <2> QED BY <2>2, <2>3, <2>4 DEF Bloco
<1>6. CASE FimDoArquivo
      BY <1>6 DEF FimDoArquivo, Bloco
<1>7. CASE FimDoLaco
      BY <1>7 DEF FimDoLaco, Bloco
<1>8. CASE Responde
      BY <1>8 DEF Responde, Bloco
<1>9. CASE UNCHANGED vars
      BY <1>9 DEF vars, Bloco
<1> QED BY <1>2, <1>3, <1>4, <1>5, <1>6, <1>7, <1>8, <1>9 DEF Next, Passo

\* The steps that copy nothing and stay where they are in the file.
LEMMA LetrasIguais ==
    ASSUME ILetras, TypeOK', Bloco', arquivo' = arquivo, copiados' = copiados,
           Consumidos' = Consumidos
    PROVE  ILetras'
<1>1. PosLetras' = PosLetras
      BY DEF PosLetras
<1>2. \A n : Ate(PosLetras, n)' = Ate(PosLetras', n)
      BY DEF Ate
<1> QED BY <1>1 DEF ILetras, NadaPerdido, Ate

\* The steps that copy, or that skip a byte which is no letter.
LEMMA LetrasSeguem ==
    ASSUME TypeOK', Bloco', arquivo' = arquivo, copiados' \in Seq(Letras),
           LetrasDe(copiados', Consumidos')
    PROVE  ILetras'
<1>1. PosLetras' = PosLetras
      BY DEF PosLetras
<1> QED BY <1>1 DEF ILetras, NadaPerdido, Ate, LetrasDe

LEMMA PassoLetras == ILetras /\ [Next]_vars => ILetras'
<1> SUFFICES ASSUME ILetras, [Next]_vars PROVE ILetras'
    OBVIOUS
<1>1. TypeOK /\ Bloco /\ copiados \in Seq(Letras) /\ LetrasDe(copiados, Consumidos)
      BY DEF ILetras, NadaPerdido, LetrasDe
<1>2. TypeOK' /\ Bloco'
      BY <1>1, PassoTipo, PassoBloco
<1>3. Consumidos \in Nat /\ Consumidos \in 0..Len(arquivo)
      BY <1>1, ConsumidosTipo, ArquivoTipo
<1>0. PICK t \in Nat, i \in Nat : tam' = t /\ tirados' = i
      BY <1>2, LinhasAssumption DEF TypeOK
<1>4. CASE StrBuffer
  <2>1. Consumidos' = Consumidos
    <3>1. tam = 0 /\ tirados = 0
          BY <1>1, <1>4 DEF StrBuffer, Bloco
    <3>2. tam' = Proximos /\ tirados' = Proximos /\ pos' = 0 /\ Proximos \in Nat
          BY <1>1, <1>4, <3>1, EnchidoTipo, ArquivoTipo DEF StrBuffer
    <3>3. Consumidos' = 0
          BY <3>2 DEF Consumidos
    <3>4. Consumidos = 0
          BY <3>1, <1>1, ArquivoTipo DEF Consumidos
    <3> QED BY <3>3, <3>4
  <2> QED BY <1>2, <1>4, <2>1, LetrasIguais DEF StrBuffer
<1>5. CASE Chama
      BY <1>2, <1>5, LetrasIguais DEF Chama, Consumidos
<1>6. CASE CopiaByte
  <2>1. /\ pos \in Nat /\ pos < t /\ t <= i /\ Copia(buffer, pos)
        /\ Consumidos = i - t + pos /\ arquivo' = arquivo
        BY <1>0, <1>1, <1>6, ArquivoTipo DEF CopiaByte, Bloco, Consumidos
  <2>2. \A k \in 0..(TamBuffer - 1) : k < t => buffer[k] = arquivo[i - t + k + 1]
        BY <1>0, <1>1, <1>6 DEF CopiaByte, Bloco
  <2>3. copiados' \in Seq(Letras) /\ LetrasDe(copiados', Consumidos')
        BY <1>0, <1>1, <1>2, <1>3, <2>1, <2>2, CopiaAvanca
  <2> QED BY <1>2, <2>1, <2>3, LetrasSeguem
<1>7. CASE Enche
  <2>1. /\ Copia(Enchido, 0) /\ arquivo' = arquivo /\ 0 < Proximos /\ Proximos \in Nat
        /\ t = Proximos /\ i = tirados + Proximos
        BY <1>0, <1>1, <1>7, EnchidoTipo DEF Enche
  <2>2. \A k \in 0..(TamBuffer - 1) : k < t => Enchido[k] = arquivo[i - t + k + 1]
        BY <1>1, <2>1, BlocoNovo
  <2>3. Consumidos = i - t + 0 /\ t <= i /\ 0 < t /\ 0 \in Nat
        BY <1>1, <1>7, <2>1, ArquivoTipo DEF Consumidos, Enche
  <2>4. copiados' \in Seq(Letras) /\ LetrasDe(copiados', Consumidos')
    <3> DEFINE b == Enchido
               p == 0
    <3>1. Copia(b, p) /\ arquivo' = arquivo /\ p \in Nat /\ p < t /\ Consumidos = i - t + p
          BY <2>1, <2>3
    <3>2. \A k \in 0..(TamBuffer - 1) : k < t => b[k] = arquivo[i - t + k + 1]
          BY <2>2
    <3> HIDE DEF b, p
    <3> QED BY <1>0, <1>1, <1>2, <1>3, <2>3, <3>1, <3>2, CopiaAvanca
  <2> QED BY <1>2, <2>1, <2>4, LetrasSeguem
<1>8. CASE FimDoArquivo
  <2>1. Consumidos' = Consumidos
        BY <1>1, <1>8, ArquivoTipo DEF FimDoArquivo, Consumidos
  <2> QED BY <1>2, <1>8, <2>1, LetrasIguais DEF FimDoArquivo
<1>9. CASE FimDoLaco
      BY <1>2, <1>9, LetrasIguais DEF FimDoLaco, Consumidos
<1>10. CASE Responde
  <2>1. pos' = Passa /\ UNCHANGED <<arquivo, tirados, buffer, tam, copiados>>
        BY <1>10 DEF Responde
  <2>2. CASE Byte(buffer, pos) = LF /\ pos < tam
    <3>1. pos \in 0..(TamBuffer - 1) /\ pos # TamBuffer
          BY <1>1, <2>2, ArquivoTipo
    <3>2. buffer[pos] = LF /\ buffer[pos] = arquivo[tirados - tam + pos + 1]
          BY <1>1, <2>2, <3>1 DEF Byte, Bloco
    <3>3. Consumidos = tirados - tam + pos /\ Consumidos < Len(arquivo) /\ arquivo[Consumidos + 1] = LF
          BY <1>1, <2>2, <3>2, ArquivoTipo DEF Consumidos
    <3>4. Consumidos' = Consumidos + 1
          BY <1>1, <2>1, <2>2, <3>3, ArquivoTipo DEF Consumidos, Passa
    <3>5. LF \notin Letras
          BY LinhasAssumption
    <3>6. LetrasDe(ComLetra(copiados, LF), Consumidos + 1)
          BY <1>1, <1>3, <3>3, MaisUm
    <3>7. LetrasDe(copiados', Consumidos')
          BY <2>1, <3>4, <3>5, <3>6 DEF ComLetra
    <3> QED BY <1>1, <1>2, <2>1, <3>7, LetrasSeguem
  <2>3. CASE ~(Byte(buffer, pos) = LF /\ pos < tam)
    <3>1. Consumidos' = Consumidos
          BY <1>1, <2>1, <2>3, ArquivoTipo DEF Consumidos, Passa
    <3> QED BY <1>2, <2>1, <3>1, LetrasIguais
  <2> QED BY <2>2, <2>3
<1>11. CASE UNCHANGED vars
       BY <1>2, <1>11, LetrasIguais DEF vars, Consumidos
<1> QED BY <1>4, <1>5, <1>6, <1>7, <1>8, <1>9, <1>10, <1>11 DEF Next, Passo

\* The letters StrBuffer_LeiaLinha (String.c 30-66) put in the lines, in all its
\* calls, are those of the file, each once and in its order, for every file, every
\* size of the buffer and of the line: none is lost where a block ends, where a
\* line is cut, or to what an earlier block left in the buffer.
THEOREM LetrasNaOrdem == Spec => []NadaPerdido
<1>1. ILetras => NadaPerdido
      BY DEF ILetras
<1> QED BY InitLetras, PassoLetras, <1>1, PTL DEF Spec

-----------------------------------------------------------------------------
(* Simple text comes out line by line.                                     *)

LEMMA QuebrasTipo ==
    ASSUME NEW a \in Seq(Bytes)
    PROVE  Len(a) \in Nat /\ Quebras(a) \in SUBSET (1..Len(a)) /\ DOMAIN a = 1..Len(a)
  BY DEF Quebras

\* A line feed is the one with its own number.
LEMMA QuebraContada ==
    ASSUME NEW a \in Seq(Bytes), NEW q \in Quebras(a)
    PROVE  /\ Ate(Quebras(a), q) \in 1..Cardinality(Quebras(a))
           /\ Quebra(a, Ate(Quebras(a), q)) = q
<1> DEFINE Q == Quebras(a)
<1>1. Q \in SUBSET (1..Len(a)) /\ Len(a) \in Nat /\ q \in Q
      BY QuebrasTipo
<1> HIDE DEF Q
<1>2. q \in Nat /\ q # 0 /\ \A r \in Q : r \in Nat
  <2>1. \A r \in Q : r \in 1..Len(a)  BY <1>1
  <2> QED BY <1>1, <2>1
<1>3. /\ Ate(Q, q) \in Nat /\ Ate(Q, q) <= Cardinality(Q) /\ Cardinality(Q) \in Nat
      BY <1>1, <1>2, AteTipo
<1>4. Ate(Q, q) # 0
  <2>1. 0 \in Nat /\ 0 <= q  BY <1>2
  <2>2. Ate(Q, 0) < Ate(Q, q)  BY <1>1, <1>2, <2>1, AteCresce
  <2>3. Ate(Q, 0) = 0  BY <1>1, AteZero
  <2> QED BY <2>2, <2>3, <1>3
<1>5. ASSUME NEW r \in Q, Ate(Q, r) = Ate(Q, q)
      PROVE  r = q
  <2>1. r \in Nat /\ Ate(Q, r) \in Nat
        BY <1>1, <1>2, AteTipo
  <2>2. CASE r < q
    <3>1. r <= q /\ r # q  BY <2>2, <2>1, <1>2
    <3>2. Ate(Q, r) < Ate(Q, q)  BY <1>1, <1>2, <2>1, <3>1, AteCresce
    <3> QED BY <3>2, <1>3, <1>5
  <2>3. CASE q < r
    <3>1. q <= r /\ q # r  BY <2>3, <2>1, <1>2
    <3>2. Ate(Q, q) < Ate(Q, r)  BY <1>1, <1>2, <2>1, <3>1, AteCresce
    <3> QED BY <3>2, <1>3, <1>5
  <2> QED BY <1>2, <2>1, <2>2, <2>3
<1>6. (CHOOSE r \in Q : Ate(Q, r) = Ate(Q, q)) = q
      BY <1>1, <1>5
<1>7. Ate(Q, q) \in 1..Cardinality(Q)
      BY <1>3, <1>4
<1> QED BY <1>4, <1>6, <1>7 DEF Quebra, Q

\* While line feeds are left, the next one is further on.
LEMMA ProximaQuebra ==
    ASSUME NEW a \in Seq(Bytes), NEW c \in Nat, Ate(Quebras(a), c) < Cardinality(Quebras(a))
    PROVE  /\ Quebra(a, Ate(Quebras(a), c) + 1) \in Quebras(a)
           /\ Quebra(a, Ate(Quebras(a), c) + 1) > c
<1> DEFINE Q == Quebras(a)
           T == {q \in Q : q > c}
<1>1. Q \in SUBSET (1..Len(a)) /\ Len(a) \in Nat /\ \A r \in Q : r \in Nat
  <2>1. Q \in SUBSET (1..Len(a)) /\ Len(a) \in Nat  BY QuebrasTipo
  <2>2. \A r \in Q : r \in 1..Len(a)  BY <2>1
  <2> QED BY <2>1, <2>2
<1>2. Ate(Q, c) < Cardinality(Q) /\ Cardinality(Q) \in Nat /\ Ate(Q, c) \in Nat
      BY <1>1, AteTipo
<1> HIDE DEF Q
<1>3. T # {}
  <2> SUFFICES ASSUME T = {} PROVE FALSE
      OBVIOUS
  <2>1. \A r \in Q : r <= c
        BY <1>1
  <2>2. {k \in Q : k <= c} = Q
        BY <2>1
  <2>3. Ate(Q, c) = Cardinality(Q)
        BY <2>2 DEF Ate
  <2> QED BY <1>2, <2>3
<1>4. PICK q \in T : \A y \in T : q <= y
  <2>1. T \in SUBSET Nat  BY <1>1
  <2> QED BY <1>3, <2>1, MenorDeTodos
<1>5. q \in Q /\ q > c /\ q \in Nat
      BY <1>1, <1>4
<1>6. {k \in Q : k <= q} = {k \in Q : k <= c} \cup {q}
  <2>1. ASSUME NEW k \in Q PROVE k <= q <=> k <= c \/ k = q
    <3>1. k \in Nat /\ (k > c => q <= k)  BY <1>1, <1>4
    <3> QED BY <3>1, <1>5
  <2> QED BY <1>5, <2>1
<1>7. q \notin {k \in Q : k <= c} /\ IsFiniteSet({k \in Q : k <= c})
  <2>1. ~(q <= c)  BY <1>5
  <2>2. IsFiniteSet({k \in Q : k <= c})  BY <1>1, AteTipo
  <2> QED BY <2>1, <2>2
<1>8. Ate(Q, q) = Ate(Q, c) + 1
      BY <1>6, <1>7, FS_AddElement DEF Ate
<1>9. Quebra(a, Ate(Q, c) + 1) = q
      BY <1>5, <1>8, QuebraContada DEF Q
<1> QED BY <1>5, <1>9 DEF Q

\* In simple text a line never fills the caller's, and line feeds are never together.
LEMMA LinhaCabe ==
    ASSUME NEW a \in Seq(Bytes), Simples(a), NEW c \in 0..Len(a),
           NEW n, n = Ate(Quebras(a), c), Quebra(a, n) \in 0..c
    PROVE  /\ c - Quebra(a, n) + 1 < TamLinha
           /\ c < Len(a) /\ c + 1 \in Quebras(a) => c > Quebra(a, n)
<1>1. Quebras(a) \in SUBSET (1..Len(a)) /\ Len(a) \in Nat /\ c \in Nat /\ Quebra(a, n) \in Nat
      BY QuebrasTipo
<1>2. n \in Nat /\ n <= Cardinality(Quebras(a)) /\ Cardinality(Quebras(a)) \in Nat
      BY <1>1, AteTipo
<1>3. \A k \in 1..Cardinality(Quebras(a)) : Quebra(a, k) - Quebra(a, k - 1) \in 2..(TamLinha - 1)
      BY DEF Simples
<1>4. CASE n < Cardinality(Quebras(a))
  <2>1. Quebra(a, n + 1) \in Quebras(a) /\ Quebra(a, n + 1) > c
        BY <1>1, <1>4, ProximaQuebra
  <2>2. Quebra(a, n + 1) \in Nat
    <3>1. Quebra(a, n + 1) \in 1..Len(a)  BY <1>1, <2>1
    <3> QED BY <3>1
  <2>3. Quebra(a, n + 1) - Quebra(a, n) \in 2..(TamLinha - 1)
    <3>1. n + 1 \in 1..Cardinality(Quebras(a)) /\ (n + 1) - 1 = n
          BY <1>2, <1>4
    <3> QED BY <1>3, <3>1
  <2>4. c - Quebra(a, n) + 1 < TamLinha
        BY <1>1, <2>1, <2>2, <2>3, LinhasAssumption
  <2>5. ASSUME c + 1 \in Quebras(a)
        PROVE  c > Quebra(a, n)
    <3>1. Ate(Quebras(a), c + 1) = n + 1
          BY <1>1, <2>5, AteMais
    <3>2. Quebra(a, n + 1) = c + 1
          BY <2>5, <3>1, QuebraContada
    <3> QED BY <1>1, <2>3, <3>2
  <2> QED BY <2>4, <2>5
<1>5. CASE n = Cardinality(Quebras(a))
  <2>1. Len(a) - Quebra(a, n) < TamLinha - 1
        BY <1>5 DEF Simples
  <2>2. c - Quebra(a, n) + 1 < TamLinha
        BY <1>1, <2>1, LinhasAssumption
  <2>3. c + 1 \notin Quebras(a)
    <3> SUFFICES ASSUME c + 1 \in Quebras(a) PROVE FALSE
        OBVIOUS
    <3>1. Ate(Quebras(a), c + 1) = n + 1
          BY <1>1, AteMais
    <3>2. n + 1 <= Cardinality(Quebras(a))
      <4>1. c + 1 \in Nat  BY <1>1
      <4>2. Ate(Quebras(a), c + 1) <= Cardinality(Quebras(a))  BY <1>1, <4>1, AteTipo
      <4> QED BY <3>1, <4>2
    <3> QED BY <1>2, <1>5, <3>2
  <2> QED BY <2>2, <2>3
<1> QED BY <1>2, <1>4, <1>5

LEMMA SemVizinhas ==
    ASSUME NEW a \in Seq(Bytes), Simples(a), NEW q \in Quebras(a)
    PROVE  q + 1 \notin Quebras(a)
<1> SUFFICES ASSUME q + 1 \in Quebras(a) PROVE FALSE
    OBVIOUS
<1> DEFINE n == Ate(Quebras(a), q)
<1>1. Quebras(a) \in SUBSET (1..Len(a)) /\ Len(a) \in Nat
      BY QuebrasTipo
<1>2. q \in 1..Len(a) /\ q + 1 \in 1..Len(a)
      BY <1>1
<1>3. Quebra(a, n) = q
      BY QuebraContada
<1>4. q \in 0..Len(a) /\ q < Len(a) /\ Quebra(a, n) \in 0..q
      BY <1>1, <1>2, <1>3
<1>5. q > Quebra(a, n)
      BY <1>4, LinhaCabe
<1> QED BY <1>2, <1>3, <1>5

\* What the buffer holds after the block, when there is one: the end of the block
\* before, or the zeros of StrBuffer.  Only the last block is short.
Velhos ==
    /\ tam > 0 => \E b \in Nat : tirados - tam = b * TamBuffer
    /\ fase # "nova" /\ tam < TamBuffer => tirados = Len(arquivo)
    /\ fase = "nova" => \A k \in 0..(TamBuffer - 1) : buffer[k] = NUL
    /\ \A k \in 0..(TamBuffer - 1) :
          tam > 0 /\ k >= tam =>
             IF tirados = tam THEN buffer[k] = NUL
             ELSE /\ tirados - tam >= TamBuffer
                  /\ buffer[k] = arquivo[tirados - tam - TamBuffer + k + 1]

Feitas == Len(linhas)

\* The lines answered so far are whole, and the line under way holds what was read
\* after the last of them.
Lendo ==
    /\ tam > 0 /\ pos <= tam
    /\ fase \in {"fora", "laco", "fim"}
    /\ Ate(Quebras(arquivo), Consumidos) = Feitas
    /\ Quebra(arquivo, Feitas) \in 0..Consumidos
    /\ fase = "fora" => Quebra(arquivo, Feitas) = Consumidos
    /\ fase # "fora" => linha = SubSeq(arquivo, Quebra(arquivo, Feitas) + 1, Consumidos)
    /\ fase # "fora" /\ linha # << >> => ok
    /\ fase = "fim" => Byte(buffer, pos) \in {LF, NUL}

\* The file is over and nothing the buffer still holds makes another answer.
Passou ==
    /\ tirados = Len(arquivo)
    /\ Feitas \in {Cardinality(Quebras(arquivo)), Cardinality(Quebras(arquivo)) + 1}
    /\ tam = 0 => /\ fase \in {"fim", "acabou"}
                  /\ fase = "fim" => ~ok
    /\ tam > 0 => /\ pos >= tam
                  /\ Byte(buffer, pos) # LF
                  /\ fase \in {"laco", "fim"} => linha = << >>
                  /\ fase = "fim" => Byte(buffer, pos) = NUL

\* The k-th line of a file: up to its line feed, or to the end.
LinhaDe(a, k) ==
    SubSeq(a, Quebra(a, k - 1) + 1,
           IF k <= Cardinality(Quebras(a)) THEN Quebra(a, k) - 1 ELSE Len(a))

RespostasCertas == \A k \in DOMAIN linhas : linhas[k] = LinhaDe(arquivo, k)

ISimples == Velhos /\ RespostasCertas /\ (fase = "nova" \/ Lendo \/ Passou)

IInv ==
    /\ TypeOK /\ Bloco
    /\ linhas \in Seq(Seq(Bytes))
    /\ Simples(arquivo) => ISimples

LEMMA ISimplesBasta == IInv => LinhasCertas
<1> SUFFICES ASSUME IInv, Simples(arquivo) PROVE LinhasCertas
    BY DEF LinhasCertas
<1>1. ISimples /\ TypeOK
      BY DEF IInv
<1>2. arquivo \in Seq(Bytes)
      BY <1>1, ArquivoTipo
<1>3. Cardinality(Quebras(arquivo)) \in Nat
      BY <1>2, QuebrasTipo, AteTipo
<1>4. fase = "acabou" => Len(linhas) >= Cardinality(Quebras(arquivo))
      BY <1>1, <1>3 DEF ISimples, Lendo, Passou, Feitas
<1> QED BY <1>1, <1>4 DEF LinhasCertas, ISimples, RespostasCertas, LinhaDe

LEMMA Pedaco ==
    ASSUME NEW a \in Seq(Bytes), NEW q \in Nat, NEW c \in Nat, q <= c, c <= Len(a)
    PROVE  /\ SubSeq(a, q + 1, c) \in Seq(Bytes) /\ Len(SubSeq(a, q + 1, c)) = c - q
           /\ c < Len(a) => Append(SubSeq(a, q + 1, c), a[c + 1]) = SubSeq(a, q + 1, c + 1)
           /\ q = c => SubSeq(a, q + 1, c) = << >>
  OBVIOUS

\* No byte of the buffer is a carriage return, and none of the block a zero.
LEMMA BytesSimples ==
    ASSUME TypeOK, Bloco, Velhos, Simples(arquivo), tam > 0
    PROVE  \A k \in 0..(TamBuffer - 1) :
              /\ buffer[k] # CR
              /\ k < tam => buffer[k] # NUL
<1> TAKE k \in 0..(TamBuffer - 1)
<1> USE ArquivoTipo
<1>1. \A j \in 1..Len(arquivo) : arquivo[j] \notin {CR, NUL}
      BY DEF Simples
<1>2. CASE k < tam
  <2>1. tirados - tam + k + 1 \in 1..Len(arquivo)
        BY <1>2 DEF Bloco
  <2> QED BY <1>1, <1>2, <2>1 DEF Bloco
<1>3. CASE k >= tam /\ tirados = tam
      BY <1>3 DEF Velhos, CR, NUL
<1>4. CASE k >= tam /\ tirados # tam
  <2>1. tirados - tam >= TamBuffer /\ buffer[k] = arquivo[tirados - tam - TamBuffer + k + 1]
        BY <1>4 DEF Velhos
  <2>2. tirados - tam - TamBuffer + k + 1 \in 1..Len(arquivo)
        BY <1>4, <2>1 DEF Bloco
  <2> QED BY <1>1, <1>4, <2>1, <2>2
<1> QED BY <1>2, <1>3, <1>4

\* What a new block leaves in place.
LEMMA RestoDoBloco ==
    ASSUME TypeOK
    PROVE  /\ \A k \in 0..(TamBuffer - 1) : k >= Proximos => Enchido[k] = buffer[k]
           /\ Proximos < TamBuffer => tirados + Proximos = Len(arquivo)
           /\ Proximos = 0 => tirados = Len(arquivo)
           /\ Proximos > 0 => tirados < Len(arquivo)
<1>1. DOMAIN buffer = 0..(TamBuffer - 1)
      BY DEF TypeOK
<1>2. Proximos \in Nat
      BY EnchidoTipo, ArquivoTipo
<1>3. \A k \in 0..(TamBuffer - 1) : k >= Proximos => ~(k < Proximos)
      BY <1>2
<1>4. \A k \in 0..(TamBuffer - 1) : k >= Proximos => Enchido[k] = buffer[k]
      BY <1>1, <1>3 DEF Enchido
<1>5. /\ Proximos < TamBuffer => tirados + Proximos = Len(arquivo)
      /\ Proximos = 0 => tirados = Len(arquivo)
      /\ Proximos > 0 => tirados < Len(arquivo)
      BY ArquivoTipo DEF Proximos
<1> QED BY <1>4, <1>5

LEMMA PassoVelhos == TypeOK /\ Bloco /\ Velhos /\ [Next]_vars => Velhos'
<1> SUFFICES ASSUME TypeOK, Bloco, Velhos, [Next]_vars PROVE Velhos'
    OBVIOUS
<1> USE ArquivoTipo
<1>1. CASE StrBuffer
  <2>1. /\ buffer' = Enchido /\ tam' = Proximos /\ tirados' = Proximos /\ arquivo' = arquivo
        /\ tirados = 0 /\ fase' # "nova"
        BY <1>1, EnchidoTipo DEF StrBuffer, Bloco
  <2>2. Proximos \in Nat /\ Proximos - Proximos = 0 * TamBuffer
        BY EnchidoTipo
  <2>3. \E b \in Nat : tirados' - tam' = b * TamBuffer
        BY <2>1, <2>2
  <2>4. tam' < TamBuffer => tirados' = Len(arquivo')
    <3>1. tirados + Proximos = Proximos
          BY <2>1, <2>2
    <3> QED BY <2>1, <3>1, RestoDoBloco
  <2>5. \A k \in 0..(TamBuffer - 1) : k >= tam' => buffer'[k] = NUL
        BY <1>1, <2>1, RestoDoBloco DEF Velhos, StrBuffer
  <2> QED BY <2>1, <2>3, <2>4, <2>5 DEF Velhos
<1>2. CASE Chama
      BY <1>2 DEF Chama, Velhos
<1>3. CASE CopiaByte
      BY <1>3 DEF CopiaByte, Velhos
<1>4. CASE Enche
  <2>1. /\ buffer' = Enchido /\ tam' = Proximos /\ tirados' = tirados + Proximos
        /\ arquivo' = arquivo /\ fase' # "nova" /\ fase # "nova" /\ Proximos > 0
        BY <1>4 DEF Enche
  <2>2. Proximos \in Nat /\ tirados' - tam' = tirados
        BY <2>1, EnchidoTipo
  <2>3. tam = TamBuffer
        BY <2>1, RestoDoBloco DEF Velhos
  <2>4. PICK b \in Nat : tirados - tam = b * TamBuffer
        BY <2>3 DEF Velhos
  <2>5. tirados = (b + 1) * TamBuffer
        BY <2>3, <2>4
  <2>6. \E c \in Nat : tirados' - tam' = c * TamBuffer
        BY <2>2, <2>5
  <2>7. tam' < TamBuffer => tirados' = Len(arquivo')
        BY <2>1, RestoDoBloco
  <2>8. ASSUME NEW k \in 0..(TamBuffer - 1), k >= tam'
        PROVE  /\ tirados' # tam' /\ tirados' - tam' >= TamBuffer
               /\ buffer'[k] = arquivo'[tirados' - tam' - TamBuffer + k + 1]
    <3>1. buffer'[k] = buffer[k]
          BY <2>1, <2>8, RestoDoBloco
    <3>2. buffer[k] = arquivo[tirados - tam + k + 1]
      <4>1. k < tam  BY <2>3
      <4> QED BY <4>1 DEF Bloco
    <3>3. tirados >= TamBuffer /\ tirados' # tam'
      <4>1. tam <= tirados  BY DEF Bloco
      <4>2. tirados >= TamBuffer  BY <4>1, <2>3
      <4> QED BY <4>2, <2>1, <2>2
    <3>4. tirados' - tam' - TamBuffer + k + 1 = tirados - tam + k + 1
          BY <2>2, <2>3
    <3>5. buffer'[k] = arquivo'[tirados' - tam' - TamBuffer + k + 1]
          BY <2>1, <3>1, <3>2, <3>4
    <3> QED BY <2>2, <3>3, <3>5
  <2> QED BY <2>1, <2>6, <2>7, <2>8 DEF Velhos
<1>5. CASE FimDoArquivo
  <2>1. tam' = 0 /\ tirados' = Len(arquivo') /\ fase' # "nova"
        BY <1>5, RestoDoBloco DEF FimDoArquivo
  <2> QED BY <2>1 DEF Velhos
<1>6. CASE FimDoLaco
      BY <1>6 DEF FimDoLaco, Velhos
<1>7. CASE Responde
      BY <1>7 DEF Responde, Velhos
<1>8. CASE UNCHANGED vars
      BY <1>8 DEF vars, Velhos
<1> QED BY <1>1, <1>2, <1>3, <1>4, <1>5, <1>6, <1>7, <1>8 DEF Next, Passo

\* A copy in simple text moves to the next byte and keeps the line under way.
LEMMA CopiaSimples ==
    ASSUME TypeOK, TypeOK', arquivo' = arquivo, linhas' = linhas, fase' = "laco", Simples(arquivo),
           NEW b, NEW p \in 0..(TamBuffer - 1), Copia(b, p),
           \A k \in 0..(TamBuffer - 1) : b[k] # CR,
           NEW t \in Nat, NEW i \in Nat, NEW c \in Nat, tam' = t, tirados' = i,
           p < t, t <= i, c = i - t + p,
           b[p] = arquivo[c + 1], b[p] # LF,
           Ate(Quebras(arquivo), c) = Feitas,
           Quebra(arquivo, Feitas) \in 0..c,
           linha = SubSeq(arquivo, Quebra(arquivo, Feitas) + 1, c)
    PROVE  Lendo'
<1>1. /\ i <= Len(arquivo) /\ t <= TamBuffer /\ TamBuffer \in Nat \ {0} /\ Len(arquivo) \in Nat
      /\ arquivo \in Seq(Bytes)
      BY ArquivoTipo, LinhasAssumption DEF TypeOK
<1>2. c < Len(arquivo) /\ (~(p + 1 < t) => i = c + 1)
  <2>1. p \in Nat  BY <1>1
  <2>2. c < i  BY <1>1, <2>1
  <2>3. ~(p + 1 < t) => i = c + 1  BY <2>1
  <2> QED BY <1>1, <2>2, <2>3
<1>3. Byte(b, p + 1) # CR
  <2>1. CASE p + 1 = TamBuffer
        BY <2>1 DEF Byte, CR
  <2>2. CASE p + 1 # TamBuffer
    <3>1. p + 1 \in 0..(TamBuffer - 1)  BY <1>1, <2>2
    <3> QED BY <2>2, <3>1 DEF Byte
  <2> QED BY <2>1, <2>2
<1>4. pos' = p + 1 /\ linha' = Append(linha, b[p]) /\ ok'
      BY <1>3 DEF Copia
<1>5. Consumidos' = c + 1
  <2>1. Consumidos' = IF p + 1 < t THEN i - t + (p + 1) ELSE i
        BY <1>4 DEF Consumidos
  <2> QED BY <1>2, <2>1
<1>6. c + 1 \notin Quebras(arquivo)
      BY DEF Quebras
<1>7. Ate(Quebras(arquivo), c + 1) = Feitas
  <2>1. Quebras(arquivo) \in SUBSET (1..Len(arquivo))
        BY <1>1, QuebrasTipo
  <2> QED BY <1>1, <1>6, <2>1, AteMais
<1>8. Quebra(arquivo, Feitas) \in Nat /\ Quebra(arquivo, Feitas) <= c
      OBVIOUS
<1>9. linha' = SubSeq(arquivo, Quebra(arquivo, Feitas) + 1, c + 1)
  <2> DEFINE q == Quebra(arquivo, Feitas)
  <2>1. q \in Nat /\ q <= c /\ c <= Len(arquivo) /\ linha = SubSeq(arquivo, q + 1, c)
        BY <1>1, <1>2, <1>8
  <2> HIDE DEF q
  <2>2. Append(SubSeq(arquivo, q + 1, c), arquivo[c + 1]) = SubSeq(arquivo, q + 1, c + 1)
        BY <1>1, <1>2, <2>1, Pedaco
  <2>3. linha' = SubSeq(arquivo, q + 1, c + 1)
        BY <1>4, <2>1, <2>2
  <2> QED BY <2>3 DEF q
<1>10. Feitas' = Feitas
      BY DEF Feitas
<1>11. tam' > 0 /\ pos' <= tam'
      BY <1>4
<1>12. Quebra(arquivo, Feitas) \in 0..(c + 1)
      BY <1>8
<1> QED BY <1>4, <1>5, <1>7, <1>9, <1>10, <1>11, <1>12 DEF Lendo

\* The bytes the reader is at, when they are in the block, and past it.
LEMMA ByteLido ==
    ASSUME TypeOK, Bloco, pos < tam
    PROVE  /\ pos \in 0..(TamBuffer - 1) /\ Byte(buffer, pos) = buffer[pos]
           /\ Consumidos = tirados - tam + pos /\ Consumidos < Len(arquivo)
           /\ buffer[pos] = arquivo[Consumidos + 1]
<1> USE ArquivoTipo
<1>1. pos \in 0..(TamBuffer - 1) /\ pos # TamBuffer /\ tam <= tirados
      BY DEF Bloco
<1>2. Consumidos = tirados - tam + pos /\ Consumidos < Len(arquivo)
      BY <1>1 DEF Consumidos
<1>3. buffer[pos] = arquivo[tirados - tam + pos + 1]
      BY <1>1 DEF Bloco
<1>4. tirados - tam + pos + 1 = Consumidos + 1
      BY <1>2
<1> QED BY <1>1, <1>2, <1>3, <1>4 DEF Byte

\* What follows a line feed left by an earlier block is no line feed: lines of simple
\* text are not blank.
LEMMA VelhoSemVizinha ==
    ASSUME TypeOK, Bloco, Velhos, Simples(arquivo), tam > 0, NEW k \in 0..(TamBuffer - 1),
           k >= tam, buffer[k] = LF
    PROVE  Byte(buffer, k + 1) # LF
<1> USE ArquivoTipo
<1>1. CASE k + 1 = TamBuffer
      BY <1>1 DEF Byte, LF
<1>2. CASE k + 1 # TamBuffer
  <2> SUFFICES ASSUME buffer[k + 1] = LF PROVE FALSE
      BY <1>2 DEF Byte
  <2>1. k + 1 \in 0..(TamBuffer - 1) /\ k + 1 >= tam
        BY <1>2
  <2>2. tirados # tam
        BY DEF Velhos, LF, NUL
  <2> DEFINE q == tirados - tam - TamBuffer + k + 1
  <2>3. tirados - tam >= TamBuffer /\ buffer[k] = arquivo[q]
        BY <2>2 DEF Velhos
  <2>4. buffer[k + 1] = arquivo[tirados - tam - TamBuffer + (k + 1) + 1]
        BY <2>1, <2>2 DEF Velhos
  <2>5. q \in 1..Len(arquivo) /\ q + 1 \in 1..Len(arquivo)
        BY <2>1, <2>3
  <2>6. tirados - tam - TamBuffer + (k + 1) + 1 = q + 1
        OBVIOUS
  <2>7. arquivo[q] = LF /\ arquivo[q + 1] = LF
        BY <2>3, <2>4, <2>6
  <2> HIDE DEF q
  <2>8. q \in Quebras(arquivo) /\ q + 1 \in Quebras(arquivo)
        BY <2>5, <2>7 DEF Quebras
  <2> QED BY <2>8, SemVizinhas
<1> QED BY <1>1, <1>2

\* While lines are being read there is room for another letter in the caller's.
LEMMA LendoCabe ==
    ASSUME TypeOK, Bloco, Simples(arquivo), Lendo, fase # "fora"
    PROVE  /\ Cabe
           /\ Consumidos < Len(arquivo) /\ Consumidos + 1 \in Quebras(arquivo) => linha # << >>
<1> DEFINE q == Quebra(arquivo, Feitas)
           c == Consumidos
<1>1. /\ c \in 0..Len(arquivo) /\ q \in 0..c /\ Feitas = Ate(Quebras(arquivo), c)
      /\ linha = SubSeq(arquivo, q + 1, c) /\ arquivo \in Seq(Bytes) /\ Len(arquivo) \in Nat
      BY ArquivoTipo, ConsumidosTipo DEF Lendo
<1>2. /\ c - q + 1 < TamLinha
      /\ c < Len(arquivo) /\ c + 1 \in Quebras(arquivo) => c > q
      BY <1>1, LinhaCabe
<1> HIDE DEF q, c
<1>3. q \in Nat /\ c \in Nat /\ q <= c /\ c <= Len(arquivo)
      BY <1>1
<1>4. Len(linha) = c - q
      BY <1>1, <1>3, Pedaco
<1>5. Cabe
      BY <1>2, <1>4 DEF Cabe
<1>6. ASSUME c > q PROVE linha # << >>
  <2>1. Len(linha) # 0  BY <1>3, <1>4, <1>6
  <2> QED BY <2>1
<1> QED BY <1>2, <1>5, <1>6 DEF c

\* The answer of a whole line, or of what is left of the file after the last one.
LEMMA RespostaCerta ==
    ASSUME RespostasCertas, arquivo' = arquivo, linhas \in Seq(Seq(Bytes)), linha \in Seq(Bytes),
           linhas' = Append(linhas, linha), linha = LinhaDe(arquivo, Feitas + 1)
    PROVE  linhas' \in Seq(Seq(Bytes)) /\ RespostasCertas' /\ Feitas' = Feitas + 1
<1>1. /\ linhas' \in Seq(Seq(Bytes)) /\ Len(linhas') = Len(linhas) + 1
      /\ DOMAIN linhas = 1..Len(linhas) /\ DOMAIN linhas' = 1..(Len(linhas) + 1)
      OBVIOUS
<1>2. ASSUME NEW k \in DOMAIN linhas'
      PROVE  linhas'[k] = LinhaDe(arquivo, k)
  <2>1. CASE k = Len(linhas) + 1
        BY <2>1 DEF Feitas
  <2>2. CASE k # Len(linhas) + 1
    <3>1. k \in DOMAIN linhas
          BY <1>1, <2>2
    <3>2. linhas'[k] = linhas[k]
          BY <3>1
    <3> QED BY <3>1, <3>2 DEF RespostasCertas
  <2> QED BY <2>1, <2>2
<1> QED BY <1>1, <1>2 DEF RespostasCertas, Feitas

LEMMA RespostasIguais ==
    ASSUME RespostasCertas, arquivo' = arquivo, linhas' = linhas
    PROVE  RespostasCertas' /\ Feitas' = Feitas
  BY DEF RespostasCertas, Feitas

\* When the file is over, the line feeds counted are all there are.
LEMMA TodasContadas ==
    ASSUME TypeOK
    PROVE  /\ Ate(Quebras(arquivo), Len(arquivo)) = Cardinality(Quebras(arquivo))
           /\ Ate(Quebras(arquivo), 0) = 0
           /\ Cardinality(Quebras(arquivo)) \in Nat
<1>1. Quebras(arquivo) \in SUBSET (1..Len(arquivo)) /\ Len(arquivo) \in Nat
      BY ArquivoTipo, QuebrasTipo
<1> QED BY <1>1, AteTodas, AteZero, AteTipo

LEMMA SimplesStrBuffer ==
    ASSUME TypeOK, Bloco, ISimples, StrBuffer
    PROVE  RespostasCertas' /\ (Lendo' \/ Passou')
<1>1. /\ tam' = Proximos /\ tirados' = Proximos /\ arquivo' = arquivo /\ linhas' = linhas
      /\ pos' = 0 /\ tirados = 0 /\ linhas = << >> /\ Proximos \in Nat
      /\ fase' = IF Proximos > 0 THEN "fora" ELSE "acabou"
      BY EnchidoTipo, ArquivoTipo DEF StrBuffer, Bloco
<1>2. RespostasCertas' /\ Feitas' = 0
      BY <1>1, RespostasIguais DEF ISimples, Feitas
<1>3. CASE Proximos > 0
  <2>1. Consumidos' = 0
        BY <1>1, <1>3 DEF Consumidos
  <2>2. Ate(Quebras(arquivo), 0) = 0 /\ Quebra(arquivo, 0) = 0
        BY TodasContadas DEF Quebra
  <2>3. Lendo'
        BY <1>1, <1>2, <1>3, <2>1, <2>2 DEF Lendo
  <2> QED BY <1>2, <2>3
<1>4. CASE ~(Proximos > 0)
  <2>1. Proximos = 0 /\ tirados = Len(arquivo)
        BY <1>1, <1>4, RestoDoBloco
  <2>2. Cardinality(Quebras(arquivo)) = 0
        BY <1>1, <2>1, TodasContadas
  <2>3. Passou'
        BY <1>1, <1>2, <1>4, <2>1, <2>2 DEF Passou
  <2> QED BY <1>2, <2>3
<1> QED BY <1>3, <1>4

LEMMA SimplesChama ==
    ASSUME TypeOK, Bloco, ISimples, Chama
    PROVE  RespostasCertas' /\ (Lendo' \/ Passou')
<1>1. /\ linha' = << >> /\ UNCHANGED <<arquivo, tirados, buffer, pos, tam, linhas>>
      /\ fase \in {"fora", "acabou"}
      /\ tam = 0 => fase' = "acabou"
      /\ tam > 0 => fase' = "laco"
      /\ tam \in Nat
      BY ArquivoTipo DEF Chama
<1>2. RespostasCertas' /\ Feitas' = Feitas
      BY <1>1, RespostasIguais DEF ISimples
<1>3. Consumidos' = Consumidos
      BY <1>1 DEF Consumidos
<1>4. CASE Lendo
  <2>1. Quebra(arquivo, Feitas) = Consumidos /\ Consumidos \in 0..Len(arquivo) /\ tam > 0
        BY <1>1, <1>4, ConsumidosTipo DEF Lendo
  <2>2. SubSeq(arquivo, Consumidos + 1, Consumidos) = << >>
        BY <2>1, Pedaco, ArquivoTipo
  <2>3. Lendo'
        BY <1>1, <1>2, <1>3, <1>4, <2>1, <2>2 DEF Lendo
  <2> QED BY <1>2, <2>3
<1>5. CASE Passou
  <2>1. Passou'
        BY <1>1, <1>2, <1>5 DEF Passou
  <2> QED BY <1>2, <2>1
<1> QED BY <1>1, <1>4, <1>5 DEF ISimples

LEMMA SimplesCopiaByte ==
    ASSUME TypeOK, TypeOK', Bloco, Simples(arquivo), ISimples, CopiaByte
    PROVE  RespostasCertas' /\ Lendo'
<1>1. /\ UNCHANGED <<arquivo, tirados, buffer, tam, fase, linhas>> /\ fase = "laco"
      /\ pos < tam /\ Copia(buffer, pos) /\ Byte(buffer, pos) # LF
      BY DEF CopiaByte, Continua
<1>2. Lendo
      BY <1>1, ArquivoTipo DEF ISimples, Passou
<1>3. /\ pos \in 0..(TamBuffer - 1) /\ buffer[pos] # LF /\ buffer[pos] = arquivo[Consumidos + 1]
      /\ Consumidos = tirados - tam + pos
      BY <1>1, ByteLido
<1>4. tam \in Nat /\ tirados \in Nat /\ tam <= tirados /\ tam > 0 /\ Consumidos \in Nat
      BY <1>2, ArquivoTipo, ConsumidosTipo DEF Bloco, Lendo
<1>5. \A k \in 0..(TamBuffer - 1) : buffer[k] # CR
      BY <1>4, BytesSimples DEF ISimples
<1>6. /\ Ate(Quebras(arquivo), Consumidos) = Feitas
      /\ Quebra(arquivo, Feitas) \in 0..Consumidos
      /\ linha = SubSeq(arquivo, Quebra(arquivo, Feitas) + 1, Consumidos)
      BY <1>1, <1>2 DEF Lendo
<1>7. tam' = tam /\ tirados' = tirados /\ fase' = "laco"
      BY <1>1
<1>8. Lendo'
  <2> DEFINE c == Consumidos
  <2>1. /\ c \in Nat /\ c = tirados - tam + pos /\ buffer[pos] = arquivo[c + 1]
        /\ Ate(Quebras(arquivo), c) = Feitas /\ Quebra(arquivo, Feitas) \in 0..c
        /\ linha = SubSeq(arquivo, Quebra(arquivo, Feitas) + 1, c)
        BY <1>3, <1>4, <1>6
  <2> HIDE DEF c
  <2> QED BY <1>1, <1>3, <1>4, <1>5, <1>7, <2>1, CopiaSimples
<1> QED BY <1>1, <1>8, RespostasIguais DEF ISimples

LEMMA NMenor == ASSUME NEW n \in Nat, NEW t \in Nat \ {0} PROVE n <= n * t
<1>1. n * t = n * (t - 1) + n
      OBVIOUS
<1>2. n * (t - 1) \in Nat
      OBVIOUS
<1> QED BY <1>1, <1>2

LEMMA SimplesEnche ==
    ASSUME TypeOK, TypeOK', Bloco, Simples(arquivo), ISimples, Enche
    PROVE  RespostasCertas' /\ Lendo'
<1>1. /\ UNCHANGED <<arquivo, fase, linhas>> /\ fase = "laco" /\ pos >= tam /\ Proximos > 0
      /\ Copia(Enchido, 0) /\ tam' = Proximos /\ tirados' = tirados + Proximos
      BY DEF Enche
<1>2. tirados < Len(arquivo)
      BY <1>1, RestoDoBloco
<1>3. Lendo
      BY <1>1, <1>2, ArquivoTipo DEF ISimples, Passou
<1>4. tam = TamBuffer /\ pos = tam /\ Consumidos = tirados /\ tam > 0
      BY <1>1, <1>2, <1>3, ArquivoTipo DEF ISimples, Velhos, Lendo, Consumidos
<1>5. Proximos \in Nat /\ tirados \in Nat /\ Proximos <= TamBuffer
      BY EnchidoTipo, ArquivoTipo
<1>6. ASSUME NEW k \in 0..(TamBuffer - 1)
      PROVE  Enchido[k] # CR
  <2>1. CASE k < Proximos
    <3>1. tirados + k + 1 \in 1..Len(arquivo)
          BY <2>1, <1>5, EnchidoTipo, ArquivoTipo
    <3>2. Enchido[k] = arquivo[tirados + k + 1]
          BY <2>1 DEF Enchido, TypeOK
    <3> QED BY <3>1, <3>2, ArquivoTipo DEF Simples
  <2>2. CASE k >= Proximos
        BY <2>2, <1>4, RestoDoBloco, BytesSimples DEF ISimples
  <2> QED BY <2>1, <2>2, <1>5
<1>7. 0 \in 0..(TamBuffer - 1) /\ Enchido[0] = arquivo[tirados + 1]
  <2>1. 0 \in 0..(TamBuffer - 1)  BY LinhasAssumption
  <2>2. Enchido[0] = arquivo[tirados + 0 + 1]  BY <2>1, <1>1 DEF Enchido, TypeOK
  <2> QED BY <2>1, <2>2, <1>5
<1>8. Enchido[0] # LF
  <2>1. PICK b \in Nat : tirados - tam = b * TamBuffer
        BY <1>4 DEF ISimples, Velhos
  <2>2. tirados = (b + 1) * TamBuffer
        BY <1>4, <1>5, <2>1, ArquivoTipo
  <2>3. b + 1 \in 0..Len(arquivo)
    <3>1. b + 1 <= (b + 1) * TamBuffer
          BY NMenor, LinhasAssumption
    <3> QED BY <3>1, <2>2, <1>2, ArquivoTipo
  <2>4. (b + 1) * TamBuffer + 1 \notin Quebras(arquivo)
        BY <2>3 DEF Simples
  <2>5. tirados + 1 \in DOMAIN arquivo
        BY <1>2, <1>5, ArquivoTipo
  <2> QED BY <1>7, <2>2, <2>4, <2>5 DEF Quebras
<1>9. /\ Ate(Quebras(arquivo), tirados) = Feitas
      /\ Quebra(arquivo, Feitas) \in 0..tirados
      /\ linha = SubSeq(arquivo, Quebra(arquivo, Feitas) + 1, tirados)
      BY <1>1, <1>3, <1>4 DEF Lendo
<1>10. Lendo'
  <2> DEFINE b == Enchido
             p == 0
             t == Proximos
             i == tirados + t
  <2>1. /\ p \in 0..(TamBuffer - 1) /\ Copia(b, p) /\ b[p] = arquivo[tirados + 1] /\ b[p] # LF
        /\ \A k \in 0..(TamBuffer - 1) : b[k] # CR
        BY <1>1, <1>6, <1>7, <1>8
  <2>2. /\ t \in Nat /\ i \in Nat /\ tam' = t /\ tirados' = i /\ p < t /\ t <= i
        /\ tirados = i - t + p
        BY <1>1, <1>5
  <2>3. arquivo' = arquivo /\ linhas' = linhas /\ fase' = "laco"
        BY <1>1
  <2> HIDE DEF b, p, t, i
  <2> QED BY <1>5, <1>9, <2>1, <2>2, <2>3, CopiaSimples
<1> QED BY <1>1, <1>10, RespostasIguais DEF ISimples

LEMMA SimplesFimDoArquivo ==
    ASSUME TypeOK, Bloco, ISimples, FimDoArquivo
    PROVE  RespostasCertas' /\ Passou'
<1>1. /\ UNCHANGED <<arquivo, tirados, buffer, linhas>> /\ fase = "laco" /\ pos >= tam
      /\ Proximos = 0 /\ tam' = 0 /\ fase' = "fim" /\ ok' = FALSE
      BY DEF FimDoArquivo
<1>2. tirados = Len(arquivo)
      BY <1>1, RestoDoBloco
<1>3. Feitas \in {Cardinality(Quebras(arquivo)), Cardinality(Quebras(arquivo)) + 1}
  <2>1. CASE Lendo
    <3>1. Consumidos = Len(arquivo)
          BY <1>1, <1>2, ArquivoTipo DEF Consumidos
    <3> QED BY <2>1, <3>1, TodasContadas DEF Lendo
  <2>2. CASE Passou
        BY <2>2 DEF Passou
  <2> QED BY <1>1, <2>1, <2>2 DEF ISimples
<1>4. RespostasCertas' /\ Feitas' = Feitas
      BY <1>1, RespostasIguais DEF ISimples
<1>5. Passou'
      BY <1>1, <1>2, <1>3, <1>4 DEF Passou
<1> QED BY <1>4, <1>5

LEMMA SimplesFimDoLaco ==
    ASSUME TypeOK, Bloco, Simples(arquivo), ISimples, FimDoLaco
    PROVE  RespostasCertas' /\ (Lendo' \/ Passou')
<1>1. /\ UNCHANGED <<arquivo, tirados, buffer, pos, tam, linha, ok, linhas>>
      /\ fase = "laco" /\ fase' = "fim" /\ (Byte(buffer, pos) \in {LF, NUL} \/ ~Cabe)
      BY DEF FimDoLaco, Continua
<1>2. RespostasCertas' /\ Feitas' = Feitas
      BY <1>1, RespostasIguais DEF ISimples
<1>3. CASE Lendo
  <2>1. Byte(buffer, pos) \in {LF, NUL}
        BY <1>1, <1>3, LendoCabe
  <2>2. Consumidos' = Consumidos
        BY <1>1 DEF Consumidos
  <2>3. Lendo'
        BY <1>1, <1>2, <1>3, <2>1, <2>2 DEF Lendo
  <2> QED BY <1>2, <2>3
<1>4. CASE Passou
  <2>1. tam > 0 /\ linha = << >> /\ Byte(buffer, pos) # LF
        BY <1>1, <1>4, ArquivoTipo DEF Passou
  <2>2. Cabe
        BY <2>1, LinhasAssumption DEF Cabe
  <2>3. Byte(buffer, pos) = NUL
        BY <1>1, <2>1, <2>2
  <2>4. Passou'
        BY <1>1, <1>2, <1>4, <2>1, <2>3 DEF Passou
  <2> QED BY <1>2, <2>4
<1> QED BY <1>1, <1>3, <1>4 DEF ISimples

\* An answer at a line feed of the block: the next line of the file.
LEMMA RespondeLinha ==
    ASSUME TypeOK, Bloco, Simples(arquivo), ISimples, linhas \in Seq(Seq(Bytes)), Responde, Lendo,
           pos < tam
    PROVE  RespostasCertas' /\ Lendo'
<1> DEFINE c == Consumidos
           q == Quebra(arquivo, Feitas)
<1>1. /\ UNCHANGED <<arquivo, tirados, buffer, tam, linha>> /\ fase = "fim" /\ pos' = Passa
      /\ ok' = (ok /\ ~Vazia) /\ fase' = IF ok' THEN "fora" ELSE "acabou"
      /\ linhas' = IF ok' THEN Append(linhas, linha) ELSE linhas
      BY DEF Responde
<1>2. /\ pos \in 0..(TamBuffer - 1) /\ Byte(buffer, pos) = buffer[pos]
      /\ c = tirados - tam + pos /\ c < Len(arquivo) /\ buffer[pos] = arquivo[c + 1]
      BY ByteLido
<1>3. /\ tam \in Nat /\ tirados \in Nat /\ tam <= tirados /\ tam > 0 /\ c \in Nat
      /\ Len(arquivo) \in Nat /\ arquivo \in Seq(Bytes) /\ pos \in Nat
      BY ArquivoTipo, ConsumidosTipo DEF Bloco, Lendo
<1>4. Byte(buffer, pos) = LF
      BY <1>1, <1>2, <1>3, BytesSimples DEF ISimples, Lendo
<1>5. c + 1 \in Quebras(arquivo)
      BY <1>2, <1>3, <1>4, ArquivoTipo DEF Quebras
<1>6. /\ Ate(Quebras(arquivo), c) = Feitas /\ q \in 0..c /\ linha = SubSeq(arquivo, q + 1, c)
      /\ linha # << >> => ok
      BY <1>1 DEF Lendo
<1>7. linha # << >>
      BY <1>1, <1>2, <1>5, LendoCabe
<1>8. ok' /\ pos' = pos + 1 /\ fase' = "fora" /\ linhas' = Append(linhas, linha)
      BY <1>1, <1>4, <1>6, <1>7 DEF Vazia, Passa
<1>9. /\ Ate(Quebras(arquivo), c + 1) = Feitas + 1
      /\ Feitas + 1 \in 1..Cardinality(Quebras(arquivo))
      /\ Quebra(arquivo, Feitas + 1) = c + 1
  <2>1. Quebras(arquivo) \in SUBSET (1..Len(arquivo))
        BY <1>3, QuebrasTipo
  <2>2. Ate(Quebras(arquivo), c + 1) = Feitas + 1
        BY <1>3, <1>5, <1>6, <2>1, AteMais
  <2> QED BY <1>3, <1>5, <2>2, QuebraContada
<1>10. Feitas \in Nat /\ (Feitas + 1) - 1 = Feitas /\ (c + 1) - 1 = c
       BY <1>3 DEF Feitas
<1>11. linha = LinhaDe(arquivo, Feitas + 1)
  <2>1. Feitas + 1 <= Cardinality(Quebras(arquivo))
        BY <1>9, <1>10
  <2> QED BY <1>6, <1>9, <1>10, <2>1 DEF LinhaDe
<1>12. RespostasCertas' /\ Feitas' = Feitas + 1
  <2>1. linha \in Seq(Bytes)
        BY DEF TypeOK
  <2> QED BY <1>1, <1>8, <1>11, <2>1, RespostaCerta DEF ISimples
<1>13. Consumidos' = c + 1
  <2>1. Consumidos' = IF pos + 1 < tam THEN tirados - tam + (pos + 1) ELSE tirados
        BY <1>1, <1>8 DEF Consumidos
  <2>2. pos + 1 < tam => tirados - tam + (pos + 1) = c + 1
        BY <1>2, <1>3
  <2>3. ~(pos + 1 < tam) => tirados = c + 1
        BY <1>2, <1>3
  <2> QED BY <2>1, <2>2, <2>3
<1>14. tam' > 0 /\ pos' <= tam'
       BY <1>1, <1>3, <1>8
<1> HIDE DEF c, q
<1>15. c + 1 \in 0..(c + 1)
       BY <1>3
<1>16. Lendo'
       BY <1>1, <1>8, <1>9, <1>12, <1>13, <1>14, <1>15 DEF Lendo
<1> QED BY <1>12, <1>16

\* The last answer: what is left of the file after its last line feed, or nothing.
LEMMA RespondeResto ==
    ASSUME TypeOK, Bloco, Simples(arquivo), ISimples, linhas \in Seq(Seq(Bytes)), Responde, Lendo,
           ~(pos < tam)
    PROVE  RespostasCertas' /\ Passou'
<1>1. /\ UNCHANGED <<arquivo, tirados, buffer, tam, linha>> /\ fase = "fim" /\ pos' = Passa
      /\ fase' \in {"fora", "acabou"}
      /\ linhas' = Append(linhas, linha) \/ linhas' = linhas
      BY DEF Responde
<1>2. pos = tam /\ tam > 0 /\ tam \in Nat /\ Byte(buffer, pos) \in {LF, NUL}
      BY <1>1, ArquivoTipo DEF Lendo
<1>3. pos # TamBuffer
      BY <1>2 DEF Byte, LF, NUL
<1>4. pos \in 0..(TamBuffer - 1) /\ tirados = Len(arquivo)
      BY <1>1, <1>2, <1>3, ArquivoTipo DEF ISimples, Velhos
<1>5. Consumidos = Len(arquivo)
      BY <1>2, <1>4 DEF Consumidos
<1>6. Feitas = Cardinality(Quebras(arquivo)) /\ Feitas \in Nat
      BY <1>5, TodasContadas DEF Lendo
<1>7. linha = LinhaDe(arquivo, Feitas + 1)
  <2>1. linha = SubSeq(arquivo, Quebra(arquivo, Feitas) + 1, Len(arquivo))
        BY <1>1, <1>5 DEF Lendo
  <2>2. (Feitas + 1) - 1 = Feitas /\ ~(Feitas + 1 <= Cardinality(Quebras(arquivo)))
        BY <1>6
  <2> QED BY <2>1, <2>2 DEF LinhaDe
<1>8. RespostasCertas' /\ Feitas' \in {Feitas, Feitas + 1}
  <2>1. linha \in Seq(Bytes)
        BY DEF TypeOK
  <2>2. CASE linhas' = Append(linhas, linha)
        BY <1>1, <1>7, <2>1, <2>2, RespostaCerta DEF ISimples
  <2>3. CASE linhas' = linhas
        BY <1>1, <2>3, RespostasIguais DEF ISimples
  <2> QED BY <1>1, <2>2, <2>3
<1>9. pos' >= tam /\ Byte(buffer, pos') # LF
  <2>1. CASE Byte(buffer, pos) = LF
    <3>1. buffer[pos] = LF /\ pos' = pos + 1
          BY <1>1, <1>3, <2>1 DEF Byte, Passa
    <3>2. Byte(buffer, pos + 1) # LF
          BY <1>2, <1>4, <3>1, VelhoSemVizinha DEF ISimples
    <3> QED BY <1>2, <3>1, <3>2
  <2>2. CASE Byte(buffer, pos) # LF
        BY <1>1, <1>2, <2>2 DEF Passa
  <2> QED BY <2>1, <2>2
<1>10. Passou'
       BY <1>1, <1>2, <1>4, <1>6, <1>8, <1>9 DEF Passou
<1> QED BY <1>8, <1>10

LEMMA RespondeNada ==
    ASSUME TypeOK, ISimples, Responde, Passou
    PROVE  RespostasCertas' /\ Passou'
<1>1. /\ UNCHANGED <<arquivo, tirados, buffer, tam, linha>> /\ fase = "fim" /\ pos' = Passa
      /\ ok' = (ok /\ ~Vazia) /\ fase' = IF ok' THEN "fora" ELSE "acabou"
      /\ linhas' = IF ok' THEN Append(linhas, linha) ELSE linhas
      BY DEF Responde
<1>2. tam = 0 \/ tam > 0
      BY ArquivoTipo
<1>3. tam > 0 => Byte(buffer, pos) = NUL /\ Passa = pos /\ Vazia
      BY <1>1 DEF Passou, Passa, Vazia, LF, NUL
<1>4. ~ok' /\ fase' = "acabou" /\ linhas' = linhas
  <2>1. CASE tam = 0
        BY <1>1, <2>1 DEF Passou
  <2>2. CASE tam > 0
        BY <1>1, <1>3, <2>2
  <2> QED BY <1>2, <2>1, <2>2
<1>5. RespostasCertas' /\ Feitas' = Feitas
      BY <1>1, <1>4, RespostasIguais DEF ISimples
<1>6. tam > 0 => pos' = pos
      BY <1>1, <1>3
<1>7. Passou'
      BY <1>1, <1>4, <1>5, <1>6 DEF Passou
<1> QED BY <1>5, <1>7

LEMMA SimplesResponde ==
    ASSUME TypeOK, Bloco, Simples(arquivo), ISimples, linhas \in Seq(Seq(Bytes)), Responde
    PROVE  RespostasCertas' /\ (Lendo' \/ Passou')
<1>1. fase = "fim"
      BY DEF Responde
<1>2. CASE Lendo /\ pos < tam
      BY <1>2, RespondeLinha
<1>3. CASE Lendo /\ ~(pos < tam)
      BY <1>3, RespondeResto
<1>4. CASE Passou
      BY <1>4, RespondeNada
<1> QED BY <1>1, <1>2, <1>3, <1>4 DEF ISimples

LEMMA InitIInv == Init => IInv
<1> SUFFICES ASSUME Init PROVE IInv
    OBVIOUS
<1>1. TypeOK /\ Bloco
      BY InitLetras DEF ILetras
<1>2. linhas = << >> /\ tam = 0 /\ fase = "nova" /\ buffer = [k \in 0..(TamBuffer - 1) |-> NUL]
      BY DEF Init
<1>3. RespostasCertas
  <2>1. DOMAIN linhas = {}  BY <1>2
  <2> QED BY <2>1 DEF RespostasCertas
<1>4. Velhos
      BY <1>2 DEF Velhos
<1> QED BY <1>1, <1>2, <1>3, <1>4 DEF IInv, ISimples

LEMMA PassoIInv == IInv /\ [Next]_vars => IInv'
<1> SUFFICES ASSUME IInv, [Next]_vars PROVE IInv'
    OBVIOUS
<1>1. TypeOK /\ Bloco /\ linhas \in Seq(Seq(Bytes)) /\ linha \in Seq(Bytes)
      BY DEF IInv, TypeOK
<1>2. TypeOK' /\ Bloco'
      BY <1>1, PassoTipo, PassoBloco
<1>3. linhas' = linhas \/ linhas' = Append(linhas, linha)
      BY DEF Next, Passo, StrBuffer, Chama, CopiaByte, Enche, FimDoArquivo, FimDoLaco, Responde, vars
<1>4. linhas' \in Seq(Seq(Bytes))
      BY <1>1, <1>3
<1>5. arquivo' = arquivo
      BY DEF Next, Passo, StrBuffer, Chama, CopiaByte, Enche, FimDoArquivo, FimDoLaco, Responde, vars
<1>6. ASSUME Simples(arquivo)
      PROVE  ISimples'
  <2>1. ISimples /\ Velhos'
        BY <1>1, <1>6, PassoVelhos DEF IInv, ISimples
  <2>2. RespostasCertas' /\ (fase' = "nova" \/ Lendo' \/ Passou')
    <3>1. CASE StrBuffer
          BY <1>1, <2>1, <3>1, SimplesStrBuffer
    <3>2. CASE Chama
          BY <1>1, <2>1, <3>2, SimplesChama
    <3>3. CASE CopiaByte
          BY <1>1, <1>2, <1>6, <2>1, <3>3, SimplesCopiaByte
    <3>4. CASE Enche
          BY <1>1, <1>2, <1>6, <2>1, <3>4, SimplesEnche
    <3>5. CASE FimDoArquivo
          BY <1>1, <2>1, <3>5, SimplesFimDoArquivo
    <3>6. CASE FimDoLaco
          BY <1>1, <1>6, <2>1, <3>6, SimplesFimDoLaco
    <3>7. CASE Responde
          BY <1>1, <1>6, <2>1, <3>7, SimplesResponde
    <3>8. CASE UNCHANGED vars
      <4>1. Lendo' <=> Lendo
            BY <3>8 DEF vars, Lendo, Consumidos, Feitas
      <4>2. Passou' <=> Passou
            BY <3>8 DEF vars, Passou, Feitas
      <4>3. RespostasCertas' <=> RespostasCertas
            BY <3>8 DEF vars, RespostasCertas
      <4> QED BY <2>1, <3>8, <4>1, <4>2, <4>3 DEF ISimples, vars
    <3> QED BY <3>1, <3>2, <3>3, <3>4, <3>5, <3>6, <3>7, <3>8 DEF Next, Passo
  <2> QED BY <2>1, <2>2 DEF ISimples
<1> QED BY <1>2, <1>4, <1>5, <1>6 DEF IInv

\* Simple text of any length, in blocks of any size, comes out line by line: every
\* answer of StrBuffer_LeiaLinha (String.c 30-66) is the next line of the file, and
\* the loop of Brasis.c does not end before the last line feed.
THEOREM TextoLinhaALinha == Spec => []LinhasCertas
<1> QED BY InitIInv, PassoIInv, ISimplesBasta, PTL DEF Spec
=============================================================================
