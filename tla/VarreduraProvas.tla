-------------------------- MODULE VarreduraProvas --------------------------
(***************************************************************************)
(* The loops of AlocaPaginaFisica and LiberaPaginaFisica implement Memoria *)
(* for every page map and every set of requests.                           *)
(***************************************************************************)
EXTENDS MemoriaVarredura, WellFoundedInduction, TLAPS

-----------------------------------------------------------------------------
(* Facts about the operators of MapaPaginas that the loops need.            *)

\* A nonempty set of page numbers has a least one.
LEMMA MenorElemento ==
    ASSUME NEW T \in SUBSET Nat, T # {}
    PROVE  \E x \in T : \A y \in T : x <= y
<1>1. \E x \in T : \A y \in T : <<y, x>> \notin OpToRel(<, Nat)
  BY NatLessThanWellFounded, WFMin
<1>2. PICK x \in T : \A y \in T : <<y, x>> \notin OpToRel(<, Nat)
  BY <1>1
<1>3. \A y \in T : ~(y < x)
  BY <1>2 DEF OpToRel
<1>4. QED
  BY <1>3

\* Owner numbers survive the 0x7f mask, and a marked cell is never free.
LEMMA BytesDoDono ==
    ASSUME NEW processo \in Numeros
    PROVE  /\ Dono(processo) = processo
           /\ Cabeca(processo) = processo + 128
           /\ Dono(processo) \in Byte \ {VAZIO}
           /\ Cabeca(processo) \in Byte \ {VAZIO}
           /\ EhCabeca(Cabeca(processo)) /\ ~EhCabeca(Dono(processo))
  BY DEF Dono, Cabeca, EhCabeca, Byte, VAZIO, Numeros

\* A request always asks for at least one page.
LEMMA TamanhoPositivo ==
    ASSUME NEW qtd \in Nat
    PROVE  Tamanho(qtd) \in Nat \ {0}
  BY DEF Tamanho

\* Both zones lie inside the cells the code touches.
LEMMA FaixaDentro ==
    ASSUME NEW especial \in BOOLEAN
    PROVE  Faixa(especial) \subseteq Celulas
  BY GeometriaAssumption DEF Faixa, Celulas

\* Lines 102-125: when some run of free pages is long enough, the place chosen
\* is such a run and no earlier place is.
LEMMA PrimeiroEncaixeServe ==
    ASSUME NEW m, NEW especial \in BOOLEAN, NEW tam \in Nat \ {0},
           Encaixes(m, especial, tam) # {}
    PROVE  /\ PrimeiroEncaixe(m, especial, tam) \in Encaixes(m, especial, tam)
           /\ \A k \in Encaixes(m, especial, tam) :
                  PrimeiroEncaixe(m, especial, tam) <= k
<1> DEFINE E == Encaixes(m, especial, tam)
<1>1. E \subseteq Nat
  BY FaixaDentro, GeometriaAssumption DEF Encaixes, Celulas
<1>2. \E p \in E : \A k \in E : p <= k
  BY <1>1, MenorElemento
<1>3. QED
  BY <1>2 DEF PrimeiroEncaixe

-----------------------------------------------------------------------------
(* The loop invariant.                                                     *)

n == Tamanho(chamada.qtd)

\* While the search runs: it scans its zone in order, and an open run is made
\* of the free pages primeiro..i-1, still too few.
NaBusca ==
    /\ chamada \in Pedidos
    /\ i \in Minimo(chamada.especial)..(Maximo(chamada.especial) + 1)
    /\ validando =>
           /\ primeiro \in Minimo(chamada.especial)..(i - 1)
           /\ encontrado = i - primeiro
           /\ encontrado < n
           /\ \A p \in primeiro..(i - 1) : paginas[p] = VAZIO
    /\ \A k \in Encaixes(paginas, chamada.especial, n) :
           k >= (IF validando THEN primeiro ELSE i)

\* While the block is marked: the pages before j are done, the others free.
NaMarca ==
    /\ chamada \in Pedidos
    /\ primeiro \in Celulas
    /\ ultimo = primeiro + n - 1
    /\ Bloco(primeiro, n) \subseteq Faixa(chamada.especial)
    /\ j \in primeiro..(ultimo + 1)
    /\ \A p \in j..ultimo : paginas[p] = VAZIO
    /\ \A p \in primeiro..(j - 1) :
           /\ p \notin sujas
           /\ p = primeiro => paginas[p] = Cabeca(chamada.processo)
           /\ p # primeiro => paginas[p] = Dono(chamada.processo)

NaLibera == chamada \in blocos /\ i = chamada.inicio

Inv ==
    /\ paginas \in Mapas
    /\ blocos \subseteq Blocos
    /\ \A b \in blocos : PaginasDe(b) \subseteq Celulas
    /\ pc \in {"fora", "busca", "marca", "libera"}
    /\ validando \in BOOLEAN
    /\ pc = "busca" => NaBusca
    /\ pc = "marca" => NaMarca
    /\ pc = "libera" => NaLibera

-----------------------------------------------------------------------------

LEMMA Limites ==
    ASSUME NEW especial \in BOOLEAN
    PROVE  /\ Faixa(especial) = Minimo(especial)..Maximo(especial)
           /\ Minimo(especial) \in Nat /\ Maximo(especial) \in Nat
           /\ Minimo(especial) <= Maximo(especial) /\ Maximo(especial) <= QtdPaginas
           /\ Minimo(especial)..Maximo(especial) \subseteq Celulas
  BY GeometriaAssumption DEF Faixa, Minimo, Maximo, Celulas

LEMMA PedidoValido ==
    ASSUME chamada \in Pedidos
    PROVE  /\ chamada.processo \in Processos /\ chamada.processo \in Numeros
           /\ chamada.especial \in BOOLEAN
           /\ chamada.qtd \in Qtds /\ chamada.qtd \in Nat
           /\ n \in Nat \ {0}
<1>1. /\ chamada.processo \in Processos
      /\ chamada.especial \in BOOLEAN
      /\ chamada.qtd \in Qtds
  BY DEF Pedidos
<1>2. chamada.processo \in Numeros /\ chamada.qtd \in Nat
  BY <1>1, VarreduraAssumption
<1>3. QED
  BY <1>1, <1>2, TamanhoPositivo DEF n

\* Lines 118-125: when the run reaches the request, it is the first place that
\* fits.
LEMMA AchouPrimeiro ==
    ASSUME NEW m, NEW especial \in BOOLEAN, NEW tam \in Nat \ {0}, NEW ini \in Nat,
           ini \in Minimo(especial)..Maximo(especial),
           ini + tam - 1 \in Minimo(especial)..Maximo(especial),
           \A p \in ini..(ini + tam - 1) : m[p] = VAZIO,
           \A k \in Encaixes(m, especial, tam) : k >= ini
    PROVE  /\ ini \in Encaixes(m, especial, tam)
           /\ PrimeiroEncaixe(m, especial, tam) = ini
<1>1. ini \in Encaixes(m, especial, tam)
  BY Limites DEF Encaixes, Bloco
<1>2. \A k \in Encaixes(m, especial, tam) : k \in Nat
  BY Limites DEF Encaixes
<1>3. /\ PrimeiroEncaixe(m, especial, tam) \in Encaixes(m, especial, tam)
      /\ \A k \in Encaixes(m, especial, tam) : PrimeiroEncaixe(m, especial, tam) <= k
  BY <1>1, PrimeiroEncaixeServe
<1>4. PrimeiroEncaixe(m, especial, tam) \in Nat
  BY <1>2, <1>3
<1>5. QED
  BY <1>1, <1>3, <1>4

-----------------------------------------------------------------------------
(* The steps preserve the invariant.                                       *)

LEMMA InitInv == Init => Inv
<1> SUFFICES ASSUME Init PROVE Inv
  OBVIOUS
<1>1. PICK v \in Vizinhos : paginas = ComVizinho(Marcadas, v)
  BY DEF Init
<1>2. Marcadas \in [Paginas -> {VAZIO, NUCLEO, RESERVADO}] /\ v \in Byte
  BY VarreduraAssumption DEF MapasDoInicio
<1>3. {VAZIO, NUCLEO, RESERVADO} \subseteq Byte
  BY DEF Byte, VAZIO, NUCLEO, RESERVADO
<1>4. paginas \in Mapas
  BY <1>1, <1>2, <1>3 DEF ComVizinho, Mapas
<1>5. QED
  BY <1>4 DEF Init, Inv

LEMMA ChamaAlocaInv ==
    ASSUME Inv, NEW pedido \in Pedidos, ChamaAloca(pedido)
    PROVE  Inv'
<1>1. pedido.especial \in BOOLEAN /\ pedido.qtd \in Nat
  BY VarreduraAssumption DEF Pedidos
<1>2. NaBusca'
  <2>1. /\ chamada' = pedido /\ i' = Minimo(pedido.especial) /\ validando' = FALSE
        /\ paginas' = paginas
    BY DEF ChamaAloca, estado
  <2>2. i' \in Minimo(pedido.especial)..(Maximo(pedido.especial) + 1)
    BY <1>1, <2>1, Limites
  <2>3. \A k \in Encaixes(paginas, pedido.especial, n') : k >= Minimo(pedido.especial)
    BY <1>1, Limites DEF Encaixes
  <2>4. QED
    BY <2>1, <2>2, <2>3 DEF NaBusca
<1>3. QED
  BY <1>2 DEF Inv, ChamaAloca, estado

\* A free page was added to the run: either the run is still short and the
\* search goes on, or it is the block.
LEMMA DecideInv ==
    ASSUME Inv, pc = "busca", i <= Maximo(chamada.especial),
           paginas[i] = VAZIO,
           NEW ini \in Nat, NEW total \in Nat \ {0},
           ini \in Minimo(chamada.especial)..i,
           total = i - ini + 1,
           total <= n,
           \A p \in ini..(i - 1) : paginas[p] = VAZIO,
           \A k \in Encaixes(paginas, chamada.especial, n) : k >= ini,
           Decide(ini, i, total)
    PROVE  Inv'
<1>1. NaBusca
  BY DEF Inv
<1>2. /\ chamada.especial \in BOOLEAN /\ chamada.qtd \in Nat /\ n \in Nat \ {0}
      /\ chamada.processo \in Processos /\ chamada \in Pedidos
  BY <1>1, PedidoValido DEF NaBusca
<1>3. /\ Minimo(chamada.especial) \in Nat /\ Maximo(chamada.especial) \in Nat
      /\ Maximo(chamada.especial) <= QtdPaginas
      /\ Minimo(chamada.especial)..Maximo(chamada.especial) \subseteq Celulas
      /\ Faixa(chamada.especial) = Minimo(chamada.especial)..Maximo(chamada.especial)
  BY <1>2, Limites
<1>4. i \in Nat /\ i >= Minimo(chamada.especial)
  BY <1>1, <1>3 DEF NaBusca
<1>5. /\ primeiro' = ini /\ ultimo' = i /\ encontrado' = total /\ validando' = TRUE
      /\ paginas' = paginas /\ sujas' = sujas /\ chamada' = chamada /\ n' = n
  BY DEF Decide, n
<1>6. \A p \in ini..i : paginas[p] = VAZIO
  BY <1>4
<1>7. CASE chamada.qtd <= total
  <2>1. /\ pc' = "marca" /\ j' = ini
        /\ blocos' = blocos \cup {[inicio |-> ini, tam |-> n, dono |-> chamada.processo]}
    BY <1>7 DEF Decide, n
  <2>2. n = total
    BY <1>2, <1>7 DEF n, Tamanho
  <2>3. i = ini + n - 1
    BY <1>4, <2>2
  <2>4. Bloco(ini, n) \subseteq Faixa(chamada.especial) /\ ini \in Celulas
    BY <1>3, <1>4, <2>3 DEF Bloco
  <2>5. NaMarca'
    BY <1>2, <1>4, <1>5, <1>6, <2>1, <2>3, <2>4 DEF NaMarca
  <2>6. [inicio |-> ini, tam |-> n, dono |-> chamada.processo] \in Blocos
    BY <1>2, <2>4 DEF Blocos, BlocosDe
  <2>7. Bloco(ini, n) \subseteq Celulas
    BY <1>2, <2>4, FaixaDentro
  <2>8. QED
    BY <1>5, <2>1, <2>5, <2>6, <2>7 DEF Inv, PaginasDe
<1>8. CASE ~(chamada.qtd <= total)
  <2>1. pc' = pc /\ i' = i + 1 /\ blocos' = blocos
    BY <1>8 DEF Decide
  <2>2. total < n
    BY <1>2, <1>8 DEF n, Tamanho
  <2>3. i' \in Minimo(chamada.especial)..(Maximo(chamada.especial) + 1)
    BY <1>3, <1>4, <2>1
  <2>4. /\ primeiro' \in Minimo(chamada.especial)..(i' - 1)
        /\ encontrado' = i' - primeiro'
        /\ \A p \in primeiro'..(i' - 1) : paginas[p] = VAZIO
    BY <1>3, <1>4, <1>5, <1>6, <2>1
  <2>5. NaBusca'
    BY <1>2, <1>5, <2>2, <2>3, <2>4 DEF NaBusca
  <2>6. QED
    BY <1>5, <2>1, <2>5 DEF Inv
<1>9. QED
  BY <1>7, <1>8

\* What Estende hands to Decide.
LEMMA EstendeDecide ==
    ASSUME Inv, Estende
    PROVE  /\ primeiro \in Nat /\ encontrado + 1 \in Nat \ {0}
           /\ primeiro \in Minimo(chamada.especial)..i
           /\ encontrado + 1 = i - primeiro + 1
           /\ encontrado + 1 <= n
           /\ \A p \in primeiro..(i - 1) : paginas[p] = VAZIO
           /\ \A k \in Encaixes(paginas, chamada.especial, n) : k >= primeiro
<1>1. NaBusca /\ validando /\ i <= Maximo(chamada.especial)
  BY DEF Inv, Estende
<1>2. chamada.especial \in BOOLEAN /\ n \in Nat \ {0}
  BY <1>1, PedidoValido DEF NaBusca
<1>3. Minimo(chamada.especial) \in Nat /\ Maximo(chamada.especial) \in Nat
  BY <1>2, Limites
<1>4. QED
  BY <1>1, <1>2, <1>3 DEF NaBusca

\* What Comeca hands to Decide.
LEMMA ComecaDecide ==
    ASSUME Inv, Comeca
    PROVE  /\ i \in Nat /\ i \in Minimo(chamada.especial)..i
           /\ 1 <= n
           /\ \A p \in i..(i - 1) : paginas[p] = VAZIO
           /\ \A k \in Encaixes(paginas, chamada.especial, n) : k >= i
<1>1. NaBusca /\ validando = FALSE
  BY DEF Inv, Comeca
<1>2. chamada.especial \in BOOLEAN /\ n \in Nat \ {0}
  BY <1>1, PedidoValido DEF NaBusca
<1>3. Minimo(chamada.especial) \in Nat /\ Maximo(chamada.especial) \in Nat
  BY <1>2, Limites
<1>4. QED
  BY <1>1, <1>2, <1>3 DEF NaBusca

LEMMA EstendeInv == ASSUME Inv, Estende PROVE Inv'
<1>1. Decide(primeiro, i, encontrado + 1) /\ pc = "busca" /\ i <= Maximo(chamada.especial)
      /\ paginas[i] = VAZIO
  BY DEF Estende
<1>2. QED
  BY <1>1, EstendeDecide, DecideInv

LEMMA ComecaInv == ASSUME Inv, Comeca PROVE Inv'
<1>1. Decide(i, i, 1) /\ pc = "busca" /\ i <= Maximo(chamada.especial) /\ paginas[i] = VAZIO
  BY DEF Comeca
<1>2. i \in Nat /\ 1 = i - i + 1
  BY ComecaDecide
<1>3. QED
  BY <1>1, <1>2, ComecaDecide, DecideInv

\* A page in use: no block that fits starts before the next page.
LEMMA InterrompeInv == ASSUME Inv, Interrompe PROVE Inv'
<1>1. NaBusca /\ i <= Maximo(chamada.especial) /\ paginas[i] # VAZIO
  BY DEF Inv, Interrompe
<1>2. chamada.especial \in BOOLEAN /\ n \in Nat \ {0}
  BY <1>1, PedidoValido DEF NaBusca
<1>3. Minimo(chamada.especial) \in Nat /\ Maximo(chamada.especial) \in Nat
  BY <1>2, Limites
<1>4. /\ i' = i + 1 /\ validando' = FALSE /\ pc' = pc /\ paginas' = paginas
      /\ chamada' = chamada /\ n' = n /\ blocos' = blocos
  BY DEF Interrompe, estado, n
<1>5. i \in Nat /\ i' \in Minimo(chamada.especial)..(Maximo(chamada.especial) + 1)
  BY <1>1, <1>3, <1>4 DEF NaBusca
<1>6. \A k \in Encaixes(paginas, chamada.especial, n) : k >= i + 1
  <2> SUFFICES ASSUME NEW k \in Encaixes(paginas, chamada.especial, n), ~(k >= i + 1)
               PROVE  FALSE
    OBVIOUS
  <2>1. k \in Nat /\ k <= i
    BY <1>2, <1>5, Limites DEF Encaixes
  <2>2. \A p \in k..(k + n - 1) : paginas[p] = VAZIO
    BY DEF Encaixes, Bloco
  <2>3. k + n - 1 < i
    BY <1>1, <1>2, <1>5, <2>1, <2>2
  <2>4. CASE validando
    BY <1>1, <1>2, <1>3, <1>5, <2>1, <2>3, <2>4 DEF NaBusca
  <2>5. CASE ~validando
    BY <1>1, <1>2, <1>5, <2>1, <2>3, <2>5 DEF NaBusca
  <2>6. QED
    BY <2>4, <2>5
<1>7. NaBusca'
  BY <1>1, <1>4, <1>5, <1>6 DEF NaBusca
<1>8. QED
  BY <1>4, <1>7 DEF Inv, Interrompe

\* One page of the block is marked.
LEMMA MarcaUmaInv == ASSUME Inv, MarcaUma PROVE Inv'
<1>1. NaMarca /\ pc = "marca" /\ j <= ultimo
  BY DEF Inv, MarcaUma
<1>2. chamada.especial \in BOOLEAN /\ n \in Nat \ {0} /\ chamada.processo \in Numeros
  BY <1>1, PedidoValido DEF NaMarca
<1>3. /\ sujas' = sujas \ {j} /\ j' = j + 1 /\ blocos' = blocos /\ pc' = pc
      /\ chamada' = chamada /\ n' = n /\ primeiro' = primeiro /\ ultimo' = ultimo
      /\ validando' = validando
  BY DEF MarcaUma, n
<1>4. primeiro \in Nat /\ j \in Nat /\ ultimo \in Nat /\ j \in Bloco(primeiro, n)
  BY <1>1, <1>2, GeometriaAssumption DEF NaMarca, Celulas, Bloco
<1>5. j \in Celulas
  BY <1>1, <1>2, <1>4, FaixaDentro DEF NaMarca
<1> DEFINE c == IF j = primeiro THEN Cabeca(chamada.processo) ELSE Dono(chamada.processo)
<1>7. c \in Byte
  BY <1>2, BytesDoDono
<1>8. paginas' = [paginas EXCEPT ![j] = c]
  BY DEF MarcaUma
<1> HIDE DEF c
<1>9. /\ paginas' \in Mapas /\ paginas'[j] = c
      /\ \A p \in Celulas \ {j} : paginas'[p] = paginas[p]
  BY <1>5, <1>7, <1>8 DEF Mapas, Inv
<1>10. \A p \in primeiro..ultimo : p \in Celulas
  BY <1>1, <1>2, <1>4, FaixaDentro DEF NaMarca, Bloco
<1>11. NaMarca'
  <2>1. \A p \in j'..ultimo' : paginas'[p] = VAZIO
    BY <1>1, <1>3, <1>4, <1>9, <1>10 DEF NaMarca
  <2>2. ASSUME NEW p \in primeiro..(j' - 1)
        PROVE  /\ p \notin sujas'
               /\ p = primeiro => paginas'[p] = Cabeca(chamada.processo)
               /\ p # primeiro => paginas'[p] = Dono(chamada.processo)
    <3>1. CASE p = j
      BY <3>1, <1>3, <1>9 DEF c
    <3>2. CASE p # j
      <4>1. p \in primeiro..(j - 1) /\ p \in Celulas \ {j}
        BY <3>2, <1>1, <1>3, <1>4, <1>10
      <4>2. QED
        BY <4>1, <1>1, <1>3, <1>9 DEF NaMarca
    <3>3. QED
      BY <3>1, <3>2
  <2>3. j' \in primeiro'..(ultimo' + 1)
    BY <1>1, <1>3, <1>4 DEF NaMarca
  <2>4. QED
    BY <1>1, <1>3, <2>1, <2>2, <2>3 DEF NaMarca
<1>12. QED
  BY <1>1, <1>3, <1>9, <1>11 DEF Inv

LEMMA LiberaInv ==
    ASSUME Inv, LiberaPrimeira \/ LiberaNada
    PROVE  Inv'
<1>1. paginas' \in Mapas
  <2>1. VAZIO \in Byte
    BY DEF VAZIO, Byte
  <2>2. QED
    BY <2>1 DEF Inv, LiberaPrimeira, LiberaNada, Mapas
<1>2. blocos' = blocos \ {chamada} /\ pc' = "fora" /\ validando' = FALSE
  BY DEF LiberaPrimeira, LiberaNada, Encerra, Retorna
<1>3. QED
  BY <1>1, <1>2 DEF Inv

LEMMA NextInv == Inv /\ [Next]_vars => Inv'
<1> SUFFICES ASSUME Inv, [Next]_vars PROVE Inv'
  OBVIOUS
<1>1. ASSUME NEW pedido \in Pedidos, ChamaAloca(pedido) PROVE Inv'
  BY <1>1, ChamaAlocaInv
<1>2. ASSUME NEW b \in blocos, ChamaLibera(b) PROVE Inv'
  BY <1>2 DEF ChamaLibera, Inv, NaLibera, estado
<1>3. ASSUME NEW b \in blocos, NEW p \in PaginasDe(b), Usa(b, p) PROVE Inv'
  BY <1>3 DEF Usa, Inv, locais
<1>4. CASE Estende
  BY <1>4, EstendeInv
<1>5. CASE Comeca
  BY <1>5, ComecaInv
<1>6. CASE Interrompe
  BY <1>6, InterrompeInv
<1>7. CASE Desiste
  BY <1>7 DEF Desiste, Retorna, estado, Inv
<1>8. CASE MarcaUma
  BY <1>8, MarcaUmaInv
<1>9. CASE Devolve
  BY <1>9 DEF Devolve, Retorna, estado, Inv
<1>10. CASE LiberaPrimeira \/ LiberaNada
  BY <1>10, LiberaInv
<1>11. CASE UNCHANGED vars
  <2>1. n' = n
    BY <1>11 DEF vars, n
  <2>2. QED
    BY <1>11, <2>1 DEF vars, estado, locais, Inv, NaBusca, NaMarca, NaLibera
<1>12. QED
  BY <1>1, <1>2, <1>3, <1>4, <1>5, <1>6, <1>7, <1>8, <1>9, <1>10, <1>11 DEF Next, Passo

-----------------------------------------------------------------------------

\* "return 0" only when nothing fits: the search misses no run of free pages,
\* whatever the map, the zone and the request.
THEOREM FalhaJustificada == Spec => FalhaSoSemEspaco
<1> DEFINE A == pc = "busca" /\ pc' = "fora" =>
                    Encaixes(paginas, chamada.especial, Tamanho(chamada.qtd)) = {}
<1>1. ASSUME Inv, [Next]_vars PROVE A \/ UNCHANGED vars
  <2> SUFFICES ASSUME pc = "busca", pc' = "fora"
               PROVE  Encaixes(paginas, chamada.especial, n) = {}
    BY DEF n
  <2>1. Desiste
    BY <1>1 DEF Next, Passo, ChamaAloca, ChamaLibera, Usa, Estende, Comeca, Decide,
        Interrompe, MarcaUma, Devolve, LiberaPrimeira, LiberaNada, vars
  <2>2. NaBusca
    BY <1>1 DEF Inv
  <2>3. chamada.especial \in BOOLEAN /\ n \in Nat \ {0}
    BY <2>2, PedidoValido DEF NaBusca
  <2>4. Minimo(chamada.especial) \in Nat /\ Maximo(chamada.especial) \in Nat
    BY <2>3, Limites
  <2>5. i > Maximo(chamada.especial) /\ i \in Nat
    BY <2>1, <2>2, <2>4 DEF Desiste, NaBusca
  <2>6. ASSUME NEW k \in Encaixes(paginas, chamada.especial, n) PROVE FALSE
    <3>1. k \in Nat /\ k + n - 1 <= Maximo(chamada.especial)
      BY <2>3, Limites DEF Encaixes
    <3>2. CASE validando
      BY <3>1, <3>2, <2>2, <2>3, <2>4, <2>5 DEF NaBusca
    <3>3. CASE ~validando
      BY <3>1, <3>3, <2>2, <2>3, <2>4, <2>5 DEF NaBusca
    <3>4. QED
      BY <3>2, <3>3, <1>1 DEF Inv
  <2>7. QED
    BY <2>6
<1>2. QED
  BY InitInv, NextInv, <1>1, PTL DEF Spec, FalhaSoSemEspaco

\* When AlocaPaginaFisica starts to mark, it marks a run of free pages of the
\* right zone and of the requested length; until then it has skipped none.
THEOREM BuscaCorreta == Spec => [](BuscaCerta /\ BuscaNaoPula)
<1>1. ASSUME Inv PROVE BuscaCerta
  <2> SUFFICES ASSUME pc = "marca" PROVE
                   /\ ultimo - primeiro + 1 = n
                   /\ Bloco(primeiro, n) \subseteq Faixa(chamada.especial)
                   /\ \A p \in j..ultimo : paginas[p] = VAZIO
    BY DEF BuscaCerta, n
  <2>1. NaMarca
    BY <1>1 DEF Inv
  <2>2. n \in Nat \ {0} /\ primeiro \in Nat
    BY <2>1, PedidoValido, GeometriaAssumption DEF NaMarca, Celulas
  <2>3. QED
    BY <2>1, <2>2 DEF NaMarca
<1>2. ASSUME Inv PROVE BuscaNaoPula
  BY <1>2 DEF Inv, NaBusca, BuscaNaoPula, n
<1>3. QED
  BY InitInv, NextInv, <1>1, <1>2, PTL DEF Spec

-----------------------------------------------------------------------------
(* The refinement.                                                         *)

\* Memoria's operators, seen through the instance, are MapaPaginas' own.
LEMMA MesmosOperadores ==
    /\ M!VAZIO = VAZIO /\ M!Celulas = Celulas /\ M!Paginas = Paginas
    /\ \A qtd : M!Tamanho(qtd) = Tamanho(qtd)
    /\ \A ini, tam : M!Bloco(ini, tam) = Bloco(ini, tam)
    /\ \A m, e, tam : M!Encaixes(m, e, tam) = Encaixes(m, e, tam)
    /\ \A m, ini, tam, p : M!MarcaBloco(m, ini, tam, p) = MarcaBloco(m, ini, tam, p)
    /\ \A m, p : M!LiberaPagina(m, p) = LiberaPagina(m, p)
    /\ \A m, v : M!ComVizinho(m, v) = ComVizinho(m, v)
    /\ \A b : M!PaginasDe(b) = PaginasDe(b)
<1>1. M!VAZIO = VAZIO /\ M!Celulas = Celulas /\ M!Paginas = Paginas
  BY DEF M!VAZIO, VAZIO, M!Celulas, Celulas, M!Paginas, Paginas
<1>2. \A qtd : M!Tamanho(qtd) = Tamanho(qtd)
  BY DEF M!Tamanho, Tamanho
<1>3. \A ini, tam : M!Bloco(ini, tam) = Bloco(ini, tam)
  BY DEF M!Bloco, Bloco
<1>4. \A e : M!Faixa(e) = Faixa(e)
  BY DEF M!Faixa, Faixa
<1>5. \A m, e, tam : M!Encaixes(m, e, tam) = Encaixes(m, e, tam)
  BY <1>1, <1>3, <1>4 DEF M!Encaixes, Encaixes
<1>6. \A b : M!Dono(b) = Dono(b) /\ M!Cabeca(b) = Cabeca(b)
  BY DEF M!Dono, Dono, M!Cabeca, Cabeca
<1>7. \A m, ini, tam, p : M!MarcaBloco(m, ini, tam, p) = MarcaBloco(m, ini, tam, p)
  BY <1>3, <1>6 DEF M!MarcaBloco, MarcaBloco
<1>8. \A m, p : M!LiberaPagina(m, p) = LiberaPagina(m, p)
  BY <1>1 DEF M!LiberaPagina, LiberaPagina
<1>9. \A m, v : M!ComVizinho(m, v) = ComVizinho(m, v)
  BY <1>1 DEF M!ComVizinho, ComVizinho
<1>10. \A b : M!PaginasDe(b) = PaginasDe(b)
  BY <1>3 DEF M!PaginasDe, PaginasDe
<1>11. QED
  BY <1>1, <1>2, <1>3, <1>5, <1>7, <1>8, <1>9, <1>10

LEMMA MesmoPrimeiro ==
    \A m, e, tam : M!PrimeiroEncaixe(m, e, tam) = PrimeiroEncaixe(m, e, tam)
  BY MesmosOperadores DEF M!PrimeiroEncaixe, PrimeiroEncaixe

\* Outside the marking loop the mapping is the identity.
LEMMA ForaDaMarca ==
    /\ pc # "marca" => paginasAbs = paginas /\ sujasAbs = sujas
    /\ pc' # "marca" => paginasAbs' = paginas' /\ sujasAbs' = sujas'
  BY DEF paginasAbs, sujasAbs, Decidido

LEMMA InitAbs == Init => M!Init
  BY MesmosOperadores, ForaDaMarca DEF Init, M!Init

\* The decision of line 118 is Memoria's allocation; a run still too short is
\* a stutter.
LEMMA DecideAbs ==
    ASSUME Inv, pc = "busca", i <= Maximo(chamada.especial),
           paginas[i] = VAZIO,
           NEW ini \in Nat, NEW total \in Nat \ {0},
           ini \in Minimo(chamada.especial)..i,
           total = i - ini + 1,
           total <= n,
           \A p \in ini..(i - 1) : paginas[p] = VAZIO,
           \A k \in Encaixes(paginas, chamada.especial, n) : k >= ini,
           Decide(ini, i, total)
    PROVE  M!Next \/ UNCHANGED M!vars
<1>1. NaBusca
  BY DEF Inv
<1>2. /\ chamada.especial \in BOOLEAN /\ chamada.qtd \in Nat /\ n \in Nat \ {0}
      /\ chamada.processo \in Processos /\ chamada.qtd \in Qtds
  BY <1>1, PedidoValido DEF NaBusca
<1>3. /\ Minimo(chamada.especial) \in Nat /\ Maximo(chamada.especial) \in Nat
  BY <1>2, Limites
<1>4. i \in Nat /\ i >= Minimo(chamada.especial)
  BY <1>1, <1>3 DEF NaBusca
<1>5. paginasAbs = paginas /\ sujasAbs = sujas
  BY ForaDaMarca
<1>6. /\ primeiro' = ini /\ paginas' = paginas /\ sujas' = sujas /\ chamada' = chamada
      /\ vazadas' = vazadas
  BY DEF Decide
<1>7. CASE chamada.qtd <= total
  <2>1. /\ pc' = "marca"
        /\ blocos' = blocos \cup {[inicio |-> ini, tam |-> n, dono |-> chamada.processo]}
    BY <1>7 DEF Decide, n
  <2>2. n = total
    BY <1>2, <1>7 DEF n, Tamanho
  <2>3. i = ini + n - 1
    BY <1>4, <2>2
  <2>4. /\ ini \in Encaixes(paginas, chamada.especial, n)
        /\ PrimeiroEncaixe(paginas, chamada.especial, n) = ini
    <3>1. \A p \in ini..(ini + n - 1) : paginas[p] = VAZIO
      BY <1>4, <2>3
    <3>2. /\ ini \in Minimo(chamada.especial)..Maximo(chamada.especial)
          /\ ini + n - 1 \in Minimo(chamada.especial)..Maximo(chamada.especial)
      BY <1>3, <1>4, <2>3
    <3>3. QED
      BY <1>2, <3>1, <3>2, AchouPrimeiro
  <2>5. /\ paginasAbs' = MarcaBloco(paginas, ini, n, chamada.processo)
        /\ sujasAbs' = sujas \ Bloco(ini, n)
    BY <1>6, <2>1 DEF paginasAbs, sujasAbs, Decidido, n
  <2>6. M!Aloca(chamada.processo, chamada.especial, chamada.qtd)
    BY <1>5, <1>6, <2>1, <2>4, <2>5, MesmosOperadores, MesmoPrimeiro DEF M!Aloca, n
  <2>7. QED
    BY <1>2, <2>6 DEF M!Next
<1>8. CASE ~(chamada.qtd <= total)
  <2>1. pc' = pc /\ blocos' = blocos
    BY <1>8 DEF Decide
  <2>2. QED
    BY <1>5, <1>6, <2>1, ForaDaMarca DEF M!vars
<1>9. QED
  BY <1>7, <1>8

\* A page of the marking loop was already marked in the abstract state.
LEMMA MarcaUmaAbs ==
    ASSUME Inv, MarcaUma
    PROVE  UNCHANGED M!vars
<1>1. NaMarca /\ pc = "marca" /\ j <= ultimo
  BY DEF Inv, MarcaUma
<1>2. chamada.especial \in BOOLEAN /\ n \in Nat \ {0} /\ chamada.processo \in Numeros
  BY <1>1, PedidoValido DEF NaMarca
<1>3. /\ sujas' = sujas \ {j} /\ blocos' = blocos /\ vazadas' = vazadas /\ pc' = "marca"
      /\ chamada' = chamada /\ primeiro' = primeiro
  BY <1>1 DEF MarcaUma
<1>4. j \in Bloco(primeiro, n) /\ j \in Celulas
  BY <1>1, <1>2, FaixaDentro, GeometriaAssumption DEF NaMarca, Celulas, Bloco
<1>5. sujasAbs' = sujasAbs
  BY <1>1, <1>3, <1>4 DEF sujasAbs, Decidido, n
<1> DEFINE c == IF j = primeiro THEN Cabeca(chamada.processo) ELSE Dono(chamada.processo)
<1>6. paginas' = [paginas EXCEPT ![j] = c] /\ DOMAIN paginas = Celulas
  BY DEF MarcaUma, Inv, Mapas
<1>7. MarcaBloco(paginas', primeiro, n, chamada.processo) =
          MarcaBloco(paginas, primeiro, n, chamada.processo)
  <2>1. DOMAIN paginas' = Celulas /\ \A p \in Celulas \ {j} : paginas'[p] = paginas[p]
    BY <1>6
  <2>2. QED
    BY <2>1, <1>4, <1>6 DEF MarcaBloco
<1>8. paginasAbs' = paginasAbs
  BY <1>1, <1>3, <1>7 DEF paginasAbs, Decidido, n
<1>9. QED
  BY <1>3, <1>5, <1>8 DEF M!vars

\* When the marking loop ends, the concrete state has caught up.
LEMMA DevolveAbs ==
    ASSUME Inv, Devolve
    PROVE  UNCHANGED M!vars
<1>1. NaMarca /\ pc = "marca" /\ j > ultimo
  BY DEF Inv, Devolve
<1>2. n \in Nat \ {0} /\ chamada.especial \in BOOLEAN
  BY <1>1, PedidoValido DEF NaMarca
<1>3. paginas' = paginas /\ sujas' = sujas /\ blocos' = blocos /\ vazadas' = vazadas /\ pc' = "fora"
  BY DEF Devolve, Retorna, estado
<1>4. Bloco(primeiro, n) = primeiro..(j - 1) /\ Bloco(primeiro, n) \subseteq Celulas
  BY <1>1, <1>2, FaixaDentro, GeometriaAssumption DEF NaMarca, Celulas, Bloco
<1>5. sujasAbs = sujas
  <2>1. \A p \in Bloco(primeiro, n) : p \notin sujas
    BY <1>1, <1>4 DEF NaMarca
  <2>2. QED
    BY <2>1, <1>1 DEF sujasAbs, Decidido, n
<1>6. paginasAbs = paginas
  <2>1. /\ DOMAIN paginas = Celulas
        /\ paginas = [p \in Celulas |-> paginas[p]]
    BY DEF Inv, Mapas
  <2>2. \A p \in Celulas : MarcaBloco(paginas, primeiro, n, chamada.processo)[p] = paginas[p]
    BY <1>1, <1>4, <2>1 DEF MarcaBloco, NaMarca
  <2>3. MarcaBloco(paginas, primeiro, n, chamada.processo) =
            [p \in Celulas |-> MarcaBloco(paginas, primeiro, n, chamada.processo)[p]]
    BY <2>1 DEF MarcaBloco
  <2>4. MarcaBloco(paginas, primeiro, n, chamada.processo) = paginas
    BY <2>1, <2>2, <2>3
  <2>5. QED
    BY <1>1, <2>4 DEF paginasAbs, Decidido, n
<1>7. QED
  BY <1>3, <1>5, <1>6, ForaDaMarca DEF M!vars

\* The release loop does one page of work.
LEMMA LiberaAbs ==
    ASSUME Inv, LiberaPrimeira \/ LiberaNada
    PROVE  M!Next
<1>1. pc = "libera" /\ chamada \in blocos /\ i = chamada.inicio
  BY DEF LiberaPrimeira, LiberaNada, Inv, NaLibera
<1>2. pc' = "fora" /\ sujas' = sujas /\ blocos' = blocos \ {chamada}
  BY DEF LiberaPrimeira, LiberaNada, Encerra, Retorna
<1>3. paginasAbs = paginas /\ sujasAbs = sujas /\ paginasAbs' = paginas' /\ sujasAbs' = sujas'
  BY <1>1, <1>2, ForaDaMarca
<1>4. chamada.inicio \in Celulas /\ chamada.inicio \in Nat
  BY <1>1, GeometriaAssumption DEF Inv, Blocos, BlocosDe, Celulas
<1> DEFINE solta == {chamada.inicio} \cap Paginas
<1>5. /\ paginas' = LiberaPagina(paginas, chamada.inicio)
      /\ vazadas' = vazadas \cup
             {[pagina |-> p, dono |-> chamada.dono] : p \in PaginasDe(chamada) \ solta}
  <2>1. CASE LiberaPrimeira
    <3>1. i \in Paginas
      BY <2>1, <1>1, <1>4, GeometriaAssumption DEF LiberaPrimeira, Paginas
    <3>2. solta = {i}
      BY <3>1, <1>1
    <3>3. QED
      BY <2>1, <3>1, <3>2, <1>1 DEF LiberaPrimeira, Encerra, LiberaPagina
  <2>2. CASE LiberaNada
    <3>1. i \notin Paginas
      BY <2>2, <1>1, <1>4, GeometriaAssumption DEF LiberaNada, Paginas
    <3>2. PaginasDe(chamada) \ solta = PaginasDe(chamada)
      BY <3>1, <1>1
    <3>3. QED
      BY <2>2, <3>1, <3>2, <1>1 DEF LiberaNada, Encerra, LiberaPagina
  <2>3. QED
    BY <2>1, <2>2
<1>6. M!Resto(chamada) = PaginasDe(chamada) \ solta
  BY MesmosOperadores DEF M!Resto
<1>7. M!Libera(chamada)
  BY <1>2, <1>3, <1>5, <1>6, MesmosOperadores DEF M!Libera
<1>8. QED
  BY <1>1, <1>7 DEF M!Next

LEMMA NextAbs == Inv /\ [Next]_vars => [M!Next]_M!vars
<1> SUFFICES ASSUME Inv, [Next]_vars PROVE M!Next \/ UNCHANGED M!vars
  OBVIOUS
<1>1. ASSUME NEW pedido \in Pedidos, ChamaAloca(pedido) PROVE UNCHANGED M!vars
  BY <1>1, ForaDaMarca DEF ChamaAloca, estado, M!vars
<1>2. ASSUME NEW b \in blocos, ChamaLibera(b) PROVE UNCHANGED M!vars
  BY <1>2, ForaDaMarca DEF ChamaLibera, estado, M!vars
<1>3. ASSUME NEW b \in blocos, NEW p \in PaginasDe(b), Usa(b, p) PROVE M!Next
  <2>1. M!Usa(b, p)
    BY <1>3, ForaDaMarca, MesmosOperadores DEF Usa, M!Usa
  <2>2. QED
    BY <2>1, MesmosOperadores DEF M!Next
<1>4. CASE Estende
  <2>1. Decide(primeiro, i, encontrado + 1) /\ pc = "busca" /\ i <= Maximo(chamada.especial)
        /\ paginas[i] = VAZIO
    BY <1>4 DEF Estende
  <2>2. QED
    BY <1>4, <2>1, EstendeDecide, DecideAbs
<1>5. CASE Comeca
  <2>1. Decide(i, i, 1) /\ pc = "busca" /\ i <= Maximo(chamada.especial) /\ paginas[i] = VAZIO
    BY <1>5 DEF Comeca
  <2>2. i \in Nat /\ 1 = i - i + 1
    BY <1>5, ComecaDecide
  <2>3. QED
    BY <1>5, <2>1, <2>2, ComecaDecide, DecideAbs
<1>6. CASE Interrompe
  BY <1>6, ForaDaMarca DEF Interrompe, estado, M!vars
<1>7. CASE Desiste
  BY <1>7, ForaDaMarca DEF Desiste, Retorna, estado, M!vars
<1>8. CASE MarcaUma
  BY <1>8, MarcaUmaAbs
<1>9. CASE Devolve
  BY <1>9, DevolveAbs
<1>10. CASE LiberaPrimeira \/ LiberaNada
  BY <1>10, LiberaAbs
<1>11. CASE UNCHANGED vars
  <2>1. paginasAbs' = paginasAbs /\ sujasAbs' = sujasAbs
    BY <1>11 DEF vars, estado, locais, paginasAbs, sujasAbs, Decidido
  <2>2. QED
    BY <2>1, <1>11 DEF vars, estado, M!vars
<1>12. QED
  BY <1>1, <1>2, <1>3, <1>4, <1>5, <1>6, <1>7, <1>8, <1>9, <1>10, <1>11 DEF Next, Passo

\* The loops of Memoria.c implement Memoria: every call does at once, where the
\* search decides, what Memoria says, and all its other steps are stutters.
THEOREM Refinamento == Spec => ImplementaMemoria
<1>1. Spec => M!Spec
  BY InitInv, NextInv, InitAbs, NextAbs, PTL DEF Spec, M!Spec
<1>2. QED
  BY <1>1 DEF ImplementaMemoria
=============================================================================
