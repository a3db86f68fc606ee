--------------------------- MODULE MemoriaProvas ---------------------------
(***************************************************************************)
(* Theorems about Memoria for every page map, every set of callers and     *)
(* every set of requests.                                                  *)
(***************************************************************************)
EXTENDS Memoria, WellFoundedInduction, TLAPS

-----------------------------------------------------------------------------
(* Facts about the operators of MapaPaginas, for every geometry.           *)

\* A nonempty set of page numbers has a least one.
LEMMA MenorElemento ==
    ASSUME NEW T \in SUBSET Nat, T # {}
    PROVE  \E x \in T : \A y \in T : x <= y
<1>1. \E x \in T : \A y \in T : <<y, x>> \notin OpToRel(<, Nat)
  BY NatLessThanWellFounded, WFMin
<1>2. PICK x \in T : \A y \in T : <<y, x>> \notin OpToRel(<, Nat)
  BY <1>1
<1>3. \A y \in T : ~(y < x)
  BY <1>2 DEF OpToRel
<1>4. QED
  BY <1>3

\* Owner numbers survive the 0x7f mask, and a marked cell is never free.
LEMMA BytesDoDono ==
    ASSUME NEW processo \in Numeros
    PROVE  /\ Dono(processo) = processo
           /\ Cabeca(processo) = processo + 128
           /\ Dono(processo) \in Byte \ {VAZIO}
           /\ Cabeca(processo) \in Byte \ {VAZIO}
           /\ EhCabeca(Cabeca(processo)) /\ ~EhCabeca(Dono(processo))
  BY DEF Dono, Cabeca, EhCabeca, Byte, VAZIO, Numeros

\* A request always asks for at least one page.
LEMMA TamanhoPositivo ==
    ASSUME NEW qtd \in Nat
    PROVE  Tamanho(qtd) \in Nat \ {0}
  BY DEF Tamanho

\* Both zones lie inside the cells the code touches.
LEMMA FaixaDentro ==
    ASSUME NEW especial \in BOOLEAN
    PROVE  Faixa(especial) \subseteq Celulas
  BY GeometriaAssumption DEF Faixa, Celulas

\* Lines 102-125: when some run of free pages is long enough, the place chosen
\* is such a run and no earlier place is.
LEMMA PrimeiroEncaixeServe ==
    ASSUME NEW m, NEW especial \in BOOLEAN, NEW tam \in Nat \ {0},
           Encaixes(m, especial, tam) # {}
    PROVE  /\ PrimeiroEncaixe(m, especial, tam) \in Encaixes(m, especial, tam)
           /\ \A k \in Encaixes(m, especial, tam) :
                  PrimeiroEncaixe(m, especial, tam) <= k
<1> DEFINE E == Encaixes(m, especial, tam)
<1>1. E \subseteq Nat
  BY FaixaDentro, GeometriaAssumption DEF Encaixes, Celulas
<1>2. \E p \in E : \A k \in E : p <= k
  BY <1>1, MenorElemento
<1>3. QED
  BY <1>2 DEF PrimeiroEncaixe

\* A place where the block fits: all its pages exist, are in the zone and free.
LEMMA EncaixeLivre ==
    ASSUME NEW m, NEW especial \in BOOLEAN, NEW tam \in Nat \ {0},
           NEW i \in Encaixes(m, especial, tam)
    PROVE  /\ i \in Celulas
           /\ i \in Bloco(i, tam)
           /\ Bloco(i, tam) \subseteq Faixa(especial)
           /\ Bloco(i, tam) \subseteq Celulas
           /\ \A p \in Bloco(i, tam) : m[p] = VAZIO
<1>1. i \in Faixa(especial) /\ i + tam - 1 \in Faixa(especial)
  BY DEF Encaixes
<1>2. i \in Celulas
  BY <1>1, FaixaDentro
<1>3. Bloco(i, tam) \subseteq Faixa(especial) /\ i \in Bloco(i, tam)
  BY <1>1, <1>2, GeometriaAssumption DEF Bloco, Faixa, Celulas
<1>4. QED
  BY <1>2, <1>3, FaixaDentro DEF Encaixes

\* Lines 120-124: the marking loop writes the block's cells and no other.
LEMMA MarcaBlocoCelula ==
    ASSUME NEW m \in Mapas, NEW inicio \in Celulas, NEW tam \in Nat \ {0},
           NEW processo \in Numeros, NEW p \in Celulas
    PROVE  /\ p \notin Bloco(inicio, tam) => MarcaBloco(m, inicio, tam, processo)[p] = m[p]
           /\ p = inicio => MarcaBloco(m, inicio, tam, processo)[p] = Cabeca(processo)
           /\ p \in Bloco(inicio, tam) /\ p # inicio =>
                  MarcaBloco(m, inicio, tam, processo)[p] = Dono(processo)
           /\ p \in Bloco(inicio, tam) => MarcaBloco(m, inicio, tam, processo)[p] # VAZIO
<1>1. MarcaBloco(m, inicio, tam, processo)[p] =
          IF p \notin Bloco(inicio, tam) THEN m[p]
          ELSE IF p = inicio THEN Cabeca(processo) ELSE Dono(processo)
  BY DEF MarcaBloco, Mapas
<1>2. inicio \in Bloco(inicio, tam)
  BY GeometriaAssumption DEF Bloco, Celulas
<1>3. Dono(processo) # VAZIO /\ Cabeca(processo) # VAZIO
  BY BytesDoDono
<1>4. QED
  BY <1>1, <1>2, <1>3

LEMMA MarcaBlocoMapa ==
    ASSUME NEW m \in Mapas, NEW inicio, NEW tam, NEW processo \in Numeros
    PROVE  MarcaBloco(m, inicio, tam, processo) \in Mapas
<1>1. Dono(processo) \in Byte /\ Cabeca(processo) \in Byte
  BY BytesDoDono
<1>2. QED
  BY <1>1 DEF MarcaBloco, Mapas

\* Lines 142-146: a release clears one cell of the array and touches no other.
LEMMA LiberaPaginaEfeito ==
    ASSUME NEW m \in Mapas, NEW pagina \in Celulas
    PROVE  /\ LiberaPagina(m, pagina) \in Mapas
           /\ \A p \in Celulas :
                  LiberaPagina(m, pagina)[p] =
                      IF p = pagina /\ p \in Paginas THEN VAZIO ELSE m[p]
  BY DEF LiberaPagina, Mapas, Byte, VAZIO

-----------------------------------------------------------------------------
(* The inductive invariant.                                                *)

\* A lost page stays marked, so the search never finds it free.
PerdidasMarcadas == \A v \in vazadas : paginas[v.pagina] # VAZIO

\* Contabilidade page by page, in the form the steps are proved in.
UsoExplicado ==
    \A p \in Paginas :
        paginas[p] # VAZIO <=> p \in Reservadas \/ p \in EmMaos \/ p \in Perdidas

Separadas ==
    \A p \in Celulas :
        /\ p \in Reservadas => p \notin EmMaos /\ p \notin Perdidas
        /\ p \in EmMaos => p \notin Perdidas

IInv ==
    /\ TypeOK
    /\ BlocosMarcados
    /\ BlocosDisjuntos
    /\ ReservasIntactas
    /\ PerdidasMarcadas
    /\ UsoExplicado
    /\ Separadas

\* Membership in the two derived sets.
LEMMA Derivadas ==
    /\ \A p : p \in EmMaos <=> \E b \in blocos : p \in PaginasDe(b)
    /\ \A p : p \in Perdidas <=> \E v \in vazadas : v.pagina = p
  BY DEF EmMaos, Perdidas

\* A page in the hands of a caller is marked.
LEMMA EmMaosMarcada ==
    ASSUME TypeOK, BlocosMarcados, NEW p, p \in EmMaos
    PROVE  p \in Celulas /\ paginas[p] # VAZIO
<1>1. PICK b \in blocos : p \in PaginasDe(b)
  BY Derivadas
<1>2. b.dono \in Numeros
  BY MemoriaAssumption DEF TypeOK, Blocos, BlocosDe
<1>3. Cabeca(b.dono) # VAZIO /\ Dono(b.dono) # VAZIO
  BY <1>2, BytesDoDono
<1>4. QED
  BY <1>1, <1>3 DEF BlocosMarcados

-----------------------------------------------------------------------------

LEMMA InitIInv == Init => IInv
<1> SUFFICES ASSUME Init PROVE IInv
  OBVIOUS
<1>1. PICK v \in Vizinhos : paginas = ComVizinho(Marcadas, v)
  BY DEF Init
<1>2. \A p \in Paginas : paginas[p] = Marcadas[p] /\ Marcadas[p] \in Byte
  <2>1. Marcadas \in [Paginas -> {VAZIO, NUCLEO, RESERVADO}]
    BY MemoriaAssumption DEF MapasDoInicio
  <2>2. {VAZIO, NUCLEO, RESERVADO} \subseteq Byte
    BY DEF Byte, VAZIO, NUCLEO, RESERVADO
  <2>3. \A p \in Paginas : p \in Celulas
    BY GeometriaAssumption DEF Paginas, Celulas
  <2>4. QED
    BY <1>1, <2>1, <2>2, <2>3 DEF ComVizinho
<1>3. paginas \in Mapas
  BY <1>1, <1>2, MemoriaAssumption DEF ComVizinho, Mapas, Celulas, Paginas
<1>4. blocos = {} /\ vazadas = {} /\ sujas = Celulas
  BY DEF Init
<1>5. EmMaos = {} /\ Perdidas = {}
  BY <1>4 DEF EmMaos, Perdidas
<1>6. TypeOK
  BY <1>3, <1>4 DEF TypeOK
<1>7. QED
  BY <1>2, <1>4, <1>5, <1>6
  DEF IInv, BlocosMarcados, BlocosDisjuntos, ReservasIntactas, PerdidasMarcadas,
      UsoExplicado, Separadas, Reservadas

\* AlocaPaginaFisica.
LEMMA AlocaIInv ==
    ASSUME IInv,
           NEW processo \in Processos, NEW especial \in BOOLEAN, NEW qtd \in Qtds,
           Aloca(processo, especial, qtd)
    PROVE  IInv'
<1> DEFINE tam == Tamanho(qtd)
           ini == PrimeiroEncaixe(paginas, especial, tam)
           novo == [inicio |-> ini, tam |-> tam, dono |-> processo]
           B == Bloco(ini, tam)
<1> USE DEF IInv
<1>1. tam \in Nat \ {0} /\ processo \in Numeros
  BY MemoriaAssumption, TamanhoPositivo
<1>2. ini \in Encaixes(paginas, especial, tam)
  BY <1>1, PrimeiroEncaixeServe DEF Aloca
<1> HIDE DEF tam, ini
<1>3. /\ ini \in Celulas /\ ini \in B /\ B \subseteq Celulas
      /\ \A p \in B : paginas[p] = VAZIO
  BY <1>1, <1>2, EncaixeLivre
<1>4. /\ paginas' = MarcaBloco(paginas, ini, tam, processo)
      /\ sujas' = sujas \ B
      /\ blocos' = blocos \cup {novo}
      /\ vazadas' = vazadas
  BY DEF Aloca, tam, ini
<1>5. /\ paginas' \in Mapas
      /\ \A p \in Celulas \ B : paginas'[p] = paginas[p]
      /\ paginas'[ini] = Cabeca(processo)
      /\ \A p \in B \ {ini} : paginas'[p] = Dono(processo)
      /\ \A p \in B : paginas'[p] # VAZIO
  <2>1. paginas \in Mapas /\ ini \in Celulas /\ tam \in Nat \ {0} /\ processo \in Numeros
    BY <1>1, <1>3 DEF TypeOK
  <2>2. paginas' \in Mapas
    BY <2>1, <1>4, MarcaBlocoMapa
  <2>3. ASSUME NEW p \in Celulas
        PROVE  /\ p \notin Bloco(ini, tam) => paginas'[p] = paginas[p]
               /\ p = ini => paginas'[p] = Cabeca(processo)
               /\ p \in Bloco(ini, tam) /\ p # ini => paginas'[p] = Dono(processo)
               /\ p \in Bloco(ini, tam) => paginas'[p] # VAZIO
    BY <2>1, <1>4, MarcaBlocoCelula
  <2>4. QED
    BY <1>3, <2>2, <2>3
<1>6. PaginasDe(novo) = B /\ novo.inicio = ini /\ novo.dono = processo
  BY DEF PaginasDe
<1>7. \A p \in B : p \notin EmMaos /\ p \notin Perdidas /\ p \notin Reservadas
  <2> SUFFICES ASSUME NEW p \in B PROVE p \notin EmMaos /\ p \notin Perdidas /\ p \notin Reservadas
    OBVIOUS
  <2>1. paginas[p] = VAZIO
    BY <1>3
  <2>2. p \notin EmMaos
    BY <2>1, EmMaosMarcada
  <2>3. p \notin Perdidas
    BY <2>1, Derivadas DEF PerdidasMarcadas
  <2>4. p \notin Reservadas
    BY <2>1 DEF ReservasIntactas, Reservadas
  <2>5. QED
    BY <2>2, <2>3, <2>4
<1>8. EmMaos' = EmMaos \cup B /\ Perdidas' = Perdidas /\ Reservadas' = Reservadas
  <2>1. EmMaos' = EmMaos \cup B
    BY <1>4, <1>6 DEF EmMaos
  <2>2. QED
    BY <2>1, <1>4 DEF Perdidas, Reservadas
<1>9. TypeOK'
  <2>1. novo \in Blocos
    BY <1>1, <1>3 DEF Blocos, BlocosDe
  <2>2. QED
    BY <1>4, <1>5, <2>1 DEF TypeOK
<1>10. \A b \in blocos : PaginasDe(b) \cap B = {}
  BY <1>7, Derivadas
<1>11. BlocosMarcados'
  <2> SUFFICES ASSUME NEW b \in blocos'
               PROVE  /\ PaginasDe(b) \subseteq Celulas
                      /\ paginas'[b.inicio] = Cabeca(b.dono)
                      /\ \A p \in PaginasDe(b) \ {b.inicio} : paginas'[p] = Dono(b.dono)
    BY DEF BlocosMarcados
  <2>1. CASE b = novo
    BY <2>1, <1>3, <1>5, <1>6
  <2>2. CASE b \in blocos
    <3>1. /\ PaginasDe(b) \subseteq Celulas
          /\ paginas[b.inicio] = Cabeca(b.dono)
          /\ \A p \in PaginasDe(b) \ {b.inicio} : paginas[p] = Dono(b.dono)
      BY <2>2 DEF BlocosMarcados
    <3>2. b.inicio \in PaginasDe(b)
      BY <2>2, GeometriaAssumption DEF TypeOK, Blocos, BlocosDe, PaginasDe, Bloco, Celulas
    <3>3. QED
      BY <2>2, <3>1, <3>2, <1>5, <1>10
  <2>3. QED
    BY <2>1, <2>2, <1>4
<1>12. BlocosDisjuntos'
  BY <1>4, <1>6, <1>10 DEF BlocosDisjuntos
<1>13. ReservasIntactas'
  <2>1. \A p \in Paginas : Marcadas[p] # VAZIO => p \notin B /\ p \in Celulas
    BY <1>7, GeometriaAssumption DEF Reservadas, Paginas, Celulas
  <2>2. QED
    BY <2>1, <1>5 DEF ReservasIntactas
<1>14. PerdidasMarcadas'
  <2> SUFFICES ASSUME NEW v \in vazadas PROVE paginas'[v.pagina] # VAZIO
    BY <1>4 DEF PerdidasMarcadas
  <2>1. v.pagina \in Celulas /\ v.pagina \notin B
    BY <1>7, Derivadas DEF TypeOK
  <2>2. QED
    BY <2>1, <1>5 DEF PerdidasMarcadas
<1>15. UsoExplicado'
  <2>1. Paginas \subseteq Celulas
    BY GeometriaAssumption DEF Paginas, Celulas
  <2>2. QED
    BY <2>1, <1>5, <1>8 DEF UsoExplicado
<1>16. Separadas'
  BY <1>7, <1>8 DEF Separadas
<1>17. QED
  BY <1>9, <1>11, <1>12, <1>13, <1>14, <1>15, <1>16

\* LiberaPaginaFisica.
LEMMA LiberaIInv ==
    ASSUME IInv, NEW b \in blocos, Libera(b)
    PROVE  IInv'
<1> USE DEF IInv
<1>1. /\ b.inicio \in Celulas /\ b.tam \in Nat \ {0} /\ b.dono \in Processos
      /\ b.inicio \in PaginasDe(b) /\ PaginasDe(b) \subseteq Celulas
  <2>1. b.inicio \in Celulas /\ b.tam \in Nat \ {0} /\ b.dono \in Processos
    BY DEF TypeOK, Blocos, BlocosDe
  <2>2. b.inicio \in PaginasDe(b)
    BY <2>1, GeometriaAssumption DEF PaginasDe, Bloco, Celulas
  <2>3. QED
    BY <2>1, <2>2 DEF BlocosMarcados
<1> DEFINE solta == {b.inicio} \cap Paginas
<1>2. /\ paginas' = LiberaPagina(paginas, b.inicio)
      /\ blocos' = blocos \ {b}
      /\ vazadas' = vazadas \cup {[pagina |-> p, dono |-> b.dono] : p \in Resto(b)}
      /\ sujas' = sujas
  BY DEF Libera
<1>3. /\ paginas' \in Mapas
      /\ \A p \in Celulas : paginas'[p] = IF p \in solta THEN VAZIO ELSE paginas[p]
  BY <1>1, <1>2, LiberaPaginaEfeito DEF TypeOK
<1>4. Resto(b) = PaginasDe(b) \ solta /\ Resto(b) \subseteq Celulas /\ solta \subseteq PaginasDe(b)
  BY <1>1 DEF Resto
<1>5. Perdidas' = Perdidas \cup Resto(b)
  <2>1. Perdidas' = {v.pagina : v \in vazadas'}
    BY DEF Perdidas
  <2>2. \A p : p \in Perdidas' <=> \E v \in vazadas' : v.pagina = p
    BY <2>1
  <2>3. \A p \in Resto(b) : [pagina |-> p, dono |-> b.dono].pagina = p
    OBVIOUS
  <2>4. \A p : p \in Perdidas' <=> p \in Perdidas \/ p \in Resto(b)
    <3>1. \A v : v \in vazadas' <=>
              v \in vazadas \/ \E p \in Resto(b) : v = [pagina |-> p, dono |-> b.dono]
      BY <1>2
    <3>2. ASSUME NEW p PROVE p \in Perdidas' => p \in Perdidas \/ p \in Resto(b)
      BY <2>2, <2>3, <3>1, Derivadas
    <3>3. ASSUME NEW p PROVE p \in Perdidas => p \in Perdidas'
      BY <2>2, <3>1, Derivadas
    <3>4. ASSUME NEW p \in Resto(b) PROVE p \in Perdidas'
      BY <2>2, <2>3, <3>1
    <3>5. QED
      BY <3>2, <3>3, <3>4
  <2>5. QED
    BY <2>4
<1>6. \A p : p \in EmMaos' <=> p \in EmMaos /\ p \notin PaginasDe(b)
  <2>1. \A p : p \in EmMaos' <=> \E c \in blocos \ {b} : p \in PaginasDe(c)
    BY <1>2 DEF EmMaos
  <2>2. \A c \in blocos \ {b} : PaginasDe(c) \cap PaginasDe(b) = {}
    BY DEF BlocosDisjuntos
  <2>3. QED
    BY <2>1, <2>2, Derivadas
<1>7. \A p \in PaginasDe(b) : p \in EmMaos /\ p \notin Reservadas /\ p \notin Perdidas
                              /\ paginas[p] # VAZIO
  <2> SUFFICES ASSUME NEW p \in PaginasDe(b)
               PROVE  p \in EmMaos /\ p \notin Reservadas /\ p \notin Perdidas /\ paginas[p] # VAZIO
    OBVIOUS
  <2>1. p \in EmMaos
    BY Derivadas
  <2>2. QED
    BY <2>1, EmMaosMarcada DEF Separadas
<1>8. Reservadas' = Reservadas
  BY DEF Reservadas
<1>9. TypeOK'
  <2>1. {[pagina |-> p, dono |-> b.dono] : p \in Resto(b)} \subseteq [pagina : Celulas, dono : Processos]
    BY <1>1, <1>4
  <2>2. QED
    BY <1>2, <1>3, <2>1 DEF TypeOK
<1>10. BlocosMarcados'
  <2> SUFFICES ASSUME NEW c \in blocos, c # b
               PROVE  /\ PaginasDe(c) \subseteq Celulas
                      /\ paginas'[c.inicio] = Cabeca(c.dono)
                      /\ \A p \in PaginasDe(c) \ {c.inicio} : paginas'[p] = Dono(c.dono)
    BY <1>2 DEF BlocosMarcados
  <2>1. PaginasDe(c) \cap solta = {}
    BY <1>4 DEF BlocosDisjuntos
  <2>2. c.inicio \in PaginasDe(c)
    BY GeometriaAssumption DEF TypeOK, Blocos, BlocosDe, PaginasDe, Bloco, Celulas
  <2>3. QED
    BY <2>1, <2>2, <1>3 DEF BlocosMarcados
<1>11. BlocosDisjuntos'
  BY <1>2 DEF BlocosDisjuntos
<1>12. ReservasIntactas'
  <2>1. \A p \in Paginas : Marcadas[p] # VAZIO => p \notin solta /\ p \in Celulas
    BY <1>4, <1>7, GeometriaAssumption DEF Reservadas, Paginas, Celulas
  <2>2. QED
    BY <2>1, <1>3 DEF ReservasIntactas
<1>13. PerdidasMarcadas'
  <2>1. \A p \in Perdidas' : paginas'[p] # VAZIO
    <3> SUFFICES ASSUME NEW p \in Perdidas' PROVE paginas'[p] # VAZIO
      OBVIOUS
    <3>1. CASE p \in Resto(b)
      BY <3>1, <1>3, <1>4, <1>7
    <3>2. CASE p \in Perdidas
      <4>1. p \in Celulas /\ paginas[p] # VAZIO
        BY <3>2, Derivadas DEF TypeOK, PerdidasMarcadas
      <4>2. p \notin solta
        BY <3>2, <1>4, <1>7
      <4>3. QED
        BY <4>1, <4>2, <1>3
    <3>3. QED
      BY <3>1, <3>2, <1>5
  <2>2. QED
    BY <2>1 DEF PerdidasMarcadas, Perdidas
<1>14. UsoExplicado'
  <2> SUFFICES ASSUME NEW p \in Paginas
               PROVE  paginas'[p] # VAZIO <=>
                          p \in Reservadas \/ p \in EmMaos' \/ p \in Perdidas'
    BY <1>8 DEF UsoExplicado
  <2>1. p \in Celulas
    BY GeometriaAssumption DEF Paginas, Celulas
  <2>2. CASE p \in solta
    BY <2>1, <2>2, <1>3, <1>4, <1>5, <1>6, <1>7
  <2>3. CASE p \in PaginasDe(b) /\ p \notin solta
    BY <2>1, <2>3, <1>3, <1>4, <1>5, <1>7
  <2>4. CASE p \notin PaginasDe(b)
    BY <2>1, <2>4, <1>3, <1>4, <1>5, <1>6 DEF UsoExplicado
  <2>5. QED
    BY <2>2, <2>3, <2>4
<1>15. Separadas'
  BY <1>4, <1>5, <1>6, <1>7, <1>8 DEF Separadas
<1>16. QED
  BY <1>9, <1>10, <1>11, <1>12, <1>13, <1>14, <1>15

LEMMA NextIInv == IInv /\ [Next]_vars => IInv'
<1> SUFFICES ASSUME IInv, [Next]_vars PROVE IInv'
  OBVIOUS
<1>1. ASSUME NEW processo \in Processos, NEW especial \in BOOLEAN, NEW qtd \in Qtds,
             Aloca(processo, especial, qtd)
      PROVE  IInv'
  BY <1>1, AlocaIInv
<1>2. CASE UNCHANGED vars
  BY <1>2 DEF vars, IInv, TypeOK, BlocosMarcados, BlocosDisjuntos, ReservasIntactas,
      PerdidasMarcadas, UsoExplicado, Separadas, EmMaos, Perdidas, Reservadas
<1>3. ASSUME NEW especial \in BOOLEAN, NEW qtd \in Qtds, AlocaFalha(especial, qtd)
      PROVE  IInv'
  BY <1>2, <1>3 DEF AlocaFalha
<1>4. ASSUME NEW b \in blocos, Libera(b)
      PROVE  IInv'
  BY <1>4, LiberaIInv
<1>5. ASSUME NEW b \in blocos, NEW p \in PaginasDe(b), Usa(b, p)
      PROVE  IInv'
  <2>1. p \in Celulas
    BY DEF IInv, BlocosMarcados
  <2>2. TypeOK'
    BY <2>1, <1>5 DEF IInv, TypeOK, Usa
  <2>3. QED
    BY <2>2, <1>5 DEF Usa, IInv, BlocosMarcados, BlocosDisjuntos, ReservasIntactas,
        PerdidasMarcadas, UsoExplicado, Separadas, EmMaos, Perdidas, Reservadas
<1>6. QED
  BY <1>1, <1>2, <1>3, <1>4, <1>5 DEF Next

-----------------------------------------------------------------------------

\* The state of the allocator is what its declarations say, for every machine
\* size and every sequence of legal calls.
THEOREM TipoCorreto == Spec => []TypeOK
<1>1. IInv => TypeOK
  BY DEF IInv
<1>2. QED
  BY InitIInv, NextIInv, <1>1, PTL DEF Spec

\* AlocaPaginaFisica never gives a page twice.
THEOREM BlocosSeguros == Spec => []BlocosDisjuntos
<1>1. IInv => BlocosDisjuntos
  BY DEF IInv
<1>2. QED
  BY InitIInv, NextIInv, <1>1, PTL DEF Spec

\* A block stays marked in the map as its holder got it, the head with the bit
\* 0x80 and the other pages without, until the holder releases it, whatever the
\* other processes allocate and release in between.
THEOREM MarcaDuradoura == Spec => []BlocosMarcados
<1>1. IInv => BlocosMarcados
  BY DEF IInv
<1>2. QED
  BY InitIInv, NextIInv, <1>1, PTL DEF Spec

\* No sequence of legal calls frees or hands out a page the boot reserved, so
\* the 0 of a failed allocation is never also an address.
THEOREM ReservaSegura == Spec => [](ReservasIntactas /\ ZeroEhFalha)
<1>1. IInv => ReservasIntactas
  BY DEF IInv
<1>2. ASSUME IInv PROVE ZeroEhFalha
  <2> SUFFICES ASSUME NEW b \in blocos, b.inicio = 0 PROVE FALSE
    BY DEF ZeroEhFalha
  <2>1. 0 \in Paginas /\ Marcadas[0] # VAZIO
    BY MemoriaAssumption, GeometriaAssumption DEF MapasDoInicio, Paginas
  <2>2. 0 \in Reservadas /\ 0 \in Celulas
    BY <2>1, GeometriaAssumption DEF Reservadas, Celulas
  <2>3. b.inicio \in PaginasDe(b)
    BY <1>2, GeometriaAssumption
    DEF IInv, TypeOK, Blocos, BlocosDe, PaginasDe, Bloco, Celulas
  <2>4. 0 \in EmMaos
    BY <2>3, Derivadas
  <2>5. QED
    BY <1>2, <2>2, <2>4 DEF IInv, Separadas
<1>3. QED
  BY InitIInv, NextIInv, <1>1, <1>2, PTL DEF Spec

\* Every page in use is reserved, held or lost, and only one of the three: the
\* pages a release leaves marked are never given out again.
THEOREM ContabilidadeFecha == Spec => []Contabilidade
<1>1. ASSUME IInv PROVE Contabilidade
  <2>1. Reservadas \subseteq Celulas /\ Paginas \subseteq Celulas
    BY GeometriaAssumption DEF Reservadas, Paginas, Celulas
  <2>2. Reservadas \subseteq Paginas
    BY DEF Reservadas
  <2>3. {p \in Paginas : paginas[p] # VAZIO} =
            (Reservadas \cup EmMaos \cup Perdidas) \cap Paginas
    BY <1>1 DEF IInv, UsoExplicado
  <2>4. Reservadas \cap (EmMaos \cup Perdidas) = {}
    BY <1>1, <2>1 DEF IInv, Separadas
  <2>5. EmMaos \subseteq Celulas
    BY <1>1, EmMaosMarcada DEF IInv
  <2>6. EmMaos \cap Perdidas = {}
    BY <1>1, <2>5 DEF IInv, Separadas
  <2>7. QED
    BY <2>3, <2>4, <2>6 DEF Contabilidade
<1>2. QED
  BY InitIInv, NextIInv, <1>1, PTL DEF Spec

-----------------------------------------------------------------------------
(* Who pays for a page.                                                    *)

\* A lost page goes on carrying the number of the process that lost it.
PerdidasComDono == \A v \in vazadas : Dono(paginas[v.pagina]) = v.dono

\* A page of a block carries the number of its holder, head or not.
LEMMA PaginaDoBloco ==
    ASSUME IInv, NEW b \in blocos, NEW p \in PaginasDe(b)
    PROVE  /\ p \in Celulas
           /\ b.dono \in Processos
           /\ Dono(paginas[p]) = b.dono
<1>1. b.dono \in Processos /\ b.dono \in Numeros
  BY MemoriaAssumption DEF IInv, TypeOK, Blocos, BlocosDe
<1>2. Dono(Cabeca(b.dono)) = b.dono /\ Dono(Dono(b.dono)) = b.dono
  BY <1>1 DEF Dono, Cabeca, Numeros
<1>3. p \in Celulas /\ paginas[p] \in {Cabeca(b.dono), Dono(b.dono)}
  BY DEF IInv, BlocosMarcados
<1>4. QED
  BY <1>1, <1>2, <1>3

LEMMA PassoPerdidas == IInv /\ PerdidasComDono /\ [Next]_vars => PerdidasComDono'
<1> SUFFICES ASSUME IInv, PerdidasComDono, [Next]_vars, NEW v \in vazadas'
             PROVE  Dono(paginas'[v.pagina]) = v.dono
  BY DEF PerdidasComDono
<1>1. ASSUME NEW processo \in Processos, NEW especial \in BOOLEAN, NEW qtd \in Qtds,
             Aloca(processo, especial, qtd)
      PROVE  Dono(paginas'[v.pagina]) = v.dono
  <2> DEFINE tam == Tamanho(qtd)
             ini == PrimeiroEncaixe(paginas, especial, tam)
  <2>1. tam \in Nat \ {0} /\ processo \in Numeros /\ paginas \in Mapas
    BY MemoriaAssumption, TamanhoPositivo DEF IInv, TypeOK
  <2>2. ini \in Encaixes(paginas, especial, tam)
    BY <1>1, <2>1, PrimeiroEncaixeServe DEF Aloca
  <2>3. ini \in Celulas /\ \A p \in Bloco(ini, tam) : paginas[p] = VAZIO
    BY <2>1, <2>2, EncaixeLivre
  <2>4. paginas' = MarcaBloco(paginas, ini, tam, processo) /\ v \in vazadas
    BY <1>1 DEF Aloca
  <2> HIDE DEF tam, ini
  <2>5. v.pagina \in Celulas /\ v.pagina \notin Bloco(ini, tam)
    BY <2>3, <2>4 DEF IInv, TypeOK, PerdidasMarcadas
  <2>6. paginas'[v.pagina] = paginas[v.pagina]
    BY <2>1, <2>3, <2>4, <2>5, MarcaBlocoCelula
  <2>7. QED
    BY <2>4, <2>6 DEF PerdidasComDono
<1>2. ASSUME NEW b \in blocos, Libera(b)
      PROVE  Dono(paginas'[v.pagina]) = v.dono
  <2>1. b.inicio \in Celulas /\ paginas \in Mapas /\ b.inicio \in PaginasDe(b)
    BY GeometriaAssumption DEF IInv, TypeOK, Blocos, BlocosDe, PaginasDe, Bloco, Celulas
  <2>2. \A p \in Celulas :
            paginas'[p] = IF p = b.inicio /\ p \in Paginas THEN VAZIO ELSE paginas[p]
    BY <1>2, <2>1, LiberaPaginaEfeito DEF Libera
  <2>3. CASE v \in vazadas
    <3>1. v.pagina \in Celulas /\ v.pagina \in Perdidas
      BY <2>3, Derivadas DEF IInv, TypeOK
    <3>2. b.inicio \in EmMaos
      BY <2>1, Derivadas
    <3>3. v.pagina # b.inicio
      BY <3>1, <3>2 DEF IInv, Separadas
    <3>4. QED
      BY <2>2, <2>3, <3>1, <3>3 DEF PerdidasComDono
  <2>4. CASE \E p \in Resto(b) : v = [pagina |-> p, dono |-> b.dono]
    <3>1. PICK p \in Resto(b) : v = [pagina |-> p, dono |-> b.dono]
      BY <2>4
    <3>2. p \in PaginasDe(b) /\ ~(p = b.inicio /\ p \in Paginas)
      BY DEF Resto
    <3>3. p \in Celulas /\ Dono(paginas[p]) = b.dono
      BY <3>2, PaginaDoBloco
    <3>4. QED
      BY <2>2, <3>1, <3>2, <3>3
  <2>5. QED
    BY <1>2, <2>3, <2>4 DEF Libera
<1>3. QED
  BY <1>1, <1>2 DEF Next, AlocaFalha, Usa, vars, PerdidasComDono

\* Memoria_Processo charges a process with exactly the pages it holds and those
\* that its releases lost, and the byte after the array when that byte happens
\* to look like one of its pages.
THEOREM ContaCerta == Spec => []ContaDoProcesso
<1>1. ASSUME IInv, PerdidasComDono PROVE ContaDoProcesso
  <2> SUFFICES ASSUME NEW processo \in Processos \ {NUCLEO}
               PROVE  LET suas == (UNION {PaginasDe(b) : b \in {c \in blocos : c.dono = processo}})
                                  \cup {v.pagina : v \in {w \in vazadas : w.dono = processo}}
                          extra == {p \in {QtdPaginas} \ suas : Dono(paginas[p]) = processo}
                      IN  Soma(paginas, processo) = Cardinality(suas \cup extra)
    BY DEF ContaDoProcesso
  <2> DEFINE suas == (UNION {PaginasDe(b) : b \in {c \in blocos : c.dono = processo}})
                     \cup {v.pagina : v \in {w \in vazadas : w.dono = processo}}
             extra == {p \in {QtdPaginas} \ suas : Dono(paginas[p]) = processo}
             conta == {p \in Celulas : Dono(paginas[p]) = Dono(processo)}
  <2>1. /\ Dono(processo) = processo
        /\ processo # Dono(VAZIO) /\ processo # Dono(NUCLEO) /\ processo # Dono(RESERVADO)
    BY MemoriaAssumption DEF Dono, Numeros, VAZIO, NUCLEO, RESERVADO
  <2>2. \A p : p \in suas <=> \/ \E b \in blocos : b.dono = processo /\ p \in PaginasDe(b)
                              \/ \E v \in vazadas : v.dono = processo /\ p = v.pagina
    OBVIOUS
  <2> HIDE DEF suas
  <2>3. ASSUME NEW p \in suas PROVE p \in Celulas /\ Dono(paginas[p]) = processo
    <3>1. CASE \E b \in blocos : b.dono = processo /\ p \in PaginasDe(b)
      BY <1>1, <3>1, PaginaDoBloco
    <3>2. CASE \E v \in vazadas : v.dono = processo /\ p = v.pagina
      BY <1>1, <3>2 DEF IInv, TypeOK, PerdidasComDono
    <3>3. QED
      BY <2>2, <3>1, <3>2
  <2>4. ASSUME NEW p \in Paginas, Dono(paginas[p]) = processo PROVE p \in suas
    <3>1. paginas[p] # VAZIO
      BY <2>1, <2>4
    <3>2. p \notin Reservadas
      <4> SUFFICES ASSUME p \in Reservadas PROVE FALSE
        OBVIOUS
      <4>1. Marcadas[p] \in {NUCLEO, RESERVADO}
        BY MemoriaAssumption DEF Reservadas, MapasDoInicio
      <4>2. paginas[p] = Marcadas[p]
        BY <1>1 DEF IInv, ReservasIntactas, Reservadas
      <4>3. QED
        BY <2>1, <2>4, <4>1, <4>2
    <3>3. p \in EmMaos \/ p \in Perdidas
      BY <1>1, <3>1, <3>2 DEF IInv, UsoExplicado
    <3>4. CASE p \in EmMaos
      BY <1>1, <2>2, <2>4, <3>4, Derivadas, PaginaDoBloco
    <3>5. CASE p \in Perdidas
      BY <1>1, <2>2, <2>4, <3>5, Derivadas DEF PerdidasComDono
    <3>6. QED
      BY <3>3, <3>4, <3>5
  <2>5. Celulas = Paginas \cup {QtdPaginas}
    BY GeometriaAssumption DEF Celulas, Paginas
  <2>6. conta = suas \cup extra
    BY <2>1, <2>3, <2>4, <2>5
  <2>7. QED
    BY <2>6 DEF Soma, suas
<1>2. Init => PerdidasComDono
  BY DEF Init, PerdidasComDono
<1>3. QED
  BY InitIInv, NextIInv, PassoPerdidas, <1>1, <1>2, PTL DEF Spec

-----------------------------------------------------------------------------
(* Action properties.                                                      *)

\* A page in use becomes free only by the release of the block it heads, and
\* never passes from one owner to another.
THEOREM DonoEstavel == Spec => PaginaSoMudaLiberada
<1> DEFINE A == \A p \in Celulas :
                   paginas[p] # VAZIO /\ paginas'[p] # paginas[p] =>
                       /\ paginas'[p] = VAZIO
                       /\ \E b \in blocos : b.inicio = p /\ b \notin blocos'
<1>1. ASSUME IInv, [Next]_vars PROVE A \/ UNCHANGED vars
  <2>1. ASSUME NEW processo \in Processos, NEW especial \in BOOLEAN, NEW qtd \in Qtds,
               Aloca(processo, especial, qtd)
        PROVE  A
    <3> DEFINE tam == Tamanho(qtd)
               ini == PrimeiroEncaixe(paginas, especial, tam)
    <3>1. tam \in Nat \ {0} /\ processo \in Numeros /\ paginas \in Mapas
      BY <1>1, MemoriaAssumption, TamanhoPositivo DEF IInv, TypeOK
    <3>2. ini \in Encaixes(paginas, especial, tam)
      BY <2>1, <3>1, PrimeiroEncaixeServe DEF Aloca
    <3>3. ini \in Celulas /\ \A p \in Bloco(ini, tam) : paginas[p] = VAZIO
      BY <3>1, <3>2, EncaixeLivre
    <3>4. paginas' = MarcaBloco(paginas, ini, tam, processo)
      BY <2>1 DEF Aloca
    <3> HIDE DEF tam, ini
    <3>5. ASSUME NEW p \in Celulas, paginas[p] # VAZIO
          PROVE  paginas'[p] = paginas[p]
      BY <3>1, <3>3, <3>4, <3>5, MarcaBlocoCelula
    <3>6. QED
      BY <3>5
  <2>2. ASSUME NEW b \in blocos, Libera(b)
        PROVE  A
    <3>1. b.inicio \in Celulas /\ paginas \in Mapas
      BY <1>1 DEF IInv, TypeOK, Blocos, BlocosDe
    <3>2. \A p \in Celulas : paginas'[p] = IF p = b.inicio /\ p \in Paginas THEN VAZIO ELSE paginas[p]
      BY <2>2, <3>1, LiberaPaginaEfeito DEF Libera
    <3>3. b \notin blocos'
      BY <2>2 DEF Libera
    <3>4. QED
      BY <3>2, <3>3
  <2>3. QED
    BY <1>1, <2>1, <2>2 DEF Next, AlocaFalha, Usa, vars
<1>2. QED
  BY InitIInv, NextIInv, <1>1, PTL DEF Spec, PaginaSoMudaLiberada

\* A block reaches its holder with every byte zero, and zeroing it wipes no
\* page that was in use.
THEOREM EntregaLimpa == Spec => EntregaZerada
<1> DEFINE A == /\ \A b \in blocos' \ blocos : PaginasDe(b) \cap sujas' = {}
                /\ \A p \in sujas \ sujas' : paginas[p] = VAZIO
<1>1. ASSUME IInv, [Next]_vars PROVE A \/ UNCHANGED vars
  <2>1. ASSUME NEW processo \in Processos, NEW especial \in BOOLEAN, NEW qtd \in Qtds,
               Aloca(processo, especial, qtd)
        PROVE  A
    <3> DEFINE tam == Tamanho(qtd)
               ini == PrimeiroEncaixe(paginas, especial, tam)
               novo == [inicio |-> ini, tam |-> tam, dono |-> processo]
    <3>1. tam \in Nat \ {0}
      BY MemoriaAssumption, TamanhoPositivo
    <3>2. ini \in Encaixes(paginas, especial, tam)
      BY <2>1, <3>1, PrimeiroEncaixeServe DEF Aloca
    <3>3. \A p \in Bloco(ini, tam) : paginas[p] = VAZIO
      BY <3>1, <3>2, EncaixeLivre
    <3>4. sujas' = sujas \ Bloco(ini, tam) /\ blocos' = blocos \cup {novo}
      BY <2>1 DEF Aloca
    <3>5. PaginasDe(novo) = Bloco(ini, tam)
      BY DEF PaginasDe
    <3> HIDE DEF tam, ini, novo
    <3>6. QED
      BY <3>3, <3>4, <3>5
  <2>2. QED
    BY <1>1, <2>1 DEF Next, AlocaFalha, Libera, Usa, vars
<1>2. QED
  BY InitIInv, NextIInv, <1>1, PTL DEF Spec, EntregaZerada
=============================================================================
