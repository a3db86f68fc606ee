-------------------------- MODULE ExecutavelProvas --------------------------
(***************************************************************************)
(* What Executavel_CarregarModulo leaves in memory, for every set of       *)
(* files, every page map and every sequence of loads.                      *)
(*                                                                         *)
(* The invariant speaks of the loads before anything goes wrong (limpo).   *)
(* The blocks of the load under way are on pages of their own, which were  *)
(* free, and antes and they are all the pages in use; so the text of a     *)
(* module that runs already, whose pages are in antes, is out of reach of  *)
(* this load's writes.  In the blocks, each section is in its place and a  *)
(* byte has had the corrections of the entries processed so far; the pages *)
(* were zeroed, so what no section fills is zero.  A page is here also the *)
(* one after the array, which the search may hand out and no release takes *)
(* back.                                                                   *)
(***************************************************************************)
EXTENDS Executavel, WellFoundedInduction, TLAPS

-----------------------------------------------------------------------------
(* The invariant.                                                          *)

\* The sections a block is asked for.
Pedidos == {"texto", "simbolos", "tabTexto", "tabDados"}

Fases == {"ocioso", "le", "relocaTexto", "relocaDados", "executa"} \cup Pedidos

\* Those asked for before the loader is at f.
Feitos(f) ==
    CASE f \in {"ocioso", "texto"} -> {}
      [] f = "simbolos"            -> {"texto"}
      [] f = "tabTexto"            -> {"texto", "simbolos"}
      [] f = "tabDados"            -> {"texto", "simbolos", "tabTexto"}
      [] OTHER                     -> Pedidos

Tem(m, b) == b = "texto" \/ Tam(m, b) > 0

\* The blocks the load under way has, and their pages.
Tens == {b \in Feitos(fase) : Tem(modulo, b)}
TamDe(m, b) == Tamanho(Pedido(m, b))
Pag(b) == ptr[b] \div TamPagina
Pags(b) == Bloco(Pag(b), TamDe(modulo, b))

Tipo ==
    /\ fase \in Fases
    /\ fase # "ocioso" => modulo \in Modulos /\ Regular(modulo)
    /\ paginas \in Mapas
    /\ mem = [u \in Enderecos |-> mem[u]]
    /\ ptr \in [Pedidos -> Nat]
    /\ i \in Nat
    /\ antes \subseteq Celulas

\* Each block is where its pointer says, on pages of its own that were free.
BlocosCertos ==
    /\ \A b \in Tens : /\ ptr[b] = Endereco(Pag(b))
                       /\ Pags(b) \subseteq Celulas
                       /\ Pags(b) \cap antes = {}
    /\ \A b, d \in Tens : b # d => Pags(b) \cap Pags(d) = {}

\* The pages in use: those of before and the blocks, of which the extra ones
\* lose their first page at the end, when it is one of the array.
Resta(b) ==
    IF fase = "executa" /\ b # "texto" /\ Pag(b) \in Paginas THEN Pags(b) \ {Pag(b)} ELSE Pags(b)
UsoCerto ==
    fase # "ocioso" => EmUso(paginas) = antes \cup UNION {Resta(b) : b \in Tens}

\* The pages no load touches: those in use when it began.
Firmes == IF fase = "ocioso" THEN EmUso(paginas) ELSE antes

CarregadosCertos ==
    \A c \in carregados :
        /\ c.modulo \in Modulos
        /\ c.inicio \in Nat /\ c.inicio = Endereco(c.inicio \div TamPagina)
        /\ Bloco(c.inicio \div TamPagina, TamDe(c.modulo, "texto")) \subseteq Firmes
        /\ TextoCerto(c.modulo, c.inicio)

\* Nothing is in a block before the sections are read.
Vazios ==
    fase \in {"simbolos", "tabTexto", "tabDados", "le"} =>
        \A b \in Tens : \A u \in Enderecos : u \div TamPagina \in Pags(b) => mem[u] = Zero

Palavra(m, parte, k, s) == [de |-> m, parte |-> parte, k |-> k, feitas |-> s]

\* The corrections that the first n entries of a table make to byte k.
DevidasAte(tabela, k, inicio, n) ==
    {[n |-> j - 1, byte |-> k - tabela[j].alvo,
      mais |-> IF tabela[j].relativo THEN inicio + tabela[j].alvo ELSE inicio] :
        j \in {j \in 1..n : k - tabela[j].alvo \in 0..(Largura(tabela[j]) - 1)}}

\* The correction of entry n, which is e, to byte k.
DaEntrada(e, k, inicio, n) ==
    IF k - e.alvo \in 0..(Largura(e) - 1)
    THEN {[n |-> n, byte |-> k - e.alvo, mais |-> IF e.relativo THEN inicio + e.alvo ELSE inicio]}
    ELSE {}

Lidos == {"relocaTexto", "relocaDados", "executa"}

\* Entries already processed.
JaTexto == IF fase = "relocaTexto" THEN i ELSE Len(Arquivo[modulo].tabTexto)
JaDados == CASE fase = "relocaTexto" -> 0
             [] fase = "relocaDados" -> i
             [] OTHER -> Len(Arquivo[modulo].tabDados)

TextoLido ==
    fase \in Lidos => \A k \in 0..(Arquivo[modulo].texto - 1) :
        mem[ptr.texto + k] =
            Palavra(modulo, "texto", k, DevidasAte(Arquivo[modulo].tabTexto, k, ptr.texto, JaTexto))

DadosLidos ==
    fase \in Lidos /\ Len(Arquivo[modulo].tabTexto) = Len(Arquivo[modulo].tabDados) =>
        \A k \in 0..(Arquivo[modulo].dados - 1) :
            mem[ptr.texto + Arquivo[modulo].texto + k] =
                Palavra(modulo, "dados", k, DevidasAte(Arquivo[modulo].tabDados, k, ptr.texto, JaDados))

BssLida ==
    fase \in Lidos =>
        \A k \in (Arquivo[modulo].texto + Arquivo[modulo].dados)..(Total(modulo) - 1) :
            mem[ptr.texto + k] = Zero

\* A table's block holds its entries and, after them, zeros.
TabelasLidas ==
    fase \in {"relocaTexto", "relocaDados"} =>
        /\ \A k \in 0..(Tam(modulo, "tabTexto") - 1) :
               mem[ptr.tabTexto + k] = Palavra(modulo, "tabTexto", k, {})
        /\ Tam(modulo, "tabDados") > 0 =>
           \A k \in 0..(TamPagina * TamDe(modulo, "tabDados") - 1) :
               mem[ptr.tabDados + k] = IF k < Tam(modulo, "tabDados")
                                       THEN Palavra(modulo, "tabDados", k, {}) ELSE Zero

Contagem ==
    /\ fase = "relocaTexto" => i <= VezesTexto(modulo)
    /\ fase = "relocaDados" => i <= VezesDados(modulo)

Bom ==
    /\ Tipo /\ BlocosCertos /\ UsoCerto /\ CarregadosCertos /\ Vazios
    /\ TextoLido /\ DadosLidos /\ BssLida /\ TabelasLidas /\ Contagem

IInv == limpo \in BOOLEAN /\ (limpo => Bom)

-----------------------------------------------------------------------------
(* Numbers.                                                                *)

\* Bytes and pages.
LEMMA Divisao ==
    ASSUME NEW u \in Nat
    PROVE  /\ u \div TamPagina \in Nat
           /\ TamPagina * (u \div TamPagina) <= u
           /\ u < TamPagina * (u \div TamPagina) + TamPagina
<1>1. TamPagina \in Nat \ {0} BY ExecutavelAssumption
<1> QED BY <1>1, SMT

LEMMA Monotona ==
    ASSUME NEW a \in Nat, NEW b \in Nat, a <= b
    PROVE  TamPagina * a <= TamPagina * b
<1>1. TamPagina \in Nat BY ExecutavelAssumption
<1> QED BY <1>1, SMT

LEMMA Produto ==
    ASSUME NEW a \in Nat
    PROVE  /\ TamPagina * a \in Nat
           /\ a * TamPagina = TamPagina * a
           /\ \A b \in Nat : TamPagina * (a + b) = TamPagina * a + TamPagina * b
           /\ TamPagina * (a + 1) = TamPagina * a + TamPagina
<1>1. TamPagina \in Nat BY ExecutavelAssumption
<1> QED BY <1>1, SMT

\* Byte k of a block of t pages that starts at page p is in one of them.
LEMMA ByteNoBloco ==
    ASSUME NEW p \in Nat, NEW t \in Nat, NEW k \in Nat, k < TamPagina * t
    PROVE  /\ Endereco(p) + k \in Nat
           /\ (Endereco(p) + k) \div TamPagina \in Bloco(p, t)
<1> DEFINE u == Endereco(p) + k
           q == u \div TamPagina
<1>0. TamPagina \in Nat \ {0} BY ExecutavelAssumption
<1>1. u = TamPagina * p + k BY Produto DEF Endereco
<1>2. u \in Nat
  <2>1. TamPagina * p \in Nat BY Produto
  <2> QED BY <1>1, <2>1
<1>3. q \in Nat /\ TamPagina * q <= u /\ u < TamPagina * q + TamPagina BY <1>2, Divisao
<1> HIDE DEF u, q
<1>4. p <= q
  <2> SUFFICES ASSUME q + 1 <= p PROVE FALSE BY <1>3, SMT
  <2>1. TamPagina * (q + 1) <= TamPagina * p BY <1>3, Monotona
  <2>2. TamPagina * (q + 1) = TamPagina * q + TamPagina BY <1>3, Produto
  <2>3. TamPagina * p \in Nat /\ TamPagina * q \in Nat BY <1>3, Produto
  <2> QED BY <1>0, <1>1, <1>2, <1>3, <2>1, <2>2, <2>3, SMT
<1>5. q < p + t
  <2> SUFFICES ASSUME p + t <= q PROVE FALSE BY <1>3, SMT
  <2>1. TamPagina * (p + t) <= TamPagina * q BY <1>3, Monotona
  <2>2. TamPagina * (p + t) = TamPagina * p + TamPagina * t BY Produto
  <2>3. TamPagina * p \in Nat /\ TamPagina * q \in Nat /\ TamPagina * t \in Nat BY <1>3, Produto
  <2> QED BY <1>0, <1>1, <1>2, <1>3, <2>1, <2>2, <2>3, SMT
<1> QED BY <1>2, <1>3, <1>4, <1>5, SMT DEF u, q, Bloco

\* The bytes from a block's address to its end are those of its pages.
LEMMA DentroDoBloco ==
    ASSUME NEW p \in Nat, NEW t \in Nat, NEW u \in Nat
    PROVE  u \in Endereco(p)..(Endereco(p + t) - 1) <=> u \div TamPagina \in Bloco(p, t)
<1> DEFINE q == u \div TamPagina
<1>0. TamPagina \in Nat \ {0} BY ExecutavelAssumption
<1>1. /\ Endereco(p) = TamPagina * p /\ Endereco(p + t) = TamPagina * p + TamPagina * t
      /\ TamPagina * p \in Nat /\ TamPagina * t \in Nat
  <2>1. p + t \in Nat OBVIOUS
  <2> QED BY <2>1, Produto DEF Endereco
<1>2. q \in Nat /\ TamPagina * q <= u /\ u < TamPagina * q + TamPagina BY Divisao
<1>3. ASSUME u \in Endereco(p)..(Endereco(p + t) - 1) PROVE q \in Bloco(p, t)
  <2> DEFINE k == u - TamPagina * p
  <2>1. k \in Nat /\ k < TamPagina * t BY <1>1, <1>3
  <2>2. Endereco(p) + k = u BY <1>1
  <2> HIDE DEF k
  <2>3. (Endereco(p) + k) \div TamPagina \in Bloco(p, t) BY <2>1, ByteNoBloco
  <2> QED BY <2>2, <2>3
<1> HIDE DEF q
<1>4. ASSUME q \in Bloco(p, t) PROVE u \in Endereco(p)..(Endereco(p + t) - 1)
  <2>1. p <= q /\ q + 1 <= p + t BY <1>2, <1>4 DEF Bloco
  <2>2. TamPagina * p <= TamPagina * q BY <1>2, <2>1, Monotona
  <2>3. TamPagina * (q + 1) <= TamPagina * (p + t)
    <3>1. q + 1 \in Nat /\ p + t \in Nat BY <1>2
    <3> QED BY <2>1, <3>1, Monotona
  <2>4. /\ TamPagina * (q + 1) = TamPagina * q + TamPagina
        /\ TamPagina * (p + t) = TamPagina * p + TamPagina * t
        /\ TamPagina * q \in Nat
    BY <1>2, Produto
  <2>5. TamPagina * p <= u /\ u <= TamPagina * p + TamPagina * t - 1
    BY <1>0, <1>1, <1>2, <2>2, <2>3, <2>4
  <2> QED BY <1>1, <2>5
<1> QED BY <1>3, <1>4 DEF q

\* The address of a page is in that page.
LEMMA PaginaDoEndereco ==
    ASSUME NEW p \in Nat
    PROVE  Endereco(p) \in Nat /\ Endereco(p) \div TamPagina = p
<1>0. TamPagina \in Nat \ {0} BY ExecutavelAssumption
<1>1. 0 < TamPagina * 1 BY <1>0, SMT
<1>2. Endereco(p) \in Nat BY Produto DEF Endereco
<1>3. (Endereco(p) + 0) \div TamPagina \in Bloco(p, 1) BY <1>1, ByteNoBloco
<1>4. Endereco(p) + 0 = Endereco(p) BY <1>2
<1> QED BY <1>2, <1>3, <1>4, SMT DEF Bloco

\* A byte of a page of the array, or of the next, is a byte of the memory.
LEMMA ByteExiste ==
    ASSUME NEW u \in Nat, u \div TamPagina \in Celulas
    PROVE  u \in Enderecos
<1>0. TamPagina \in Nat \ {0} /\ QtdPaginas \in Nat BY ExecutavelAssumption, GeometriaAssumption
<1>1. u < TamPagina * (u \div TamPagina) + TamPagina /\ u \div TamPagina \in Nat BY Divisao
<1>2. u \div TamPagina <= QtdPaginas BY <1>0 DEF Celulas
<1>3. TamPagina * (u \div TamPagina) <= TamPagina * QtdPaginas BY <1>0, <1>1, <1>2, Monotona
<1>4. (QtdPaginas + 1) * TamPagina = TamPagina * QtdPaginas + TamPagina /\ TamPagina * QtdPaginas \in Nat
  BY <1>0, SMT
<1>5. TamPagina * (u \div TamPagina) \in Nat BY <1>1, Produto
<1> QED BY <1>0, <1>1, <1>3, <1>4, <1>5, SMT DEF Enderecos

\* The pages asked for hold what they are asked for.
LEMMA QtdParaCabe ==
    ASSUME NEW n \in Nat
    PROVE  /\ QtdPara(n, n) \in Nat
           /\ n <= TamPagina * Tamanho(QtdPara(n, n))
<1>0. TamPagina \in Nat \ {0} BY ExecutavelAssumption
<1> DEFINE q == n \div TamPagina
<1>1. q \in Nat /\ TamPagina * q <= n /\ n < TamPagina * q + TamPagina BY Divisao
<1>2. n % TamPagina = n - TamPagina * q BY <1>0, SMT
<1> HIDE DEF q
<1>3. QtdPara(n, n) = q + (IF n % TamPagina # 0 THEN 1 ELSE 0) BY DEF QtdPara, q
<1>4. TamPagina * (q + 1) = TamPagina * q + TamPagina /\ TamPagina * q \in Nat /\ TamPagina * 1 = TamPagina /\ TamPagina * 0 = 0
  BY <1>0, <1>1, SMT
<1>5. CASE n % TamPagina # 0
  <2>1. QtdPara(n, n) = q + 1 BY <1>3, <1>5
  <2>2. Tamanho(QtdPara(n, n)) = q + 1 BY <2>1, <1>1 DEF Tamanho
  <2> QED BY <2>1, <2>2, <1>0, <1>1, <1>4, SMT
<1>6. CASE n % TamPagina = 0
  <2>1. QtdPara(n, n) = q BY <1>1, <1>3, <1>6
  <2>2. n = TamPagina * q BY <1>2, <1>4, <1>6, <1>1, SMT
  <2>3. CASE q = 0
    <3>1. n = 0 BY <2>2, <2>3, <1>4
    <3>2. Tamanho(QtdPara(n, n)) = 1 BY <2>1, <2>3 DEF Tamanho
    <3> QED BY <2>1, <2>3, <3>1, <3>2, <1>0, <1>4
  <2>4. CASE q # 0
    <3>1. Tamanho(QtdPara(n, n)) = q BY <2>1, <2>4 DEF Tamanho
    <3> QED BY <2>1, <2>2, <3>1, <1>0, <1>1, <1>4
  <2> QED BY <2>3, <2>4
<1> QED BY <1>5, <1>6

\* What the files are.
LEMMA ArquivoTipo ==
    ASSUME NEW m \in Modulos
    PROVE  /\ Arquivo[m].texto \in Nat \ {0} /\ Arquivo[m].dados \in Nat
           /\ Arquivo[m].bss \in Nat /\ Arquivo[m].simbolos \in Nat
           /\ Arquivo[m].tabTexto \in Seq(Entradas) /\ Arquivo[m].tabDados \in Seq(Entradas)
           /\ Total(m) \in Nat
           /\ Total(m) = Arquivo[m].texto + Arquivo[m].dados + Arquivo[m].bss
           /\ m # Nenhum
<1>1. Arquivo[m] \in [texto : Nat \ {0}, dados : Nat, bss : Nat, simbolos : Nat,
                      tabTexto : Seq(Entradas), tabDados : Seq(Entradas)]
  BY ExecutavelAssumption
<1>2. m # Nenhum BY ExecutavelAssumption DEF Nenhum
<1> QED BY <1>1, <1>2 DEF Total

LEMMA Tabelas ==
    ASSUME NEW m \in Modulos
    PROVE  /\ Len(Arquivo[m].tabTexto) \in Nat /\ Len(Arquivo[m].tabDados) \in Nat
           /\ DOMAIN Arquivo[m].tabTexto = 1..Len(Arquivo[m].tabTexto)
           /\ DOMAIN Arquivo[m].tabDados = 1..Len(Arquivo[m].tabDados)
           /\ \A k \in 1..Len(Arquivo[m].tabTexto) :
                  /\ Arquivo[m].tabTexto[k] \in Entradas
                  /\ Arquivo[m].tabTexto[k].alvo + 4 <= Arquivo[m].texto
           /\ \A k \in 1..Len(Arquivo[m].tabDados) :
                  /\ Arquivo[m].tabDados[k] \in Entradas
                  /\ Arquivo[m].tabDados[k].alvo + 4 <= Arquivo[m].dados
<1>1. Arquivo[m].tabTexto \in Seq(Entradas) /\ Arquivo[m].tabDados \in Seq(Entradas)
  BY ArquivoTipo
<1>2. /\ Len(Arquivo[m].tabTexto) \in Nat /\ Len(Arquivo[m].tabDados) \in Nat
      /\ DOMAIN Arquivo[m].tabTexto = 1..Len(Arquivo[m].tabTexto)
      /\ DOMAIN Arquivo[m].tabDados = 1..Len(Arquivo[m].tabDados)
  BY <1>1
<1>3. /\ \A k \in DOMAIN Arquivo[m].tabTexto : Arquivo[m].tabTexto[k] \in Entradas
      /\ \A k \in DOMAIN Arquivo[m].tabDados : Arquivo[m].tabDados[k] \in Entradas
  BY <1>1, <1>2
<1>4. /\ \A k \in DOMAIN Arquivo[m].tabTexto : Arquivo[m].tabTexto[k].alvo + 4 <= Arquivo[m].texto
      /\ \A k \in DOMAIN Arquivo[m].tabDados : Arquivo[m].tabDados[k].alvo + 4 <= Arquivo[m].dados
  BY ExecutavelAssumption
<1> QED BY <1>2, <1>3, <1>4

LEMMA Tamanhos ==
    ASSUME NEW m \in Modulos
    PROVE  /\ Tam(m, "simbolos") = Arquivo[m].simbolos
           /\ Tam(m, "texto") = Arquivo[m].texto /\ Tam(m, "dados") = Arquivo[m].dados
           /\ Tam(m, "tabTexto") = 8 * Len(Arquivo[m].tabTexto)
           /\ Tam(m, "tabDados") = 8 * Len(Arquivo[m].tabDados)
           /\ \A b \in Pedidos \cup {"dados"} : Tam(m, b) \in Nat
<1>1. /\ Tam(m, "simbolos") = Arquivo[m].simbolos
      /\ Tam(m, "texto") = Arquivo[m].texto /\ Tam(m, "dados") = Arquivo[m].dados
      /\ Tam(m, "tabTexto") = 8 * Len(Arquivo[m].tabTexto)
      /\ Tam(m, "tabDados") = 8 * Len(Arquivo[m].tabDados)
  BY DEF Tam, TamEntrada
<1> QED BY <1>1, ArquivoTipo, Tabelas DEF Pedidos

\* The data come after the text.
LEMMA DadosNoPrograma ==
    ASSUME NEW m \in Modulos, NEW j \in 0..(Arquivo[m].dados - 1)
    PROVE  Arquivo[m].texto + j \in 0..(Total(m) - 1)
  BY ArquivoTipo

\* Every block has a page.
LEMMA TamDeTipo ==
    ASSUME NEW m \in Modulos, NEW b \in Pedidos
    PROVE  TamDe(m, b) \in Nat \ {0}
<1>1. \A r, s \in Nat : QtdPara(r, s) \in Nat
  <2>1. TamPagina \in Nat \ {0} BY ExecutavelAssumption
  <2> SUFFICES ASSUME NEW r \in Nat, NEW s \in Nat PROVE QtdPara(r, s) \in Nat OBVIOUS
  <2>2. r \div TamPagina \in Nat BY Divisao
  <2> QED BY <2>2 DEF QtdPara
<1>2. Pedido(m, b) \in Nat BY <1>1, ArquivoTipo, Tamanhos DEF Pedido, Pedidos
<1> QED BY <1>2 DEF TamDe, Tamanho

LEMMA Cabem ==
    ASSUME NEW m \in Modulos
    PROVE  /\ Total(m) <= TamPagina * TamDe(m, "texto")
           /\ Tam(m, "simbolos") <= TamPagina * TamDe(m, "simbolos")
           /\ Tam(m, "tabTexto") <= TamPagina * TamDe(m, "tabTexto")
           /\ Regular(m) /\ Tam(m, "tabDados") > 0 =>
                  /\ Tam(m, "tabDados") <= TamPagina * TamDe(m, "tabDados")
                  /\ Tam(m, "tabTexto") <= TamPagina * TamDe(m, "tabDados")
<1>1. /\ TamDe(m, "texto") = Tamanho(QtdPara(Total(m), Total(m)))
      /\ TamDe(m, "simbolos") = Tamanho(QtdPara(Tam(m, "simbolos"), Tam(m, "simbolos")))
      /\ TamDe(m, "tabTexto") = Tamanho(QtdPara(Tam(m, "tabTexto"), Tam(m, "tabTexto")))
  BY DEF TamDe, Pedido
<1>2. Total(m) \in Nat /\ Tam(m, "simbolos") \in Nat /\ Tam(m, "tabTexto") \in Nat
  BY ArquivoTipo, Tamanhos DEF Pedidos
<1>3. Regular(m) /\ Tam(m, "tabDados") > 0 =>
          /\ Tam(m, "tabDados") <= TamPagina * TamDe(m, "tabDados")
          /\ Tam(m, "tabTexto") <= TamPagina * TamDe(m, "tabDados")
  BY DEF Regular, TamDe
<1> QED BY <1>1, <1>2, <1>3, QtdParaCabe

-----------------------------------------------------------------------------
(* The map.                                                                *)

\* A nonempty set of page numbers has a least one.
LEMMA MenorPagina ==
    ASSUME NEW T \in SUBSET Nat, T # {}
    PROVE  \E x \in T : \A y \in T : x <= y
<1>1. PICK x \in T : \A y \in T : <<y, x>> \notin OpToRel(<, Nat)
  BY NatLessThanWellFounded, WFMin
<1>2. \A y \in T : ~(y < x) BY <1>1 DEF OpToRel
<1> QED BY <1>2

\* The block that AlocaPaginaFisica gives is of free pages, of the array or
\* the one after it.
LEMMA EncaixeNoMapa ==
    ASSUME NEW m, NEW tam \in Nat \ {0}, Encaixes(m, FALSE, tam) # {}
    PROVE  LET ini == PrimeiroEncaixe(m, FALSE, tam)
           IN  /\ ini \in Nat /\ ini \in Bloco(ini, tam)
               /\ Bloco(ini, tam) \subseteq Celulas
               /\ \A p \in Bloco(ini, tam) : m[p] = VAZIO
<1> DEFINE E == Encaixes(m, FALSE, tam)
           ini == PrimeiroEncaixe(m, FALSE, tam)
<1>0. QtdPaginas \in Nat /\ Fronteira \in Nat BY GeometriaAssumption
<1>1. E \subseteq Nat BY <1>0 DEF Encaixes, Faixa
<1>2. \E p \in E : \A k \in E : p <= k BY <1>1, MenorPagina
<1>3. ini \in E BY <1>2 DEF PrimeiroEncaixe
<1> HIDE DEF ini, E
<1>4. /\ ini \in Fronteira..QtdPaginas /\ ini + tam - 1 \in Fronteira..QtdPaginas
      /\ \A p \in Bloco(ini, tam) : m[p] = VAZIO
  BY <1>3 DEF Encaixes, Faixa, E
<1>5. ini \in Nat /\ ini \in Bloco(ini, tam) BY <1>0, <1>4 DEF Bloco
<1>6. Bloco(ini, tam) \subseteq Celulas BY <1>0, <1>4 DEF Bloco, Celulas
<1> QED BY <1>4, <1>5, <1>6 DEF ini

LEMMA UsoAoMarcar ==
    ASSUME NEW m \in Mapas, NEW ini \in Nat, NEW tam \in Nat \ {0},
           Bloco(ini, tam) \subseteq Celulas
    PROVE  LET novo == MarcaBloco(m, ini, tam, NUCLEO)
           IN  /\ novo \in Mapas
               /\ EmUso(novo) = EmUso(m) \cup Bloco(ini, tam)
<1> DEFINE novo == MarcaBloco(m, ini, tam, NUCLEO)
<1>1. novo = [p \in Celulas |-> IF p \notin Bloco(ini, tam) THEN m[p]
                                ELSE IF p = ini THEN 129 ELSE 1]
  BY DEF MarcaBloco, Mapas, NUCLEO, Cabeca, Dono
<1>2. novo \in Mapas BY <1>1 DEF Mapas, Byte
<1>3. EmUso(novo) = EmUso(m) \cup Bloco(ini, tam) BY <1>1 DEF EmUso, VAZIO
<1> QED BY <1>2, <1>3

LEMMA UsoAoLiberar ==
    ASSUME NEW m \in Mapas, NEW p \in Paginas
    PROVE  /\ LiberaPagina(m, p) \in Mapas
           /\ EmUso(LiberaPagina(m, p)) = EmUso(m) \ {p}
<1>1. Paginas \subseteq Celulas BY GeometriaAssumption DEF Celulas, Paginas
<1>2. LiberaPagina(m, p) = [m EXCEPT ![p] = VAZIO] BY DEF LiberaPagina
<1> QED BY <1>1, <1>2 DEF EmUso, Mapas, Byte, VAZIO

-----------------------------------------------------------------------------
(* Bytes and corrections.                                                  *)

LEMMA DevidasNenhuma == \A t, k, inicio : DevidasAte(t, k, inicio, 0) = {}
<1>1. 1..0 = {} OBVIOUS
<1> QED BY <1>1 DEF DevidasAte

\* The next entry adds its correction to the bytes of its pointer.
LEMMA DevidasMais ==
    ASSUME NEW t, NEW k, NEW inicio, NEW n \in Nat
    PROVE  DevidasAte(t, k, inicio, n + 1)
             = DevidasAte(t, k, inicio, n) \cup DaEntrada(t[n + 1], k, inicio, n)
<1> USE DEF DaEntrada
<1> DEFINE Cobre(j) == k - t[j].alvo \in 0..(Largura(t[j]) - 1)
           F(j) == [n |-> j - 1, byte |-> k - t[j].alvo,
                    mais |-> IF t[j].relativo THEN inicio + t[j].alvo ELSE inicio]
<1>1. 1..(n + 1) = 1..n \cup {n + 1} /\ (n + 1) - 1 = n OBVIOUS
<1>2. \A q \in Nat : DevidasAte(t, k, inicio, q) = {F(j) : j \in {j \in 1..q : Cobre(j)}}
  BY DEF DevidasAte
<1>3. F(n + 1) = [n |-> n, byte |-> k - t[n + 1].alvo,
                  mais |-> IF t[n + 1].relativo THEN inicio + t[n + 1].alvo ELSE inicio]
  BY <1>1
<1>4. n + 1 \in Nat OBVIOUS
<1> HIDE DEF F
<1>5. CASE Cobre(n + 1)
  <2>1. {j \in 1..(n + 1) : Cobre(j)} = {j \in 1..n : Cobre(j)} \cup {n + 1}
    <3> HIDE DEF Cobre
    <3> QED BY <1>1, <1>5
  <2>2. {F(j) : j \in {j \in 1..(n + 1) : Cobre(j)}}
          = {F(j) : j \in {j \in 1..n : Cobre(j)}} \cup {F(n + 1)}
    <3> HIDE DEF Cobre
    <3> QED BY <2>1
  <2> QED BY <1>2, <1>3, <1>4, <1>5, <2>2
<1>6. CASE ~ Cobre(n + 1)
  <2>1. {j \in 1..(n + 1) : Cobre(j)} = {j \in 1..n : Cobre(j)}
    <3> HIDE DEF Cobre
    <3> QED BY <1>1, <1>6
  <2> QED BY <1>2, <1>4, <1>6, <2>1
<1> QED BY <1>5, <1>6

LEMMA DevidasTodas ==
    ASSUME NEW m \in Modulos
    PROVE  \A k, inicio :
               /\ DevidasAte(Arquivo[m].tabTexto, k, inicio, Len(Arquivo[m].tabTexto))
                    = Devidas(Arquivo[m].tabTexto, k, inicio)
               /\ DevidasAte(Arquivo[m].tabDados, k, inicio, Len(Arquivo[m].tabDados))
                    = Devidas(Arquivo[m].tabDados, k, inicio)
  BY Tabelas DEF DevidasAte, Devidas

LEMMA CelulaNova == \A m, parte, k : Celula(m, parte, k) = Palavra(m, parte, k, {})
  BY DEF Celula, Palavra

LEMMA MaisUma ==
    ASSUME NEW m, NEW parte, NEW k, NEW s, NEW f
    PROVE  Corrige(Palavra(m, parte, k, s), f) = Palavra(m, parte, k, s \cup {f})
  BY DEF Palavra, Corrige

\* A byte of a file, and a zero, are where there is memory.
LEMMA Presente ==
    /\ Zero # Ausente
    /\ \A m, parte, k, s : parte # "ausente" => Palavra(m, parte, k, s) # Ausente
<1>1. Ausente.parte = "ausente" /\ Zero.parte = "zero" BY DEF Ausente, Zero, Celula
<1>2. \A m, parte, k, s : Palavra(m, parte, k, s).parte = parte BY DEF Palavra
<1> QED BY <1>1, <1>2

\* Eight bytes that are entry j of a table, and eight zeros.
LEMMA EntradaLida ==
    ASSUME NEW m \in Modulos, NEW parte \in {"tabTexto", "tabDados"}, NEW j \in Nat, NEW a \in Nat,
           \A d \in 0..7 : a + d \in Enderecos /\ mem[a + d] = Palavra(m, parte, 8 * j + d, {})
    PROVE  Conhecida(a) /\ EntradaEm(a) = Arquivo[m][parte][j + 1]
<1>1. 0 \in 0..7 /\ a + 0 = a /\ 8 * j + 0 = 8 * j /\ 8 * j \in Nat
      /\ (8 * j) % 8 = 0 /\ (8 * j) \div 8 = j
  OBVIOUS
<1>2. mem[a] = Palavra(m, parte, 8 * j, {}) BY <1>1
<1>3. mem[a].de = m /\ mem[a].parte = parte /\ mem[a].k = 8 * j BY <1>2 DEF Palavra
<1>4. \A d \in 0..7 : mem[a + d] = Celula(m, parte, 8 * j + d) BY CelulaNova
<1>5. TamEntrada = 8 /\ TamEntrada - 1 = 7 BY DEF TamEntrada
<1>6. DeTabela(a) BY <1>1, <1>3, <1>4, <1>5 DEF DeTabela
<1>7. ~ DeZeros(a)
  <2>1. Zero.parte = "zero" BY DEF Zero, Celula
  <2>2. mem[a] # Zero BY <1>3, <2>1
  <2> QED BY <1>1, <1>5, <2>2 DEF DeZeros
<1>8. a..(a + TamEntrada - 1) \subseteq Enderecos
  <2>1. \A u \in a..(a + 7) : u - a \in 0..7 /\ u = a + (u - a) OBVIOUS
  <2>2. a + TamEntrada - 1 = a + 7 BY <1>5
  <2> QED BY <2>1, <2>2
<1>9. EntradaEm(a) = Arquivo[m][parte][j + 1] BY <1>1, <1>3, <1>5, <1>7 DEF EntradaEm
<1> QED BY <1>6, <1>8, <1>9 DEF Conhecida

LEMMA ZerosLidos ==
    ASSUME NEW a \in Nat, \A d \in 0..7 : a + d \in Enderecos /\ mem[a + d] = Zero
    PROVE  Conhecida(a) /\ EntradaEm(a) = [alvo |-> 0, tamanho |-> 0, relativo |-> FALSE]
<1>1. TamEntrada - 1 = 7 /\ a + TamEntrada - 1 = a + 7 BY DEF TamEntrada
<1>2. DeZeros(a) BY <1>1 DEF DeZeros
<1>3. a..(a + TamEntrada - 1) \subseteq Enderecos
  <2>1. \A u \in a..(a + 7) : u - a \in 0..7 /\ u = a + (u - a) OBVIOUS
  <2> QED BY <1>1, <2>1
<1> QED BY <1>2, <1>3 DEF Conhecida, EntradaEm

-----------------------------------------------------------------------------
(* The steps.                                                              *)

LEMMA FeitosDepois ==
    ASSUME NEW b \in DOMAIN Depois
    PROVE  /\ b \in Pedidos
           /\ Feitos(Depois[b]) = Feitos(b) \cup {b} /\ b \notin Feitos(b)
           /\ Feitos(b) \subseteq Pedidos
           /\ Depois[b] \in {"simbolos", "tabTexto", "tabDados", "le"}
           /\ b \in {"simbolos", "tabTexto", "tabDados"} \/ b = "texto"
           /\ Feitos("texto") = {}
<1>1. DOMAIN Depois = Pedidos BY DEF Depois, Pedidos
<1>2. b = "texto" \/ b = "simbolos" \/ b = "tabTexto" \/ b = "tabDados" BY <1>1 DEF Pedidos
<1>3. /\ Feitos("texto") = {} /\ Feitos("simbolos") = {"texto"}
      /\ Feitos("tabTexto") = {"texto", "simbolos"}
      /\ Feitos("tabDados") = {"texto", "simbolos", "tabTexto"}
      /\ Feitos("le") = {"texto", "simbolos", "tabTexto", "tabDados"}
  BY DEF Feitos, Pedidos
<1>4. /\ Depois["texto"] = "simbolos" /\ Depois["simbolos"] = "tabTexto"
      /\ Depois["tabTexto"] = "tabDados" /\ Depois["tabDados"] = "le"
  BY DEF Depois
<1> QED BY <1>1, <1>2, <1>3, <1>4 DEF Pedidos

\* What no step changes in the pages of before stays as it is.
LEMMA TextosFicam ==
    ASSUME Tipo, CarregadosCertos, carregados' = carregados, Firmes \subseteq Firmes',
           Firmes \subseteq Celulas,
           \A u \in Enderecos : u \div TamPagina \in Firmes => mem'[u] = mem[u]
    PROVE  CarregadosCertos'
<1> SUFFICES ASSUME NEW c \in carregados
             PROVE  /\ c.modulo \in Modulos
                    /\ c.inicio \in Nat /\ c.inicio = Endereco(c.inicio \div TamPagina)
                    /\ Bloco(c.inicio \div TamPagina, TamDe(c.modulo, "texto")) \subseteq Firmes'
                    /\ TextoCerto(c.modulo, c.inicio)'
  BY DEF CarregadosCertos
<1> DEFINE m == c.modulo
           p == c.inicio \div TamPagina
           t == TamDe(m, "texto")
<1>1. /\ m \in Modulos /\ c.inicio \in Nat /\ c.inicio = Endereco(p) /\ Bloco(p, t) \subseteq Firmes
      /\ TextoCerto(m, c.inicio)
  BY DEF CarregadosCertos
<1>2. t \in Nat \ {0} BY <1>1, TamDeTipo DEF Pedidos
<1>3. p \in Nat BY <1>1, Divisao
<1>4. \A k \in 0..(Arquivo[m].texto - 1) : mem'[c.inicio + k] = mem[c.inicio + k]
  <2> SUFFICES ASSUME NEW k \in 0..(Arquivo[m].texto - 1)
               PROVE  mem'[c.inicio + k] = mem[c.inicio + k]
    OBVIOUS
  <2>1. k \in Nat /\ k < TamPagina * t
    <3>1. Arquivo[m].texto \in Nat /\ Arquivo[m].texto <= Total(m)
      <4>1. /\ Arquivo[m].texto \in Nat /\ Arquivo[m].dados \in Nat /\ Arquivo[m].bss \in Nat
            /\ Total(m) = Arquivo[m].texto + Arquivo[m].dados + Arquivo[m].bss
        BY <1>1, ArquivoTipo
      <4> HIDE DEF m
      <4> QED BY <4>1
    <3>2. Total(m) <= TamPagina * t /\ Total(m) \in Nat BY <1>1, Cabem, ArquivoTipo
    <3>3. TamPagina * t \in Nat BY <1>2, Produto
    <3> QED BY <3>1, <3>2, <3>3
  <2>2. (c.inicio + k) \in Nat /\ (c.inicio + k) \div TamPagina \in Bloco(p, t)
    BY <1>1, <1>2, <1>3, <2>1, ByteNoBloco
  <2>3. (c.inicio + k) \div TamPagina \in Firmes BY <1>1, <2>2
  <2> QED BY <2>2, <2>3, ByteExiste
<1>5. TextoCerto(m, c.inicio)'
  <2> HIDE DEF m
  <2> QED BY <1>1, <1>4 DEF TextoCerto
<1> QED BY <1>1, <1>5

LEMMA FeitosEmPedidos == \A f : Feitos(f) \subseteq Pedidos
  BY DEF Feitos, Pedidos

LEMMA FirmesNoMapa == ASSUME Tipo PROVE Firmes \subseteq Celulas
  BY DEF Firmes, EmUso, Tipo

\* A block's first page is one of its pages.
LEMMA PagNoBloco ==
    ASSUME Tipo, fase # "ocioso", NEW b \in Pedidos
    PROVE  Pag(b) \in Nat /\ Pag(b) \in Pags(b)
<1>1. ptr[b] \in Nat /\ TamDe(modulo, b) \in Nat \ {0} BY TamDeTipo DEF Tipo
<1>2. Pag(b) \in Nat BY <1>1, Divisao DEF Pag
<1> HIDE DEF Pag
<1> QED BY <1>1, <1>2 DEF Pags, Bloco

LEMMA InicioBom == Init => Bom
<1> SUFFICES ASSUME Init PROVE Bom OBVIOUS
<1>1. Marcadas \in [Paginas -> {VAZIO, NUCLEO, RESERVADO}] /\ Vizinho \in Byte
  BY ExecutavelAssumption DEF MapasDoInicio
<1>2. paginas = [p \in Celulas |-> IF p \in Paginas THEN Marcadas[p] ELSE Vizinho]
  BY DEF Init, ComVizinho
<1>3. paginas \in Mapas
  BY <1>1, <1>2 DEF Mapas, Byte, VAZIO, NUCLEO, RESERVADO
<1>4. PICK acima : mem = [u \in Enderecos |-> IF u < QtdPaginas * TamPagina THEN Lixo ELSE acima]
  BY DEF Init
<1>5. Tipo
  <2>1. ptr \in [Pedidos -> Nat] BY DEF Init, Pedidos
  <2>2. mem = [u \in Enderecos |-> mem[u]] BY <1>4
  <2>3. antes \subseteq Celulas BY DEF Init, EmUso
  <2> QED BY <1>3, <2>1, <2>2, <2>3 DEF Tipo, Init, Fases
<1>6. fase = "ocioso" /\ carregados = {} BY DEF Init
<1>7. Tens = {} BY <1>6 DEF Tens, Feitos
<1> QED BY <1>5, <1>6, <1>7
    DEF Bom, BlocosCertos, UsoCerto, CarregadosCertos, Vazios, TextoLido, DadosLidos, BssLida,
        TabelasLidas, Contagem, Lidos

\* What a load that has begun may count on: nothing is in a block yet.
NadaLido == TextoLido /\ DadosLidos /\ BssLida /\ TabelasLidas /\ Contagem

LEMMA AntesDeLer ==
    ASSUME fase \in {"ocioso", "texto", "simbolos", "tabTexto", "tabDados", "le"}
    PROVE  NadaLido
  BY DEF NadaLido, TextoLido, DadosLidos, BssLida, TabelasLidas, Contagem, Lidos

LEMMA CabecalhoBom ==
    ASSUME Bom, limpo', NEW m \in Modulos, LeCabecalho(m)
    PROVE  Bom'
<1> USE DEF Bom, LeCabecalho
<1>1. fase = "ocioso" /\ fase' = "texto" /\ Regular(m) OBVIOUS
<1>2. Tipo'
  <2>1. ptr' \in [Pedidos -> Nat] BY DEF Tipo
  <2>2. antes' \subseteq Celulas BY DEF EmUso
  <2>3. mem' = [u \in Enderecos |-> mem'[u]] BY DEF Tipo
  <2>4. Regular(modulo)' BY <1>1
  <2> QED BY <1>1, <2>1, <2>2, <2>3, <2>4 DEF Tipo, Fases, Pedidos
<1>3. Tens' = {} BY <1>1 DEF Tens, Feitos
<1>4. EmUso(paginas)' = EmUso(paginas) OBVIOUS
<1>5. BlocosCertos' /\ UsoCerto' /\ Vazios'
  BY <1>1, <1>3, <1>4 DEF BlocosCertos, UsoCerto, Vazios
<1>6. CarregadosCertos'
  <2>1. Firmes' = Firmes /\ Firmes \subseteq Celulas
    BY <1>1, FirmesNoMapa DEF Firmes
  <2> QED BY <2>1, TextosFicam
<1>7. NadaLido' BY <1>1, AntesDeLer DEF NadaLido, TextoLido, DadosLidos, BssLida, TabelasLidas, Contagem, Lidos
<1> QED BY <1>2, <1>5, <1>6, <1>7 DEF NadaLido

LEMMA PulaBom ==
    ASSUME Bom, limpo', NEW b \in DOMAIN Depois, Pula(b)
    PROVE  Bom'
<1> USE DEF Bom, Pula
<1>1. /\ fase = b /\ fase' = Depois[b] /\ ~ Tem(modulo, b) /\ modulo' = modulo /\ ptr' = ptr
      /\ Tam(modulo, b) = 0
  BY DEF Tem
<1>2. /\ fase' \in {"simbolos", "tabTexto", "tabDados", "le"}
      /\ fase \in {"simbolos", "tabTexto", "tabDados"}
  BY <1>1, FeitosDepois
<1>3. Tens' = Tens BY <1>1, FeitosDepois DEF Tens
<1>4. Tipo'
  <2>1. mem' = [u \in Enderecos |-> mem'[u]] BY DEF Tipo
  <2>2. Regular(modulo)' BY <1>1, <1>2 DEF Tipo
  <2> QED BY <1>1, <1>2, <2>1, <2>2 DEF Tipo, Fases, Pedidos
<1>5. \A d : Pags(d)' = Pags(d) /\ Pag(d)' = Pag(d) /\ Resta(d)' = Resta(d)
  BY <1>1, <1>2 DEF Pags, Pag, Resta
<1>6. BlocosCertos' BY <1>1, <1>3, <1>5 DEF BlocosCertos
<1>7. UsoCerto'
  <2>1. EmUso(paginas)' = EmUso(paginas) OBVIOUS
  <2>2. UNION {Resta(d)' : d \in Tens'} = UNION {Resta(d) : d \in Tens} BY <1>3, <1>5
  <2> QED BY <1>2, <2>1, <2>2 DEF UsoCerto
<1>8. Vazios' BY <1>2, <1>3, <1>5 DEF Vazios
<1>9. CarregadosCertos'
  <2>1. Firmes' = Firmes /\ Firmes \subseteq Celulas
    BY <1>2, FirmesNoMapa DEF Firmes
  <2> QED BY <2>1, TextosFicam
<1>10. NadaLido' BY <1>2, AntesDeLer DEF NadaLido, TextoLido, DadosLidos, BssLida, TabelasLidas, Contagem, Lidos
<1> QED BY <1>4, <1>6, <1>7, <1>8, <1>9, <1>10 DEF NadaLido

LEMMA AlocaBom ==
    ASSUME Bom, limpo', NEW b \in DOMAIN Depois, AlocaBloco(b)
    PROVE  Bom'
<1> DEFINE tam == TamDe(modulo, b)
           ini == PrimeiroEncaixe(paginas, FALSE, tam)
           B == Bloco(ini, tam)
           dentro == Endereco(ini)..(Endereco(ini + tam) - 1)
<1> USE DEF Bom
<1>1. /\ fase = b /\ fase' = Depois[b] /\ Tem(modulo, b) /\ modulo' = modulo
      /\ carregados' = carregados /\ antes' = antes /\ i' = i
      /\ paginas' = MarcaBloco(paginas, ini, tam, NUCLEO)
      /\ mem' = [u \in Enderecos |-> IF u \in dentro THEN Grava(u, Zero) ELSE mem[u]]
      /\ ptr' = [ptr EXCEPT ![b] = Endereco(ini)]
      /\ Encaixes(paginas, FALSE, tam) # {}
      /\ \A u \in dentro : mem[u] # Ausente
  BY DEF AlocaBloco, Pede, Tem, TamDe
<1>2. /\ fase' \in {"simbolos", "tabTexto", "tabDados", "le"} /\ b \in Pedidos
      /\ fase \in {"texto", "simbolos", "tabTexto", "tabDados"} /\ b \notin Feitos(fase)
  BY <1>1, FeitosDepois
<1>3. Tens' = Tens \cup {b} /\ b \notin Tens /\ Tens \subseteq Pedidos
  BY <1>1, <1>2, FeitosDepois DEF Tens
<1>4. modulo \in Modulos /\ tam \in Nat \ {0}
  BY <1>2, TamDeTipo DEF Tipo
<1> HIDE DEF tam
<1>5. /\ ini \in Nat /\ ini \in B /\ B \subseteq Celulas
      /\ \A p \in B : paginas[p] = VAZIO
  BY <1>1, <1>4, EncaixeNoMapa
<1> HIDE DEF ini
<1>6. \A u \in Enderecos : mem'[u] = IF u \div TamPagina \in B THEN Zero ELSE mem[u]
  <2>1. Enderecos \subseteq Nat BY DEF Enderecos
  <2>2. \A u \in Enderecos : u \in dentro <=> u \div TamPagina \in B
    BY <1>4, <1>5, <2>1, DentroDoBloco
  <2> HIDE DEF dentro, B
  <2> QED BY <1>1, <2>2 DEF Grava
<1> HIDE DEF dentro
<1>7. /\ paginas' \in Mapas
      /\ EmUso(paginas') = EmUso(paginas) \cup B
  BY <1>1, <1>4, <1>5, UsoAoMarcar DEF Tipo
<1>8. Endereco(ini) \in Nat /\ Endereco(ini) \div TamPagina = ini BY <1>5, PaginaDoEndereco
<1>9. Tipo'
  <2>1. ptr' \in [Pedidos -> Nat] BY <1>1, <1>2, <1>8 DEF Tipo
  <2>2. mem' = [u \in Enderecos |-> mem'[u]] BY <1>1
  <2>3. Regular(modulo)' BY <1>1, <1>2 DEF Tipo
  <2> QED BY <1>1, <1>2, <1>4, <1>7, <2>1, <2>2, <2>3 DEF Tipo, Fases, Pedidos
<1>10. /\ ptr'[b] = Endereco(ini)
       /\ \A d \in Tens : ptr'[d] = ptr[d]
  BY <1>1, <1>2, <1>3 DEF Tipo
<1>11. /\ Pag(b)' = ini /\ Pags(b)' = B
       /\ \A d \in Tens : Pag(d)' = Pag(d) /\ Pags(d)' = Pags(d)
  BY <1>1, <1>8, <1>10 DEF Pag, Pags, tam
<1>12. \A d \in Tens' : Resta(d)' = Pags(d)' BY <1>2 DEF Resta
<1>13. \A d \in Tens : Resta(d) = Pags(d) BY <1>2 DEF Resta
<1>14. EmUso(paginas) = antes \cup UNION {Resta(d) : d \in Tens}
  BY <1>2 DEF UsoCerto
<1>15. B \cap EmUso(paginas) = {} BY <1>5 DEF EmUso
<1>16. B \cap antes = {} /\ \A d \in Tens : B \cap Pags(d) = {}
  BY <1>13, <1>14, <1>15
<1>17. BlocosCertos'
  <2>1. \A d \in Tens' : /\ ptr'[d] = Endereco(Pag(d)')
                         /\ Pags(d)' \subseteq Celulas
                         /\ Pags(d)' \cap antes' = {}
    BY <1>1, <1>3, <1>5, <1>10, <1>11, <1>16 DEF BlocosCertos
  <2>2. \A d, e \in Tens' : d # e => Pags(d)' \cap Pags(e)' = {}
    BY <1>3, <1>11, <1>16 DEF BlocosCertos
  <2> QED BY <2>1, <2>2 DEF BlocosCertos
<1>18. UsoCerto'
  <2>1. EmUso(paginas') = antes' \cup UNION {Resta(d)' : d \in Tens'}
    BY <1>1, <1>3, <1>7, <1>11, <1>12, <1>13, <1>14
  <2> QED BY <2>1 DEF UsoCerto
<1>19. Vazios'
  <2> SUFFICES ASSUME NEW d \in Tens', NEW u \in Enderecos, u \div TamPagina \in Pags(d)'
               PROVE  mem'[u] = Zero
    BY DEF Vazios
  <2>1. CASE d = b BY <2>1, <1>6, <1>11
  <2>2. CASE d \in Tens
    <3>1. fase \in {"simbolos", "tabTexto", "tabDados", "le"}
      BY <2>2, <1>2, FeitosDepois DEF Tens
    <3>2. mem[u] = Zero BY <2>2, <3>1, <1>11 DEF Vazios
    <3> QED BY <3>2, <1>6
  <2> QED BY <2>1, <2>2, <1>3
<1>20. CarregadosCertos'
  <2>1. Firmes' = Firmes /\ Firmes = antes /\ Firmes \subseteq Celulas
    BY <1>1, <1>2, FirmesNoMapa DEF Firmes
  <2>2. \A u \in Enderecos : u \div TamPagina \in Firmes => mem'[u] = mem[u] BY <1>6, <1>16, <2>1
  <2> QED BY <1>1, <2>1, <2>2, TextosFicam
<1>21. NadaLido' BY <1>2, AntesDeLer DEF NadaLido, TextoLido, DadosLidos, BssLida, TabelasLidas, Contagem, Lidos
<1> QED BY <1>9, <1>17, <1>18, <1>19, <1>20, <1>21 DEF NadaLido

-----------------------------------------------------------------------------
(* The reads.                                                              *)

\* The block a section is read into.
BlocoDe(parte) == IF parte = "dados" THEN "texto" ELSE parte

\* Every byte read into is in the block of its section, which exists, at the
\* section's place.
LEMMA AreaNoBloco ==
    ASSUME Bom, fase \in {"le", "relocaTexto", "relocaDados", "executa"},
           NEW parte \in Pedidos \cup {"dados"}, NEW u \in Area(parte)
    PROVE  /\ BlocoDe(parte) \in Tens
           /\ u \in Enderecos /\ u \div TamPagina \in Pags(BlocoDe(parte))
           /\ Destino(parte) \in Nat
           /\ u - Destino(parte) \in 0..(Tam(modulo, parte) - 1)
<1> USE DEF Bom
<1> DEFINE b == BlocoDe(parte)
           o == Destino(parte) - ptr[b]
           t == TamDe(modulo, b)
<1>1. modulo \in Modulos BY DEF Tipo
<1>2. b \in Pedidos BY DEF BlocoDe, Pedidos
<1>3. ptr[b] \in Nat /\ t \in Nat \ {0} BY <1>1, <1>2, TamDeTipo DEF Tipo
<1>4. Tam(modulo, parte) \in Nat BY <1>1, Tamanhos
<1>5. /\ Destino(parte) = IF parte = "dados" THEN ptr["texto"] + Arquivo[modulo].texto ELSE ptr[b]
      /\ Arquivo[modulo].texto \in Nat
  BY <1>1, ArquivoTipo DEF Destino, BlocoDe
<1>6. Destino(parte) \in Nat /\ o \in Nat /\ Destino(parte) = ptr[b] + o
      /\ o = (IF parte = "dados" THEN Arquivo[modulo].texto ELSE 0)
  BY <1>3, <1>5 DEF BlocoDe
<1>7. /\ u \in Destino(parte)..(Destino(parte) + Tam(modulo, parte) - 1)
      /\ Tam(modulo, parte) > 0
  BY <1>4, <1>6 DEF Area
<1>8. b \in Tens
  <2>1. Feitos(fase) = Pedidos BY DEF Feitos
  <2>2. Tem(modulo, b)
    BY <1>7 DEF Tem, BlocoDe
  <2> QED BY <1>2, <2>1, <2>2 DEF Tens
<1>9. o + Tam(modulo, parte) <= TamPagina * t
  <2>1. CASE parte \in {"texto", "dados"}
    <3>1. b = "texto" BY <2>1 DEF BlocoDe
    <3>2. Arquivo[modulo].texto + Arquivo[modulo].dados <= Total(modulo)
          /\ Total(modulo) \in Nat /\ Arquivo[modulo].dados \in Nat
      BY <1>1, ArquivoTipo
    <3>3. Total(modulo) <= TamPagina * t /\ TamPagina * t \in Nat BY <1>1, <1>3, <3>1, Cabem, Produto
    <3>4. Tam(modulo, parte) = IF parte = "dados" THEN Arquivo[modulo].dados ELSE Arquivo[modulo].texto
      BY <1>1, <2>1, Tamanhos
    <3> QED BY <2>1, <3>2, <3>3, <3>4, <1>5, <1>6
  <2>2. CASE parte \in {"simbolos", "tabTexto", "tabDados"}
    <3>1. b = parte /\ o = 0 BY <2>2, <1>6 DEF BlocoDe
    <3>2. Tam(modulo, parte) <= TamPagina * t
      BY <1>1, <1>7, <2>2, <3>1, Cabem DEF Tipo
    <3> QED BY <3>1, <3>2, <1>4
  <2> QED BY <2>1, <2>2 DEF Pedidos
<1> HIDE DEF b, o, t
<1> DEFINE k == u - ptr[b]
<1>10. k \in Nat /\ u = ptr[b] + k /\ k < TamPagina * t
       /\ u - Destino(parte) \in 0..(Tam(modulo, parte) - 1)
  <2>1. TamPagina * t \in Nat BY <1>3, Produto
  <2> QED BY <2>1, <1>3, <1>4, <1>6, <1>7, <1>9
<1>11. ptr[b] = Endereco(Pag(b)) /\ Pags(b) \subseteq Celulas
  BY <1>8 DEF BlocosCertos
<1>12. Pag(b) \in Nat BY <1>3, Divisao DEF Pag
<1>13. u \in Nat /\ u \div TamPagina \in Pags(b)
  BY <1>3, <1>10, <1>11, <1>12, ByteNoBloco DEF Pags, t
<1>14. u \in Enderecos
  BY <1>11, <1>13, ByteExiste
<1> QED BY <1>6, <1>8, <1>10, <1>13, <1>14 DEF b

\* Two sections never share a byte.
LEMMA AreasSeparadas ==
    ASSUME Bom, fase \in {"le", "relocaTexto", "relocaDados", "executa"},
           NEW r \in Pedidos \cup {"dados"}, NEW s \in Pedidos \cup {"dados"}, r # s, NEW u \in Area(r)
    PROVE  u \notin Area(s)
<1> SUFFICES ASSUME u \in Area(s) PROVE FALSE OBVIOUS
<1>1. /\ BlocoDe(r) \in Tens /\ u \div TamPagina \in Pags(BlocoDe(r)) /\ Destino(r) \in Nat
      /\ u - Destino(r) \in 0..(Tam(modulo, r) - 1) /\ u \in Enderecos
  BY AreaNoBloco
<1>2. /\ BlocoDe(s) \in Tens /\ u \div TamPagina \in Pags(BlocoDe(s)) /\ Destino(s) \in Nat
      /\ u - Destino(s) \in 0..(Tam(modulo, s) - 1)
  BY AreaNoBloco
<1>3. BlocoDe(r) = BlocoDe(s) BY <1>1, <1>2 DEF Bom, BlocosCertos
<1>4. (r = "texto" /\ s = "dados") \/ (r = "dados" /\ s = "texto") BY <1>3 DEF BlocoDe
<1>5. modulo \in Modulos BY DEF Bom, Tipo
<1>6. Destino("dados") = ptr["texto"] + Tam(modulo, "texto") /\ Destino("texto") = ptr["texto"]
      /\ Tam(modulo, "texto") \in Nat
  BY <1>5, Tamanhos DEF Destino, Pedidos
<1>7. ptr["texto"] \in Nat /\ TamPagina \in Nat /\ u \in Int
  BY <1>1, GeometriaAssumption, ExecutavelAssumption DEF Bom, Tipo, Pedidos, Enderecos
<1> QED BY <1>1, <1>2, <1>4, <1>6, <1>7

\* In a whole file every byte of a section comes before the end.
LEMMA AntesDoFim ==
    ASSUME NEW m \in Modulos, NEW parte \in Pedidos \cup {"dados"}, NEW k \in 0..(Tam(m, parte) - 1)
    PROVE  Posicao(m, parte) + k < TamArquivo(m)
<1> DEFINE a == Tam(m, "texto")
           b == Tam(m, "dados")
           c == Tam(m, "simbolos")
           d == Tam(m, "tabTexto")
           e == Tam(m, "tabDados")
<1>1. a \in Nat /\ b \in Nat /\ c \in Nat /\ d \in Nat /\ e \in Nat BY Tamanhos DEF Pedidos
<1>2. /\ Posicao(m, "texto") = 0 /\ Posicao(m, "dados") = a /\ Posicao(m, "simbolos") = a + b
      /\ Posicao(m, "tabTexto") = a + b + c /\ Posicao(m, "tabDados") = a + b + c + d
      /\ TamArquivo(m) = a + b + c + d + e
  BY DEF Posicao, TamArquivo
<1>3. parte = "texto" \/ parte = "dados" \/ parte = "simbolos" \/ parte = "tabTexto" \/ parte = "tabDados"
  BY DEF Pedidos
<1> HIDE DEF a, b, c, d, e
<1>4. CASE parte = "texto" BY <1>1, <1>2, <1>4 DEF a
<1>5. CASE parte = "dados" BY <1>1, <1>2, <1>5 DEF b
<1>6. CASE parte = "simbolos" BY <1>1, <1>2, <1>6 DEF c
<1>7. CASE parte = "tabTexto" BY <1>1, <1>2, <1>7 DEF d
<1>8. CASE parte = "tabDados" BY <1>1, <1>2, <1>8 DEF e
<1> QED BY <1>3, <1>4, <1>5, <1>6, <1>7, <1>8

\* LeSecoes puts each byte of a whole file in its place and touches no other.
LEMMA OndeLe ==
    ASSUME Bom, limpo', LeSecoes
    PROVE  /\ \A parte \in Pedidos \cup {"dados"} : \A k \in 0..(Tam(modulo, parte) - 1) :
                  mem'[Destino(parte) + k] = Palavra(modulo, parte, k, {})
           /\ \A u \in Enderecos :
                  (\A parte \in Pedidos \cup {"dados"} : u \notin Area(parte)) => mem'[u] = mem[u]
<1> DEFINE lida(n, parte, u) ==
               u \in Area(parte) /\ Posicao(modulo, parte) + (u - Destino(parte)) < n
           escritas(n, u) == {o \in DOMAIN Leituras : lida(n, Leituras[o], u)}
           ultima(n, u)   == Leituras[CHOOSE o \in escritas(n, u) : \A q \in escritas(n, u) : q <= o]
<1>0. fase = "le" BY DEF LeSecoes
<1>1. PICK n \in Cortes \cup {TamArquivo(modulo)} :
          /\ mem' = [u \in Enderecos |-> IF escritas(n, u) = {} THEN mem[u]
                        ELSE Grava(u, Celula(modulo, ultima(n, u), u - Destino(ultima(n, u))))]
          /\ TamArquivo(modulo) <= n
  BY DEF LeSecoes
<1>2. /\ DOMAIN Leituras = 1..5
      /\ Leituras[1] = "texto" /\ Leituras[2] = "dados" /\ Leituras[3] = "simbolos"
      /\ Leituras[4] = "tabTexto" /\ Leituras[5] = "tabDados"
  BY DEF Leituras
<1>3. \A o \in 1..5 : Leituras[o] \in Pedidos \cup {"dados"} BY <1>2 DEF Pedidos
<1>4. \A o, q \in 1..5 : o # q => Leituras[o] # Leituras[q] BY <1>2
<1>5. \A parte \in Pedidos \cup {"dados"} : \E o \in 1..5 : parte = Leituras[o]
  BY <1>2 DEF Pedidos
<1>6. ASSUME NEW parte \in Pedidos \cup {"dados"}, NEW k \in 0..(Tam(modulo, parte) - 1)
      PROVE  mem'[Destino(parte) + k] = Palavra(modulo, parte, k, {})
  <2> DEFINE u == Destino(parte) + k
  <2>1. modulo \in Modulos BY <1>0 DEF Bom, Tipo
  <2>2. Tam(modulo, parte) \in Nat BY <2>1, Tamanhos
  <2>3. Destino(parte) \in Nat
    <3>1. \A b \in Pedidos : ptr[b] \in Nat BY DEF Bom, Tipo
    <3>2. Arquivo[modulo].texto \in Nat BY <2>1, ArquivoTipo
    <3> QED BY <3>1, <3>2 DEF Destino, Pedidos
  <2>4. u \in Area(parte) BY <2>2, <2>3 DEF Area
  <2>5. PICK o \in 1..5 : parte = Leituras[o] BY <1>5
  <2>6. /\ u \in Enderecos /\ BlocoDe(parte) \in Tens /\ u \div TamPagina \in Pags(BlocoDe(parte))
    BY <1>0, <2>4, AreaNoBloco
  <2>7. u - Destino(parte) = k BY <2>2, <2>3
  <2>8. Posicao(modulo, parte) + (u - Destino(parte)) < n
    <3>1. Posicao(modulo, parte) + k < TamArquivo(modulo) BY <2>1, AntesDoFim
    <3>2. /\ Posicao(modulo, parte) \in Nat /\ TamArquivo(modulo) \in Nat /\ n \in Nat
      <4>1. \A b \in Pedidos \cup {"dados"} : Tam(modulo, b) \in Nat BY <2>1, Tamanhos
      <4>2. Posicao(modulo, parte) \in Nat /\ TamArquivo(modulo) \in Nat
        BY <4>1 DEF Posicao, TamArquivo, Pedidos
      <4> QED BY <4>2, ExecutavelAssumption
    <3>3. k \in Nat BY <2>2
    <3> QED BY <1>1, <2>7, <3>1, <3>2, <3>3
  <2> HIDE DEF u
  <2>9. escritas(n, u) = {o}
    <3>1. o \in escritas(n, u) BY <1>2, <2>4, <2>5, <2>8
    <3>2. \A q \in 1..5 : q # o => u \notin Area(Leituras[q])
      BY <1>0, <1>3, <1>4, <2>4, <2>5, AreasSeparadas
    <3> QED BY <1>2, <3>1, <3>2
  <2>10. ultima(n, u) = parte
    <3>1. (CHOOSE q \in escritas(n, u) : \A r \in escritas(n, u) : r <= q) = o
      BY <2>5, <2>9
    <3> QED BY <2>5, <3>1
  <2>11. mem[u] # Ausente
    <3>1. mem[u] = Zero BY <1>0, <2>6 DEF Bom, Vazios
    <3> QED BY <3>1, Presente
  <2>12. mem'[u] = Celula(modulo, parte, k)
    <3> HIDE DEF escritas, ultima
    <3> QED BY <1>1, <2>6, <2>7, <2>9, <2>10, <2>11 DEF Grava
  <2> QED BY <2>12, CelulaNova DEF u
<1>7. ASSUME NEW u \in Enderecos, \A parte \in Pedidos \cup {"dados"} : u \notin Area(parte)
      PROVE  mem'[u] = mem[u]
  <2>1. escritas(n, u) = {} BY <1>2, <1>3, <1>7
  <2> QED BY <1>1, <2>1
<1> QED BY <1>6, <1>7

LEMMA LeSecoesBom ==
    ASSUME Bom, limpo', LeSecoes
    PROVE  Bom'
<1> DEFINE m == modulo
           texto == Arquivo[m].texto
           dados == Arquivo[m].dados
<1> USE DEF Bom
<1>1. /\ fase = "le" /\ fase' = "relocaTexto" /\ i' = 0 /\ paginas' = paginas
      /\ modulo' = modulo /\ ptr' = ptr /\ carregados' = carregados /\ antes' = antes
  BY DEF LeSecoes
<1>2. m \in Modulos BY <1>1 DEF Tipo
<1>3. Tens' = Tens
  <2>1. Feitos(fase) = Pedidos /\ Feitos(fase)' = Pedidos BY <1>1 DEF Feitos
  <2> QED BY <1>1, <2>1 DEF Tens
<1>4. Tipo'
  <2>1. mem' = [u \in Enderecos |-> mem'[u]] BY DEF LeSecoes
  <2> QED BY <1>1, <2>1 DEF Tipo, Fases
<1>5. \A d : Pags(d)' = Pags(d) /\ Pag(d)' = Pag(d) /\ Resta(d)' = Resta(d)
  BY <1>1 DEF Pags, Pag, Resta
<1>6. BlocosCertos' BY <1>1, <1>3, <1>5 DEF BlocosCertos
<1>7. UsoCerto'
  <2>1. UNION {Resta(d)' : d \in Tens'} = UNION {Resta(d) : d \in Tens} BY <1>3, <1>5
  <2> QED BY <1>1, <2>1 DEF UsoCerto
<1>8. Vazios' BY <1>1 DEF Vazios
<1>9. CarregadosCertos'
  <2>1. Firmes' = Firmes /\ Firmes = antes /\ Firmes \subseteq Celulas
    BY <1>1, FirmesNoMapa DEF Firmes
  <2>2. ASSUME NEW u \in Enderecos, u \div TamPagina \in Firmes PROVE mem'[u] = mem[u]
    <3>1. \A parte \in Pedidos \cup {"dados"} : u \notin Area(parte)
      <4> SUFFICES ASSUME NEW parte \in Pedidos \cup {"dados"}, u \in Area(parte) PROVE FALSE
        OBVIOUS
      <4>1. BlocoDe(parte) \in Tens /\ u \div TamPagina \in Pags(BlocoDe(parte)) BY <1>1, AreaNoBloco
      <4> QED BY <2>1, <2>2, <4>1 DEF BlocosCertos
    <3> QED BY <3>1, OndeLe
  <2> QED BY <1>1, <2>1, <2>2, TextosFicam
<1>10. ptr \in [Pedidos -> Nat] /\ texto \in Nat /\ dados \in Nat
  BY <1>2, ArquivoTipo DEF Tipo
<1>11. TextoLido'
  <2>1. Destino("texto") = ptr.texto /\ Tam(m, "texto") = texto
    BY <1>2, Tamanhos DEF Destino
  <2>2. \A k \in 0..(texto - 1) : mem'[ptr.texto + k] = Palavra(m, "texto", k, {})
    BY <2>1, OndeLe DEF Pedidos
  <2>3. JaTexto' = 0 BY <1>1 DEF JaTexto
  <2> QED BY <1>1, <2>2, <2>3, DevidasNenhuma DEF TextoLido
<1>12. DadosLidos'
  <2>1. Destino("dados") = ptr.texto + texto /\ Tam(m, "dados") = dados
    BY <1>2, Tamanhos DEF Destino
  <2>2. \A k \in 0..(dados - 1) : mem'[ptr.texto + texto + k] = Palavra(m, "dados", k, {})
    BY <2>1, OndeLe DEF Pedidos
  <2>3. JaDados' = 0 BY <1>1 DEF JaDados
  <2> QED BY <1>1, <2>2, <2>3, DevidasNenhuma DEF DadosLidos
<1>13. BssLida'
  <2> SUFFICES ASSUME NEW k \in (texto + dados)..(Total(m) - 1)
               PROVE  mem'[ptr.texto + k] = Zero
    BY <1>1 DEF BssLida
  <2> DEFINE u == ptr.texto + k
  <2>1. Total(m) \in Nat /\ Total(m) <= TamPagina * TamDe(m, "texto") /\ TamDe(m, "texto") \in Nat \ {0}
    BY <1>2, ArquivoTipo, Cabem, TamDeTipo DEF Pedidos
  <2>2. k \in Nat /\ k < TamPagina * TamDe(m, "texto")
    <3>1. TamPagina * TamDe(m, "texto") \in Nat BY <2>1, Produto
    <3> QED BY <2>1, <3>1, <1>10
  <2>3. "texto" \in Tens BY <1>1 DEF Tens, Feitos, Pedidos, Tem
  <2>4. /\ ptr.texto = Endereco(Pag("texto")) /\ Pags("texto") \subseteq Celulas
        /\ Pag("texto") \in Nat /\ ptr.texto \in Nat
    <3>1. ptr["texto"] \in Nat BY <1>10 DEF Pedidos
    <3> QED BY <2>3, <3>1, Divisao DEF BlocosCertos, Pag
  <2>5. u \in Nat /\ u \div TamPagina \in Pags("texto")
    BY <2>1, <2>2, <2>4, ByteNoBloco DEF Pags
  <2>6. u \in Enderecos
    BY <2>4, <2>5, ByteExiste
  <2>7. ASSUME NEW parte \in Pedidos \cup {"dados"}, u \in Area(parte) PROVE FALSE
    <3>1. /\ BlocoDe(parte) \in Tens /\ u \div TamPagina \in Pags(BlocoDe(parte))
          /\ u - Destino(parte) \in 0..(Tam(m, parte) - 1)
      BY <1>1, <2>7, AreaNoBloco
    <3>2. BlocoDe(parte) = "texto" BY <2>3, <2>5, <3>1 DEF BlocosCertos
    <3>3. parte = "texto" \/ parte = "dados" BY <3>2 DEF BlocoDe
    <3>4. /\ Destino("texto") = ptr.texto /\ Tam(m, "texto") = texto
          /\ Destino("dados") = ptr.texto + texto /\ Tam(m, "dados") = dados
      BY <1>2, Tamanhos DEF Destino
    <3> QED BY <3>1, <3>3, <3>4, <1>10, <2>2, <2>4
  <2>8. mem'[u] = mem[u] BY <2>6, <2>7, OndeLe
  <2>9. mem[u] = Zero BY <1>1, <2>3, <2>5, <2>6 DEF Vazios
  <2> QED BY <2>8, <2>9
<1>14. TabelasLidas'
  <2>1. \A k \in 0..(Tam(m, "tabTexto") - 1) : mem'[ptr.tabTexto + k] = Palavra(m, "tabTexto", k, {})
    <3>1. Destino("tabTexto") = ptr.tabTexto BY DEF Destino
    <3> QED BY <3>1, OndeLe DEF Pedidos
  <2>2. ASSUME Tam(m, "tabDados") > 0, NEW k \in 0..(TamPagina * TamDe(m, "tabDados") - 1)
        PROVE  mem'[ptr.tabDados + k] = IF k < Tam(m, "tabDados")
                                        THEN Palavra(m, "tabDados", k, {}) ELSE Zero
    <3> DEFINE u == ptr.tabDados + k
    <3>1. Destino("tabDados") = ptr.tabDados BY DEF Destino
    <3>2. Tam(m, "tabDados") \in Nat /\ TamDe(m, "tabDados") \in Nat \ {0}
      BY <1>2, Tamanhos, TamDeTipo DEF Pedidos
    <3>3. TamPagina * TamDe(m, "tabDados") \in Nat BY <3>2, Produto
    <3>4. CASE k < Tam(m, "tabDados")
      <4>1. k \in 0..(Tam(m, "tabDados") - 1) BY <3>2, <3>3, <3>4
      <4> QED BY <3>1, <3>4, <4>1, OndeLe DEF Pedidos
    <3>5. CASE ~ (k < Tam(m, "tabDados"))
      <4>1. "tabDados" \in Tens BY <1>1, <2>2 DEF Tens, Feitos, Pedidos, Tem
      <4>2. /\ ptr.tabDados = Endereco(Pag("tabDados")) /\ Pags("tabDados") \subseteq Celulas
            /\ Pag("tabDados") \in Nat /\ ptr.tabDados \in Nat
        <5>1. ptr["tabDados"] \in Nat BY <1>10 DEF Pedidos
        <5> QED BY <4>1, <5>1, Divisao DEF BlocosCertos, Pag
      <4>3. u \in Nat /\ u \div TamPagina \in Pags("tabDados")
        BY <3>2, <3>3, <4>2, ByteNoBloco DEF Pags
      <4>4. u \in Enderecos
        BY <4>2, <4>3, ByteExiste
      <4>5. ASSUME NEW parte \in Pedidos \cup {"dados"}, u \in Area(parte) PROVE FALSE
        <5>1. /\ BlocoDe(parte) \in Tens /\ u \div TamPagina \in Pags(BlocoDe(parte))
              /\ u - Destino(parte) \in 0..(Tam(m, parte) - 1)
          BY <1>1, <4>5, AreaNoBloco
        <5>2. BlocoDe(parte) = "tabDados" BY <4>1, <4>3, <5>1 DEF BlocosCertos
        <5>3. parte = "tabDados" BY <5>2 DEF BlocoDe
        <5> QED BY <5>1, <5>3, <3>1, <3>2, <3>3, <3>5, <4>2
      <4>6. mem'[u] = mem[u] BY <4>4, <4>5, OndeLe
      <4>7. mem[u] = Zero BY <1>1, <4>1, <4>3, <4>4 DEF Vazios
      <4> QED BY <3>5, <4>6, <4>7
    <3> QED BY <3>4, <3>5
  <2> QED BY <1>1, <2>1, <2>2 DEF TabelasLidas
<1>15. Contagem'
  <2>1. VezesTexto(m) \in Nat BY <1>2, Tabelas DEF VezesTexto
  <2> QED BY <1>1, <2>1 DEF Contagem
<1> QED BY <1>4, <1>6, <1>7, <1>8, <1>9, <1>11, <1>12, <1>13, <1>14, <1>15

-----------------------------------------------------------------------------
(* The relocations.                                                        *)

\* The bytes of a block are bytes of the memory, on the pages of the block.
LEMMA ByteDoBloco ==
    ASSUME Tipo, BlocosCertos, fase # "ocioso", NEW b \in Tens, NEW k \in Nat,
           k < TamPagina * TamDe(modulo, b)
    PROVE  /\ ptr[b] \in Nat /\ ptr[b] + k \in Nat
           /\ ptr[b] + k \in Enderecos /\ (ptr[b] + k) \div TamPagina \in Pags(b)
<1>1. b \in Pedidos BY FeitosEmPedidos DEF Tens
<1>2. modulo \in Modulos /\ ptr[b] \in Nat BY <1>1 DEF Tipo
<1>3. TamDe(modulo, b) \in Nat \ {0} BY <1>1, <1>2, TamDeTipo
<1>4. ptr[b] = Endereco(Pag(b)) /\ Pags(b) \subseteq Celulas BY DEF BlocosCertos
<1>5. Pag(b) \in Nat BY <1>2, Divisao DEF Pag
<1>6. ptr[b] + k \in Nat /\ (ptr[b] + k) \div TamPagina \in Pags(b)
  BY <1>3, <1>4, <1>5, ByteNoBloco DEF Pags
<1>7. ptr[b] + k \in Enderecos
  BY <1>4, <1>6, ByteExiste
<1> QED BY <1>2, <1>6, <1>7

Relocando == fase \in {"relocaTexto", "relocaDados"}

\* The program's text, data and bss are in the text block.
LEMMA ByteDoPrograma ==
    ASSUME Tipo, BlocosCertos, Relocando \/ fase = "executa", NEW k \in 0..(Total(modulo) - 1)
    PROVE  /\ "texto" \in Tens /\ ptr.texto \in Nat
           /\ ptr.texto + k \in Enderecos /\ (ptr.texto + k) \div TamPagina \in Pags("texto")
<1>1. fase \in {"relocaTexto", "relocaDados", "executa"} BY DEF Relocando
<1>2. "texto" \in Tens BY <1>1 DEF Tens, Feitos, Pedidos, Tem
<1>3. modulo \in Modulos BY <1>1 DEF Tipo
<1>4. Total(modulo) \in Nat /\ Total(modulo) <= TamPagina * TamDe(modulo, "texto")
  BY <1>3, ArquivoTipo, Cabem
<1>5. TamPagina * TamDe(modulo, "texto") \in Nat
  <2>1. TamDe(modulo, "texto") \in Nat BY <1>3, TamDeTipo DEF Pedidos
  <2> QED BY <2>1, Produto
<1>6. k \in Nat /\ k < TamPagina * TamDe(modulo, "texto") BY <1>4, <1>5
<1> QED BY <1>1, <1>2, <1>6, ByteDoBloco

\* The bytes an entry writes are those of its pointer, in its width.
LEMMA Ponteiro ==
    ASSUME NEW e \in Entradas, NEW base \in Nat
    PROVE  /\ e.alvo \in Nat
           /\ \A k \in Nat : base + k \in Escritos(e, base) <=> k - e.alvo \in 0..(Largura(e) - 1)
           /\ \A u \in Escritos(e, base) : u \in Nat /\ base + e.alvo <= u /\ u < base + e.alvo + 4
<1>1. e.alvo \in Nat BY DEF Entradas
<1>2. CASE e.tamanho = 2
  <2>1. Largura(e) = 4 BY <1>2 DEF Largura
  <2>2. Escritos(e, base) = {base + e.alvo, base + e.alvo + 1, base + e.alvo + 2, base + e.alvo + 3}
    BY <1>2 DEF Escritos
  <2>3. PICK p \in Nat : p = e.alvo BY <1>1
  <2>4. ASSUME NEW k \in Nat
        PROVE  base + k \in Escritos(e, base) <=> k - e.alvo \in 0..(Largura(e) - 1)
    <3>1. base + k \in {base + p, base + p + 1, base + p + 2, base + p + 3} <=> k - p \in 0..3
      OBVIOUS
    <3>2. Largura(e) - 1 = 3 BY <2>1
    <3> QED BY <2>2, <2>3, <3>1, <3>2
  <2>5. \A u \in {base + p, base + p + 1, base + p + 2, base + p + 3} :
            u \in Nat /\ base + p <= u /\ u < base + p + 4
    OBVIOUS
  <2> QED BY <1>1, <2>2, <2>3, <2>4, <2>5
<1>3. CASE e.tamanho # 2
  <2>1. Largura(e) = 2 BY <1>3 DEF Largura
  <2>2. Escritos(e, base) = {base + e.alvo, base + e.alvo + 1} BY <1>3 DEF Escritos
  <2>3. PICK p \in Nat : p = e.alvo BY <1>1
  <2>4. ASSUME NEW k \in Nat
        PROVE  base + k \in Escritos(e, base) <=> k - e.alvo \in 0..(Largura(e) - 1)
    <3>1. base + k \in {base + p, base + p + 1} <=> k - p \in 0..1
      OBVIOUS
    <3>2. Largura(e) - 1 = 1 BY <2>1
    <3> QED BY <2>2, <2>3, <3>1, <3>2
  <2>5. \A u \in {base + p, base + p + 1} : u \in Nat /\ base + p <= u /\ u < base + p + 4
    OBVIOUS
  <2> QED BY <1>1, <2>2, <2>3, <2>4, <2>5
<1> QED BY <1>1, <1>2, <1>3

\* Byte k of a section gains the entry's correction, when the pointer has it.
Corrigido(e, base, inicio, n, m, parte, k, s) ==
    mem[base + k] = Palavra(m, parte, k, s)
        => mem'[base + k] = Palavra(m, parte, k, s \cup DaEntrada(e, k, inicio, n))

LEMMA ByteCorrigido ==
    ASSUME NEW e \in Entradas, NEW base \in Nat, mem' = Realoca(e, base),
           NEW inicio \in Nat, ptr.texto = inicio, NEW n \in Nat, i = n,
           NEW m, NEW s, NEW parte \in {"texto", "dados"}, NEW k \in Nat, base + k \in Enderecos
    PROVE  Corrigido(e, base, inicio, n, m, parte, k, s)
<1> SUFFICES ASSUME mem[base + k] = Palavra(m, parte, k, s)
             PROVE  mem'[base + k] = Palavra(m, parte, k, s \cup DaEntrada(e, k, inicio, n))
  BY DEF Corrigido
<1> USE DEF DaEntrada
<1> DEFINE f == [n |-> n, byte |-> k - e.alvo, mais |-> IF e.relativo THEN inicio + e.alvo ELSE inicio]
<1>1. /\ e.alvo \in Nat
      /\ base + k \in Escritos(e, base) <=> k - e.alvo \in 0..(Largura(e) - 1)
  BY Ponteiro
<1>2. CASE base + k \notin Escritos(e, base)
  <2>1. mem'[base + k] = mem[base + k] BY <1>2 DEF Realoca
  <2>2. s \cup {} = s OBVIOUS
  <2> QED BY <1>1, <1>2, <2>1, <2>2
<1>3. CASE base + k \in Escritos(e, base)
  <2>1. mem'[base + k] =
            Grava(base + k, Corrige(mem[base + k],
                [n |-> i, byte |-> (base + k) - (base + e.alvo), mais |-> Parcela(e)]))
    BY <1>3 DEF Realoca
  <2>2. (base + k) - (base + e.alvo) = k - e.alvo BY <1>1
  <2>3. Parcela(e) = IF e.relativo THEN inicio + e.alvo ELSE inicio BY <1>1 DEF Parcela
  <2>4. [n |-> i, byte |-> (base + k) - (base + e.alvo), mais |-> Parcela(e)] = f BY <2>2, <2>3
  <2>5. PICK g : g = f OBVIOUS
  <2> HIDE DEF f
  <2>6. mem[base + k] # Ausente
    <3>1. parte # "ausente" OBVIOUS
    <3> QED BY <3>1, Presente
  <2>7. mem'[base + k] = Corrige(Palavra(m, parte, k, s), g)
    BY <2>1, <2>4, <2>5, <2>6 DEF Grava
  <2>8. mem'[base + k] = Palavra(m, parte, k, s \cup {g}) BY <2>7, MaisUma
  <2> QED BY <1>1, <1>3, <2>5, <2>8 DEF f
<1> QED BY <1>2, <1>3

\* A correction inside the program changes no other byte of it, no table and no
\* page of before.
LEMMA RealocaNoPrograma ==
    ASSUME Tipo, BlocosCertos, CarregadosCertos, Relocando, TabelasLidas,
           NEW e, NEW base, mem' = Realoca(e, base),
           \A u \in Escritos(e, base) : \E k \in 0..(Total(modulo) - 1) : u = ptr.texto + k,
           paginas' = paginas, modulo' = modulo, ptr' = ptr, fase' = fase, antes' = antes,
           carregados' = carregados
    PROVE  /\ mem' = [u \in Enderecos |-> mem'[u]]
           /\ \A j \in 0..(Total(modulo) - 1) :
                  ptr.texto + j \notin Escritos(e, base) => mem'[ptr.texto + j] = mem[ptr.texto + j]
           /\ TabelasLidas' /\ CarregadosCertos'
<1>1. \A u \in Escritos(e, base) :
          "texto" \in Tens /\ u \in Enderecos /\ u \div TamPagina \in Pags("texto")
  BY ByteDoPrograma
<1>2. /\ mem' = [v \in Enderecos |-> mem'[v]]
      /\ \A v \in Enderecos : v \notin Escritos(e, base) => mem'[v] = mem[v]
  BY DEF Realoca
<1>3. \A j \in 0..(Total(modulo) - 1) :
          ptr.texto + j \notin Escritos(e, base) => mem'[ptr.texto + j] = mem[ptr.texto + j]
  <2>1. \A j \in 0..(Total(modulo) - 1) : ptr.texto + j \in Enderecos BY ByteDoPrograma
  <2> QED BY <1>2, <2>1
<1>4. ASSUME NEW b \in {"tabTexto", "tabDados"}, Tam(modulo, b) > 0,
             NEW j \in Nat, j < TamPagina * TamDe(modulo, b)
      PROVE  mem'[ptr[b] + j] = mem[ptr[b] + j]
  <2>1. b \in Tens BY <1>4 DEF Tens, Feitos, Pedidos, Tem, Relocando
  <2>2. ptr[b] + j \in Enderecos /\ (ptr[b] + j) \div TamPagina \in Pags(b)
    BY <1>4, <2>1, ByteDoBloco DEF Relocando
  <2>3. ptr[b] + j \notin Escritos(e, base) BY <1>1, <2>1, <2>2 DEF BlocosCertos
  <2> QED BY <1>2, <2>2, <2>3
<1>5. TabelasLidas'
  <2>1. modulo \in Modulos /\ Regular(modulo) BY DEF Tipo, Relocando
  <2>2. /\ TamDe(modulo, "tabTexto") \in Nat /\ TamDe(modulo, "tabDados") \in Nat
        /\ Tam(modulo, "tabTexto") \in Nat
    BY <2>1, TamDeTipo, Tamanhos DEF Pedidos
  <2>3. TamPagina * TamDe(modulo, "tabTexto") \in Nat /\ TamPagina * TamDe(modulo, "tabDados") \in Nat
    BY <2>2, Produto
  <2>4. ASSUME NEW j \in 0..(Tam(modulo, "tabTexto") - 1)
        PROVE  mem'[ptr.tabTexto + j] = Palavra(modulo, "tabTexto", j, {})
    <3>1. Tam(modulo, "tabTexto") > 0 /\ j \in Nat BY <2>2
    <3>2. j < TamPagina * TamDe(modulo, "tabTexto")
      <4>1. Tam(modulo, "tabTexto") <= TamPagina * TamDe(modulo, "tabTexto") BY <2>1, Cabem
      <4> QED BY <2>2, <2>3, <4>1
    <3>3. mem'[ptr.tabTexto + j] = mem[ptr.tabTexto + j] BY <1>4, <3>1, <3>2
    <3> QED BY <3>3 DEF TabelasLidas, Relocando
  <2>5. ASSUME Tam(modulo, "tabDados") > 0, NEW j \in 0..(TamPagina * TamDe(modulo, "tabDados") - 1)
        PROVE  mem'[ptr.tabDados + j] = IF j < Tam(modulo, "tabDados")
                                        THEN Palavra(modulo, "tabDados", j, {}) ELSE Zero
    <3>1. j \in Nat /\ j < TamPagina * TamDe(modulo, "tabDados") BY <2>3
    <3>2. mem'[ptr.tabDados + j] = mem[ptr.tabDados + j] BY <1>4, <2>5, <3>1
    <3> QED BY <2>5, <3>2 DEF TabelasLidas, Relocando
  <2> QED BY <2>4, <2>5 DEF TabelasLidas
<1>6. CarregadosCertos'
  <2>1. Firmes' = Firmes /\ Firmes = antes /\ Firmes \subseteq Celulas
    BY FirmesNoMapa DEF Firmes, Relocando
  <2>2. \A v \in Enderecos : v \div TamPagina \in Firmes => mem'[v] = mem[v]
    BY <1>1, <1>2, <2>1 DEF BlocosCertos
  <2> QED BY <2>1, <2>2, TextosFicam
<1> QED BY <1>2, <1>3, <1>5, <1>6

\* The steps that move nothing and change no block.
LEMMA MapaFica ==
    ASSUME Bom, fase \in {"relocaTexto", "relocaDados"}, fase' \in {"relocaTexto", "relocaDados"},
           paginas' = paginas, modulo' = modulo, ptr' = ptr, antes' = antes
    PROVE  BlocosCertos' /\ UsoCerto' /\ Vazios' /\ Firmes' = Firmes
<1> USE DEF Bom
<1>1. Tens' = Tens
  <2>1. Feitos(fase) = Pedidos /\ Feitos(fase)' = Pedidos BY DEF Feitos
  <2> QED BY <2>1 DEF Tens
<1>2. \A d : Pags(d)' = Pags(d) /\ Pag(d)' = Pag(d) /\ Resta(d)' = Resta(d)
  BY DEF Pags, Pag, Resta
<1>3. BlocosCertos' BY <1>1, <1>2 DEF BlocosCertos
<1>4. UsoCerto'
  <2>1. UNION {Resta(d)' : d \in Tens'} = UNION {Resta(d) : d \in Tens} BY <1>1, <1>2
  <2> QED BY <2>1 DEF UsoCerto
<1> QED BY <1>3, <1>4 DEF Vazios, Firmes

LEMMA RelocaTextoBom ==
    ASSUME Bom, limpo', RelocaTexto
    PROVE  Bom'
<1> USE DEF Bom
<1>1. /\ fase = "relocaTexto" /\ fase' = "relocaTexto" /\ i' = i + 1 /\ paginas' = paginas
      /\ modulo' = modulo /\ ptr' = ptr /\ carregados' = carregados /\ antes' = antes
      /\ i < VezesTexto(modulo) /\ i \in Nat /\ Relocando
  BY DEF RelocaTexto, Relocando, Tipo
<1>2. PICK m \in Modulos : m = modulo BY <1>1 DEF Tipo
<1>3. PICK inicio \in Nat : inicio = ptr.texto BY DEF Tipo, Pedidos
<1>4. PICK n \in Nat : n = i BY <1>1
<1> DEFINE tab == Arquivo[m].tabTexto
<1>5. /\ Len(tab) \in Nat /\ n + 1 \in 1..Len(tab)
      /\ tab[n + 1] \in Entradas /\ tab[n + 1].alvo + 4 <= Arquivo[m].texto
  BY <1>1, <1>2, <1>4, Tabelas DEF VezesTexto
<1>6. PICK e \in Entradas : e = tab[n + 1] BY <1>5
<1>7. /\ Arquivo[m].texto \in Nat /\ Arquivo[m].dados \in Nat /\ Arquivo[m].bss \in Nat
      /\ Total(m) = Arquivo[m].texto + Arquivo[m].dados + Arquivo[m].bss
  BY ArquivoTipo
<1>8. mem' = Realoca(e, inicio)
  <2>1. PICK a \in Nat : a = ptr.tabTexto + 8 * n
    <3>1. ptr.tabTexto \in Nat BY DEF Tipo, Pedidos
    <3> QED BY <3>1
  <2>2. \A d \in 0..7 : a + d \in Enderecos /\ mem[a + d] = Palavra(m, "tabTexto", 8 * n + d, {})
    <3> SUFFICES ASSUME NEW d \in 0..7
                 PROVE  a + d \in Enderecos /\ mem[a + d] = Palavra(m, "tabTexto", 8 * n + d, {})
      OBVIOUS
    <3>1. Tam(m, "tabTexto") = 8 * Len(tab) BY Tamanhos
    <3>2. 8 * n + d \in 0..(Tam(m, "tabTexto") - 1) BY <1>5, <3>1
    <3>3. ptr.tabTexto + (8 * n + d) = a + d
      <4>1. ptr.tabTexto \in Nat BY DEF Tipo, Pedidos
      <4> QED BY <2>1, <4>1
    <3>4. mem[a + d] = Palavra(m, "tabTexto", 8 * n + d, {})
      BY <1>1, <1>2, <3>2, <3>3 DEF TabelasLidas
    <3>5. "tabTexto" \in Tens
      <4>1. Tam(m, "tabTexto") > 0 BY <1>5, <3>1
      <4> QED BY <1>1, <1>2, <4>1 DEF Tens, Feitos, Pedidos, Tem
    <3>6. 8 * n + d < TamPagina * TamDe(m, "tabTexto")
      <4>1. Tam(m, "tabTexto") <= TamPagina * TamDe(m, "tabTexto") BY Cabem
      <4>2. TamPagina * TamDe(m, "tabTexto") \in Nat
        <5>1. TamDe(m, "tabTexto") \in Nat BY TamDeTipo DEF Pedidos
        <5> QED BY <5>1, Produto
      <4> QED BY <1>5, <3>1, <3>2, <4>1, <4>2
    <3>7. ptr["tabTexto"] + (8 * n + d) \in Enderecos
      <4>1. 8 * n + d \in Nat BY <3>2
      <4> QED BY <1>1, <1>2, <3>5, <3>6, <4>1, ByteDoBloco
    <3> QED BY <3>3, <3>4, <3>7
  <2>3. Conhecida(a) /\ EntradaEm(a) = Arquivo[m]["tabTexto"][n + 1] BY <2>2, EntradaLida
  <2>4. ptr["tabTexto"] + TamEntrada * i = a BY <1>4, <2>1 DEF TamEntrada
  <2> QED BY <1>3, <1>6, <2>3, <2>4 DEF RelocaTexto, Volta
<1>9. /\ e.alvo \in Nat /\ e.alvo + 4 <= Arquivo[m].texto
      /\ \A k \in Nat : inicio + k \in Escritos(e, inicio) <=> k - e.alvo \in 0..(Largura(e) - 1)
      /\ \A u \in Escritos(e, inicio) : u \in Nat /\ inicio + e.alvo <= u /\ u < inicio + e.alvo + 4
  BY <1>5, <1>6, Ponteiro
<1>10. /\ mem' = [u \in Enderecos |-> mem'[u]]
       /\ \A j \in 0..(Total(modulo) - 1) :
              ptr.texto + j \notin Escritos(e, inicio) => mem'[ptr.texto + j] = mem[ptr.texto + j]
       /\ TabelasLidas' /\ CarregadosCertos'
  <2>1. \A u \in Escritos(e, inicio) : \E k \in 0..(Total(modulo) - 1) : u = ptr.texto + k
    <3> SUFFICES ASSUME NEW u \in Escritos(e, inicio)
                 PROVE  u - inicio \in 0..(Total(m) - 1) /\ u = inicio + (u - inicio)
      BY <1>2, <1>3, Zenon
    <3>1. u \in Nat /\ inicio + e.alvo <= u /\ u < inicio + e.alvo + 4 BY <1>9
    <3> QED BY <1>7, <1>9, <3>1
  <2> QED BY <1>1, <1>8, <2>1, RealocaNoPrograma
<1>11. BlocosCertos' /\ UsoCerto' /\ Vazios' BY <1>1, MapaFica
<1>12. Tipo' BY <1>1, <1>10 DEF Tipo
<1>13. TextoLido'
  <2> SUFFICES ASSUME NEW j \in 0..(Arquivo[m].texto - 1)
               PROVE  mem'[inicio + j] = Palavra(m, "texto", j, DevidasAte(tab, j, inicio, n + 1))
    BY <1>1, <1>2, <1>3, <1>4 DEF TextoLido, JaTexto
  <2>1. mem[inicio + j] = Palavra(m, "texto", j, DevidasAte(tab, j, inicio, n))
    BY <1>1, <1>2, <1>3, <1>4 DEF TextoLido, JaTexto, Lidos
  <2>2. inicio + j \in Enderecos
    <3>1. j \in 0..(Total(modulo) - 1) BY <1>2, <1>7
    <3> QED BY <1>1, <1>3, <3>1, ByteDoPrograma
  <2>3. j \in Nat OBVIOUS
  <2>4. PICK s : s = DevidasAte(tab, j, inicio, n) OBVIOUS
  <2>5. mem'[inicio + j] = Palavra(m, "texto", j, s \cup DaEntrada(e, j, inicio, n))
    <3>1. mem[inicio + j] = Palavra(m, "texto", j, s) BY <2>1, <2>4
    <3>2. Corrigido(e, inicio, inicio, n, m, "texto", j, s)
      BY <1>3, <1>4, <1>6, <1>8, <2>2, <2>3, ByteCorrigido
    <3> QED BY <3>1, <3>2 DEF Corrigido
  <2>6. DevidasAte(tab, j, inicio, n + 1) = s \cup DaEntrada(e, j, inicio, n)
    <3> HIDE DEF tab
    <3> QED BY <1>6, <2>4, DevidasMais
  <2> QED BY <2>5, <2>6
<1>14. \A j \in Arquivo[m].texto..(Total(m) - 1) :
           j \in 0..(Total(m) - 1) /\ mem'[ptr.texto + j] = mem[ptr.texto + j]
  <2> SUFFICES ASSUME NEW j \in Arquivo[m].texto..(Total(m) - 1)
               PROVE  j \in 0..(Total(m) - 1) /\ inicio + j \notin Escritos(e, inicio)
    BY <1>2, <1>3, <1>10
  <2> QED BY <1>7, <1>9
<1>15. DadosLidos'
  <2> SUFFICES ASSUME Len(tab) = Len(Arquivo[m].tabDados), NEW j \in 0..(Arquivo[m].dados - 1)
               PROVE  mem'[ptr.texto + Arquivo[m].texto + j]
                        = Palavra(m, "dados", j, DevidasAte(Arquivo[m].tabDados, j, ptr.texto, 0))
    BY <1>1, <1>2 DEF DadosLidos, JaDados
  <2>1. mem[ptr.texto + Arquivo[m].texto + j]
          = Palavra(m, "dados", j, DevidasAte(Arquivo[m].tabDados, j, ptr.texto, 0))
    BY <1>1, <1>2 DEF DadosLidos, JaDados, Lidos
  <2>2. /\ Arquivo[m].texto + j \in Arquivo[m].texto..(Total(m) - 1)
        /\ inicio + (Arquivo[m].texto + j) = inicio + Arquivo[m].texto + j
    BY <1>7
  <2> QED BY <1>3, <1>14, <2>1, <2>2
<1>16. BssLida'
  <2>1. \A j \in (Arquivo[m].texto + Arquivo[m].dados)..(Total(m) - 1) :
            j \in Arquivo[m].texto..(Total(m) - 1)
    BY <1>7
  <2> QED BY <1>1, <1>2, <1>14, <2>1 DEF BssLida, Lidos
<1>17. Contagem' BY <1>1, <1>2, <1>4, <1>5 DEF Contagem, VezesTexto
<1> QED BY <1>10, <1>11, <1>12, <1>13, <1>15, <1>16, <1>17

LEMMA TextoProntoBom ==
    ASSUME Bom, limpo', TextoPronto
    PROVE  Bom'
<1> USE DEF Bom
<1>1. /\ fase = "relocaTexto" /\ fase' = "relocaDados" /\ i' = 0 /\ paginas' = paginas
      /\ modulo' = modulo /\ ptr' = ptr /\ carregados' = carregados /\ antes' = antes
      /\ mem' = mem /\ i = Len(Arquivo[modulo].tabTexto)
  BY DEF TextoPronto, VezesTexto
<1>2. BlocosCertos' /\ UsoCerto' /\ Vazios' /\ Firmes' = Firmes BY <1>1, MapaFica
<1>3. Tipo' BY <1>1 DEF Tipo, Fases
<1>4. CarregadosCertos' BY <1>1, <1>2, FirmesNoMapa, TextosFicam
<1>5. JaTexto' = JaTexto /\ JaDados' = JaDados BY <1>1 DEF JaTexto, JaDados
<1>6. TextoLido' /\ DadosLidos' /\ BssLida' /\ TabelasLidas'
  BY <1>1, <1>5 DEF TextoLido, DadosLidos, BssLida, TabelasLidas, Lidos
<1>7. Contagem'
  <2>1. VezesDados(modulo) \in Nat BY <1>1, Tabelas DEF VezesDados, Tipo
  <2> QED BY <1>1, <2>1 DEF Contagem
<1> QED BY <1>2, <1>3, <1>4, <1>6, <1>7

LEMMA RelocaDadosBom ==
    ASSUME Bom, limpo', RelocaDados
    PROVE  Bom'
<1> USE DEF Bom
<1>1. /\ fase = "relocaDados" /\ fase' = "relocaDados" /\ i' = i + 1 /\ paginas' = paginas
      /\ modulo' = modulo /\ ptr' = ptr /\ carregados' = carregados /\ antes' = antes
      /\ i < VezesDados(modulo) /\ i \in Nat /\ Relocando
  BY DEF RelocaDados, Relocando, Tipo
<1>2. PICK m \in Modulos : m = modulo /\ Regular(m) BY <1>1 DEF Tipo
<1>3. PICK inicio \in Nat : inicio = ptr.texto BY DEF Tipo, Pedidos
<1>4. PICK n \in Nat : n = i BY <1>1
<1> DEFINE tab == Arquivo[m].tabDados
           nada == [alvo |-> 0, tamanho |-> 0, relativo |-> FALSE]
<1>5. /\ Len(tab) \in Nat /\ Len(tab) > 0 /\ Len(Arquivo[m].tabTexto) \in Nat
      /\ n < Len(Arquivo[m].tabTexto)
      /\ tab[1] \in Entradas /\ tab[1].alvo + 4 <= Arquivo[m].dados
      /\ n < Len(tab) => tab[n + 1] \in Entradas /\ tab[n + 1].alvo + 4 <= Arquivo[m].dados
  BY <1>1, <1>2, <1>4, Tabelas DEF VezesDados
<1>6. /\ Arquivo[m].texto \in Nat /\ Arquivo[m].dados \in Nat /\ Arquivo[m].bss \in Nat
      /\ Total(m) = Arquivo[m].texto + Arquivo[m].dados + Arquivo[m].bss
  BY ArquivoTipo
<1>7. PICK e \in Entradas : /\ e = (IF n < Len(tab) THEN tab[n + 1] ELSE nada)
                            /\ e.alvo + 4 <= Arquivo[m].dados
  <2>1. nada \in Entradas /\ nada.alvo = 0 BY DEF Entradas
  <2>2. 4 <= Arquivo[m].dados
    <3>1. PICK x \in Nat : x = tab[1].alvo BY <1>5 DEF Entradas
    <3> HIDE DEF tab
    <3> QED BY <1>5, <1>6, <3>1
  <2>3. CASE n < Len(tab) BY <1>5, <2>3
  <2>4. CASE ~ (n < Len(tab)) BY <2>1, <2>2, <2>4
  <2> QED BY <2>3, <2>4
<1>8. PICK base \in Nat : base = inicio + Arquivo[m].texto BY <1>6
<1>9. mem' = Realoca(e, base)
  <2>1. PICK a \in Nat : a = ptr.tabDados + 8 * n
    <3>1. ptr.tabDados \in Nat BY DEF Tipo, Pedidos
    <3> QED BY <3>1
  <2>2. Tam(m, "tabDados") = 8 * Len(tab) /\ Tam(m, "tabTexto") = 8 * Len(Arquivo[m].tabTexto)
    BY Tamanhos
  <2>3. \A d \in 0..7 : /\ a + d \in Enderecos
                        /\ mem[a + d] = IF n < Len(tab) THEN Palavra(m, "tabDados", 8 * n + d, {}) ELSE Zero
    <3> SUFFICES ASSUME NEW d \in 0..7
                 PROVE  /\ a + d \in Enderecos
                        /\ mem[a + d] = IF n < Len(tab) THEN Palavra(m, "tabDados", 8 * n + d, {}) ELSE Zero
      OBVIOUS
    <3>1. 8 * n + d \in 0..(Tam(m, "tabTexto") - 1)
      <4>1. PICK l \in Nat : l = Len(Arquivo[m].tabTexto) BY <1>5
      <4>2. n < l => 8 * n + d \in 0..(8 * l - 1) OBVIOUS
      <4> HIDE DEF tab
      <4> QED BY <1>5, <2>2, <4>1, <4>2
    <3>2. 8 * n + d \in Nat /\ 8 * n + d < TamPagina * TamDe(m, "tabDados")
          /\ TamPagina * TamDe(m, "tabDados") \in Nat
      <4>1. Tam(m, "tabTexto") <= TamPagina * TamDe(m, "tabDados") BY <1>2, <1>5, <2>2, Cabem
      <4>2. TamPagina * TamDe(m, "tabDados") \in Nat
        <5>1. TamDe(m, "tabDados") \in Nat BY TamDeTipo DEF Pedidos
        <5> QED BY <5>1, Produto
      <4> QED BY <1>5, <2>2, <3>1, <4>1, <4>2
    <3>3. ptr.tabDados + (8 * n + d) = a + d
      <4>1. ptr.tabDados \in Nat BY DEF Tipo, Pedidos
      <4> QED BY <2>1, <4>1
    <3>4. Tam(m, "tabDados") > 0 BY <1>5, <2>2
    <3>5. mem[a + d] = IF 8 * n + d < Tam(m, "tabDados")
                       THEN Palavra(m, "tabDados", 8 * n + d, {}) ELSE Zero
      <4>1. 8 * n + d \in 0..(TamPagina * TamDe(m, "tabDados") - 1) BY <3>2
      <4>2. mem[ptr.tabDados + (8 * n + d)] = IF 8 * n + d < Tam(m, "tabDados")
                       THEN Palavra(m, "tabDados", 8 * n + d, {}) ELSE Zero
        BY <1>1, <1>2, <3>4, <4>1 DEF TabelasLidas
      <4> QED BY <3>3, <4>2
    <3>6. 8 * n + d < Tam(m, "tabDados") <=> n < Len(tab)
      <4>1. PICK l \in Nat : l = Len(tab) BY <1>5
      <4>2. 8 * n + d < 8 * l <=> n < l OBVIOUS
      <4> QED BY <2>2, <4>1, <4>2
    <3>7. "tabDados" \in Tens BY <1>1, <1>2, <3>4 DEF Tens, Feitos, Pedidos, Tem
    <3>8. ptr["tabDados"] + (8 * n + d) \in Enderecos
      BY <1>1, <1>2, <3>2, <3>7, ByteDoBloco
    <3> QED BY <3>3, <3>5, <3>6, <3>8
  <2>4. Conhecida(a) /\ EntradaEm(a) = e
    <3>1. CASE n < Len(tab)
      <4>1. \A d \in 0..7 : a + d \in Enderecos /\ mem[a + d] = Palavra(m, "tabDados", 8 * n + d, {})
        BY <2>3, <3>1
      <4>2. Conhecida(a) /\ EntradaEm(a) = Arquivo[m]["tabDados"][n + 1]
        BY <4>1, EntradaLida
      <4> QED BY <1>7, <3>1, <4>2
    <3>2. CASE ~ (n < Len(tab))
      <4>1. \A d \in 0..7 : a + d \in Enderecos /\ mem[a + d] = Zero BY <2>3, <3>2
      <4>2. Conhecida(a) /\ EntradaEm(a) = nada
        BY <4>1, ZerosLidos
      <4> QED BY <1>7, <3>2, <4>2
    <3> QED BY <3>1, <3>2
  <2>5. ptr["tabDados"] + TamEntrada * i = a BY <1>4, <2>1 DEF TamEntrada
  <2> QED BY <1>2, <1>3, <1>8, <2>4, <2>5 DEF RelocaDados, Volta
<1>10. /\ e.alvo \in Nat /\ e.alvo + 4 <= Arquivo[m].dados
       /\ \A u \in Escritos(e, base) : u \in Nat /\ base + e.alvo <= u /\ u < base + e.alvo + 4
  BY <1>7, Ponteiro
<1>11. /\ mem' = [u \in Enderecos |-> mem'[u]]
       /\ \A j \in 0..(Total(modulo) - 1) :
              ptr.texto + j \notin Escritos(e, base) => mem'[ptr.texto + j] = mem[ptr.texto + j]
       /\ TabelasLidas' /\ CarregadosCertos'
  <2>1. \A u \in Escritos(e, base) : \E k \in 0..(Total(modulo) - 1) : u = ptr.texto + k
    <3> SUFFICES ASSUME NEW u \in Escritos(e, base)
                 PROVE  u - inicio \in 0..(Total(m) - 1) /\ u = inicio + (u - inicio)
      BY <1>2, <1>3, Zenon
    <3>1. u \in Nat /\ base + e.alvo <= u /\ u < base + e.alvo + 4 BY <1>10
    <3> QED BY <1>6, <1>8, <1>10, <3>1
  <2> QED BY <1>1, <1>9, <2>1, RealocaNoPrograma
<1>12. BlocosCertos' /\ UsoCerto' /\ Vazios' BY <1>1, MapaFica
<1>13. Tipo' BY <1>1, <1>11 DEF Tipo
\* Outside the data nothing changes.
<1>14. \A j \in 0..(Total(m) - 1) :
           j \notin Arquivo[m].texto..(Arquivo[m].texto + Arquivo[m].dados - 1)
             => mem'[ptr.texto + j] = mem[ptr.texto + j]
  <2> SUFFICES ASSUME NEW j \in 0..(Total(m) - 1),
                      j \notin Arquivo[m].texto..(Arquivo[m].texto + Arquivo[m].dados - 1)
               PROVE  inicio + j \notin Escritos(e, base)
    BY <1>2, <1>3, <1>11
  <2>1. j \in Nat BY <1>6
  <2> QED BY <1>6, <1>8, <1>10, <2>1
<1>15. TextoLido'
  <2>1. JaTexto' = JaTexto BY <1>1 DEF JaTexto
  <2>2. \A j \in 0..(Arquivo[m].texto - 1) :
            j \in 0..(Total(m) - 1) /\ j \notin Arquivo[m].texto..(Arquivo[m].texto + Arquivo[m].dados - 1)
    BY <1>6
  <2>3. \A j \in 0..(Arquivo[m].texto - 1) : mem'[ptr.texto + j] = mem[ptr.texto + j] BY <1>14, <2>2
  <2> QED BY <1>1, <1>2, <2>1, <2>3 DEF TextoLido, Lidos
<1>16. DadosLidos'
  <2> SUFFICES ASSUME Len(Arquivo[m].tabTexto) = Len(tab), NEW j \in 0..(Arquivo[m].dados - 1)
               PROVE  mem'[base + j] = Palavra(m, "dados", j, DevidasAte(tab, j, inicio, n + 1))
    BY <1>1, <1>2, <1>3, <1>4, <1>8 DEF DadosLidos, JaDados
  <2>1. mem[base + j] = Palavra(m, "dados", j, DevidasAte(tab, j, inicio, n))
    BY <1>1, <1>2, <1>3, <1>4, <1>8 DEF DadosLidos, JaDados, Lidos
  <2>2. base + j \in Enderecos
    <3>1. Arquivo[m].texto + j \in 0..(Total(m) - 1) BY DadosNoPrograma
    <3>2. inicio + (Arquivo[m].texto + j) = base + j BY <1>6, <1>8
    <3>3. ptr.texto + (Arquivo[m].texto + j) \in Enderecos BY <1>1, <1>2, <3>1, ByteDoPrograma
    <3> QED BY <1>3, <3>2, <3>3
  <2>3. j \in Nat OBVIOUS
  <2>4. PICK s : s = DevidasAte(tab, j, inicio, n) OBVIOUS
  <2>5. e = tab[n + 1] BY <1>5, <1>7
  <2>6. mem'[base + j] = Palavra(m, "dados", j, s \cup DaEntrada(e, j, inicio, n))
    <3>1. mem[base + j] = Palavra(m, "dados", j, s) BY <2>1, <2>4
    <3> HIDE DEF tab, nada
    <3>2. Corrigido(e, base, inicio, n, m, "dados", j, s)
      BY <1>3, <1>4, <1>7, <1>8, <1>9, <2>2, <2>3, ByteCorrigido
    <3> QED BY <3>1, <3>2 DEF Corrigido
  <2>7. DevidasAte(tab, j, inicio, n + 1) = s \cup DaEntrada(e, j, inicio, n)
    <3> HIDE DEF tab
    <3> QED BY <2>4, <2>5, DevidasMais
  <2> QED BY <2>6, <2>7
<1>17. BssLida'
  <2>1. \A j \in (Arquivo[m].texto + Arquivo[m].dados)..(Total(m) - 1) :
            j \in 0..(Total(m) - 1) /\ j \notin Arquivo[m].texto..(Arquivo[m].texto + Arquivo[m].dados - 1)
    BY <1>6
  <2>2. \A j \in (Arquivo[m].texto + Arquivo[m].dados)..(Total(m) - 1) :
            mem'[ptr.texto + j] = mem[ptr.texto + j]
    BY <1>14, <2>1
  <2> QED BY <1>1, <1>2, <2>2 DEF BssLida, Lidos
<1>18. Contagem'
  <2>1. VezesDados(m) \in Nat BY <1>5 DEF VezesDados
  <2> QED BY <1>1, <1>2, <2>1 DEF Contagem
<1> QED BY <1>11, <1>12, <1>13, <1>15, <1>16, <1>17, <1>18

-----------------------------------------------------------------------------
(* The end of a load.                                                      *)

\* Each of the three releases takes the first page of its block, if there is a
\* block and the page is one of the array.
LEMMA LiberaSeEfeito ==
    ASSUME NEW m, NEW b, NEW mapa \in Mapas
    PROVE  /\ LiberaSe(m, b, mapa) \in Mapas
           /\ EmUso(LiberaSe(m, b, mapa)) = EmUso(mapa) \ {p \in {Pag(b)} \cap Paginas : Tam(m, b) > 0}
<1>1. CASE Tam(m, b) > 0 /\ Pag(b) \in Paginas
  <2>1. LiberaSe(m, b, mapa) = LiberaPagina(mapa, Pag(b)) BY <1>1 DEF LiberaSe, Pag
  <2>2. {p \in {Pag(b)} \cap Paginas : Tam(m, b) > 0} = {Pag(b)}
    <3> HIDE DEF Pag
    <3> QED BY <1>1
  <2> HIDE DEF Pag
  <2> QED BY <1>1, <2>1, <2>2, UsoAoLiberar
<1>2. CASE Tam(m, b) > 0 /\ Pag(b) \notin Paginas
  <2>1. LiberaSe(m, b, mapa) = LiberaPagina(mapa, Pag(b)) BY <1>2 DEF LiberaSe, Pag
  <2>2. {p \in {Pag(b)} \cap Paginas : Tam(m, b) > 0} = {}
    <3> HIDE DEF Pag
    <3> QED BY <1>2
  <2> HIDE DEF Pag
  <2> QED BY <1>2, <2>1, <2>2 DEF LiberaPagina
<1>3. CASE ~ (Tam(m, b) > 0) BY <1>3 DEF LiberaSe
<1> QED BY <1>1, <1>2, <1>3

LEMMA LiberaBom ==
    ASSUME Bom, limpo', LiberaExtras
    PROVE  Bom'
<1> DEFINE m == modulo
           Sai(b) == {p \in {Pag(b)} \cap Paginas : Tam(m, b) > 0}
           m1 == LiberaSe(m, "simbolos", paginas)
           m2 == LiberaSe(m, "tabTexto", m1)
           m3 == LiberaSe(m, "tabDados", m2)
<1> USE DEF Bom
<1>1. /\ fase = "relocaDados" /\ fase' = "executa" /\ i' = 0 /\ i = VezesDados(m)
      /\ modulo' = modulo /\ ptr' = ptr /\ carregados' = carregados /\ antes' = antes
      /\ mem' = mem /\ paginas' = m3
  BY DEF LiberaExtras
<1>2. m \in Modulos BY <1>1 DEF Tipo
<1>3. /\ \A b \in Tens : b \in Pedidos
      /\ \A b \in Pedidos : b \in Tens <=> b = "texto" \/ Tam(m, b) > 0
      /\ Tens' = Tens
  <2>1. Feitos(fase) = Pedidos /\ Feitos(fase)' = Pedidos BY <1>1 DEF Feitos
  <2> QED BY <1>1, <2>1 DEF Tens, Tem
<1>4. \A b \in Pedidos : Pag(b) \in Nat /\ Pag(b) \in Pags(b) BY <1>1, PagNoBloco
<1>6. /\ m1 \in Mapas /\ EmUso(m1) = EmUso(paginas) \ Sai("simbolos")
  <2>1. paginas \in Mapas BY DEF Tipo
  <2> QED BY <2>1, LiberaSeEfeito
<1> HIDE DEF m1
<1>7. m2 \in Mapas /\ EmUso(m2) = EmUso(m1) \ Sai("tabTexto") BY <1>6, LiberaSeEfeito
<1> HIDE DEF m2
<1>8. m3 \in Mapas /\ EmUso(m3) = EmUso(m2) \ Sai("tabDados") BY <1>7, LiberaSeEfeito
<1> HIDE DEF m3
<1>9. Tipo' BY <1>1, <1>8 DEF Tipo, Fases
<1>10. \A d : Pags(d)' = Pags(d) /\ Pag(d)' = Pag(d) BY <1>1 DEF Pags, Pag
<1>11. BlocosCertos' BY <1>1, <1>3, <1>10 DEF BlocosCertos
<1>12. UsoCerto'
  <2>1. /\ \A d : Resta(d) = Pags(d)
        /\ \A d : Resta(d)' = IF d # "texto" /\ Pag(d) \in Paginas THEN Pags(d) \ {Pag(d)} ELSE Pags(d)
    BY <1>1, <1>10 DEF Resta
  <2>2. EmUso(paginas) = antes \cup UNION {Pags(d) : d \in Tens}
    BY <1>1, <2>1 DEF UsoCerto
  <2>3. EmUso(paginas') = EmUso(paginas) \ {p \in {Pag(d) : d \in Tens} : p # Pag("texto") /\ p \in Paginas}
    <3>1. EmUso(paginas') = EmUso(paginas) \ (Sai("simbolos") \cup Sai("tabTexto") \cup Sai("tabDados"))
      BY <1>1, <1>6, <1>7, <1>8
    <3>2. Sai("simbolos") \cup Sai("tabTexto") \cup Sai("tabDados")
            = {p \in {Pag(d) : d \in Tens} : p # Pag("texto") /\ p \in Paginas}
      <4>1. "texto" \in Tens /\ "texto" \in Pedidos BY <1>3 DEF Pedidos
      <4>2. \A d \in Tens : d # "texto" => Pag(d) # Pag("texto")
        BY <1>3, <1>4, <4>1 DEF BlocosCertos
      <4>3. /\ \A p \in Sai("simbolos") : p = Pag("simbolos") /\ "simbolos" \in Tens /\ p \in Paginas
            /\ \A p \in Sai("tabTexto") : p = Pag("tabTexto") /\ "tabTexto" \in Tens /\ p \in Paginas
            /\ \A p \in Sai("tabDados") : p = Pag("tabDados") /\ "tabDados" \in Tens /\ p \in Paginas
        BY <1>3 DEF Pedidos
      <4>4. ASSUME NEW d \in Tens, d # "texto", Pag(d) \in Paginas
            PROVE  Pag(d) \in Sai("simbolos") \cup Sai("tabTexto") \cup Sai("tabDados")
        BY <1>3, <4>4 DEF Pedidos
      <4> HIDE DEF Sai
      <4> QED BY <4>2, <4>3, <4>4
    <3> QED BY <3>1, <3>2
  <2>4. \A d \in Tens, e \in Tens : Pag(e) \in Pags(d) => e = d
    BY <1>3, <1>4 DEF BlocosCertos
  <2>5. \A d \in Tens : Pag(d) \notin antes BY <1>3, <1>4 DEF BlocosCertos
  <2>6. "texto" \in Tens BY <1>3 DEF Pedidos
  <2>7. \A d \in Tens : Pag(d) = Pag("texto") => d = "texto" BY <1>3, <1>4, <2>4, <2>6
  <2>8. EmUso(paginas') = antes \cup UNION {Resta(d)' : d \in Tens}
    <3>1. ASSUME NEW p \in EmUso(paginas') PROVE p \in antes \cup UNION {Resta(d)' : d \in Tens}
      BY <2>1, <2>2, <2>3, <2>7
    <3>2. ASSUME NEW p \in antes PROVE p \in EmUso(paginas')
      BY <2>2, <2>3, <2>5
    <3>3. ASSUME NEW d \in Tens, NEW p \in Resta(d)' PROVE p \in EmUso(paginas')
      <4>1. p \in Pags(d) /\ (d = "texto" \/ p # Pag(d) \/ p \notin Paginas) BY <2>1
      <4>2. p \in EmUso(paginas) BY <2>2, <4>1
      <4>3. \A e \in Tens : e # "texto" => p # Pag(e) \/ p \notin Paginas BY <2>4, <4>1
      <4> QED BY <2>3, <4>2, <4>3
    <3> QED BY <3>1, <3>2, <3>3
  <2> QED BY <1>1, <1>3, <2>8 DEF UsoCerto
<1>13. CarregadosCertos'
  <2>1. Firmes' = Firmes /\ Firmes \subseteq Celulas BY <1>1, FirmesNoMapa DEF Firmes
  <2> QED BY <1>1, <2>1, TextosFicam
<1>14. TextoLido' /\ BssLida'
  <2>1. JaTexto' = JaTexto BY <1>1 DEF JaTexto
  <2> QED BY <1>1, <2>1 DEF TextoLido, BssLida, Lidos
<1>15. DadosLidos'
  <2> SUFFICES ASSUME Len(Arquivo[m].tabTexto) = Len(Arquivo[m].tabDados) PROVE DadosLidos'
    BY <1>1 DEF DadosLidos
  <2>1. Len(Arquivo[m].tabDados) \in Nat BY <1>2, Tabelas
  <2>2. i = Len(Arquivo[m].tabDados) BY <1>1, <2>1 DEF VezesDados
  <2>3. JaDados' = JaDados BY <1>1, <2>2 DEF JaDados
  <2> QED BY <1>1, <2>3 DEF DadosLidos, Lidos
<1>16. Vazios' /\ TabelasLidas' /\ Contagem' BY <1>1 DEF Vazios, TabelasLidas, Contagem
<1> QED BY <1>9, <1>11, <1>12, <1>13, <1>14, <1>15, <1>16

\* What is executed is whole.
LEMMA TextoExecutado ==
    ASSUME Bom, fase = "executa"
    PROVE  TextoCerto(modulo, ptr.texto)
<1>1. modulo \in Modulos BY DEF Bom, Tipo
<1>2. \A k \in 0..(Arquivo[modulo].texto - 1) :
          mem[ptr.texto + k] = Palavra(modulo, "texto", k, Devidas(Arquivo[modulo].tabTexto, k, ptr.texto))
  BY <1>1, DevidasTodas DEF Bom, TextoLido, Lidos, JaTexto
<1> QED BY <1>2 DEF TextoCerto, Palavra, Corrigida

LEMMA ExecutaBom ==
    ASSUME Bom, limpo', Executa
    PROVE  Bom'
<1> USE DEF Bom
<1>1. /\ fase = "executa" /\ fase' = "ocioso" /\ i' = i
      /\ modulo' = modulo /\ ptr' = ptr /\ antes' = antes /\ mem' = mem /\ paginas' = paginas
      /\ carregados' = carregados \cup {[modulo |-> modulo, inicio |-> ptr.texto]}
  BY DEF Executa
<1>2. modulo \in Modulos BY <1>1 DEF Tipo
<1>3. Tipo' BY <1>1 DEF Tipo, Fases
<1>4. Tens' = {} BY <1>1 DEF Tens, Feitos
<1>5. /\ "texto" \in Tens /\ ptr.texto \in Nat
  BY <1>1 DEF Tipo, Tens, Feitos, Tem, Pedidos
<1>6. EmUso(paginas) = antes \cup UNION {Resta(b) : b \in Tens} BY <1>1 DEF UsoCerto
<1>7. antes \subseteq EmUso(paginas) /\ Pags("texto") \subseteq EmUso(paginas)
  BY <1>5, <1>6 DEF Resta
<1>8. Firmes = antes /\ Firmes' = EmUso(paginas) BY <1>1 DEF Firmes
<1>9. CarregadosCertos'
  <2> SUFFICES ASSUME NEW c \in carregados'
               PROVE  /\ c.modulo \in Modulos
                      /\ c.inicio \in Nat /\ c.inicio = Endereco(c.inicio \div TamPagina)
                      /\ Bloco(c.inicio \div TamPagina, TamDe(c.modulo, "texto")) \subseteq EmUso(paginas)
                      /\ TextoCerto(c.modulo, c.inicio)'
    BY <1>8 DEF CarregadosCertos
  <2>1. CASE c \in carregados
    <3>1. /\ c.modulo \in Modulos
          /\ c.inicio \in Nat /\ c.inicio = Endereco(c.inicio \div TamPagina)
          /\ Bloco(c.inicio \div TamPagina, TamDe(c.modulo, "texto")) \subseteq antes
          /\ TextoCerto(c.modulo, c.inicio)
      BY <1>8, <2>1 DEF CarregadosCertos
    <3>2. TextoCerto(c.modulo, c.inicio)' BY <1>1, <3>1 DEF TextoCerto
    <3> QED BY <1>7, <3>1, <3>2
  <2>2. CASE c = [modulo |-> modulo, inicio |-> ptr.texto]
    <3>1. c.modulo = modulo /\ c.inicio = ptr.texto BY <2>2
    <3>2. ptr.texto = Endereco(Pag("texto")) BY <1>5 DEF BlocosCertos
    <3>3. TextoCerto(modulo, ptr.texto)
      BY <1>1, TextoExecutado
    <3>4. TextoCerto(c.modulo, c.inicio)' BY <1>1, <3>1, <3>3 DEF TextoCerto
    <3>5. Bloco(c.inicio \div TamPagina, TamDe(c.modulo, "texto")) = Pags("texto")
      BY <3>1 DEF Pags, Pag
    <3> QED BY <1>2, <1>5, <1>7, <3>1, <3>2, <3>4, <3>5 DEF Pag
  <2> QED BY <1>1, <2>1, <2>2
<1>10. BlocosCertos' /\ UsoCerto' /\ Vazios' BY <1>1, <1>4 DEF BlocosCertos, UsoCerto, Vazios
<1>11. NadaLido' BY <1>1, AntesDeLer DEF NadaLido, TextoLido, DadosLidos, BssLida, TabelasLidas, Contagem, Lidos
<1> QED BY <1>3, <1>9, <1>10, <1>11 DEF NadaLido

-----------------------------------------------------------------------------
(* The theorems.                                                           *)

\* No step makes up for a failed allocation, a short file or an irregular header.
LEMMA LimpoNaoVolta ==
    ASSUME limpo \in BOOLEAN, [Next]_vars
    PROVE  limpo' \in BOOLEAN /\ (limpo' => limpo)
<1>1. ASSUME NEW m \in Modulos, LeCabecalho(m) PROVE limpo' \in BOOLEAN /\ (limpo' => limpo)
  <2>1. limpo' = (limpo /\ Regular(m)) BY <1>1 DEF LeCabecalho
  <2> QED BY <2>1, Zenon
<1>2. ASSUME NEW b \in DOMAIN Depois, Aloca(b) PROVE limpo' \in BOOLEAN /\ (limpo' => limpo)
  <2>1. CASE Pula(b) BY <2>1 DEF Pula
  <2>2. CASE AlocaBloco(b)
    <3>1. PICK dentro : limpo' = (limpo /\ \A u \in dentro : mem[u] # Ausente)
      BY <2>2 DEF AlocaBloco
    <3> QED BY <3>1, Zenon
  <2>3. CASE AlocaBlocoFalha(b) BY <2>3 DEF AlocaBlocoFalha
  <2> QED BY <1>2, <2>1, <2>2, <2>3 DEF Aloca
<1>3. CASE LeSecoes
  <2>1. PICK n : limpo' = (limpo /\ TamArquivo(modulo) <= n) BY <1>3 DEF LeSecoes
  <2> QED BY <2>1, Zenon
<1>4. CASE RelocaTexto \/ TextoPronto \/ RelocaDados \/ LiberaExtras \/ Executa
  <2>1. limpo' = limpo
    BY <1>4 DEF RelocaTexto, TextoPronto, RelocaDados, LiberaExtras, Executa
  <2> QED BY <2>1
<1>5. CASE UNCHANGED vars BY <1>5 DEF vars
<1> QED BY <1>1, <1>2, <1>3, <1>4, <1>5 DEF Next, Passo

LEMMA PassoBom ==
    ASSUME Bom, limpo', [Next]_vars
    PROVE  Bom'
<1>1. ASSUME NEW m \in Modulos, LeCabecalho(m) PROVE Bom' BY <1>1, CabecalhoBom
<1>2. ASSUME NEW b \in DOMAIN Depois, Aloca(b) PROVE Bom'
  <2>1. ~ AlocaBlocoFalha(b) BY DEF AlocaBlocoFalha
  <2> QED BY <1>2, <2>1, PulaBom, AlocaBom DEF Aloca
<1>3. CASE LeSecoes BY <1>3, LeSecoesBom
<1>4. CASE RelocaTexto BY <1>4, RelocaTextoBom
<1>5. CASE TextoPronto BY <1>5, TextoProntoBom
<1>6. CASE RelocaDados BY <1>6, RelocaDadosBom
<1>7. CASE LiberaExtras BY <1>7, LiberaBom
<1>8. CASE Executa BY <1>8, ExecutaBom
<1>9. CASE UNCHANGED vars
  <2>1. /\ paginas' = paginas /\ mem' = mem /\ fase' = fase /\ modulo' = modulo /\ ptr' = ptr
        /\ i' = i /\ carregados' = carregados /\ antes' = antes
    BY <1>9 DEF vars
  <2>2. Tens' = Tens /\ Firmes' = Firmes /\ JaTexto' = JaTexto /\ JaDados' = JaDados
    BY <2>1 DEF Tens, Firmes, JaTexto, JaDados
  <2>3. \A d : Pags(d)' = Pags(d) /\ Pag(d)' = Pag(d) /\ Resta(d)' = Resta(d)
    BY <2>1 DEF Pags, Pag, Resta
  <2>4. Tipo' /\ TextoLido' /\ DadosLidos' /\ BssLida' /\ TabelasLidas' /\ Contagem'
    BY <2>1, <2>2 DEF Bom, Tipo, TextoLido, DadosLidos, BssLida, TabelasLidas, Contagem
  <2>5. BlocosCertos' /\ Vazios' BY <2>1, <2>2, <2>3 DEF Bom, BlocosCertos, Vazios
  <2>6. UsoCerto'
    <3>1. UNION {Resta(d)' : d \in Tens'} = UNION {Resta(d) : d \in Tens} BY <2>2, <2>3
    <3> QED BY <2>1, <3>1 DEF Bom, UsoCerto
  <2>7. CarregadosCertos' BY <2>1, <2>2, FirmesNoMapa, TextosFicam DEF Bom
  <2> QED BY <2>4, <2>5, <2>6, <2>7 DEF Bom
<1> QED BY <1>1, <1>2, <1>3, <1>4, <1>5, <1>6, <1>7, <1>8, <1>9 DEF Next, Passo

LEMMA Indutivo == Spec => []IInv
<1>1. Init => IInv BY InicioBom DEF IInv, Init
<1>2. IInv /\ [Next]_vars => IInv' BY LimpoNaoVolta, PassoBom DEF IInv
<1> QED BY <1>1, <1>2, PTL DEF Spec

\* Executavel.c:107-147: a module that is executed is the text of its file, each
\* pointer corrected once, in its width, by its entry of the table, and no later
\* load changes it.
THEOREM TextoSempreIntacto == Spec => []TextosIntactos
<1>1. IInv => TextosIntactos
  <2> SUFFICES ASSUME IInv, limpo PROVE /\ fase = "executa" => TextoCerto(modulo, ptr.texto)
                                        /\ \A c \in carregados : TextoCerto(c.modulo, c.inicio)
    BY DEF TextosIntactos
  <2> QED BY TextoExecutado DEF IInv, Bom, CarregadosCertos
<1> QED BY <1>1, Indutivo, PTL

\* Executavel.c:149-182: with tables of one size, the data are relocated once by
\* each entry of theirs.
THEOREM DadosRelocadosIguais == Spec => []DadosDeTabelasIguais
<1>1. IInv => DadosDeTabelasIguais
  <2> SUFFICES ASSUME IInv, limpo, fase = "executa",
                      Len(Arquivo[modulo].tabTexto) = Len(Arquivo[modulo].tabDados)
               PROVE  DadosCertos(modulo, ptr.texto)
    BY DEF DadosDeTabelasIguais
  <2>1. modulo \in Modulos BY DEF IInv, Bom, Tipo
  <2>2. \A k \in 0..(Arquivo[modulo].dados - 1) :
            mem[ptr.texto + Arquivo[modulo].texto + k]
              = Palavra(modulo, "dados", k, Devidas(Arquivo[modulo].tabDados, k, ptr.texto))
    BY <2>1, DevidasTodas DEF IInv, Bom, DadosLidos, Lidos, JaDados
  <2> QED BY <2>2 DEF DadosCertos, Palavra, Corrigida
<1> QED BY <1>1, Indutivo, PTL

\* Memoria.c:120-124 and Executavel.c:98-110: the bss is zero because the
\* allocator cleared its pages and nothing else is read there.
THEOREM BssSempreZerada == Spec => []BssZerada
<1>1. IInv => BssZerada BY DEF IInv, Bom, BssLida, BssZerada, Lidos
<1> QED BY <1>1, Indutivo, PTL

\* Executavel.c:184-186: the releases at the end of a load give back the pages
\* whose addresses were kept and none of those in use before it nor of a text
\* that was executed.
THEOREM ExtrasDevolvidos == Spec => []SoExtrasLiberados
<1>1. ASSUME IInv, limpo, NEW c \in carregados
      PROVE  PaginasDoTexto(c.modulo, c.inicio) \subseteq EmUso(paginas)
  <2>1. Bloco(c.inicio \div TamPagina, TamDe(c.modulo, "texto")) \subseteq Firmes
    BY <1>1 DEF IInv, Bom, CarregadosCertos
  <2>2. Firmes \subseteq EmUso(paginas) BY <1>1 DEF Firmes, IInv, Bom, UsoCerto
  <2> QED BY <2>1, <2>2 DEF PaginasDoTexto, TamDe
<1>2. ASSUME IInv, limpo, fase = "executa"
      PROVE  /\ antes \cup PaginasDoTexto(modulo, ptr.texto) \subseteq EmUso(paginas)
             /\ \A b \in {"simbolos", "tabTexto", "tabDados"} :
                    Tam(modulo, b) > 0 /\ PaginaDe(b) \in Paginas => paginas[PaginaDe(b)] = VAZIO
  <2>1. Bom /\ modulo \in Modulos BY <1>2 DEF IInv, Bom, Tipo
  <2>2. EmUso(paginas) = antes \cup UNION {Resta(b) : b \in Tens} BY <1>2, <2>1 DEF Bom, UsoCerto
  <2>3. \A b \in Pedidos : b \in Tens <=> b = "texto" \/ Tam(modulo, b) > 0
    <3>1. Feitos(fase) = Pedidos BY <1>2 DEF Feitos
    <3> QED BY <3>1 DEF Tens, Tem
  <2>4. antes \cup PaginasDoTexto(modulo, ptr.texto) \subseteq EmUso(paginas)
    <3>1. "texto" \in Tens BY <2>3 DEF Pedidos
    <3>2. Resta("texto") = PaginasDoTexto(modulo, ptr.texto)
      BY DEF Resta, Pags, Pag, PaginasDoTexto, TamDe
    <3> QED BY <2>2, <3>1, <3>2
  <2>5. ASSUME NEW b \in {"simbolos", "tabTexto", "tabDados"}, Tam(modulo, b) > 0, PaginaDe(b) \in Paginas
        PROVE  paginas[PaginaDe(b)] = VAZIO
    <3>1. b \in Pedidos /\ b # "texto" BY DEF Pedidos
    <3>2. b \in Tens BY <2>3, <2>5, <3>1
    <3>3. PaginaDe(b) = Pag(b) BY DEF PaginaDe, Pag
    <3>4. Pag(b) \in Pags(b) BY <1>2, <2>1, <3>1, PagNoBloco DEF Bom
    <3>5. Pag(b) \notin antes BY <2>1, <3>2, <3>4 DEF Bom, BlocosCertos
    <3>6. ASSUME NEW d \in Tens PROVE Pag(b) \notin Resta(d)
      <4>1. CASE d = b BY <1>2, <2>5, <3>1, <3>3, <4>1 DEF Resta
      <4>2. CASE d # b
        <5>1. Pags(d) \cap Pags(b) = {} BY <2>1, <3>2, <4>2 DEF Bom, BlocosCertos
        <5>2. Resta(d) \subseteq Pags(d) BY DEF Resta
        <5> QED BY <3>4, <5>1, <5>2
      <4> QED BY <4>1, <4>2
    <3>7. Pag(b) \notin EmUso(paginas) BY <2>2, <3>5, <3>6
    <3>8. Pag(b) \in Celulas
      <4>1. Paginas \subseteq Celulas BY GeometriaAssumption DEF Celulas, Paginas
      <4> QED BY <2>5, <3>3, <4>1
    <3> QED BY <3>3, <3>7, <3>8 DEF EmUso
  <2> QED BY <2>4, <2>5
<1>3. IInv => SoExtrasLiberados BY <1>1, <1>2 DEF SoExtrasLiberados
<1> QED BY <1>3, Indutivo, PTL
=============================================================================
