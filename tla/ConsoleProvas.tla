---------------------------- MODULE ConsoleProvas ----------------------------
(***************************************************************************)
(* Theorems about Console.tla, whatever the size of the screen, the        *)
(* characters and the moments of the interrupts: nothing is written        *)
(* outside the screen, and a character with no interrupt inside does what  *)
(* the user expects of it.                                                 *)
(***************************************************************************)
EXTENDS Console, Integers, TLAPS

-----------------------------------------------------------------------------
(* Positions.                                                              *)

\* A line and a column give a cell.
LEMMA CelulaDe ==
    ASSUME NEW l \in 0..(Linhas - 1), NEW c \in 0..(Colunas - 1)
    PROVE  l * Colunas + c \in Celulas
<1>1. Colunas \in Nat /\ Linhas \in Nat BY ConsoleAssumption
<1>2. l * Colunas <= (Linhas - 1) * Colunas BY <1>1, SMT
<1>3. (Linhas - 1) * Colunas + Colunas = Colunas * Linhas BY <1>1, SMT
<1>4. l * Colunas \in Nat BY <1>1, SMT
<1>5. (Linhas - 1) * Colunas \in Int /\ Colunas * Linhas \in Int BY <1>1, SMT
<1>6. l * Colunas + c < Colunas * Linhas BY <1>1, <1>2, <1>3, <1>4, <1>5
<1> QED BY <1>1, <1>4, <1>5, <1>6 DEF Celulas

\* The last line starts after the first one and ends with the screen.
LEMMA UltimaLinhaDentro ==
    /\ UltimaLinha \in Nat \ {0}
    /\ Colunas * Linhas \in Nat
    /\ UltimaLinha + Colunas = Colunas * Linhas
<1>1. Colunas \in Nat \ {0} /\ Linhas \in Nat \ {0, 1} BY ConsoleAssumption
<1>2. Colunas * (Linhas - 1) >= Colunas BY <1>1, SMT
<1>3. Colunas * (Linhas - 1) \in Nat /\ Colunas * Linhas \in Nat BY <1>1, SMT
<1>4. Colunas * (Linhas - 1) + Colunas = Colunas * Linhas BY <1>1, SMT
<1> QED BY <1>1, <1>2, <1>3, <1>4 DEF UltimaLinha

-----------------------------------------------------------------------------
(* The invariant.                                                          *)

\* Statements after _VT_Calc has looked at _VT_X.
Depois == {"desce", "baixa", "rola", "copia", "limpa", "sobe", "linha", "coluna", "poe",
           "avanca", "fim", "soma", "cursor"}

\* Statements after the scrolling loop.
Firme == {"linha", "coluna", "poe", "avanca", "fim", "soma", "cursor"}

Rolando == {"copia", "limpa", "sobe"}

\* _VT_X is past the last column only until the next look at it sets it back.
XCerto ==
    /\ x = Colunas => \E k \in Contextos : q[k].fase \in {"calc", "zera"}
    /\ q["nmi"].fase \in Depois => x < Colunas

\* _VT_Y is on the screen for the code that is after the loop.  The interrupted code
\* may find it elsewhere only while the handler is inside a character.
YFirme ==
    /\ q["nmi"].fase \in Firme => y < Linhas
    /\ q["principal"].fase \in Firme /\ q["nmi"].fase \in {"ocioso", "escape"} => y < Linhas

\* The handler may take a line back while the interrupted code is about to take
\* back the same one: _VT_Y never goes below 0 because there is one to spare.
YAlto ==
    /\ q["nmi"].fase \in Rolando => y >= Linhas
    /\ q["principal"].fase \in Rolando => y >= Linhas - 1

\* The variables of each call.
Locais ==
    \A k \in Contextos :
        /\ q[k].fase = "copia" => q[k].i < UltimaLinha
        /\ q[k].fase = "limpa" => q[k].i < Colunas
        /\ q[k].fase \in {"coluna", "soma"} => \E l \in 0..(Linhas - 1) : q[k].e = l * Colunas
        /\ q[k].fase \in {"poe", "cursor"} => q[k].e \in Celulas

Dentro == TypeOK /\ XCerto /\ YFirme /\ YAlto /\ Locais

-----------------------------------------------------------------------------
(* The steps.                                                              *)

\* Going to another statement.
LEMMA VaiTipo ==
    ASSUME TypeOK, NEW k \in Contextos, NEW f \in Fases, Vai(k, f)
    PROVE  q' \in [Contextos -> Chamadas]
BY DEF TypeOK, Vai, Chamadas

\* A turn of one of the two loops of _VT_Calc.
LEMMA ContaTipo ==
    ASSUME TypeOK, NEW k \in Contextos, q' = [q EXCEPT ![k].i = @ + 1]
    PROVE  q' \in [Contextos -> Chamadas]
<1>1. q[k] \in Chamadas BY DEF TypeOK
<1>2. q[k].i + 1 \in Nat BY <1>1 DEF Chamadas
<1>3. [q[k] EXCEPT !.i = q[k].i + 1] \in Chamadas BY <1>1, <1>2, Zenon DEF Chamadas
<1>4. q' = [q EXCEPT ![k] = [q[k] EXCEPT !.i = q[k].i + 1]] OBVIOUS
<1> QED BY <1>3, <1>4 DEF TypeOK

\* Going to another statement with another character.
LEMMA TrocaTipo ==
    ASSUME TypeOK, NEW k \in Contextos, NEW f \in Fases, NEW ch \in Glifos,
           q' = [q EXCEPT ![k].c = ch, ![k].fase = f]
    PROVE  q' \in [Contextos -> Chamadas]
<1>1. q[k] \in Chamadas BY DEF TypeOK
<1>2. [q[k] EXCEPT !.c = ch, !.fase = f] \in Chamadas BY <1>1, Zenon DEF Chamadas
<1>3. q' = [q EXCEPT ![k] = [q[k] EXCEPT !.c = ch, !.fase = f]] OBVIOUS
<1> QED BY <1>2, <1>3 DEF TypeOK

\* Going to another statement with the counter of the loops at 0.
LEMMA ZeraTipo ==
    ASSUME TypeOK, NEW k \in Contextos, NEW f \in Fases,
           q' = [q EXCEPT ![k].fase = f, ![k].i = 0]
    PROVE  q' \in [Contextos -> Chamadas]
<1>1. q[k] \in Chamadas BY DEF TypeOK
<1>2. 0 \in Nat OBVIOUS
<1>3. [q[k] EXCEPT !.fase = f, !.i = 0] \in Chamadas BY <1>1, <1>2, Zenon DEF Chamadas
<1>4. q' = [q EXCEPT ![k] = [q[k] EXCEPT !.fase = f, !.i = 0]] OBVIOUS
<1> QED BY <1>3, <1>4 DEF TypeOK

\* A statement of one call leaves the variables of the other alone.
LEMMA LocaisDe ==
    ASSUME Locais, NEW k \in Contextos,
           \A j \in Contextos \ {k} : q'[j] = q[j],
           q'[k].fase = "copia" => q'[k].i < UltimaLinha,
           q'[k].fase = "limpa" => q'[k].i < Colunas,
           q'[k].fase \in {"coluna", "soma"} => \E l \in 0..(Linhas - 1) : q'[k].e = l * Colunas,
           q'[k].fase \in {"poe", "cursor"} => q'[k].e \in Celulas
    PROVE  Locais'
<1> SUFFICES ASSUME NEW j \in Contextos
             PROVE  /\ q'[j].fase = "copia" => q'[j].i < UltimaLinha
                    /\ q'[j].fase = "limpa" => q'[j].i < Colunas
                    /\ q'[j].fase \in {"coluna", "soma"} =>
                           \E l \in 0..(Linhas - 1) : q'[j].e = l * Colunas
                    /\ q'[j].fase \in {"poe", "cursor"} => q'[j].e \in Celulas
    BY DEF Locais
<1>1. CASE j = k  BY <1>1
<1>2. CASE j # k
  <2>1. q'[j] = q[j]  BY <1>2
  <2>2. /\ q[j].fase = "copia" => q[j].i < UltimaLinha
        /\ q[j].fase = "limpa" => q[j].i < Colunas
        /\ q[j].fase \in {"coluna", "soma"} => \E l \in 0..(Linhas - 1) : q[j].e = l * Colunas
        /\ q[j].fase \in {"poe", "cursor"} => q[j].e \in Celulas
    BY DEF Locais
  <2> QED BY <2>1, <2>2
<1> QED BY <1>1, <1>2

\* Every statement of a call, whichever context is at it, keeps the invariant.
LEMMA PassoDentro ==
    ASSUME Dentro, NEW k \in Contextos, Passo(k)
    PROVE  Dentro'
<1> USE ConsoleAssumption DEF Em, Vai, Corre, NmiAtivo, resto, Contextos
<1>u. UltimaLinha \in Nat \ {0} /\ Colunas * Linhas \in Nat /\ UltimaLinha + Colunas = Colunas * Linhas
      BY UltimaLinhaDentro
<1>t. TypeOK BY DEF Dentro
<1>l. Locais BY DEF Dentro
<1>1. CASE ComEscape(k)
  <2>q. q' \in [Contextos -> Chamadas]
    <3>1. CASE q[k].c \in DOMAIN Traduz
      <4>1. Traduz[q[k].c] \in Glifos BY <3>1 DEF Traduz, Glifos
      <4>2. q' = [q EXCEPT ![k].c = Traduz[q[k].c]] BY <1>1, <3>1 DEF ComEscape
      <4> HIDE DEF Vai
      <4> QED BY <4>1, <4>2, <1>t DEF TypeOK, Chamadas
    <3>2. CASE q[k].c \notin DOMAIN Traduz
      <4>1. Vai(k, "calc") BY <1>1, <3>2 DEF ComEscape
      <4> HIDE DEF Vai
      <4> QED BY <4>1, <1>t, VaiTipo DEF Fases
    <3> QED BY <3>1, <3>2
  <2>v. escape' \in BOOLEAN BY <1>1 DEF ComEscape
  <2>1. TypeOK' BY <1>1, <1>t, <2>q, <2>v DEF ComEscape, TypeOK
  <2>2. XCerto' BY <1>1 DEF ComEscape, Dentro, TypeOK, Chamadas, XCerto, YFirme, Depois
  <2>j. \A j \in Contextos \ {k} : q'[j] = q[j]  BY <1>1, <1>t DEF ComEscape, TypeOK
  <2>k. q'[k].fase \in {"escape", "calc"}  BY <1>1, <1>t DEF ComEscape, TypeOK, Chamadas
  <2>y. y' = y /\ q[k].fase = "escape" /\ Corre(k)  BY <1>1 DEF ComEscape
  <2>3. YFirme' /\ YAlto' BY <2>j, <2>k, <2>y DEF Dentro, YFirme, YAlto, Firme, Rolando
  <2>4. Locais' BY <2>j, <2>k DEF Dentro, Locais
  <2> QED BY <2>1, <2>2, <2>3, <2>4 DEF Dentro
<1>2. CASE Barra(k)
  <2>q. q' \in [Contextos -> Chamadas]
        BY <1>2, <1>t, VaiTipo DEF Barra, Fases
  <2>v. escape' \in BOOLEAN BY <1>2 DEF Barra
  <2>1. TypeOK' BY <1>2, <1>t, <2>q, <2>v DEF Barra, TypeOK
  <2>2. XCerto' BY <1>2 DEF Barra, Dentro, TypeOK, Chamadas, XCerto, YFirme, Depois
  <2>3. YFirme' /\ YAlto' BY <1>2 DEF Barra, Dentro, TypeOK, Chamadas, YFirme, YAlto, Firme, Rolando
  <2>4. Locais' BY <1>2, <1>u DEF Barra, Dentro, TypeOK, Chamadas, Locais
  <2> QED BY <2>1, <2>2, <2>3, <2>4 DEF Dentro
<1>3. CASE Retorna(k)
  <2>q. q' \in [Contextos -> Chamadas]
    <3>1. PICK f \in {"desce", "calc"} : q' = [q EXCEPT ![k].c = NADA, ![k].fase = f]
          BY <1>3 DEF Retorna
    <3>2. f \in Fases /\ NADA \in Glifos BY DEF Fases, Glifos
    <3> QED BY <3>1, <3>2, <1>t, TrocaTipo
  <2>v. x' \in 0..Colunas BY <1>3 DEF Retorna
  <2>1. TypeOK' BY <1>3, <1>t, <2>q, <2>v DEF Retorna, TypeOK
  <2>2. XCerto' BY <1>3 DEF Retorna, Dentro, TypeOK, Chamadas, XCerto, YFirme, Depois
  <2>3. YFirme' /\ YAlto' BY <1>3 DEF Retorna, Dentro, TypeOK, Chamadas, YFirme, YAlto, Firme, Rolando
  <2>4. Locais' BY <1>3, <1>u DEF Retorna, Dentro, TypeOK, Chamadas, Locais
  <2> QED BY <2>1, <2>2, <2>3, <2>4 DEF Dentro
<1>4. CASE Desce(k)
  <2>q. q' \in [Contextos -> Chamadas]
        BY <1>4, <1>t, VaiTipo DEF Desce, Fases
  <2>v. y' \in Nat BY <1>4, <1>t DEF Desce, TypeOK
  <2>1. TypeOK' BY <1>4, <1>t, <2>q, <2>v DEF Desce, TypeOK
  <2>2. XCerto' BY <1>4 DEF Desce, Dentro, TypeOK, Chamadas, XCerto, YFirme, Depois
  <2>3. YFirme' /\ YAlto' BY <1>4 DEF Desce, Dentro, TypeOK, Chamadas, YFirme, YAlto, Firme, Rolando
  <2>4. Locais' BY <1>4, <1>u DEF Desce, Dentro, TypeOK, Chamadas, Locais
  <2> QED BY <2>1, <2>2, <2>3, <2>4 DEF Dentro
<1>5. CASE Comum(k)
  <2>q. q' \in [Contextos -> Chamadas]
        BY <1>5, <1>t, VaiTipo DEF Comum, Fases
  <2>1. TypeOK' BY <1>5, <1>t, <2>q DEF Comum, TypeOK
  <2>2. XCerto' BY <1>5 DEF Comum, Dentro, TypeOK, Chamadas, XCerto, YFirme, Depois
  <2>3. YFirme' /\ YAlto' BY <1>5 DEF Comum, Dentro, TypeOK, Chamadas, YFirme, YAlto, Firme, Rolando
  <2>4. Locais' BY <1>5, <1>u DEF Comum, Dentro, TypeOK, Chamadas, Locais
  <2> QED BY <2>1, <2>2, <2>3, <2>4 DEF Dentro
<1>6. CASE Calc(k)
  <2>q. q' \in [Contextos -> Chamadas]
        BY <1>6, <1>t, VaiTipo DEF Calc, Fases
  <2>1. TypeOK' BY <1>6, <1>t, <2>q DEF Calc, TypeOK
  <2>2. XCerto' BY <1>6 DEF Calc, Dentro, TypeOK, Chamadas, XCerto, YFirme, Depois
  <2>3. YFirme' /\ YAlto' BY <1>6 DEF Calc, Dentro, TypeOK, Chamadas, YFirme, YAlto, Firme, Rolando
  <2>4. Locais'
    <3>1. \A j \in Contextos \ {k} : q'[j] = q[j]  BY <1>6, <1>t DEF Calc, TypeOK
    <3>2. q'[k].fase \in {"zera", "rola"}  BY <1>6, <1>t DEF Calc, TypeOK, Chamadas
    <3> QED BY <3>1, <3>2, <1>l, LocaisDe
  <2> QED BY <2>1, <2>2, <2>3, <2>4 DEF Dentro
<1>7. CASE Baixa(k)
  <2>q. q' \in [Contextos -> Chamadas]
        BY <1>7, <1>t, VaiTipo DEF Baixa, Fases
  <2>v. y' \in Nat BY <1>7, <1>t DEF Baixa, TypeOK
  <2>1. TypeOK' BY <1>7, <1>t, <2>q, <2>v DEF Baixa, TypeOK
  <2>2. XCerto' BY <1>7 DEF Baixa, Dentro, TypeOK, Chamadas, XCerto, YFirme, Depois
  <2>3. YFirme' /\ YAlto' BY <1>7 DEF Baixa, Dentro, TypeOK, Chamadas, YFirme, YAlto, Firme, Rolando
  <2>4. Locais' BY <1>7, <1>u DEF Baixa, Dentro, TypeOK, Chamadas, Locais
  <2> QED BY <2>1, <2>2, <2>3, <2>4 DEF Dentro
<1>8. CASE Rola(k)
  <2>q. q' \in [Contextos -> Chamadas]
    <3>1. q[k].volta \in {"linha", "fim"} BY <1>t DEF TypeOK, Chamadas
    <3>2. PICK f \in {"copia", "linha", "fim"} : q' = [q EXCEPT ![k].fase = f, ![k].i = 0]
          BY <1>8, <3>1 DEF Rola
    <3>3. f \in Fases BY DEF Fases
    <3> QED BY <3>2, <3>3, <1>t, ZeraTipo
  <2>1. TypeOK' BY <1>8, <1>t, <2>q DEF Rola, TypeOK
  <2>2. XCerto' BY <1>8 DEF Rola, Dentro, TypeOK, Chamadas, XCerto, YFirme, Depois
  <2>3. YFirme' /\ YAlto' BY <1>8, SMTT(30) DEF Rola, Dentro, TypeOK, Chamadas, YFirme, YAlto, Firme, Rolando
  <2>4. Locais'
    <3>1. \A j \in Contextos \ {k} : q'[j] = q[j]  BY <1>8, <1>t DEF Rola, TypeOK
    <3>2. q'[k].fase \in {"copia", "linha", "fim"} /\ q'[k].i = 0
          BY <1>8, <1>t DEF Rola, TypeOK, Chamadas
    <3>3. 0 < UltimaLinha  BY <1>u
    <3> QED BY <3>1, <3>2, <3>3, <1>l, LocaisDe
  <2> QED BY <2>1, <2>2, <2>3, <2>4 DEF Dentro
<1>9. CASE Copia(k)
  <2>q. q' \in [Contextos -> Chamadas]
    <3>1. CASE q' = [q EXCEPT ![k].i = @ + 1]
          BY <3>1, <1>t, ContaTipo
    <3>2. CASE q' = [q EXCEPT ![k].fase = "limpa", ![k].i = 0]
          BY <3>2, <1>t, SMTT(30) DEF TypeOK, Chamadas, Fases
    <3> QED BY <1>9, <3>1, <3>2 DEF Copia
  <2>v. tela' \in [Celulas -> Glifos]
    <3>1. q[k].i \in Nat /\ q[k].i < UltimaLinha
          BY <1>9, <1>t DEF Copia, Dentro, Locais, TypeOK, Chamadas
    <3>2. q[k].i + Colunas \in Celulas
          BY <3>1, <1>u DEF Celulas
    <3>3. tela[q[k].i + Colunas] \in Glifos
          BY <3>2, <1>t DEF TypeOK
    <3> QED BY <3>3, <1>9, <1>t DEF Copia, TypeOK
  <2>1. TypeOK' BY <1>9, <1>t, <2>q, <2>v DEF Copia, TypeOK
  <2>2. XCerto' BY <1>9 DEF Copia, Dentro, TypeOK, Chamadas, XCerto, YFirme, Depois
  <2>3. YFirme' /\ YAlto' BY <1>9 DEF Copia, Dentro, TypeOK, Chamadas, YFirme, YAlto, Firme, Rolando
  <2>4. Locais'
    <3>1. CASE q' = [q EXCEPT ![k].i = @ + 1] /\ q[k].i + 1 < UltimaLinha
          BY <3>1, <1>9, <1>t DEF Copia, Dentro, TypeOK, Chamadas, Locais
    <3>2. CASE q' = [q EXCEPT ![k].fase = "limpa", ![k].i = 0]
      <4>1. \A j \in Contextos \ {k} : q'[j] = q[j]  BY <3>2, <1>t DEF TypeOK
      <4>2. q'[k].fase = "limpa" /\ q'[k].i = 0  BY <3>2, <1>t DEF TypeOK, Chamadas
      <4> QED BY <4>1, <4>2, <1>l, LocaisDe
    <3> QED BY <1>9, <3>1, <3>2 DEF Copia
  <2> QED BY <2>1, <2>2, <2>3, <2>4 DEF Dentro
<1>10. CASE Limpa(k)
  <2>q. q' \in [Contextos -> Chamadas]
    <3>1. CASE q' = [q EXCEPT ![k].i = @ + 1]
          BY <3>1, <1>t, ContaTipo
    <3>2. CASE q' = [q EXCEPT ![k].fase = "sobe"]
          BY <3>2, <1>t, VaiTipo DEF Fases
    <3> QED BY <1>10, <3>1, <3>2 DEF Limpa
  <2>v. tela' \in [Celulas -> Glifos]
        BY <1>10, <1>t, <1>u DEF Limpa, Dentro, Locais, TypeOK, Chamadas, Celulas, Glifos
  <2>1. TypeOK' BY <1>10, <1>t, <2>q, <2>v DEF Limpa, TypeOK
  <2>2. XCerto' BY <1>10 DEF Limpa, Dentro, TypeOK, Chamadas, XCerto, YFirme, Depois
  <2>3. YFirme' /\ YAlto' BY <1>10 DEF Limpa, Dentro, TypeOK, Chamadas, YFirme, YAlto, Firme, Rolando
  <2>4. Locais' BY <1>10, <1>u DEF Limpa, Dentro, TypeOK, Chamadas, Locais
  <2> QED BY <2>1, <2>2, <2>3, <2>4 DEF Dentro
<1>11. CASE Sobe(k)
  <2>q. q' \in [Contextos -> Chamadas]
        BY <1>11, <1>t, VaiTipo DEF Sobe, Fases
  <2>v. y' \in Nat BY <1>11, <1>t DEF Sobe, Dentro, YAlto, TypeOK, Rolando
  <2>1. TypeOK' BY <1>11, <1>t, <2>q, <2>v DEF Sobe, TypeOK
  <2>2. XCerto' BY <1>11 DEF Sobe, Dentro, TypeOK, Chamadas, XCerto, YFirme, Depois
  <2>3. YFirme' /\ YAlto' BY <1>11 DEF Sobe, Dentro, TypeOK, Chamadas, YFirme, YAlto, Firme, Rolando
  <2>4. Locais' BY <1>11, <1>u DEF Sobe, Dentro, TypeOK, Chamadas, Locais
  <2> QED BY <2>1, <2>2, <2>3, <2>4 DEF Dentro
<1>12. CASE Linha(k)
  <2>q. q' \in [Contextos -> Chamadas]
        BY <1>12, <1>t DEF Linha, TypeOK, Chamadas, Fases
  <2>1. TypeOK' BY <1>12, <1>t, <2>q DEF Linha, TypeOK
  <2>2. XCerto' BY <1>12 DEF Linha, Dentro, TypeOK, Chamadas, XCerto, YFirme, Depois
  <2>3. YFirme' /\ YAlto' BY <1>12 DEF Linha, Dentro, TypeOK, Chamadas, YFirme, YAlto, Firme, Rolando
  <2>4. Locais' BY <1>12, <1>u DEF Linha, Dentro, TypeOK, Chamadas, Locais
  <2> QED BY <2>1, <2>2, <2>3, <2>4 DEF Dentro
<1>13. CASE Coluna(k)
  <2>1. TypeOK' BY <1>13, <1>u DEF Coluna, Dentro, TypeOK, Chamadas, Fases, Glifos
  <2>2. XCerto' BY <1>13 DEF Coluna, Dentro, TypeOK, Chamadas, XCerto, YFirme, Depois
  <2>3. YFirme' /\ YAlto' BY <1>13 DEF Coluna, Dentro, TypeOK, Chamadas, YFirme, YAlto, Firme, Rolando
  <2>4. Locais'
    <3>1. q[k].fase = "coluna"  BY <1>13 DEF Coluna
    <3>2. x \in 0..(Colunas - 1)
          BY <1>13, <1>t DEF Coluna, Dentro, XCerto, TypeOK, Depois
    <3>3. PICK l \in 0..(Linhas - 1) : q[k].e = l * Colunas
          BY <3>1 DEF Dentro, Locais
    <3>4. q[k].e + x \in Celulas  BY <3>2, <3>3, CelulaDe
    <3>5. PICK f \in {"poe", "fim"} : q' = [q EXCEPT ![k].e = @ + x, ![k].fase = f]
          BY <1>13 DEF Coluna
    <3>6. q'[k] = [q[k] EXCEPT !.e = @ + x, !.fase = f]  BY <3>5, <1>t DEF TypeOK
    <3>7. q'[k].e = q[k].e + x /\ q'[k].fase = f  BY <3>6, <1>t DEF TypeOK, Chamadas
    <3>8. \A j \in Contextos \ {k} : q'[j] = q[j]  BY <3>5, <1>t DEF TypeOK
    <3> QED BY <3>4, <3>7, <3>8, <1>l, LocaisDe
  <2> QED BY <2>1, <2>2, <2>3, <2>4 DEF Dentro
<1>14. CASE Poe(k)
  <2>1. TypeOK' BY <1>14, <1>u DEF Poe, Dentro, TypeOK, Chamadas, Fases, Glifos
  <2>2. XCerto' BY <1>14 DEF Poe, Dentro, TypeOK, Chamadas, XCerto, YFirme, Depois
  <2>3. YFirme' /\ YAlto' BY <1>14 DEF Poe, Dentro, TypeOK, Chamadas, YFirme, YAlto, Firme, Rolando
  <2>4. Locais' BY <1>14, <1>u DEF Poe, Dentro, TypeOK, Chamadas, Locais
  <2> QED BY <2>1, <2>2, <2>3, <2>4 DEF Dentro
<1>15. CASE Avanca(k)
  <2>q. q' \in [Contextos -> Chamadas]
    <3>1. q[k] \in Chamadas BY <1>t DEF TypeOK
    <3>2. "calc" \in Fases BY DEF Fases
    <3>3. [q[k] EXCEPT !.fase = "calc", !.volta = "fim"] \in Chamadas
          BY <3>1, <3>2, Zenon DEF Chamadas
    <3>4. q' = [q EXCEPT ![k] = [q[k] EXCEPT !.fase = "calc", !.volta = "fim"]]
          BY <1>15 DEF Avanca
    <3> QED BY <3>3, <3>4, <1>t DEF TypeOK
  <2>v. x' \in 0..Colunas BY <1>15, <1>t DEF Avanca, Dentro, XCerto, TypeOK, Depois
  <2>1. TypeOK' BY <1>15, <1>t, <2>q, <2>v DEF Avanca, TypeOK
  <2>2. XCerto' BY <1>15 DEF Avanca, Dentro, TypeOK, Chamadas, XCerto, YFirme, Depois
  <2>3. YFirme' /\ YAlto' BY <1>15 DEF Avanca, Dentro, TypeOK, Chamadas, YFirme, YAlto, Firme, Rolando
  <2>4. Locais' BY <1>15, <1>u DEF Avanca, Dentro, TypeOK, Chamadas, Locais
  <2> QED BY <2>1, <2>2, <2>3, <2>4 DEF Dentro
<1>16. CASE Fim(k)
  <2>q. q' \in [Contextos -> Chamadas]
        BY <1>16, <1>t DEF Fim, TypeOK, Chamadas, Fases
  <2>1. TypeOK' BY <1>16, <1>t, <2>q DEF Fim, TypeOK
  <2>2. XCerto' BY <1>16 DEF Fim, Dentro, TypeOK, Chamadas, XCerto, YFirme, Depois
  <2>3. YFirme' /\ YAlto' BY <1>16 DEF Fim, Dentro, TypeOK, Chamadas, YFirme, YAlto, Firme, Rolando
  <2>4. Locais'
    <3>1. y \in 0..(Linhas - 1)
          BY <1>16, <1>t DEF Fim, Dentro, YFirme, TypeOK, Firme
    <3>2. q'[k].e = y * Colunas /\ q'[k].fase = "soma"
          BY <1>16, <1>t DEF Fim, TypeOK, Chamadas
    <3>3. \A j \in Contextos \ {k} : q'[j] = q[j]  BY <1>16, <1>t DEF Fim, TypeOK
    <3> QED BY <3>1, <3>2, <3>3, <1>l, LocaisDe
  <2> QED BY <2>1, <2>2, <2>3, <2>4 DEF Dentro
<1>17. CASE Soma(k)
  <2>q. q' \in [Contextos -> Chamadas]
        BY <1>17, <1>t DEF Soma, TypeOK, Chamadas, Fases
  <2>1. TypeOK' BY <1>17, <1>t, <2>q DEF Soma, TypeOK
  <2>2. XCerto' BY <1>17 DEF Soma, Dentro, TypeOK, Chamadas, XCerto, YFirme, Depois
  <2>3. YFirme' /\ YAlto' BY <1>17 DEF Soma, Dentro, TypeOK, Chamadas, YFirme, YAlto, Firme, Rolando
  <2>4. Locais'
    <3>1. q[k].fase = "soma"  BY <1>17 DEF Soma
    <3>2. x \in 0..(Colunas - 1)
          BY <1>17, <1>t DEF Soma, Dentro, XCerto, TypeOK, Depois
    <3>3. PICK l \in 0..(Linhas - 1) : q[k].e = l * Colunas
          BY <3>1 DEF Dentro, Locais
    <3>4. q[k].e + x \in Celulas  BY <3>2, <3>3, CelulaDe
    <3>5. q'[k].e = q[k].e + x /\ q'[k].fase = "cursor"
          BY <1>17, <1>t DEF Soma, TypeOK, Chamadas
    <3>6. \A j \in Contextos \ {k} : q'[j] = q[j]  BY <1>17, <1>t DEF Soma, TypeOK
    <3> QED BY <3>4, <3>5, <3>6, <1>l, LocaisDe
  <2> QED BY <2>1, <2>2, <2>3, <2>4 DEF Dentro
<1>18. CASE AtualizaCursor(k)
  <2>q. q' \in [Contextos -> Chamadas]
        BY <1>18, <1>t, VaiTipo DEF AtualizaCursor, Fases
  <2>v. cursor' \in Celulas BY <1>18 DEF AtualizaCursor, Dentro, Locais
  <2>1. TypeOK' BY <1>18, <1>t, <2>q, <2>v DEF AtualizaCursor, TypeOK
  <2>2. XCerto' BY <1>18 DEF AtualizaCursor, Dentro, TypeOK, Chamadas, XCerto, YFirme, Depois
  <2>3. YFirme' /\ YAlto' BY <1>18 DEF AtualizaCursor, Dentro, TypeOK, Chamadas, YFirme, YAlto, Firme, Rolando
  <2>4. Locais' BY <1>18, <1>u DEF AtualizaCursor, Dentro, TypeOK, Chamadas, Locais
  <2> QED BY <2>1, <2>2, <2>3, <2>4 DEF Dentro
<1>19. CASE Zera(k)
  <2>q. q' \in [Contextos -> Chamadas]
        BY <1>19, <1>t, VaiTipo DEF Zera, Fases
  <2>v. x' \in 0..Colunas BY <1>19 DEF Zera
  <2>1. TypeOK' BY <1>19, <1>t, <2>q, <2>v DEF Zera, TypeOK
  <2>2. XCerto' BY <1>19 DEF Zera, Dentro, TypeOK, Chamadas, XCerto, YFirme, Depois
  <2>3. YFirme' /\ YAlto' BY <1>19 DEF Zera, Dentro, TypeOK, Chamadas, YFirme, YAlto, Firme, Rolando
  <2>4. Locais' BY <1>19, <1>u DEF Zera, Dentro, TypeOK, Chamadas, Locais
  <2> QED BY <2>1, <2>2, <2>3, <2>4 DEF Dentro
<1> QED BY <1>1, <1>2, <1>3, <1>4, <1>5, <1>6, <1>7, <1>8, <1>9, <1>10, <1>11, <1>12, <1>13, <1>14,
           <1>15, <1>16, <1>17, <1>18, <1>19 DEF Passo

LEMMA InicioDentro == Init => Dentro
<1> SUFFICES ASSUME Init PROVE Dentro
    OBVIOUS
<1> USE ConsoleAssumption DEF Contextos
<1>1. 0 \in Celulas
  <2>1. 0 \in 0..(Linhas - 1) /\ 0 \in 0..(Colunas - 1) OBVIOUS
  <2>2. 0 * Colunas + 0 \in Celulas BY <2>1, CelulaDe
  <2> QED BY <2>2
<1>2. q \in [Contextos -> Chamadas] BY DEF Init, Chamadas, Fases, Glifos
<1>3. tela \in [Celulas -> Glifos] BY DEF Init, Glifos
<1>4. resta \in Seq(Caracteres) BY DEF Init
<1>5. TypeOK BY <1>1, <1>2, <1>3, <1>4 DEF Init, TypeOK
<1>6. XCerto /\ YFirme /\ YAlto /\ Locais
      BY DEF Init, XCerto, YFirme, YAlto, Locais, Depois, Firme, Rolando
<1> QED BY <1>5, <1>6 DEF Dentro

\* A call begins: nothing but its own variables changes.
LEMMA ComecaDentro ==
    ASSUME Dentro, NEW k \in Contextos, NEW ch \in Caracteres, Comeca(k, ch),
           q[k].fase = "ocioso", resta' \in Seq(Caracteres),
           UNCHANGED <<tela, x, y, escape, cursor, limpo>>
    PROVE  Dentro'
<1> USE ConsoleAssumption DEF Contextos
<1>1. q' = [q EXCEPT ![k] = [@ EXCEPT !.c = ch, !.fase = "escape", !.volta = "linha"]]
      BY DEF Comeca
<1>2. q' \in [Contextos -> Chamadas]
  <2>1. q \in [Contextos -> Chamadas] /\ q[k] \in Chamadas BY DEF Dentro, TypeOK
  <2>2. ch \in Glifos BY DEF Glifos
  <2>3. "escape" \in Fases BY DEF Fases
  <2>4. [q[k] EXCEPT !.c = ch, !.fase = "escape", !.volta = "linha"] \in Chamadas
        BY <2>1, <2>2, <2>3, Zenon DEF Chamadas
  <2> QED BY <2>1, <2>4, <1>1
<1>3. TypeOK' BY <1>2 DEF Dentro, TypeOK
<1>4. XCerto' BY <1>1 DEF Dentro, TypeOK, XCerto, Depois, Chamadas
<1>5. YFirme' /\ YAlto' BY <1>1 DEF Dentro, TypeOK, YFirme, YAlto, Firme, Rolando, Chamadas
<1>6. Locais' BY <1>1 DEF Dentro, TypeOK, Locais, Chamadas
<1> QED BY <1>3, <1>4, <1>5, <1>6 DEF Dentro

LEMMA NextDentro == Dentro /\ [Next]_vars => Dentro'
<1> SUFFICES ASSUME Dentro, [Next]_vars PROVE Dentro'
    OBVIOUS
<1>1. ASSUME NEW ch \in Caracteres, Escreve(ch) PROVE Dentro'
  <2>1. resta' \in Seq(Caracteres) BY <1>1 DEF Escreve, Dentro, TypeOK
  <2> QED BY <1>1, <2>1, ComecaDentro DEF Escreve, Contextos
<1>2. CASE Nmi
  <2>1. limpo' \in BOOLEAN BY <1>2 DEF Nmi
  <2>2. TypeOK' BY <1>2, <2>1, ConsoleAssumption DEF Nmi, Dentro, TypeOK
  <2>3. (XCerto /\ YFirme /\ YAlto /\ Locais)'
        BY <1>2 DEF Nmi, Dentro, XCerto, YFirme, YAlto, Locais
  <2> QED BY <2>2, <2>3 DEF Dentro
<1>3. CASE EscreveAviso
  <2>1. Head(resta) \in Caracteres /\ resta' \in Seq(Caracteres)
        BY <1>3 DEF EscreveAviso, Dentro, TypeOK
  <2> QED BY <1>3, <2>1, ComecaDentro DEF EscreveAviso, Contextos
<1>4. ASSUME NEW k \in Contextos, Passo(k) PROVE Dentro'
      BY <1>4, PassoDentro
<1>5. CASE UNCHANGED vars
      BY <1>5 DEF vars, Dentro, TypeOK, XCerto, YFirme, YAlto, Locais
<1> QED BY <1>1, <1>2, <1>3, <1>4, <1>5 DEF Next

-----------------------------------------------------------------------------

\* The inductive invariant.
THEOREM SempreDentro == Spec => []Dentro
BY InicioDentro, NextDentro, PTL DEF Spec

\* The invariant has what EscreveNaTela asks.
LEMMA DentroNaTela == Dentro => EscreveNaTela
<1> SUFFICES ASSUME Dentro, NEW k \in Contextos
             PROVE  /\ q[k].fase = "poe" => q[k].e \in Celulas
                    /\ q[k].fase = "copia" => q[k].i \in Celulas /\ q[k].i + Colunas \in Celulas
                    /\ q[k].fase = "limpa" => UltimaLinha + q[k].i \in Celulas
                    /\ q[k].fase = "cursor" => q[k].e \in Celulas
    BY DEF EscreveNaTela
<1>1. q[k].i \in Nat BY DEF Dentro, TypeOK, Chamadas
<1>2. Colunas \in Nat BY ConsoleAssumption
<1> QED BY <1>1, <1>2, UltimaLinhaDentro DEF Dentro, Locais, Celulas

\* TypeOK: _VT_X stays in 0..80, _VT_Y never wraps below 0 and the cursor is on the
\* screen, for every interleaving of the kernel and the interrupt's handler.
THEOREM ConsoleTipo == Spec => []TypeOK
<1>1. Dentro => TypeOK BY DEF Dentro
<1> QED BY <1>1, SempreDentro, PTL

\* EscreveNaTela: every write of _VT_EscrevaC and _VT_Calc is to a cell of the screen,
\* whatever its size, the characters and the moments of the interrupts.
THEOREM EscritaNaTela == Spec => []EscreveNaTela
BY DentroNaTela, SempreDentro, PTL

-----------------------------------------------------------------------------
(* The console as its user sees it.                                        *)

Estado(te, xx, yy, es, cu) == [tela |-> te, x |-> xx, y |-> yy, escape |-> es, cursor |-> cu]

LEMMA EstadoCampos ==
    ASSUME NEW te, NEW xx, NEW yy, NEW es, NEW cu
    PROVE  /\ Estado(te, xx, yy, es, cu).tela = te
           /\ Estado(te, xx, yy, es, cu).x = xx
           /\ Estado(te, xx, yy, es, cu).y = yy
           /\ Estado(te, xx, yy, es, cu).escape = es
           /\ Estado(te, xx, yy, es, cu).cursor = cu
  BY DEF Estado

LEMMA EstadoEscape ==
    ASSUME NEW te, NEW xx, NEW yy, NEW es, NEW cu, NEW v
    PROVE  [Estado(te, xx, yy, es, cu) EXCEPT !.escape = v] = Estado(te, xx, yy, v, cu)
  BY DEF Estado

LEMMA EstadoAgora == Agora = Estado(tela, x, y, escape, cursor)
  BY DEF Agora, Estado

\* The screen s lines up, and the cursor at a column and a line.
Movido(te, s, col, lin, es) ==
    Estado([p \in Celulas |-> IF p + s * Colunas \in Celulas THEN te[p + s * Colunas] ELSE ESPACO],
           col, lin, es, lin * Colunas + col)

\* What Ajustado does to each part.
LEMMA AjustadoDe ==
    ASSUME NEW te, NEW xx, NEW yy, NEW es, NEW cu,
           NEW lin, NEW subida, NEW col
    PROVE  /\ lin = yy + IF xx >= Colunas THEN 1 ELSE 0
           /\ subida = IF lin >= Linhas THEN lin - Linhas + 1 ELSE 0
           /\ col = IF xx >= Colunas THEN 0 ELSE xx
           => Ajustado(Estado(te, xx, yy, es, cu)) = Movido(te, subida, col, lin - subida, es)
<1> SUFFICES ASSUME lin = yy + IF xx >= Colunas THEN 1 ELSE 0,
                    subida = IF lin >= Linhas THEN lin - Linhas + 1 ELSE 0,
                    col = IF xx >= Colunas THEN 0 ELSE xx
             PROVE  Ajustado(Estado(te, xx, yy, es, cu)) = Movido(te, subida, col, lin - subida, es)
    OBVIOUS
<1> DEFINE t == Estado(te, xx, yy, es, cu)
<1>1. t.x = xx /\ t.y = yy /\ t.tela = te
      BY EstadoCampos
<1> HIDE DEF t
<1> DEFINE d == [p \in Celulas |-> IF p + subida * Colunas \in Celulas
                                   THEN te[p + subida * Colunas] ELSE ESPACO]
<1> DEFINE l == lin - subida
           cur == l * Colunas + col
<1>2. Ajustado(t) = [t EXCEPT !.x = col, !.y = l, !.cursor = cur, !.tela = d]
      BY <1>1 DEF Ajustado
<1> HIDE DEF d, l, cur
<1> DEFINE t1 == [t EXCEPT !.x = col]
           t2 == [t1 EXCEPT !.y = l]
           t3 == [t2 EXCEPT !.cursor = cur]
           t4 == [t3 EXCEPT !.tela = d]
<1>3. Ajustado(t) = t4
      BY <1>2
<1>4. t1 = Estado(te, col, yy, es, cu)
      BY DEF Estado, t
<1> HIDE DEF t1
<1>5. t2 = Estado(te, col, l, es, cu)
      BY <1>4 DEF Estado
<1> HIDE DEF t2
<1>6. t3 = Estado(te, col, l, es, cur)
      BY <1>5 DEF Estado
<1> HIDE DEF t3
<1>7. t4 = Estado(d, col, l, es, cur)
      BY <1>6 DEF Estado
<1> HIDE DEF t4
<1>8. Ajustado(t) = Estado(d, col, l, es, cur)
      BY <1>3, <1>7
<1> QED BY <1>8 DEF t, d, l, cur, Movido

\* A position on the screen stays as it is.
LEMMA AjustadoQuieto ==
    ASSUME NEW te \in [Celulas -> Glifos], NEW xx \in 0..(Colunas - 1), NEW yy \in 0..(Linhas - 1),
           NEW es, NEW cu
    PROVE  Ajustado(Estado(te, xx, yy, es, cu)) = Estado(te, xx, yy, es, yy * Colunas + xx)
<1>1. /\ Colunas \in Nat \ {0} /\ Linhas \in Nat \ {0, 1} /\ ~(xx >= Colunas) /\ ~(yy >= Linhas)
      /\ yy + 0 = yy /\ yy - 0 = yy
      BY ConsoleAssumption
<1>2. 0 * Colunas = 0
      BY <1>1
<1>3. ASSUME NEW p \in Celulas PROVE p + 0 * Colunas = p
  <2>1. p \in Nat  BY UltimaLinhaDentro DEF Celulas
  <2> QED BY <2>1, <1>2
<1>4. te = [p \in Celulas |-> IF p + 0 * Colunas \in Celulas
                              THEN te[p + 0 * Colunas] ELSE ESPACO]
      BY <1>3
<1>5. Ajustado(Estado(te, xx, yy, es, cu)) = Movido(te, 0, xx, yy - 0, es)
  <2>1. yy = yy + IF xx >= Colunas THEN 1 ELSE 0  BY <1>1
  <2>2. 0 = IF yy >= Linhas THEN yy - Linhas + 1 ELSE 0  BY <1>1
  <2>3. xx = IF xx >= Colunas THEN 0 ELSE xx  BY <1>1
  <2> QED BY <2>1, <2>2, <2>3, AjustadoDe
<1>6. Movido(te, 0, xx, yy, es) = Estado(te, xx, yy, es, yy * Colunas + xx)
      BY <1>4 DEF Movido
<1> QED BY <1>1, <1>5, <1>6

\* One line past the screen, everything goes up by one.
LEMMA AjustadoSobe ==
    ASSUME NEW te, NEW xx \in 0..(Colunas - 1), NEW es, NEW cu
    PROVE  Ajustado(Estado(te, xx, Linhas, es, cu)) =
              Estado([p \in Celulas |-> IF p < UltimaLinha THEN te[p + Colunas] ELSE ESPACO],
                     xx, Linhas - 1, es, (Linhas - 1) * Colunas + xx)
<1>1. /\ Colunas \in Nat \ {0} /\ Linhas \in Nat \ {0, 1} /\ ~(xx >= Colunas) /\ Linhas >= Linhas
      /\ Linhas + 0 = Linhas /\ Linhas - Linhas + 1 = 1
      BY ConsoleAssumption
<1>2. 1 * Colunas = Colunas
      BY <1>1
<1>3. ASSUME NEW p \in Celulas PROVE p + Colunas \in Celulas <=> p < UltimaLinha
  <2>1. p \in 0..(Colunas * Linhas - 1)  BY DEF Celulas
  <2> QED BY <1>1, <2>1, UltimaLinhaDentro DEF Celulas
<1>4. [p \in Celulas |-> IF p + 1 * Colunas \in Celulas THEN te[p + 1 * Colunas] ELSE ESPACO]
        = [p \in Celulas |-> IF p < UltimaLinha THEN te[p + Colunas] ELSE ESPACO]
      BY <1>2, <1>3
<1>5. Ajustado(Estado(te, xx, Linhas, es, cu)) = Movido(te, 1, xx, Linhas - 1, es)
  <2>1. Linhas = Linhas + IF xx >= Colunas THEN 1 ELSE 0  BY <1>1
  <2>2. 1 = IF Linhas >= Linhas THEN Linhas - Linhas + 1 ELSE 0  BY <1>1
  <2>3. xx = IF xx >= Colunas THEN 0 ELSE xx  BY <1>1
  <2> QED BY <2>1, <2>2, <2>3, AjustadoDe
<1> QED BY <1>4, <1>5 DEF Movido

\* Past the last column is the start of the next line.
LEMMA AjustadoQuebra ==
    ASSUME NEW te, NEW yy \in Nat, NEW es, NEW cu, NEW cv
    PROVE  Ajustado(Estado(te, Colunas, yy, es, cu)) = Ajustado(Estado(te, 0, yy + 1, es, cv))
<1> DEFINE lin == yy + 1
           subida == IF lin >= Linhas THEN lin - Linhas + 1 ELSE 0
<1>1. Colunas \in Nat \ {0} /\ Colunas >= Colunas /\ ~(0 >= Colunas) /\ lin + 0 = lin
      BY ConsoleAssumption
<1> HIDE DEF lin
<1>2. Ajustado(Estado(te, Colunas, yy, es, cu)) = Movido(te, subida, 0, lin - subida, es)
  <2>1. lin = yy + IF Colunas >= Colunas THEN 1 ELSE 0  BY <1>1 DEF lin
  <2>2. 0 = IF Colunas >= Colunas THEN 0 ELSE Colunas  BY <1>1
  <2> HIDE DEF subida
  <2>3. subida = IF lin >= Linhas THEN lin - Linhas + 1 ELSE 0  BY DEF subida
  <2> QED BY <2>1, <2>2, <2>3, AjustadoDe
<1>3. Ajustado(Estado(te, 0, lin, es, cv)) = Movido(te, subida, 0, lin - subida, es)
  <2>1. lin = lin + IF 0 >= Colunas THEN 1 ELSE 0  BY <1>1
  <2>2. 0 = IF 0 >= Colunas THEN 0 ELSE 0  OBVIOUS
  <2> HIDE DEF subida
  <2>3. subida = IF lin >= Linhas THEN lin - Linhas + 1 ELSE 0  BY DEF subida
  <2> QED BY <2>1, <2>2, <2>3, AjustadoDe
<1> QED BY <1>2, <1>3 DEF lin

Solto(t) == [t EXCEPT !.escape = FALSE]

\* What the user expects of each kind of character.
LEMMA EsperadoDe ==
    ASSUME NEW t, NEW ch
    PROVE  /\ ch = NADA => Esperado(t, ch) = Ajustado(Solto(t))
           /\ t.escape /\ ch # NADA /\ ch \notin DOMAIN Traduz => Esperado(t, ch) = Posto(Solto(t), ch)
           /\ ~ t.escape /\ ch = BARRA => Esperado(t, ch) = [t EXCEPT !.escape = TRUE]
           /\ ~ t.escape /\ ch = CR => Esperado(t, ch) = Ajustado([Solto(t) EXCEPT !.x = 0])
           /\ ~ t.escape /\ ch = LF => Esperado(t, ch) = Ajustado([Solto(t) EXCEPT !.x = 0, !.y = @ + 1])
           /\ ~ t.escape /\ ch \notin {NADA, BARRA, CR, LF} => Esperado(t, ch) = Posto(Solto(t), ch)
           /\ t.escape /\ ch \in DOMAIN Traduz /\ ~ Solto(t).escape /\ Solto(Solto(t)) = Solto(t) =>
                Esperado(t, ch) = Esperado(Solto(t), Traduz[ch])
<1> DEFINE s == Solto(t)
<1>0. s = [t EXCEPT !.escape = FALSE]
      BY DEF Solto
<1> HIDE DEF s
<1> USE DEF LF, CR, TAB, BARRA, NADA
<1>1. DOMAIN Traduz = {"n", "r", "t"} /\ Traduz["n"] = LF /\ Traduz["r"] = CR /\ Traduz["t"] = TAB
      BY DEF Traduz
<1>2. /\ ch = NADA => Esperado(t, ch) = Ajustado(s)
      /\ t.escape /\ ch # NADA /\ ch \notin DOMAIN Traduz => Esperado(t, ch) = Posto(s, ch)
      /\ ~ t.escape /\ ch = BARRA => Esperado(t, ch) = [t EXCEPT !.escape = TRUE]
      /\ ~ t.escape /\ ch = CR => Esperado(t, ch) = Ajustado([s EXCEPT !.x = 0])
      /\ ~ t.escape /\ ch = LF => Esperado(t, ch) = Ajustado([s EXCEPT !.x = 0, !.y = @ + 1])
      /\ ~ t.escape /\ ch \notin {NADA, BARRA, CR, LF} => Esperado(t, ch) = Posto(s, ch)
      BY <1>0, <1>1 DEF Esperado
<1>3. ASSUME t.escape, ch \in DOMAIN Traduz, ~ s.escape, [s EXCEPT !.escape = FALSE] = s
      PROVE  Esperado(t, ch) = Esperado(s, Traduz[ch])
  <2>1. ASSUME NEW c \in {LF, CR, TAB}
        PROVE  /\ c = CR => Esperado(s, c) = Ajustado([s EXCEPT !.x = 0])
               /\ c = LF => Esperado(s, c) = Ajustado([s EXCEPT !.x = 0, !.y = @ + 1])
               /\ c = TAB => Esperado(s, c) = Posto(s, c)
        BY <1>3, <2>1 DEF Esperado
  <2>2. ASSUME NEW c \in {LF, CR, TAB}, c = Traduz[ch]
        PROVE  /\ c = CR => Esperado(t, ch) = Ajustado([s EXCEPT !.x = 0])
               /\ c = LF => Esperado(t, ch) = Ajustado([s EXCEPT !.x = 0, !.y = @ + 1])
               /\ c = TAB => Esperado(t, ch) = Posto(s, c)
        BY <1>0, <1>3, <1>1, <2>2 DEF Esperado
  <2>3. Traduz[ch] \in {LF, CR, TAB}
        BY <1>3, <1>1
  <2> QED BY <2>1, <2>2, <2>3
<1> QED BY <1>2, <1>3 DEF s, Solto

-----------------------------------------------------------------------------
(* A character with no interrupt inside.                                   *)

\* The statements that find the cursor on the screen.
Assentado == {"ocioso", "escape", "desce", "baixa", "linha", "coluna", "poe", "avanca", "fim",
              "soma", "cursor"}

\* What each statement may count on; r is the call.
ContaDe(xx, yy, es, r) ==
    /\ r.fase \notin {"ocioso", "escape"} => ~ es
    /\ r.fase = "escape" => r.volta = "linha"
    /\ r.fase \in Assentado => xx < Colunas /\ yy < Linhas
    /\ r.fase \in {"calc", "rola"} => yy <= Linhas
    /\ r.fase = "calc" /\ xx = Colunas => yy < Linhas /\ r.volta = "fim"
    /\ r.fase = "zera" => xx = Colunas /\ yy < Linhas /\ r.volta = "fim"
    /\ r.fase \in {"calc", "rola"} /\ r.volta = "linha" /\ r.c # NADA => yy < Linhas
    /\ r.fase \notin Assentado \cup {"calc", "zera"} => xx < Colunas
    /\ r.fase \in {"desce", "baixa"} \cup Rolando => ~ (r.volta = "linha" /\ r.c # NADA)
    /\ r.fase = "baixa" => xx = 0
    /\ r.fase \in Rolando => yy = Linhas
    /\ r.fase \in {"coluna", "soma"} => r.e = yy * Colunas
    /\ r.fase \in {"poe", "cursor"} => r.e = yy * Colunas + xx
    /\ r.fase = "poe" => r.c # NADA

\* The screen when the first i cells have gone up, and when the first i cells of the
\* last line are cleared.
Subindo(te, i) ==
    [p \in Celulas |-> IF p < i THEN te[p] ELSE IF p < UltimaLinha THEN te[p + Colunas] ELSE ESPACO]
Limpando(te, i) == [p \in Celulas |-> IF p < UltimaLinha + i THEN te[p] ELSE ESPACO]

\* The console with its cursor at its position.
Cheio(te, xx, yy, es) == Estado(te, xx, yy, es, yy * Colunas + xx)

\* The console when the call r is done.
ProntoDe(te, xx, yy, es, cu, r) ==
    CASE r.fase = "escape" -> Esperado(Estado(te, xx, yy, es, cu), r.c)
      [] r.fase \in {"desce", "baixa"} -> Ajustado(Estado(te, xx, yy + 1, es, cu))
      [] r.fase \in {"calc", "rola"} ->
            IF r.volta = "linha" /\ r.c # NADA
            THEN Posto(Estado(te, xx, yy, es, cu), r.c) ELSE Ajustado(Estado(te, xx, yy, es, cu))
      [] r.fase = "zera" -> Ajustado(Estado(te, xx, yy, es, cu))
      [] r.fase = "copia" -> Cheio(Subindo(te, r.i), xx, yy - 1, es)
      [] r.fase = "limpa" -> Cheio(Limpando(te, r.i), xx, yy - 1, es)
      [] r.fase = "sobe" -> Cheio(te, xx, yy - 1, es)
      [] r.fase \in {"linha", "coluna"} ->
            IF r.c # NADA THEN Posto(Estado(te, xx, yy, es, cu), r.c) ELSE Cheio(te, xx, yy, es)
      [] r.fase = "poe" -> Posto(Estado(te, xx, yy, es, cu), r.c)
      [] r.fase = "avanca" -> Ajustado(Estado(te, xx + 1, yy, es, cu))
      [] r.fase \in {"fim", "soma", "cursor"} -> Cheio(te, xx, yy, es)
      [] OTHER -> Estado(te, xx, yy, es, cu)

Ocioso(k) == q[k].fase = "ocioso"

\* As long as no interrupt came inside a character, at most one context is inside
\* one, and what it has still to do ends in what the user expects.
Claro ==
    limpo =>
      /\ ~ Ocioso("principal") => Ocioso("nmi") /\ resta = << >>
      /\ Ocioso("principal") /\ Ocioso("nmi") =>
            /\ x < Colunas /\ y < Linhas
            /\ antes # << >> => Agora = Esperado(antes[1], antes[2])
      /\ \A k \in Contextos :
            ~ Ocioso(k) => /\ antes # << >>
                           /\ ContaDe(x, y, escape, q[k])
                           /\ ProntoDe(tela, x, y, escape, cursor, q[k]) = Esperado(antes[1], antes[2])

LEMMA ProntoFase ==
    ASSUME NEW te, NEW xx, NEW yy, NEW es, NEW cu, NEW r
    PROVE  /\ r.fase = "escape" =>
                ProntoDe(te, xx, yy, es, cu, r) = Esperado(Estado(te, xx, yy, es, cu), r.c)
           /\ r.fase \in {"desce", "baixa"} =>
                ProntoDe(te, xx, yy, es, cu, r) = Ajustado(Estado(te, xx, yy + 1, es, cu))
           /\ r.fase \in {"calc", "rola"} /\ r.volta = "linha" /\ r.c # NADA =>
                ProntoDe(te, xx, yy, es, cu, r) = Posto(Estado(te, xx, yy, es, cu), r.c)
           /\ r.fase \in {"calc", "rola"} /\ ~ (r.volta = "linha" /\ r.c # NADA) =>
                ProntoDe(te, xx, yy, es, cu, r) = Ajustado(Estado(te, xx, yy, es, cu))
           /\ r.fase = "copia" =>
                ProntoDe(te, xx, yy, es, cu, r) = Cheio(Subindo(te, r.i), xx, yy - 1, es)
           /\ r.fase = "limpa" =>
                ProntoDe(te, xx, yy, es, cu, r) = Cheio(Limpando(te, r.i), xx, yy - 1, es)
           /\ r.fase = "sobe" => ProntoDe(te, xx, yy, es, cu, r) = Cheio(te, xx, yy - 1, es)
           /\ r.fase \in {"linha", "coluna"} /\ r.c # NADA =>
                ProntoDe(te, xx, yy, es, cu, r) = Posto(Estado(te, xx, yy, es, cu), r.c)
           /\ r.fase \in {"linha", "coluna"} /\ r.c = NADA =>
                ProntoDe(te, xx, yy, es, cu, r) = Cheio(te, xx, yy, es)
           /\ r.fase = "poe" => ProntoDe(te, xx, yy, es, cu, r) = Posto(Estado(te, xx, yy, es, cu), r.c)
           /\ r.fase = "avanca" =>
                ProntoDe(te, xx, yy, es, cu, r) = Ajustado(Estado(te, xx + 1, yy, es, cu))
           /\ r.fase = "zera" => ProntoDe(te, xx, yy, es, cu, r) = Ajustado(Estado(te, xx, yy, es, cu))
           /\ r.fase \in {"fim", "soma", "cursor"} =>
                ProntoDe(te, xx, yy, es, cu, r) = Cheio(te, xx, yy, es)
           /\ r.fase = "ocioso" => ProntoDe(te, xx, yy, es, cu, r) = Estado(te, xx, yy, es, cu)
BY DEF ProntoDe

\* A statement that keeps both keeps the invariant.
LEMMA Basta ==
    ASSUME Claro, limpo, TypeOK, NEW k \in Contextos, ~ Ocioso(k),
           \A j \in Contextos \ {k} : q'[j] = q[j],
           UNCHANGED resto,
           ContaDe(x', y', escape', q'[k]),
           ProntoDe(tela', x', y', escape', cursor', q'[k]) = ProntoDe(tela, x, y, escape, cursor, q[k])
    PROVE  Claro'
<1> DEFINE fim == Esperado(antes[1], antes[2])
           ap == ProntoDe(tela, x, y, escape, cursor, q[k])
           dp == ProntoDe(tela', x', y', escape', cursor', q'[k])
           cd == ContaDe(x', y', escape', q'[k])
<1>1. antes # << >> /\ ap = fim /\ dp = fim /\ cd
      BY DEF Claro
<1>2. limpo' = limpo /\ resta' = resta /\ antes' = antes
      BY DEF resto
<1>3. \A j \in Contextos \ {k} : Ocioso(j) /\ Ocioso(j)'
      BY DEF Claro, Ocioso, Contextos
<1>4. k = "principal" => resta' = << >>
      BY <1>2 DEF Claro
<1>5. Ocioso(k)' => dp = Agora' /\ x' < Colunas /\ y' < Linhas
  <2>1. Agora' = Estado(tela', x', y', escape', cursor')
        BY DEF Agora, Estado
  <2>2. q'[k].fase = "ocioso" => dp = Estado(tela', x', y', escape', cursor')
        BY ProntoFase
  <2>3. q'[k].fase = "ocioso" => x' < Colunas /\ y' < Linhas
        BY DEF ContaDe, Assentado
  <2> QED BY <2>1, <2>2, <2>3 DEF Ocioso
<1>6. fim = Esperado(antes'[1], antes'[2])
      BY <1>2
<1>7. ~ Ocioso("principal")' => Ocioso("nmi")' /\ resta' = << >>
      BY <1>3, <1>4 DEF Contextos
<1>8. Ocioso("principal")' /\ Ocioso("nmi")' => x' < Colunas /\ y' < Linhas /\ Agora' = fim
  <2>1. Ocioso("principal")' /\ Ocioso("nmi")' => Ocioso(k)'
        BY DEF Contextos
  <2> QED BY <2>1, <1>1, <1>5
<1>9. \A j \in Contextos : ~ Ocioso(j)' => j = k
      BY <1>3
<1> HIDE DEF fim
<1> QED BY <1>1, <1>2, <1>6, <1>7, <1>8, <1>9 DEF Claro

-----------------------------------------------------------------------------
(* The statements, one by one: what is left to do ends the same.           *)

\* The statements that only choose the next one, or compute an address.
LEMMA AdianteCerto ==
    ASSUME NEW te \in [Celulas -> Glifos], NEW xx \in 0..Colunas, NEW yy \in Nat, NEW es \in BOOLEAN,
           NEW cu, NEW r, NEW s, ContaDe(xx, yy, es, r),
           s.volta = r.volta, s.c = r.c
    PROVE  /\ r.fase = "calc" /\ xx < Colunas /\ s.fase = "rola" =>
                /\ ContaDe(xx, yy, es, s)
                /\ ProntoDe(te, xx, yy, es, cu, s) = ProntoDe(te, xx, yy, es, cu, r)
           /\ r.fase = "linha" /\ s.fase = "coluna" /\ s.e = yy * Colunas =>
                /\ ContaDe(xx, yy, es, s)
                /\ ProntoDe(te, xx, yy, es, cu, s) = ProntoDe(te, xx, yy, es, cu, r)
           /\ r.fase = "coluna" /\ s.e = r.e + xx /\ s.fase = (IF r.c # NADA THEN "poe" ELSE "fim") =>
                /\ ContaDe(xx, yy, es, s)
                /\ ProntoDe(te, xx, yy, es, cu, s) = ProntoDe(te, xx, yy, es, cu, r)
           /\ r.fase = "calc" /\ xx = Colunas /\ s.fase = "zera" =>
                /\ ContaDe(xx, yy, es, s)
                /\ ProntoDe(te, xx, yy, es, cu, s) = ProntoDe(te, xx, yy, es, cu, r)
           /\ r.fase = "fim" /\ s.fase = "soma" /\ s.e = yy * Colunas =>
                /\ ContaDe(xx, yy, es, s)
                /\ ProntoDe(te, xx, yy, es, cu, s) = ProntoDe(te, xx, yy, es, cu, r)
           /\ r.fase = "soma" /\ s.fase = "cursor" /\ s.e = r.e + xx =>
                /\ ContaDe(xx, yy, es, s)
                /\ ProntoDe(te, xx, yy, es, cu, s) = ProntoDe(te, xx, yy, es, cu, r)
<1> USE ConsoleAssumption DEF ContaDe, Assentado, Rolando
<1>1. ASSUME r.fase = "calc", xx < Colunas, s.fase = "rola"
      PROVE  /\ ContaDe(xx, yy, es, s)
             /\ ProntoDe(te, xx, yy, es, cu, s) = ProntoDe(te, xx, yy, es, cu, r)
  <2>1. ContaDe(xx, yy, es, s) BY <1>1
  <2> HIDE DEF ContaDe
  <2> QED BY <1>1, <2>1, ProntoFase
<1>2. ASSUME r.fase = "linha", s.fase = "coluna", s.e = yy * Colunas
      PROVE  /\ ContaDe(xx, yy, es, s)
             /\ ProntoDe(te, xx, yy, es, cu, s) = ProntoDe(te, xx, yy, es, cu, r)
  <2>1. ContaDe(xx, yy, es, s) BY <1>2
  <2> HIDE DEF ContaDe
  <2> QED BY <1>2, <2>1, ProntoFase
<1>3. ASSUME r.fase = "coluna", s.e = r.e + xx, s.fase = (IF r.c # NADA THEN "poe" ELSE "fim")
      PROVE  /\ ContaDe(xx, yy, es, s)
             /\ ProntoDe(te, xx, yy, es, cu, s) = ProntoDe(te, xx, yy, es, cu, r)
  <2>1. ContaDe(xx, yy, es, s) BY <1>3
  <2> HIDE DEF ContaDe
  <2> QED BY <1>3, <2>1, ProntoFase
<1>4. ASSUME r.fase = "calc", xx = Colunas, s.fase = "zera"
      PROVE  /\ ContaDe(xx, yy, es, s)
             /\ ProntoDe(te, xx, yy, es, cu, s) = ProntoDe(te, xx, yy, es, cu, r)
  <2>1. ContaDe(xx, yy, es, s) BY <1>4
  <2>2. r.volta = "fim" BY <1>4
  <2> HIDE DEF ContaDe
  <2> QED BY <1>4, <2>1, <2>2, ProntoFase
<1>5. ASSUME r.fase = "fim", s.fase = "soma", s.e = yy * Colunas
      PROVE  /\ ContaDe(xx, yy, es, s)
             /\ ProntoDe(te, xx, yy, es, cu, s) = ProntoDe(te, xx, yy, es, cu, r)
  <2>1. ContaDe(xx, yy, es, s) BY <1>5
  <2> HIDE DEF ContaDe
  <2> QED BY <1>5, <2>1, ProntoFase
<1>6. ASSUME r.fase = "soma", s.fase = "cursor", s.e = r.e + xx
      PROVE  /\ ContaDe(xx, yy, es, s)
             /\ ProntoDe(te, xx, yy, es, cu, s) = ProntoDe(te, xx, yy, es, cu, r)
  <2>1. ContaDe(xx, yy, es, s) BY <1>6
  <2> HIDE DEF ContaDe
  <2> QED BY <1>6, <2>1, ProntoFase
<1> QED BY <1>1, <1>2, <1>3, <1>4, <1>5, <1>6

\* The end of a line: the position is the start of the next one.
LEMMA QuebraCerta ==
    ASSUME NEW te \in [Celulas -> Glifos], NEW yy \in Nat, NEW es \in BOOLEAN, NEW cu,
           NEW r, NEW s, ContaDe(Colunas, yy, es, r), r.fase = "zera",
           s.volta = r.volta, s.c = r.c, s.fase = "baixa"
    PROVE  /\ ContaDe(0, yy, es, s)
           /\ ProntoDe(te, 0, yy, es, cu, s) = ProntoDe(te, Colunas, yy, es, cu, r)
<1>1. ContaDe(0, yy, es, s)
      BY ConsoleAssumption DEF ContaDe, Assentado, Rolando
<1>2. ProntoDe(te, 0, yy, es, cu, s) = Ajustado(Estado(te, 0, yy + 1, es, cu))
      BY ProntoFase
<1>3. ProntoDe(te, Colunas, yy, es, cu, r) = Ajustado(Estado(te, Colunas, yy, es, cu))
      BY ProntoFase
<1> QED BY <1>1, <1>2, <1>3, AjustadoQuebra

\* The next line.
LEMMA DesceCerto ==
    ASSUME NEW te \in [Celulas -> Glifos], NEW xx \in 0..Colunas, NEW yy \in Nat, NEW es \in BOOLEAN,
           NEW cu, NEW r, NEW s, ContaDe(xx, yy, es, r),
           s.volta = r.volta, s.c = r.c,
           \/ r.fase = "desce" /\ s.fase = "calc"
           \/ r.fase = "baixa" /\ s.fase = "rola"
    PROVE  /\ ContaDe(xx, yy + 1, es, s)
           /\ ProntoDe(te, xx, yy + 1, es, cu, s) = ProntoDe(te, xx, yy, es, cu, r)
<1> DEFINE lin == yy + 1
<1>1. ContaDe(xx, lin, es, s)
      BY ConsoleAssumption DEF ContaDe, Assentado, Rolando
<1>2. ~ (r.volta = "linha" /\ r.c # NADA)
      BY DEF ContaDe, Rolando
<1>3. ProntoDe(te, xx, yy, es, cu, r) = Ajustado(Estado(te, xx, lin, es, cu))
      BY ProntoFase
<1> HIDE DEF lin
<1>4. ProntoDe(te, xx, lin, es, cu, s) = Ajustado(Estado(te, xx, lin, es, cu))
      BY <1>2, ProntoFase
<1> QED BY <1>1, <1>3, <1>4 DEF lin

\* The test of the scrolling loop.
LEMMA RolaCerto ==
    ASSUME NEW te \in [Celulas -> Glifos], NEW xx \in 0..Colunas, NEW yy \in Nat, NEW es \in BOOLEAN,
           NEW cu, NEW r, NEW s, ContaDe(xx, yy, es, r), r.fase = "rola", r.volta \in {"linha", "fim"},
           s.volta = r.volta, s.c = r.c, s.i = 0,
           s.fase = IF yy >= Linhas THEN "copia" ELSE r.volta
    PROVE  /\ ContaDe(xx, yy, es, s)
           /\ ProntoDe(te, xx, yy, es, cu, s) = ProntoDe(te, xx, yy, es, cu, r)
<1>0. Colunas \in Nat \ {0} /\ Linhas \in Nat \ {0, 1}
      BY ConsoleAssumption
<1>1. ContaDe(xx, yy, es, s)
      BY <1>0 DEF ContaDe, Assentado, Rolando
<1>2. xx \in 0..(Colunas - 1) /\ yy <= Linhas
      BY <1>0 DEF ContaDe, Assentado
<1>3. CASE yy < Linhas
  <2>1. s.fase = r.volta /\ yy \in 0..(Linhas - 1)
        BY <1>0, <1>3
  <2>2. Ajustado(Estado(te, xx, yy, es, cu)) = Cheio(te, xx, yy, es)
        BY <1>2, <2>1, AjustadoQuieto DEF Cheio
  <2> QED BY <1>1, <2>1, <2>2, ProntoFase
<1>4. CASE yy = Linhas
  <2>1. s.fase = "copia" /\ ~ (r.volta = "linha" /\ r.c # NADA)
        BY <1>0, <1>4 DEF ContaDe
  <2>2. ASSUME NEW p \in Celulas PROVE ~ (p < 0)
        BY UltimaLinhaDentro DEF Celulas
  <2>3. Subindo(te, 0) = [p \in Celulas |-> IF p < UltimaLinha THEN te[p + Colunas] ELSE ESPACO]
        BY <2>2 DEF Subindo
  <2>4. Ajustado(Estado(te, xx, Linhas, es, cu)) = Cheio(Subindo(te, 0), xx, Linhas - 1, es)
    <3> DEFINE g == [p \in Celulas |-> IF p < UltimaLinha THEN te[p + Colunas] ELSE ESPACO]
    <3>1. Ajustado(Estado(te, xx, Linhas, es, cu)) = Estado(g, xx, Linhas - 1, es, (Linhas - 1) * Colunas + xx)
          BY <1>2, AjustadoSobe
    <3>2. Subindo(te, 0) = g
          BY <2>3
    <3> HIDE DEF g
    <3> QED BY <3>1, <3>2 DEF Cheio
  <2>5. ProntoDe(te, xx, yy, es, cu, r) = Ajustado(Estado(te, xx, yy, es, cu))
        BY <2>1, ProntoFase
  <2>6. ProntoDe(te, xx, yy, es, cu, s) = Cheio(Subindo(te, s.i), xx, yy - 1, es)
        BY <2>1, ProntoFase
  <2> QED BY <1>1, <1>4, <2>4, <2>5, <2>6
<1> QED BY <1>0, <1>2, <1>3, <1>4

\* What each of the statements below does to the call (r before, s after) and to the screen.
UmaSobe(te, r, td, s) ==
    /\ r.fase = "copia" /\ s.volta = r.volta /\ s.c = r.c
    /\ \/ r.i + 1 < UltimaLinha /\ s.fase = "copia" /\ s.i = r.i + 1
       \/ r.i + 1 >= UltimaLinha /\ s.fase = "limpa" /\ s.i = 0
    /\ td = [te EXCEPT ![r.i] = te[r.i + Colunas]]

\* One cell goes up a line.
LEMMA CopiaCerta ==
    ASSUME NEW te \in [Celulas -> Glifos], NEW xx \in 0..Colunas, NEW yy \in Nat, NEW es \in BOOLEAN,
           NEW cu, NEW r, NEW td, NEW s, ContaDe(xx, yy, es, r),
           r.i \in Nat, r.i < UltimaLinha, UmaSobe(te, r, td, s)
    PROVE  /\ ContaDe(xx, yy, es, s)
           /\ ProntoDe(td, xx, yy, es, cu, s) = ProntoDe(te, xx, yy, es, cu, r)
<1> USE DEF UmaSobe
<1>0. /\ Colunas \in Nat \ {0} /\ Linhas \in Nat \ {0, 1}
      /\ UltimaLinha \in Nat \ {0} /\ \A p \in Celulas : p \in Nat
      BY ConsoleAssumption, UltimaLinhaDentro DEF Celulas
<1>1. ContaDe(xx, yy, es, s)
      BY <1>0 DEF ContaDe, Assentado, Rolando
<1>2. ASSUME NEW p \in Celulas
      PROVE  /\ p = r.i => td[p] = te[p + Colunas]
             /\ p # r.i => td[p] = te[p]
      BY <1>0
<1>4. ProntoDe(te, xx, yy, es, cu, r) = Cheio(Subindo(te, r.i), xx, yy - 1, es)
      BY ProntoFase
<1>5. CASE r.i + 1 < UltimaLinha
  <2> DEFINE i == r.i + 1
  <2>1. s.fase = "copia" /\ s.i = i /\ i \in Nat
        BY <1>0, <1>5
  <2>2. ASSUME NEW p \in Celulas
        PROVE  (IF p < i THEN td[p] ELSE IF p < UltimaLinha THEN td[p + Colunas] ELSE ESPACO)
                = (IF p < r.i THEN te[p] ELSE IF p < UltimaLinha THEN te[p + Colunas] ELSE ESPACO)
    <3>1. CASE p < r.i
      <4>1. p < i /\ p # r.i BY <1>0, <3>1
      <4> QED BY <3>1, <4>1, <1>2
    <3>2. CASE p = r.i
      <4>1. p < i /\ ~ (p < r.i) /\ p < UltimaLinha BY <1>0, <3>2
      <4> QED BY <3>2, <4>1, <1>2
    <3>3. CASE p > r.i /\ p < UltimaLinha
      <4>0. p + Colunas \in Celulas
            BY <1>0, <3>3, UltimaLinhaDentro DEF Celulas
      <4>1. p + Colunas \in Celulas /\ p + Colunas # r.i /\ ~ (p < i) /\ ~ (p < r.i)
            BY <1>0, <3>3, <4>0
      <4> QED BY <3>3, <4>1, <1>2
    <3>4. CASE p > r.i /\ ~ (p < UltimaLinha)
      <4>1. ~ (p < i) /\ ~ (p < r.i)
            BY <1>0, <3>4
      <4> QED BY <3>4, <4>1
    <3> QED BY <1>0, <3>1, <3>2, <3>3, <3>4
  <2> HIDE DEF i
  <2>3. Subindo(td, i) = Subindo(te, r.i)
        BY <2>2 DEF Subindo
  <2>4. ProntoDe(td, xx, yy, es, cu, s) = Cheio(Subindo(td, s.i), xx, yy - 1, es)
        BY <2>1, ProntoFase
  <2> QED BY <1>1, <1>4, <2>1, <2>3, <2>4
<1>6. CASE r.i + 1 >= UltimaLinha
  <2>1. s.fase = "limpa" /\ s.i = 0 /\ r.i + 1 = UltimaLinha
        BY <1>0, <1>6
  <2>2. ASSUME NEW p \in Celulas
        PROVE  (IF p < UltimaLinha + 0 THEN td[p] ELSE ESPACO)
                = (IF p < r.i THEN te[p] ELSE IF p < UltimaLinha THEN te[p + Colunas] ELSE ESPACO)
    <3>0. UltimaLinha + 0 = UltimaLinha BY <1>0
    <3>1. CASE p < r.i
      <4>1. p < UltimaLinha /\ p # r.i BY <1>0, <3>1
      <4> QED BY <3>0, <3>1, <4>1, <1>2
    <3>2. CASE p = r.i
      <4>1. ~ (p < r.i) /\ p < UltimaLinha BY <1>0, <3>2
      <4> QED BY <3>0, <3>2, <4>1, <1>2
    <3>3. CASE p > r.i
      <4>1. ~ (p < UltimaLinha) /\ ~ (p < r.i) BY <1>0, <2>1, <3>3
      <4> QED BY <3>0, <4>1
    <3> QED BY <1>0, <3>1, <3>2, <3>3
  <2>3. Limpando(td, 0) = Subindo(te, r.i)
        BY <2>2 DEF Limpando, Subindo
  <2>4. ProntoDe(td, xx, yy, es, cu, s) = Cheio(Limpando(td, s.i), xx, yy - 1, es)
        BY <2>1, ProntoFase
  <2> QED BY <1>1, <1>4, <2>1, <2>3, <2>4
<1> QED BY <1>0, <1>5, <1>6

UmaLimpa(te, r, td, s) ==
    /\ r.fase = "limpa" /\ s.volta = r.volta /\ s.c = r.c
    /\ \/ r.i + 1 < Colunas /\ s.fase = "limpa" /\ s.i = r.i + 1
       \/ r.i + 1 >= Colunas /\ s.fase = "sobe"
    /\ td = [te EXCEPT ![UltimaLinha + r.i] = ESPACO]

\* One cell of the last line is cleared.
LEMMA LimpaCerta ==
    ASSUME NEW te \in [Celulas -> Glifos], NEW xx \in 0..Colunas, NEW yy \in Nat, NEW es \in BOOLEAN,
           NEW cu, NEW r, NEW td, NEW s, ContaDe(xx, yy, es, r),
           r.i \in Nat, r.i < Colunas, UmaLimpa(te, r, td, s)
    PROVE  /\ ContaDe(xx, yy, es, s)
           /\ ProntoDe(td, xx, yy, es, cu, s) = ProntoDe(te, xx, yy, es, cu, r)
<1> USE DEF UmaLimpa
<1>0. /\ Colunas \in Nat \ {0} /\ Linhas \in Nat \ {0, 1}
      /\ UltimaLinha \in Nat \ {0} /\ \A p \in Celulas : p \in Nat
      BY ConsoleAssumption, UltimaLinhaDentro DEF Celulas
<1>1. ContaDe(xx, yy, es, s)
      BY <1>0 DEF ContaDe, Assentado, Rolando
<1> DEFINE aqui == UltimaLinha + r.i
<1>2. ASSUME NEW p \in Celulas
      PROVE  /\ p = aqui => td[p] = ESPACO
             /\ p # aqui => td[p] = te[p]
      BY <1>0
<1>3. aqui \in Nat
      BY <1>0
<1>4. ProntoDe(te, xx, yy, es, cu, r) = Cheio(Limpando(te, r.i), xx, yy - 1, es)
      BY ProntoFase
<1>5. CASE r.i + 1 < Colunas
  <2> DEFINE i == r.i + 1
  <2>1. s.fase = "limpa" /\ s.i = i /\ i \in Nat
        BY <1>0, <1>5
  <2>2. ASSUME NEW p \in Celulas
        PROVE  (IF p < UltimaLinha + i THEN td[p] ELSE ESPACO) = (IF p < aqui THEN te[p] ELSE ESPACO)
    <3>1. p < UltimaLinha + i <=> p < aqui \/ p = aqui
          BY <1>0
    <3>2. ~ (aqui < aqui)
          BY <1>3
    <3> HIDE DEF aqui, i
    <3>3. CASE p = aqui BY <3>1, <3>2, <3>3, <1>2
    <3>4. CASE p # aqui BY <3>1, <3>4, <1>2
    <3> QED BY <3>3, <3>4
  <2> HIDE DEF i
  <2>3. Limpando(td, i) = Limpando(te, r.i)
        BY <2>2 DEF Limpando
  <2>4. ProntoDe(td, xx, yy, es, cu, s) = Cheio(Limpando(td, s.i), xx, yy - 1, es)
        BY <2>1, ProntoFase
  <2> QED BY <1>1, <1>4, <2>1, <2>3, <2>4
<1>6. CASE r.i + 1 >= Colunas
  <2>1. s.fase = "sobe" /\ r.i + 1 = Colunas
        BY <1>0, <1>6
  <2>2. ASSUME NEW p \in Celulas
        PROVE  td[p] = IF p < aqui THEN te[p] ELSE ESPACO
    <3>1. p < aqui \/ p = aqui
          BY <1>0, <2>1, UltimaLinhaDentro DEF Celulas
    <3>2. ~ (aqui < aqui)
          BY <1>3
    <3> HIDE DEF aqui
    <3>3. CASE p = aqui BY <3>1, <3>2, <3>3, <1>2
    <3>4. CASE p # aqui BY <3>1, <3>4, <1>2
    <3> QED BY <3>3, <3>4
  <2>3. td = [p \in Celulas |-> td[p]]
        OBVIOUS
  <2>4. td = Limpando(te, r.i)
        BY <2>2, <2>3 DEF Limpando
  <2>5. ProntoDe(td, xx, yy, es, cu, s) = Cheio(td, xx, yy - 1, es)
        BY <2>1, ProntoFase
  <2> QED BY <1>1, <1>4, <2>4, <2>5
<1> QED BY <1>0, <1>5, <1>6

\* The position goes back to the last line.
LEMMA SobeCerto ==
    ASSUME NEW te \in [Celulas -> Glifos], NEW xx \in 0..Colunas, NEW yy \in Nat, NEW es \in BOOLEAN,
           NEW cu, NEW r, NEW s, ContaDe(xx, yy, es, r), r.fase = "sobe",
           s.volta = r.volta, s.c = r.c, s.fase = "rola"
    PROVE  /\ ContaDe(xx, yy - 1, es, s)
           /\ ProntoDe(te, xx, yy - 1, es, cu, s) = ProntoDe(te, xx, yy, es, cu, r)
<1> DEFINE lin == yy - 1
<1>0. Colunas \in Nat \ {0} /\ Linhas \in Nat \ {0, 1}
      BY ConsoleAssumption
<1>1. yy = Linhas /\ xx \in 0..(Colunas - 1) /\ ~ (r.volta = "linha" /\ r.c # NADA)
      BY <1>0 DEF ContaDe, Assentado, Rolando
<1>2. lin \in 0..(Linhas - 1)
      BY <1>0, <1>1
<1>3. ContaDe(xx, lin, es, s)
      BY <1>0, <1>1 DEF ContaDe, Assentado, Rolando
<1>4. ProntoDe(te, xx, yy, es, cu, r) = Cheio(te, xx, lin, es)
      BY ProntoFase
<1> HIDE DEF lin
<1>5. ProntoDe(te, xx, lin, es, cu, s) = Ajustado(Estado(te, xx, lin, es, cu))
      BY <1>1, ProntoFase
<1>6. Ajustado(Estado(te, xx, lin, es, cu)) = Cheio(te, xx, lin, es)
      BY <1>1, <1>2, AjustadoQuieto DEF Cheio
<1> QED BY <1>3, <1>4, <1>5, <1>6 DEF lin

\* The character is put at the address, and the position goes past it.
LEMMA PoeCerto ==
    ASSUME NEW te \in [Celulas -> Glifos], NEW xx \in 0..Colunas, NEW yy \in Nat, NEW es \in BOOLEAN,
           NEW cu, NEW r, NEW s, ContaDe(xx, yy, es, r), r.fase = "poe", s.fase = "avanca",
           NEW td, td = [p \in Celulas |-> IF p = r.e THEN r.c ELSE te[p]]
    PROVE  /\ ContaDe(xx, yy, es, s)
           /\ ProntoDe(td, xx, yy, es, cu, s) = ProntoDe(te, xx, yy, es, cu, r)
<1>1. ContaDe(xx, yy, es, s) /\ r.e = yy * Colunas + xx /\ es = FALSE
      BY ConsoleAssumption DEF ContaDe, Assentado, Rolando
<1> DEFINE t == Estado(te, xx, yy, es, cu)
           v == Estado(td, xx + 1, yy, es, cu)
<1>2. td = [te EXCEPT ![yy * Colunas + xx] = r.c]
      BY <1>1
<1>3. ProntoDe(te, xx, yy, es, cu, r) = Posto(t, r.c)
      BY ProntoFase
<1>4. [v EXCEPT !.escape = es] = v
      BY ONLY EstadoEscape
<1>5. ProntoDe(td, xx, yy, es, cu, s) = Ajustado(v)
      BY ProntoFase
<1>6. Posto(t, r.c) = Ajustado([v EXCEPT !.escape = FALSE])
  <2> DEFINE e == yy * Colunas + xx
             col == xx + 1
             ch == r.c
  <2>1. t.x = xx /\ t.y = yy /\ t.tela = te
        BY EstadoCampos
  <2>2. [[t EXCEPT !.x = col] EXCEPT !.tela = td] = Estado(td, col, yy, es, cu)
    <3> HIDE DEF col
    <3>1. [t EXCEPT !.x = col] = Estado(te, col, yy, es, cu)
          BY DEF Estado
    <3>2. [Estado(te, col, yy, es, cu) EXCEPT !.tela = td] = Estado(td, col, yy, es, cu)
          BY DEF Estado
    <3> QED BY <3>1, <3>2
  <2> HIDE DEF t, e, ch
  <2>3. [t EXCEPT !.x = @ + 1, !.escape = FALSE, !.tela[e] = ch]
          = [[[t EXCEPT !.x = t.x + 1] EXCEPT !.tela = [t.tela EXCEPT ![e] = ch]] EXCEPT !.escape = FALSE]
        OBVIOUS
  <2>4. Posto(t, ch) = Ajustado([t EXCEPT !.x = @ + 1, !.escape = FALSE, !.tela[e] = ch])
        BY <2>1 DEF Posto, e
  <2>5. Posto(t, ch) = Ajustado([[[t EXCEPT !.x = col] EXCEPT !.tela = td] EXCEPT !.escape = FALSE])
        BY <1>2, <2>1, <2>3, <2>4 DEF e, ch
  <2> QED BY <2>2, <2>5 DEF ch
<1> HIDE DEF t, v
<1>7. [v EXCEPT !.escape = FALSE] = v
      BY <1>1, <1>4
<1> QED BY <1>1, <1>3, <1>5, <1>6, <1>7

LEMMA AvancaCerto ==
    ASSUME NEW te \in [Celulas -> Glifos], NEW xx \in 0..Colunas, NEW yy \in Nat, NEW es \in BOOLEAN,
           NEW cu, NEW r, NEW s, ContaDe(xx, yy, es, r), r.fase = "avanca",
           s.fase = "calc", s.volta = "fim"
    PROVE  /\ ContaDe(xx + 1, yy, es, s)
           /\ ProntoDe(te, xx + 1, yy, es, cu, s) = ProntoDe(te, xx, yy, es, cu, r)
<1> DEFINE col == xx + 1
<1>1. ContaDe(col, yy, es, s)
      BY ConsoleAssumption DEF ContaDe, Assentado, Rolando
<1>2. ProntoDe(te, xx, yy, es, cu, r) = Ajustado(Estado(te, col, yy, es, cu))
      BY ProntoFase
<1> HIDE DEF col
<1>3. ProntoDe(te, col, yy, es, cu, s) = Ajustado(Estado(te, col, yy, es, cu))
      BY ProntoFase
<1> QED BY <1>1, <1>2, <1>3 DEF col

\* The cursor goes to the position.
LEMMA CursorCerto ==
    ASSUME NEW te \in [Celulas -> Glifos], NEW xx \in 0..Colunas, NEW yy \in Nat, NEW es \in BOOLEAN,
           NEW cu, NEW r, NEW s, ContaDe(xx, yy, es, r), r.fase = "cursor", s.fase = "ocioso"
    PROVE  /\ ContaDe(xx, yy, es, s)
           /\ ProntoDe(te, xx, yy, es, r.e, s) = ProntoDe(te, xx, yy, es, cu, r)
<1>1. ContaDe(xx, yy, es, s) /\ r.e = yy * Colunas + xx
      BY ConsoleAssumption DEF ContaDe, Assentado, Rolando
<1> QED BY <1>1, ProntoFase DEF Cheio

\* _VT_Escape is reset, and set.
Desliga(te, xx, yy, cu, r, s) ==
    /\ ContaDe(xx, yy, FALSE, s)
    /\ ProntoDe(te, xx, yy, FALSE, cu, s) = ProntoDe(te, xx, yy, TRUE, cu, r)
Liga(te, xx, yy, cu, r, s) ==
    /\ ContaDe(xx, yy, TRUE, s)
    /\ ProntoDe(te, xx, yy, TRUE, cu, s) = ProntoDe(te, xx, yy, FALSE, cu, r)

Traduzido(r, s) ==
    /\ r.fase = "escape" /\ s.volta = r.volta
    /\ \/ r.c \in DOMAIN Traduz /\ s.c = Traduz[r.c] /\ s.fase = "escape"
       \/ r.c \notin DOMAIN Traduz /\ s.c = r.c /\ s.fase = "calc"

\* The first statement of a call, with _VT_Escape set.
LEMMA ComEscapeCerto ==
    ASSUME NEW te \in [Celulas -> Glifos], NEW xx \in 0..Colunas, NEW yy \in Nat,
           NEW cu, NEW r, NEW s, ContaDe(xx, yy, TRUE, r), Traduzido(r, s)
    PROVE  Desliga(te, xx, yy, cu, r, s)
<1> USE DEF Traduzido
<1> DEFINE sim == TRUE
           nao == FALSE
           t == Estado(te, xx, yy, sim, cu)
           u == Estado(te, xx, yy, nao, cu)
           inicial == ProntoDe(te, xx, yy, sim, cu, r)
           depois == ProntoDe(te, xx, yy, nao, cu, s)
<1>1. ContaDe(xx, yy, nao, s) /\ s.volta = "linha"
      BY ConsoleAssumption DEF ContaDe, Assentado, Rolando
<1>2. /\ u = [t EXCEPT !.escape = nao] /\ u = [u EXCEPT !.escape = nao]
      /\ t.escape = sim /\ u.escape = nao
      /\ inicial = Esperado(t, r.c)
      /\ s.fase = "escape" => depois = Esperado(u, s.c)
      /\ s.fase = "calc" /\ s.c # NADA => depois = Posto(u, s.c)
      /\ s.fase = "calc" /\ s.c = NADA => depois = Ajustado(u)
  <2> HIDE DEF sim, nao
  <2> QED BY <1>1, EstadoEscape, EstadoCampos, ProntoFase
<1> HIDE DEF t, u, inicial, depois
<1>3. u = Solto(t) /\ u = Solto(u) /\ t.escape /\ ~ u.escape
      BY <1>2 DEF Solto
<1>4. inicial = depois
  <2> DEFINE c == r.c
  <2> HIDE DEF sim, nao, c
  <2>1. /\ c = NADA => Esperado(t, c) = Ajustado(u)
        /\ c # NADA /\ c \notin DOMAIN Traduz => Esperado(t, c) = Posto(u, c)
        /\ c \in DOMAIN Traduz => Esperado(t, c) = Esperado(u, Traduz[c])
        BY ONLY <1>3, EsperadoDe
  <2> QED BY <1>2, <2>1 DEF c
<1> QED BY <1>1, <1>4 DEF inicial, depois, Desliga

NaBarra(r, s) == r.fase = "escape" /\ s.volta = r.volta /\ r.c = BARRA /\ s.fase = "ocioso"

\* Without it, a backslash.
LEMMA BarraCerta ==
    ASSUME NEW te \in [Celulas -> Glifos], NEW xx \in 0..Colunas, NEW yy \in Nat,
           NEW cu, NEW r, NEW s, ContaDe(xx, yy, FALSE, r), NaBarra(r, s)
    PROVE  Liga(te, xx, yy, cu, r, s)
<1> USE DEF NaBarra
<1> DEFINE sim == TRUE
           nao == FALSE
           t == Estado(te, xx, yy, nao, cu)
           ligado == Estado(te, xx, yy, sim, cu)
           agora == ProntoDe(te, xx, yy, nao, cu, r)
           depois == ProntoDe(te, xx, yy, sim, cu, s)
<1>1. ContaDe(xx, yy, sim, s)
      BY DEF ContaDe, Assentado, Rolando
<1>2. t.escape = nao /\ ligado = [t EXCEPT !.escape = sim] /\ agora = Esperado(t, r.c) /\ depois = ligado
  <2> HIDE DEF sim, nao
  <2> QED BY EstadoEscape, EstadoCampos, ProntoFase
<1> HIDE DEF t, ligado, agora, depois
<1>3. ~ t.escape /\ ligado = [t EXCEPT !.escape = TRUE]
      BY <1>2
<1>4. Esperado(t, BARRA) = [t EXCEPT !.escape = TRUE]
      BY ONLY <1>3, EsperadoDe
<1>5. agora = depois
      BY <1>2, <1>3, <1>4
<1> QED BY <1>1, <1>5 DEF agora, depois, Liga

\* A statement that leaves the screen, the line and the escape as they are.
Iguais(te, xx, yy, cu, r, xd, s) ==
    /\ ContaDe(xd, yy, FALSE, s)
    /\ ProntoDe(te, xd, yy, FALSE, cu, s) = ProntoDe(te, xx, yy, FALSE, cu, r)

NoRetorno(r, s) ==
    /\ r.fase = "escape" /\ s.volta = r.volta /\ r.c \in {CR, LF} /\ s.c = NADA
    /\ s.fase = IF r.c = LF THEN "desce" ELSE "calc"

\* A carriage return or a line feed.
LEMMA RetornaCerta ==
    ASSUME NEW te \in [Celulas -> Glifos], NEW xx \in 0..Colunas, NEW yy \in Nat,
           NEW cu, NEW r, NEW s, ContaDe(xx, yy, FALSE, r), NoRetorno(r, s)
    PROVE  Iguais(te, xx, yy, cu, r, 0, s)
<1> USE DEF NoRetorno
<1> DEFINE nao == FALSE
           lin == yy + 1
           t == Estado(te, xx, yy, nao, cu)
           inicio == Estado(te, 0, yy, nao, cu)
           abaixo == Estado(te, 0, lin, nao, cu)
           agora == ProntoDe(te, xx, yy, nao, cu, r)
           depois == ProntoDe(te, 0, yy, nao, cu, s)
<1>1. ContaDe(0, yy, nao, s)
      BY ConsoleAssumption DEF ContaDe, Assentado, Rolando
<1>2. /\ [t EXCEPT !.escape = nao] = t /\ t.escape = nao
      /\ inicio = [t EXCEPT !.x = 0]
      /\ inicio.y = yy /\ t.y = yy /\ abaixo = [inicio EXCEPT !.y = lin]
      /\ agora = Esperado(t, r.c)
      /\ r.c = LF => depois = Ajustado(abaixo)
      /\ r.c # LF => depois = Ajustado(inicio)
  <2> HIDE DEF nao
  <2>1. inicio = [t EXCEPT !.x = 0]
        BY DEF Estado
  <2>2. agora = Esperado(t, r.c)
        BY ProntoFase
  <2>3. r.c = LF => depois = Ajustado(abaixo)
        BY ProntoFase
  <2>4. r.c # LF => depois = Ajustado(inicio)
        BY ProntoFase
  <2>5. abaixo = [inicio EXCEPT !.y = lin]
    <3> HIDE DEF lin
    <3> QED BY DEF Estado
  <2> QED BY <2>1, <2>2, <2>3, <2>4, <2>5, EstadoEscape, EstadoCampos
<1> HIDE DEF t, inicio, abaixo, agora, depois
<1>3. Solto(t) = t /\ ~ t.escape
      BY <1>2 DEF Solto
<1>4. [t EXCEPT !.x = 0, !.y = @ + 1] = abaixo
  <2>1. [t EXCEPT !.x = 0, !.y = @ + 1] = [[t EXCEPT !.x = 0] EXCEPT !.y = t.y + 1]
        OBVIOUS
  <2> QED BY <1>2, <2>1
<1>5. /\ Esperado(t, CR) = Ajustado([Solto(t) EXCEPT !.x = 0])
      /\ Esperado(t, LF) = Ajustado([Solto(t) EXCEPT !.x = 0, !.y = @ + 1])
  <2>1. ~ t.escape
        BY <1>3
  <2> QED BY ONLY <2>1, EsperadoDe
<1>6. /\ [Solto(t) EXCEPT !.x = 0] = [t EXCEPT !.x = 0]
      /\ [Solto(t) EXCEPT !.x = 0, !.y = @ + 1] = [t EXCEPT !.x = 0, !.y = @ + 1]
      BY ONLY <1>3
<1>7. agora = depois
  <2>1. CASE r.c = LF
        BY <1>2, <1>4, <1>5, <1>6, <2>1
  <2>2. CASE r.c # LF
    <3>1. r.c = CR
          BY <2>2
    <3> QED BY <1>2, <1>5, <1>6, <2>2, <3>1
  <2> QED BY <2>1, <2>2
<1> QED BY <1>1, <1>7 DEF agora, depois, Iguais

NoComum(r, s) ==
    r.fase = "escape" /\ s.volta = r.volta /\ r.c \notin {BARRA, CR, LF} /\ s.c = r.c /\ s.fase = "calc"

\* Any other character.
LEMMA ComumCerto ==
    ASSUME NEW te \in [Celulas -> Glifos], NEW xx \in 0..Colunas, NEW yy \in Nat,
           NEW cu, NEW r, NEW s, ContaDe(xx, yy, FALSE, r), NoComum(r, s)
    PROVE  Iguais(te, xx, yy, cu, r, xx, s)
<1> USE DEF NoComum
<1> DEFINE nao == FALSE
           c == r.c
           t == Estado(te, xx, yy, nao, cu)
           agora == ProntoDe(te, xx, yy, nao, cu, r)
           depois == ProntoDe(te, xx, yy, nao, cu, s)
<1>1. ContaDe(xx, yy, nao, s) /\ s.volta = "linha"
      BY ConsoleAssumption DEF ContaDe, Assentado, Rolando
<1>2. /\ [t EXCEPT !.escape = nao] = t /\ t.escape = nao
      /\ agora = Esperado(t, c)
      /\ c = NADA => depois = Ajustado(t)
      /\ c # NADA => depois = Posto(t, c)
      /\ c \notin {BARRA, CR, LF}
  <2> HIDE DEF nao
  <2> QED BY <1>1, EstadoEscape, EstadoCampos, ProntoFase
<1> HIDE DEF t, c, agora, depois
<1>3. Solto(t) = t /\ ~ t.escape
      BY <1>2 DEF Solto
<1>4. /\ c = NADA => Esperado(t, c) = Ajustado(Solto(t))
      /\ c \notin {NADA, BARRA, CR, LF} => Esperado(t, c) = Posto(Solto(t), c)
      BY <1>3, EsperadoDe
<1>5. agora = depois
      BY <1>2, <1>3, <1>4
<1> QED BY <1>1, <1>5 DEF agora, depois, Iguais

-----------------------------------------------------------------------------
(* The steps.                                                              *)

\* Every statement, when no interrupt came inside the character.
LEMMA PassoClaro ==
    ASSUME Dentro, Claro, limpo, NEW k \in Contextos, Passo(k)
    PROVE  Claro'
<1> DEFINE r == q[k]
           s == q'[k]
<1>t. TypeOK
      BY DEF Dentro
<1>v. /\ tela \in [Celulas -> Glifos] /\ x \in 0..Colunas /\ y \in Nat /\ escape \in BOOLEAN
      /\ r \in Chamadas /\ q \in [Contextos -> Chamadas]
      BY <1>t DEF TypeOK
<1>o. ~ Ocioso(k)
      BY DEF Passo, ComEscape, Barra, Retorna, Desce, Comum, Calc, Baixa, Rola, Copia, Limpa, Sobe,
             Linha, Coluna, Poe, Avanca, Fim, Zera, Soma, AtualizaCursor, Em, Ocioso
<1>c. ContaDe(x, y, escape, r)
      BY <1>o DEF Claro
<1>r. UNCHANGED resto
      BY DEF Passo, ComEscape, Barra, Retorna, Desce, Comum, Calc, Baixa, Rola, Copia, Limpa, Sobe,
             Linha, Coluna, Poe, Avanca, Fim, Zera, Soma, AtualizaCursor
<1>s. \A j \in Contextos \ {k} : q'[j] = q[j]
      BY <1>v DEF Passo, ComEscape, Barra, Retorna, Desce, Comum, Calc, Baixa, Rola, Copia, Limpa, Sobe,
             Linha, Coluna, Poe, Avanca, Fim, Zera, Soma, AtualizaCursor, Vai
<1> DEFINE Segue == /\ ContaDe(x', y', escape', s)
                    /\ ProntoDe(tela', x', y', escape', cursor', s)
                         = ProntoDe(tela, x, y, escape, cursor, r)
<1>b. Segue => Claro'
      BY <1>t, <1>o, <1>r, <1>s, Basta
<1> SUFFICES Segue
    BY <1>b
<1> USE <1>v, <1>c DEF Em, Vai, Chamadas
<1>1. CASE Calc(k)
  <2>1. /\ r.fase = "calc" /\ s.volta = r.volta /\ s.c = r.c
        /\ UNCHANGED <<tela, x, y, escape, cursor>>
        /\ x < Colunas => s.fase = "rola"
        /\ x = Colunas => s.fase = "zera"
        BY <1>1, ConsoleAssumption DEF Calc
  <2> HIDE DEF r, s, Em, Vai, Chamadas
  <2>2. CASE x < Colunas
        BY <2>1, <2>2, AdianteCerto
  <2>3. CASE x = Colunas
        BY <2>1, <2>3, AdianteCerto
  <2> QED BY <2>2, <2>3, ConsoleAssumption
<1>2. CASE Linha(k)
  <2>1. /\ r.fase = "linha" /\ s.fase = "coluna" /\ s.e = y * Colunas /\ s.volta = r.volta /\ s.c = r.c
        /\ UNCHANGED <<tela, x, y, escape, cursor>>
        BY <1>2 DEF Linha
  <2> HIDE DEF r, s, Em, Vai, Chamadas
  <2> QED BY <2>1, AdianteCerto
<1>3. CASE Coluna(k)
  <2>1. /\ r.fase = "coluna" /\ s.e = r.e + x /\ s.fase = (IF r.c # NADA THEN "poe" ELSE "fim")
        /\ s.volta = r.volta /\ s.c = r.c
        /\ UNCHANGED <<tela, x, y, escape, cursor>>
        BY <1>3 DEF Coluna
  <2> HIDE DEF r, s, Em, Vai, Chamadas
  <2> QED BY <2>1, AdianteCerto
<1>4. CASE Desce(k)
  <2>1. /\ r.fase = "desce" /\ s.fase = "calc" /\ s.volta = r.volta /\ s.c = r.c /\ y' = y + 1
        /\ UNCHANGED <<tela, x, escape, cursor>>
        BY <1>4 DEF Desce
  <2> HIDE DEF r, s, Em, Vai, Chamadas
  <2> QED BY <2>1, DesceCerto
<1>5. CASE Baixa(k)
  <2>1. /\ r.fase = "baixa" /\ s.fase = "rola" /\ s.volta = r.volta /\ s.c = r.c /\ y' = y + 1
        /\ UNCHANGED <<tela, x, escape, cursor>>
        BY <1>5 DEF Baixa
  <2> HIDE DEF r, s, Em, Vai, Chamadas
  <2> QED BY <2>1, DesceCerto
<1>6. CASE Rola(k)
  <2>1. /\ r.fase = "rola" /\ r.volta \in {"linha", "fim"} /\ s.volta = r.volta /\ s.c = r.c /\ s.i = 0
        /\ s.fase = IF y >= Linhas THEN "copia" ELSE r.volta
        /\ UNCHANGED <<tela, x, y, escape, cursor>>
        BY <1>6 DEF Rola
  <2> HIDE DEF r, s, Em, Vai, Chamadas
  <2> QED BY <2>1, RolaCerto
<1>7. CASE Copia(k)
  <2>1. /\ r.fase = "copia" /\ s.volta = r.volta /\ s.c = r.c
        /\ \/ r.i + 1 < UltimaLinha /\ s.fase = "copia" /\ s.i = r.i + 1
           \/ ~ (r.i + 1 < UltimaLinha) /\ s.fase = "limpa" /\ s.i = 0
        /\ tela' = [tela EXCEPT ![r.i] = tela[r.i + Colunas]]
        /\ UNCHANGED <<x, y, escape, cursor>>
        BY <1>7 DEF Copia
  <2>2. r.i \in Nat /\ r.i < UltimaLinha
        BY <2>1 DEF Dentro, Locais
  <2>3. r.i + 1 < UltimaLinha \/ r.i + 1 >= UltimaLinha
        BY <2>2, UltimaLinhaDentro
  <2> HIDE DEF r, s, Em, Vai, Chamadas
  <2> DEFINE td == tela'
  <2>4. UmaSobe(tela, r, td, s)
        BY <2>1, <2>3 DEF UmaSobe
  <2> HIDE DEF td
  <2>6. ContaDe(x, y, escape, s) /\ ProntoDe(td, x, y, escape, cursor, s) = ProntoDe(tela, x, y, escape, cursor, r)
        BY <2>2, <2>4, CopiaCerta
  <2> QED BY <2>1, <2>6 DEF td
<1>8. CASE Limpa(k)
  <2>1. /\ r.fase = "limpa" /\ s.volta = r.volta /\ s.c = r.c
        /\ \/ r.i + 1 < Colunas /\ s.fase = "limpa" /\ s.i = r.i + 1
           \/ ~ (r.i + 1 < Colunas) /\ s.fase = "sobe"
        /\ tela' = [tela EXCEPT ![UltimaLinha + r.i] = ESPACO]
        /\ UNCHANGED <<x, y, escape, cursor>>
        BY <1>8 DEF Limpa
  <2>2. r.i \in Nat /\ r.i < Colunas
        BY <2>1 DEF Dentro, Locais
  <2>3. r.i + 1 < Colunas \/ r.i + 1 >= Colunas
        BY <2>2, ConsoleAssumption
  <2> HIDE DEF r, s, Em, Vai, Chamadas
  <2> DEFINE td == tela'
  <2>4. UmaLimpa(tela, r, td, s)
        BY <2>1, <2>3 DEF UmaLimpa
  <2> HIDE DEF td
  <2>6. ContaDe(x, y, escape, s) /\ ProntoDe(td, x, y, escape, cursor, s) = ProntoDe(tela, x, y, escape, cursor, r)
        BY <2>2, <2>4, LimpaCerta
  <2> QED BY <2>1, <2>6 DEF td
<1>9. CASE Sobe(k)
  <2>1. /\ r.fase = "sobe" /\ s.fase = "rola" /\ s.volta = r.volta /\ s.c = r.c /\ y' = y - 1
        /\ UNCHANGED <<tela, x, escape, cursor>>
        BY <1>9 DEF Sobe
  <2> HIDE DEF r, s, Em, Vai, Chamadas
  <2> QED BY <2>1, SobeCerto
<1>10. CASE Poe(k)
  <2>1. /\ r.fase = "poe" /\ s.fase = "avanca"
        /\ tela' = [p \in Celulas |-> IF p = r.e THEN r.c ELSE tela[p]]
        /\ UNCHANGED <<x, y, escape, cursor>>
        BY <1>10 DEF Poe
  <2> HIDE DEF r, s, Em, Vai, Chamadas
  <2> QED BY <2>1, PoeCerto
<1>11. CASE Avanca(k)
  <2>1. /\ r.fase = "avanca" /\ s.fase = "calc" /\ s.volta = "fim" /\ x' = x + 1
        /\ UNCHANGED <<tela, y, escape, cursor>>
        BY <1>11 DEF Avanca
  <2> HIDE DEF r, s, Em, Vai, Chamadas
  <2> QED BY <2>1, AvancaCerto
<1>12. CASE Fim(k)
  <2>1. /\ r.fase = "fim" /\ s.fase = "soma" /\ s.e = y * Colunas /\ s.volta = r.volta /\ s.c = r.c
        /\ UNCHANGED <<tela, x, y, escape, cursor>>
        BY <1>12 DEF Fim
  <2> HIDE DEF r, s, Em, Vai, Chamadas
  <2> QED BY <2>1, AdianteCerto
<1>13. CASE ComEscape(k)
  <2>1. /\ r.fase = "escape" /\ escape = TRUE /\ escape' = FALSE /\ s.volta = r.volta
        /\ \/ r.c \in DOMAIN Traduz /\ s.c = Traduz[r.c] /\ s.fase = "escape"
           \/ r.c \notin DOMAIN Traduz /\ s.c = r.c /\ s.fase = "calc"
        /\ UNCHANGED <<tela, x, y, cursor>>
        BY <1>13 DEF ComEscape
  <2> HIDE DEF r, s, Em, Vai, Chamadas
  <2>2. ContaDe(x, y, TRUE, r)
        BY <2>1
  <2>3. Traduzido(r, s)
        BY <2>1 DEF Traduzido
  <2>4. Desliga(tela, x, y, cursor, r, s)
        BY <2>2, <2>3, ComEscapeCerto
  <2> QED BY <2>1, <2>4 DEF Desliga
<1>14. CASE Barra(k)
  <2>1. /\ r.fase = "escape" /\ s.fase = "ocioso" /\ r.c = BARRA /\ s.volta = r.volta
        /\ escape = FALSE /\ escape' = TRUE
        /\ UNCHANGED <<tela, x, y, cursor>>
        BY <1>14 DEF Barra
  <2> HIDE DEF r, s, Em, Vai, Chamadas
  <2>2. ContaDe(x, y, FALSE, r)
        BY <2>1
  <2>4. Liga(tela, x, y, cursor, r, s)
    <3>1. NaBarra(r, s)
          BY <2>1 DEF NaBarra
    <3> QED BY <2>2, <3>1, BarraCerta
  <2> QED BY <2>1, <2>4 DEF Liga
<1>15. CASE Retorna(k)
  <2>1. /\ r.fase = "escape" /\ r.c \in {CR, LF} /\ s.c = NADA /\ s.volta = r.volta
        /\ s.fase = (IF r.c = LF THEN "desce" ELSE "calc")
        /\ escape = FALSE /\ x' = 0
        /\ UNCHANGED <<tela, y, escape, cursor>>
        BY <1>15 DEF Retorna
  <2> HIDE DEF r, s, Em, Vai, Chamadas
  <2>2. ContaDe(x, y, FALSE, r)
        BY <2>1
  <2>4. Iguais(tela, x, y, cursor, r, 0, s)
    <3>1. NoRetorno(r, s)
          BY <2>1 DEF NoRetorno
    <3> QED BY <2>2, <3>1, RetornaCerta
  <2> QED BY <2>1, <2>4 DEF Iguais
<1>16. CASE Comum(k)
  <2>1. /\ r.fase = "escape" /\ r.c \notin {BARRA, CR, LF} /\ s.c = r.c /\ s.fase = "calc" /\ s.volta = r.volta
        /\ escape = FALSE
        /\ UNCHANGED <<tela, x, y, escape, cursor>>
        BY <1>16 DEF Comum
  <2> HIDE DEF r, s, Em, Vai, Chamadas
  <2>2. ContaDe(x, y, FALSE, r)
        BY <2>1
  <2>4. Iguais(tela, x, y, cursor, r, x, s)
    <3>1. NoComum(r, s)
          BY <2>1 DEF NoComum
    <3> QED BY <2>2, <3>1, ComumCerto
  <2> QED BY <2>1, <2>4 DEF Iguais
<1>17. CASE Soma(k)
  <2>1. /\ r.fase = "soma" /\ s.fase = "cursor" /\ s.e = r.e + x /\ s.volta = r.volta /\ s.c = r.c
        /\ UNCHANGED <<tela, x, y, escape, cursor>>
        BY <1>17 DEF Soma
  <2> HIDE DEF r, s, Em, Vai, Chamadas
  <2> QED BY <2>1, AdianteCerto
<1>18. CASE AtualizaCursor(k)
  <2>1. /\ r.fase = "cursor" /\ s.fase = "ocioso" /\ cursor' = r.e
        /\ UNCHANGED <<tela, x, y, escape>>
        BY <1>18 DEF AtualizaCursor
  <2> HIDE DEF r, s, Em, Vai, Chamadas
  <2> QED BY <2>1, CursorCerto
<1>19. CASE Zera(k)
  <2>1. /\ r.fase = "zera" /\ s.fase = "baixa" /\ s.volta = r.volta /\ s.c = r.c /\ x' = 0
        /\ UNCHANGED <<tela, y, escape, cursor>>
        BY <1>19 DEF Zera
  <2> HIDE DEF r, s, Em, Vai, Chamadas
  <2>2. x = Colunas
        BY <2>1 DEF ContaDe
  <2> QED BY <2>1, <2>2, QuebraCerta
<1> QED BY <1>1, <1>2, <1>3, <1>4, <1>5, <1>6, <1>7, <1>8, <1>9, <1>10, <1>11, <1>12, <1>13, <1>14,
           <1>15, <1>16, <1>17, <1>18, <1>19 DEF Passo

\* A call begins, with nobody inside a character.
LEMMA ComecaClaro ==
    ASSUME Claro, limpo, TypeOK, NEW k \in Contextos, NEW ch, Comeca(k, ch),
           \A j \in Contextos : Ocioso(j),
           k = "principal" => resta' = << >>,
           UNCHANGED <<tela, x, y, escape, cursor, limpo>>
    PROVE  Claro'
<1> DEFINE r == q'[k]
<1>1. /\ q' = [q EXCEPT ![k] = [@ EXCEPT !.c = ch, !.fase = "escape", !.volta = "linha"]]
      /\ antes' = <<Agora, ch>>
      BY DEF Comeca
<1>2. /\ r.c = ch /\ r.fase = "escape" /\ r.volta = "linha"
      /\ \A j \in Contextos \ {k} : q'[j] = q[j]
      BY <1>1 DEF TypeOK, Chamadas
<1>3. x < Colunas /\ y < Linhas
      BY DEF Claro, Contextos
<1> HIDE DEF r
<1>4. ContaDe(x, y, escape, r)
      BY <1>2, <1>3 DEF ContaDe, Assentado, Rolando
<1>5. ProntoDe(tela, x, y, escape, cursor, r) = Esperado(Agora, ch)
      BY <1>2, ProntoFase, EstadoAgora
<1>6. antes' # << >> /\ antes'[1] = Agora /\ antes'[2] = ch
      BY <1>1
<1>7. \A j \in Contextos \ {k} : Ocioso(j)'
      BY <1>2 DEF Ocioso
<1>8. ~ Ocioso(k)'
      BY <1>2 DEF Ocioso, r
<1>9. ContaDe(x', y', escape', q'[k])
      BY <1>4 DEF r
<1>10. ProntoDe(tela', x', y', escape', cursor', q'[k]) = Esperado(antes'[1], antes'[2])
      BY <1>5, <1>6 DEF r
<1>11. ~ Ocioso("principal")' => Ocioso("nmi")' /\ resta' = << >>
      BY <1>7 DEF Contextos
<1>12. ~ (Ocioso("principal")' /\ Ocioso("nmi")')
      BY <1>8 DEF Contextos
<1> QED BY <1>6, <1>7, <1>9, <1>10, <1>11, <1>12 DEF Claro

LEMMA InicioClaro == Init => Claro
<1> SUFFICES ASSUME Init PROVE Claro
    OBVIOUS
<1>1. \A k \in Contextos : Ocioso(k)
      BY DEF Init, Ocioso
<1>2. x < Colunas /\ y < Linhas /\ antes = << >>
      BY ConsoleAssumption DEF Init
<1> QED BY <1>1, <1>2 DEF Claro, Contextos

LEMMA NextClaro == Dentro /\ Claro /\ [Next]_vars => Claro'
<1> SUFFICES ASSUME Dentro, Claro, [Next]_vars, limpo' PROVE Claro'
    BY DEF Claro
<1>t. TypeOK
      BY DEF Dentro
<1>l. limpo
      BY <1>t DEF Next, Escreve, Nmi, EscreveAviso, vars, TypeOK, resto,
             Passo, ComEscape, Barra, Retorna, Desce, Comum, Calc, Baixa, Rola, Copia, Limpa, Sobe,
             Linha, Coluna, Poe, Avanca, Fim, Zera, Soma, AtualizaCursor
<1>1. ASSUME NEW ch \in Caracteres, Escreve(ch) PROVE Claro'
  <2>1. \A j \in Contextos : Ocioso(j)
        BY <1>1 DEF Escreve, NmiAtivo, Ocioso, Contextos
  <2>2. resta' = << >> /\ Comeca("principal", ch)
        BY <1>1 DEF Escreve, NmiAtivo
  <2>3. UNCHANGED <<tela, x, y, escape, cursor, limpo>>
        BY <1>1 DEF Escreve
  <2> QED BY <1>l, <1>t, <2>1, <2>2, <2>3, ComecaClaro DEF Contextos
<1>2. CASE Nmi
  <2>1. Ocioso("principal") /\ Ocioso("nmi")
        BY <1>2 DEF Nmi, NmiAtivo, Ocioso
  <2>2. antes' = antes /\ UNCHANGED <<tela, x, y, escape, cursor, q>>
        BY <1>2 DEF Nmi
  <2>3. \A j \in Contextos : Ocioso(j)'
        BY <2>1, <2>2 DEF Ocioso, Contextos
  <2>4. x' < Colunas /\ y' < Linhas
        BY <1>l, <2>1, <2>2 DEF Claro
  <2>5. antes' # << >> => Agora' = Esperado(antes'[1], antes'[2])
    <3>1. Agora' = Agora
          BY <2>2 DEF Agora
    <3> QED BY <1>l, <2>1, <2>2, <3>1 DEF Claro
  <2> QED BY <2>3, <2>4, <2>5 DEF Claro, Contextos
<1>3. CASE EscreveAviso
  <2>1. \A j \in Contextos : Ocioso(j)
        BY <1>3, <1>l DEF EscreveAviso, Claro, Ocioso, Contextos
  <2>2. Comeca("nmi", Head(resta)) /\ UNCHANGED <<tela, x, y, escape, cursor, limpo>>
        BY <1>3 DEF EscreveAviso
  <2> QED BY <1>l, <1>t, <2>1, <2>2, ComecaClaro DEF Contextos
<1>4. ASSUME NEW k \in Contextos, Passo(k) PROVE Claro'
      BY <1>4, <1>l, PassoClaro
<1>5. CASE UNCHANGED vars
  <2>1. UNCHANGED <<tela, x, y, escape, cursor, q, resta, limpo, antes>>
        BY <1>5 DEF vars
  <2> QED BY <2>1 DEF Claro, Ocioso, Agora
<1> QED BY <1>1, <1>2, <1>3, <1>4, <1>5 DEF Next

\* CaractereCerto: between two characters, the console is what the user expects of the
\* last one, whatever the screen, the characters written before and the messages of
\* the interrupt that came between them.
THEOREM CadaCaractereCerto == Spec => []CaractereCerto
<1>1. Dentro /\ Claro => CaractereCerto
      BY DEF Claro, CaractereCerto, Ocioso, Contextos
<1> QED BY <1>1, SempreDentro, InicioClaro, NextClaro, PTL DEF Spec
=============================================================================
