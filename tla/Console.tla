------------------------------ MODULE Console ------------------------------
(***************************************************************************)
(* The debug console of Nucleo/Debug.c: _VT_EscrevaC over the text screen. *)
(*                                                                         *)
(* The kernel writes characters one after the other, and a non-maskable    *)
(* interrupt may come between any two accesses to the console's variables: *)
(* its handler (Processador386.c) writes a message through the same code.  *)
(* One step is one access to a shared variable, with three exceptions: the *)
(* test and the reset of _VT_Escape, the read of a cell with the write of  *)
(* the cell above, and the four writes to the cursor's ports are one step  *)
(* each.                                                                   *)
(***************************************************************************)
EXTENDS Naturals, Sequences

CONSTANTS
    Colunas,        \* 80
    Linhas,         \* 25
    Caracteres,     \* what the kernel writes
    Aviso           \* the message of the interrupt's handler

LF     == "LF"
CR     == "CR"
TAB    == "TAB"
BARRA  == "BARRA"
ESPACO == "ESPACO"
NADA   == "NADA"    \* 0: nothing to put on the screen

ASSUME ConsoleAssumption ==
    /\ Colunas \in Nat \ {0}
    /\ Linhas \in Nat \ {0, 1}
    /\ Caracteres # {}
    /\ Aviso \in Seq(Caracteres) /\ Aviso # << >>

VARIABLES
    tela,           \* the cells of _VT_Ptr
    x, y,           \* _VT_X and _VT_Y
    escape,         \* _VT_Escape
    cursor,         \* the cursor of the video card
    q,              \* the call of _VT_EscrevaC of each context
    resta,          \* what the handler has still to write
    limpo,          \* history: no interrupt came inside a character
    antes           \* history: the console before the last character, and that character

vars == <<tela, x, y, escape, cursor, q, resta, limpo, antes>>

Contextos == {"principal", "nmi"}
Celulas == 0..(Colunas * Linhas - 1)
Glifos == Caracteres \cup {LF, CR, TAB, ESPACO, NADA}
Fases == {"ocioso", "escape", "desce", "calc", "zera", "baixa", "rola", "copia", "limpa", "sobe",
          "linha", "coluna", "poe", "avanca", "fim", "soma", "cursor"}

\* A call: the character, the statement it is at, where _VT_Calc returns to, the
\* counter of its loops and endereco.
Chamadas == [c : Glifos, fase : Fases, volta : {"linha", "fim"}, i : Nat, e : Nat]

Agora == [tela |-> tela, x |-> x, y |-> y, escape |-> escape, cursor |-> cursor]

\* Debug_ConfigVideoTexto.
Init ==
    /\ tela = [p \in Celulas |-> ESPACO]
    /\ x = 0 /\ y = 0
    /\ escape = FALSE
    /\ cursor = 0
    /\ q = [k \in Contextos |-> [c |-> NADA, fase |-> "ocioso", volta |-> "linha", i |-> 0, e |-> 0]]
    /\ resta = << >>
    /\ limpo = TRUE
    /\ antes = << >>

-----------------------------------------------------------------------------

NmiAtivo == resta # << >> \/ q["nmi"].fase # "ocioso"

\* The interrupted code waits for the handler's IRET.
Corre(k) == k = "nmi" \/ ~ NmiAtivo

Comeca(k, ch) ==
    /\ q' = [q EXCEPT ![k] = [@ EXCEPT !.c = ch, !.fase = "escape", !.volta = "linha"]]
    /\ antes' = IF limpo THEN <<Agora, ch>> ELSE << >>

\* Debug_Escreva, EscrevaTexto, EscrevaUInt and EscrevaInt end in this call.
Escreve(ch) ==
    /\ ~ NmiAtivo
    /\ q["principal"].fase = "ocioso"
    /\ Comeca("principal", ch)
    /\ UNCHANGED <<tela, x, y, escape, cursor, resta, limpo>>

\* A non-maskable interrupt.
Nmi ==
    /\ ~ NmiAtivo
    /\ resta' = Aviso
    /\ limpo' = (limpo /\ q["principal"].fase = "ocioso")
    /\ antes' = IF limpo' THEN antes ELSE << >>
    /\ UNCHANGED <<tela, x, y, escape, cursor, q>>

EscreveAviso ==
    /\ resta # << >> /\ q["nmi"].fase = "ocioso"
    /\ Comeca("nmi", Head(resta))
    /\ resta' = Tail(resta)
    /\ UNCHANGED <<tela, x, y, escape, cursor, limpo>>

-----------------------------------------------------------------------------
(* The statements of _VT_EscrevaC.                                         *)

Em(k, fase) == Corre(k) /\ q[k].fase = fase

Vai(k, fase) == q' = [q EXCEPT ![k].fase = fase]

resto == <<resta, limpo, antes>>

\* The letters that mean something after a backslash.
Traduz == [n |-> LF, r |-> CR, t |-> TAB]

\* With _VT_Escape set: the letter's character is written by a second call, any
\* other is put on the screen.
ComEscape(k) ==
    /\ Em(k, "escape") /\ escape
    /\ escape' = FALSE
    /\ IF q[k].c \in DOMAIN Traduz
       THEN q' = [q EXCEPT ![k].c = Traduz[q[k].c]]
       ELSE Vai(k, "calc")
    /\ UNCHANGED <<tela, x, y, cursor, resto>>

\* Without: a backslash only sets it.
Barra(k) ==
    /\ Em(k, "escape") /\ ~ escape /\ q[k].c = BARRA
    /\ escape' = TRUE
    /\ Vai(k, "ocioso")
    /\ UNCHANGED <<tela, x, y, cursor, resto>>

\* A carriage return, and the first half of a line feed.
Retorna(k) ==
    /\ Em(k, "escape") /\ ~ escape /\ q[k].c \in {CR, LF}
    /\ x' = 0
    /\ q' = [q EXCEPT ![k].c = NADA, ![k].fase = IF q[k].c = LF THEN "desce" ELSE "calc"]
    /\ UNCHANGED <<tela, y, escape, cursor, resto>>

Desce(k) ==
    /\ Em(k, "desce")
    /\ y' = y + 1
    /\ Vai(k, "calc")
    /\ UNCHANGED <<tela, x, escape, cursor, resto>>

Comum(k) ==
    /\ Em(k, "escape") /\ ~ escape /\ q[k].c \notin {BARRA, CR, LF}
    /\ Vai(k, "calc")
    /\ UNCHANGED <<tela, x, y, escape, cursor, resto>>

\* _VT_Calc: the test of the end of a line, and what is done about it.
Calc(k) ==
    /\ Em(k, "calc")
    /\ Vai(k, IF x >= Colunas THEN "zera" ELSE "rola")
    /\ UNCHANGED <<tela, x, y, escape, cursor, resto>>

Zera(k) ==
    /\ Em(k, "zera")
    /\ x' = 0
    /\ Vai(k, "baixa")
    /\ UNCHANGED <<tela, y, escape, cursor, resto>>

Baixa(k) ==
    /\ Em(k, "baixa")
    /\ y' = y + 1
    /\ Vai(k, "rola")
    /\ UNCHANGED <<tela, x, escape, cursor, resto>>

\* A wrong version of Rola: the screen has one line more.
ErroRola(k) ==
    /\ Em(k, "rola")
    /\ q' = [q EXCEPT ![k].fase = IF y > Linhas THEN "copia" ELSE q[k].volta, ![k].i = 0]
    /\ UNCHANGED <<tela, x, y, escape, cursor, resto>>

\* The test of the scrolling loop.
Rola(k) ==
    /\ Em(k, "rola")
    /\ q' = [q EXCEPT ![k].fase = IF y >= Linhas THEN "copia" ELSE q[k].volta, ![k].i = 0]
    /\ UNCHANGED <<tela, x, y, escape, cursor, resto>>

\* Where the last line starts: 80 * 24.
UltimaLinha == Colunas * (Linhas - 1)

\* A wrong version of Copia: the last cell copied is left out.
ErroCopia(k) ==
    /\ Em(k, "copia")
    /\ tela' = [tela EXCEPT ![q[k].i] = tela[q[k].i + Colunas]]
    /\ q' = IF q[k].i + 1 < UltimaLinha - 1
            THEN [q EXCEPT ![k].i = @ + 1]
            ELSE [q EXCEPT ![k].fase = "limpa", ![k].i = 0]
    /\ UNCHANGED <<x, y, escape, cursor, resto>>

\* One cell goes up a line.
Copia(k) ==
    /\ Em(k, "copia")
    /\ tela' = [tela EXCEPT ![q[k].i] = tela[q[k].i + Colunas]]
    /\ q' = IF q[k].i + 1 < UltimaLinha
            THEN [q EXCEPT ![k].i = @ + 1]
            ELSE [q EXCEPT ![k].fase = "limpa", ![k].i = 0]
    /\ UNCHANGED <<x, y, escape, cursor, resto>>

\* One cell of the last line is cleared.
Limpa(k) ==
    /\ Em(k, "limpa")
    /\ tela' = [tela EXCEPT ![UltimaLinha + q[k].i] = ESPACO]
    /\ q' = IF q[k].i + 1 < Colunas
            THEN [q EXCEPT ![k].i = @ + 1]
            ELSE [q EXCEPT ![k].fase = "sobe"]
    /\ UNCHANGED <<x, y, escape, cursor, resto>>

\* A wrong version of Sobe: the line is not taken back.
ErroSobe(k) ==
    /\ Em(k, "sobe")
    /\ y' = y
    /\ Vai(k, "rola")
    /\ UNCHANGED <<tela, x, escape, cursor, resto>>

Sobe(k) ==
    /\ Em(k, "sobe")
    /\ y' = y - 1
    /\ Vai(k, "rola")
    /\ UNCHANGED <<tela, x, escape, cursor, resto>>

\* endereco reads _VT_Y and then _VT_X.
Linha(k) ==
    /\ Em(k, "linha")
    /\ q' = [q EXCEPT ![k].e = y * Colunas, ![k].fase = "coluna"]
    /\ UNCHANGED <<tela, x, y, escape, cursor, resto>>

Coluna(k) ==
    /\ Em(k, "coluna")
    /\ q' = [q EXCEPT ![k].e = @ + x, ![k].fase = IF q[k].c # NADA THEN "poe" ELSE "fim"]
    /\ UNCHANGED <<tela, x, y, escape, cursor, resto>>

Poe(k) ==
    /\ Em(k, "poe")
    /\ tela' = [p \in Celulas |-> IF p = q[k].e THEN q[k].c ELSE tela[p]]
    /\ Vai(k, "avanca")
    /\ UNCHANGED <<x, y, escape, cursor, resto>>

Avanca(k) ==
    /\ Em(k, "avanca")
    /\ x' = x + 1
    /\ q' = [q EXCEPT ![k].fase = "calc", ![k].volta = "fim"]
    /\ UNCHANGED <<tela, y, escape, cursor, resto>>

\* endereco again, for the cursor.
Fim(k) ==
    /\ Em(k, "fim")
    /\ q' = [q EXCEPT ![k].e = y * Colunas, ![k].fase = "soma"]
    /\ UNCHANGED <<tela, x, y, escape, cursor, resto>>

Soma(k) ==
    /\ Em(k, "soma")
    /\ q' = [q EXCEPT ![k].e = @ + x, ![k].fase = "cursor"]
    /\ UNCHANGED <<tela, x, y, escape, cursor, resto>>

\* _VT_AtualizaCursor.
AtualizaCursor(k) ==
    /\ Em(k, "cursor")
    /\ cursor' = q[k].e
    /\ Vai(k, "ocioso")
    /\ UNCHANGED <<tela, x, y, escape, resto>>

Passo(k) ==
    \/ ComEscape(k) \/ Barra(k) \/ Retorna(k) \/ Desce(k) \/ Comum(k)
    \/ Calc(k) \/ Zera(k) \/ Baixa(k) \/ Rola(k) \/ Copia(k) \/ Limpa(k) \/ Sobe(k)
    \/ Linha(k) \/ Coluna(k) \/ Poe(k) \/ Avanca(k)
    \/ Fim(k) \/ Soma(k) \/ AtualizaCursor(k)

Next ==
    \/ \E ch \in Caracteres : Escreve(ch)
    \/ Nmi \/ EscreveAviso
    \/ \E k \in Contextos : Passo(k)

Spec == Init /\ [][Next]_vars

\* The handler is the only code that runs until its IRET.
FairSpec == Spec /\ WF_vars(EscreveAviso \/ Passo("nmi"))

-----------------------------------------------------------------------------
(* Properties.                                                             *)

TypeOK ==
    /\ tela \in [Celulas -> Glifos]
    /\ x \in 0..Colunas
    /\ y \in Nat
    /\ escape \in BOOLEAN
    /\ cursor \in Celulas
    /\ q \in [Contextos -> Chamadas]
    /\ resta \in Seq(Caracteres)
    /\ limpo \in BOOLEAN

\* No character is put, copied or cleared outside the screen, nor the cursor sent
\* there, even when the handler moved the cursor or scrolled between two statements
\* of the code it interrupted.
EscreveNaTela ==
    \A k \in Contextos :
        /\ q[k].fase = "poe" => q[k].e \in Celulas
        /\ q[k].fase = "copia" => q[k].i \in Celulas /\ q[k].i + Colunas \in Celulas
        /\ q[k].fase = "limpa" => UltimaLinha + q[k].i \in Celulas
        /\ q[k].fase = "cursor" => q[k].e \in Celulas

\* The console as its user sees it: a character is put at the cursor, and the
\* lines move up together when there is no room for the next one.
Ajustado(t) ==
    LET lin    == t.y + IF t.x >= Colunas THEN 1 ELSE 0
        subida == IF lin >= Linhas THEN lin - Linhas + 1 ELSE 0
        col    == IF t.x >= Colunas THEN 0 ELSE t.x
    IN  [t EXCEPT !.x = col, !.y = lin - subida, !.cursor = (lin - subida) * Colunas + col,
                  !.tela = [p \in Celulas |-> IF p + subida * Colunas \in Celulas
                                              THEN t.tela[p + subida * Colunas] ELSE ESPACO]]

Posto(t, ch) ==
    Ajustado([t EXCEPT !.x = @ + 1, !.escape = FALSE, !.tela[t.y * Colunas + t.x] = ch])

Esperado(t, ch) ==
    LET escrito == IF t.escape /\ ch \in DOMAIN Traduz THEN Traduz[ch] ELSE ch
        literal == t.escape /\ ch \notin DOMAIN Traduz
        s       == [t EXCEPT !.escape = FALSE]
    IN  CASE ch = NADA -> Ajustado(s)
          [] ch # NADA /\ literal -> Posto(s, ch)
          [] ch = BARRA /\ ~ literal -> [t EXCEPT !.escape = TRUE]
          [] escrito = CR /\ ~ literal -> Ajustado([s EXCEPT !.x = 0])
          [] escrito = LF /\ ~ literal -> Ajustado([s EXCEPT !.x = 0, !.y = @ + 1])
          [] OTHER -> Posto(s, escrito)

\* As long as no interrupt comes inside a character, each one does to the screen,
\* the position, the escape and the cursor what the user expects, also when the
\* handler's message came just before it.
CaractereCerto ==
    limpo /\ antes # << >> /\ (\A k \in Contextos : q[k].fase = "ocioso") =>
        Agora = Esperado(antes[1], antes[2])

\* The handler comes to its end, wherever it found the console: the scrolling loop
\* stops although the code it interrupted may be inside the same loop.
AvisoTermina == NmiAtivo ~> ~ NmiAtivo
=============================================================================
