------------------------------- MODULE Linhas -------------------------------
(***************************************************************************)
(* The line reader of Nucleo/String.c (StrBuffer, StrBuffer_LeiaLinha) and *)
(* the caller's loop of Nucleo/Brasis.c, which reads a line and uses the   *)
(* same Status_t for what it does with it.                                 *)
(*                                                                         *)
(* One step is one iteration of the loop over the bytes.  Leia is what     *)
(* SisArq.tla shows of it: whole blocks until the end of the file, then 0  *)
(* and an error.                                                           *)
(***************************************************************************)
EXTENDS Naturals, Sequences, FiniteSets

CONSTANTS
    TamBuffer,      \* STRBUFFER_TAM
    TamLinha,       \* size of the caller's line
    Letras,         \* bytes with no meaning to the reader
    Arquivos        \* contents of the files read

LF  == "LF"
CR  == "CR"
NUL == "NUL"
Bytes == Letras \cup {LF, CR, NUL}

ASSUME LinhasAssumption ==
    /\ TamBuffer \in Nat \ {0}
    /\ TamLinha \in Nat \ {0, 1}
    /\ Letras \cap {LF, CR, NUL} = {}
    /\ Arquivos \subseteq Seq(Bytes)

VARIABLES
    arquivo,        \* the bytes of the item
    tirados,        \* how many of them Leia has delivered
    buffer,         \* Buffer
    pos,            \* Posicao
    tam,            \* Tamanho
    linha,          \* what the caller's line holds
    ok,             \* st->Ok
    fase,           \* "nova", "fora", "laco", "fim" or "acabou"
    copiados,       \* history: the letters put in the lines
    linhas          \* history: the lines the reader answered TRUE for

vars == <<arquivo, tirados, buffer, pos, tam, linha, ok, fase, copiados, linhas>>

-----------------------------------------------------------------------------

TypeOK ==
    /\ arquivo \in Seq(Bytes)
    /\ tirados \in 0..Len(arquivo)
    /\ buffer \in [0..(TamBuffer - 1) -> Bytes]
    /\ pos \in 0..TamBuffer
    /\ tam \in 0..TamBuffer
    /\ linha \in Seq(Bytes) /\ Len(linha) < TamLinha
    /\ ok \in BOOLEAN
    /\ fase \in {"nova", "fora", "laco", "fim", "acabou"}

Init ==
    /\ arquivo \in Arquivos
    /\ tirados = 0
    /\ buffer = [k \in 0..(TamBuffer - 1) |-> NUL]
    /\ pos = 0
    /\ tam = 0
    /\ linha = << >>
    /\ ok \in BOOLEAN
    /\ fase = "nova"
    /\ copiados = << >>
    /\ linhas = << >>

\* Buffer[p].  The byte after the buffer is the low byte of Posicao itself, which
\* is then STRBUFFER_TAM: no line feed, no carriage return and not zero.
Byte(b, p) == IF p = TamBuffer THEN "Posicao" ELSE b[p]

\* What Leia delivers next, and the buffer with it at the start: bytes of the
\* block before stay behind a short one.
Proximos == IF Len(arquivo) - tirados < TamBuffer THEN Len(arquivo) - tirados ELSE TamBuffer

Enchido == [k \in DOMAIN buffer |-> IF k < Proximos THEN arquivo[tirados + k + 1] ELSE buffer[k]]

\* StrBuffer.
StrBuffer ==
    /\ fase = "nova"
    /\ buffer' = Enchido
    /\ tam' = Proximos
    /\ tirados' = tirados + Proximos
    /\ pos' = 0
    /\ ok' = (Proximos > 0)
    /\ fase' = IF ok' THEN "fora" ELSE "acabou"
    /\ UNCHANGED <<arquivo, linha, copiados, linhas>>

\* The caller has done what it wanted with the line, which left any status, and
\* calls StrBuffer_LeiaLinha.
Chama ==
    /\ fase \in {"fora", "acabou"}
    /\ linha' = << >>
    /\ \/ tam = 0 /\ ok' = FALSE /\ fase' = "acabou"
       \/ tam > 0 /\ ok' \in BOOLEAN /\ fase' = "laco"
    /\ UNCHANGED <<arquivo, tirados, buffer, pos, tam, copiados, linhas>>

\* A wrong version of Cabe: no room is kept for the zero at the end.
ErroCabe == Len(linha) < TamLinha

Cabe == Len(linha) + 1 < TamLinha

\* A byte that means nothing to the reader is noted down.
ComLetra(s, b) == IF b \in Letras THEN Append(s, b) ELSE s

\* A wrong version of Copia: the byte after a copied one is never skipped over.
ErroCopia(b, p) ==
    /\ linha' = Append(linha, b[p])
    /\ copiados' = ComLetra(copiados, b[p])
    /\ pos' = IF p + 1 < TamBuffer /\ b[p + 1] # LF THEN p + 2 ELSE p + 1
    /\ ok' = TRUE

\* The body of the loop once there is a byte at p: copy it, skip a CR after it.
Copia(b, p) ==
    /\ linha' = Append(linha, b[p])
    /\ copiados' = ComLetra(copiados, b[p])
    /\ pos' = IF Byte(b, p + 1) = CR THEN p + 2 ELSE p + 1
    /\ ok' = TRUE

Continua == Byte(buffer, pos) \notin {LF, NUL} /\ Cabe

\* An iteration with a byte in the buffer.
CopiaByte ==
    /\ fase = "laco" /\ Continua
    /\ pos < tam
    /\ Copia(buffer, pos)
    /\ UNCHANGED <<arquivo, tirados, buffer, tam, fase, linhas>>

\* An iteration that fills the buffer: its first byte is copied whatever it is.
Enche ==
    /\ fase = "laco" /\ Continua
    /\ pos >= tam
    /\ Proximos > 0
    /\ buffer' = Enchido
    /\ tam' = Proximos
    /\ tirados' = tirados + Proximos
    /\ Copia(Enchido, 0)
    /\ UNCHANGED <<arquivo, fase, linhas>>

\* A wrong version of FimDoArquivo: the loop goes round again.
ErroSemSair ==
    /\ fase = "laco" /\ Continua
    /\ pos >= tam
    /\ Proximos = 0
    /\ tam' = 0
    /\ pos' = 0
    /\ ok' = FALSE
    /\ UNCHANGED <<arquivo, tirados, buffer, linha, fase, copiados, linhas>>

\* An iteration that finds the file over: Leia fails and so does the line.
FimDoArquivo ==
    /\ fase = "laco" /\ Continua
    /\ pos >= tam
    /\ Proximos = 0
    /\ tam' = 0
    /\ pos' = 0
    /\ ok' = FALSE
    /\ fase' = "fim"
    /\ UNCHANGED <<arquivo, tirados, buffer, linha, copiados, linhas>>

\* The loop ends at a line feed, at a zero or at the end of the caller's line.
FimDoLaco ==
    /\ fase = "laco" /\ ~Continua
    /\ fase' = "fim"
    /\ UNCHANGED <<arquivo, tirados, buffer, pos, tam, linha, ok, copiados, linhas>>

\* A wrong version of Passa: the line feed stays.
ErroPassa == pos

\* The position after the line feed, when there is one.
Passa == IF Byte(buffer, pos) = LF THEN pos + 1 ELSE pos

\* A zero where a line should start: the end of a file shorter than the buffer.
Vazia == Byte(buffer, Passa) = NUL /\ linha = << >>

\* The end of StrBuffer_LeiaLinha.  A blank line writes no status: the answer is
\* the one the caller left.
Responde ==
    /\ fase = "fim"
    /\ pos' = Passa
    /\ ok' = (ok /\ ~Vazia)
    /\ fase' = IF ok' THEN "fora" ELSE "acabou"
    /\ linhas' = IF ok' THEN Append(linhas, linha) ELSE linhas
    /\ UNCHANGED <<arquivo, tirados, buffer, tam, linha, copiados>>

Passo == StrBuffer \/ Chama \/ CopiaByte \/ Enche \/ FimDoArquivo \/ FimDoLaco \/ Responde

Next == Passo

Spec == Init /\ [][Next]_vars

\* The caller's loop asks for a line as long as it gets one.
FairSpec == Spec /\ WF_vars(Passo)

-----------------------------------------------------------------------------

\* How many bytes of the file the reader is done with.
Consumidos == IF pos < tam THEN tirados - tam + pos ELSE tirados

\* How many of the positions in ps come before position n or at it.
Ate(ps, n) == Cardinality({k \in ps : k <= n})

PosLetras == {k \in DOMAIN arquivo : arquivo[k] \in Letras}

\* Whatever the file, the blocks and the length of the lines, no byte with a
\* meaning of its own is lost, repeated, put out of order or taken from a stale
\* block: the letters put in the lines, in all the calls, are those of the file so
\* far, each at its place.
NadaPerdido ==
    /\ Len(copiados) = Ate(PosLetras, Consumidos)
    /\ \A k \in PosLetras : k <= Consumidos => copiados[Ate(PosLetras, k)] = arquivo[k]

Quebras(a) == {k \in DOMAIN a : a[k] = LF}

\* The k-th line feed of a file, with its start as number 0.
Quebra(a, k) == IF k = 0 THEN 0 ELSE CHOOSE q \in Quebras(a) : Ate(Quebras(a), q) = k

\* Text the reader is meant for: lines that are neither blank nor as long as the
\* caller's, with plain line feeds, none of them the first byte of a block.
Simples(a) ==
    LET total == Cardinality(Quebras(a))
    IN  /\ \A k \in DOMAIN a : a[k] \notin {CR, NUL}
        /\ \A b \in 0..Len(a) : b * TamBuffer + 1 \notin Quebras(a)
        /\ \A k \in 1..total : Quebra(a, k) - Quebra(a, k - 1) \in 2..(TamLinha - 1)
        /\ Len(a) - Quebra(a, total) < TamLinha - 1

\* On simple text every answer is the next line of the file, and the reader does
\* not give up before the last line feed.
LinhasCertas ==
    Simples(arquivo) =>
      /\ \A k \in DOMAIN linhas :
            linhas[k] = SubSeq(arquivo, Quebra(arquivo, k - 1) + 1,
                               IF k <= Cardinality(Quebras(arquivo)) THEN Quebra(arquivo, k) - 1
                               ELSE Len(arquivo))
      /\ fase = "acabou" => Len(linhas) >= Cardinality(Quebras(arquivo))

\* The caller's loop ends on every file: even zeros, blank lines and stale bytes
\* of an earlier block do not keep it going.
LeituraTermina == <>(fase = "acabou")
=============================================================================
