--------------------------------- MODULE AR ---------------------------------
(***************************************************************************)
(* The UNIX archive ar(1) writes, and how Nucleo/AR.c walks it.            *)
(*                                                                         *)
(* An archive is the sequence of its members, [nome, tam], with nome the   *)
(* characters of the header's name field: the name, a "/" and the padding. *)
(* Positions are bytes from the start of the device that holds it.         *)
(***************************************************************************)
EXTENDS Naturals, Sequences, FiniteSetsExt

TamAssinatura == 8
TamCabecalho  == 60

\* ar(1) puts every header at an even position: the bytes of a member, padded.
Ocupa(membro) == TamCabecalho + membro.tam + (membro.tam % 2)

\* Where the headers are: after the signature, each behind the members before it.
Cabecalhos(arq) ==
    LET depois[n \in Nat] == IF n = 0 THEN TamAssinatura ELSE depois[n - 1] + Ocupa(arq[n])
    IN  depois

\* Where the header of the k-th member is; k may be one past the last.
Inicio(arq, k) == Cabecalhos(arq)[k - 1]

TamArquivo(arq) == Inicio(arq, Len(arq) + 1)

\* The device that holds an archive: the second stage loads it, and counts it,
\* in whole blocks, so that bytes of the last one follow the archive.
TamBloco == 1024

TamDispositivo(arq) == TamBloco * ((TamArquivo(arq) + TamBloco - 1) \div TamBloco)

\* Where a header has its size, in decimal.
PosTamanho == 48

\* The member whose header starts at pos, and 0 when none does.  Other bytes, of
\* a padded header or of the block after the archive, have no digit where the
\* size is.
MembroEm(arq, pos) ==
    LET ks == {k \in 1..Len(arq) : Inicio(arq, k) = pos}
    IN  IF ks = {} THEN 0 ELSE CHOOSE k \in ks : TRUE

\* _Proximo cuts these characters from the end of a name, but never the first.
Enchimento == {" ", "0", "/"}

Apara(nome) == SubSeq(nome, 1, Max({1} \cup {i \in DOMAIN nome : nome[i] \notin Enchimento}))

\* A wrong version of Seguinte: the position does not pass the header.
ErroNaoPassa(pos, membro) == pos + membro.tam

\* A wrong version of Seguinte: the listing stands still.
ErroParado(pos, membro) == pos

\* Where _Proximo looks for the header that follows one read at pos.
Seguinte(pos, membro) == pos + TamCabecalho + membro.tam
=============================================================================
