-------------------------- MODULE MCInicializacao --------------------------
(* Machines for the boot: disks of 24 blocks (3 sectors, 2 heads) with 2     *)
(* direct and 2 indirect zones per file, 6 items per block of the table and  *)
(* 8 entries per directory block, and FAT12 disks with two tables of one     *)
(* sector.                                                                   *)
EXTENDS Inicializacao

Branco ==
    [magico |-> FALSE, itensTotal |-> 0, mapas |-> 0,
     itens |-> [i \in 1..ItensPorSetor |-> [z \in 1..(Diretas + 1) |-> 0]],
     entradas |-> [e \in 1..EntradasPorSetor |-> [item |-> 0, nome |-> ""]],
     ponteiros |-> [k \in 1..PonteirosPorSetor |-> 0],
     linhas |-> <<"", "">>, raiz |-> <<>>,
     octetos |-> [b \in 1..BytesPorSetor |-> 0]]

E(item, nome) == [item |-> item, nome |-> nome]
Diretorio ==
    <<E(1, "."), E(1, ".."), E(2, NomeInicial), E(3, "BRASIS.cfg"),
      E(4, "BRASIS.Nucleo"), E(5, "BRASIS.Image")>>

\* What mkfs and "minixfs add" leave: maps at blocks 2 and 3, the table of items
\* at 4 and 5, the root directory at 6 and 7.  arqs has the zones of items 2, 3
\* and so on; indiretos the blocks of their other zones.
Volume ==
    [magico |-> TRUE, diretorio |-> Diretorio, blocos |-> 24, itensTotal |-> 6,
     arqs |-> <<<<8, 9>>, <<10>>, <<11, 12, 13>>, <<15>>>>,
     indiretos |-> <<0, 0, 14, 0>>]

Ate(s, n) == [i \in 1..n |-> IF i <= Len(s) THEN s[i] ELSE 0]

ZonasDe(v, n) ==
    IF n = 1 THEN <<6>> \o (IF Len(v.diretorio) > 2 * EntradasPorSetor THEN <<7, 0>> ELSE <<0, 0>>)
    ELSE IF n - 1 \notin DOMAIN v.arqs THEN Ate(<<>>, Diretas + 1)
    ELSE Append(Ate(v.arqs[n - 1], Diretas), v.indiretos[n - 1])

Parte(s, b, k, vazio) ==
    [i \in 1..k |-> IF b * k + i <= Len(s) THEN s[b * k + i] ELSE vazio]

SetorDe(v, lba) ==
    LET b == lba \div 2
        donos == {a \in DOMAIN v.arqs : v.indiretos[a] = b /\ b # 0}
    IN  CASE lba = 2 ->
                 [Branco EXCEPT !.magico = v.magico, !.itensTotal = v.itensTotal, !.mapas = 2]
          [] b \in {4, 5} ->
                 [Branco EXCEPT !.itens = [i \in 1..ItensPorSetor |->
                     ZonasDe(v, (lba - 8) * ItensPorSetor + i)]]
          [] b \in {6, 7} ->
                 [Branco EXCEPT !.entradas =
                     Parte(v.diretorio, lba - 12, EntradasPorSetor, E(0, ""))]
          [] donos # {} ->
                 LET resto == SubSeq(v.arqs[Min(donos)], Diretas + 1, Len(v.arqs[Min(donos)]))
                 IN  [Branco EXCEPT !.ponteiros = Parte(resto, lba % 2, PonteirosPorSetor, 0)]
          [] lba = 20 -> [Branco EXCEPT !.linhas = <<"BRASIS.Nucleo", "BRASIS.Image">>]
          [] OTHER -> Branco

Disquete(v) == [lba \in 0..(2 * v.blocos - 1) |-> SetorDe(v, lba)]

Par(u, b) == <<<<u, 2 * b>>, <<u, 2 * b + 1>>>>
Pares(u, s) == [i \in 1..Len(s) |-> Par(u, s[i])]
Corrido(u, s) ==
    [i \in 1..(2 * Len(s)) |-> <<u, 2 * s[((i - 1) \div 2) + 1] + ((i - 1) % 2)>>]

Minix(v, u, a, defeito) ==
    [setor |-> "minix", boot |-> u, a20 |-> a, defeito |-> defeito,
     discos |-> [d \in {u} |-> Disquete(v)],
     arquivos |-> <<Corrido(u, v.arqs[1]), Pares(u, v.arqs[3]), Pares(u, v.arqs[4])>>]

Pequeno == [Volume EXCEPT !.arqs = <<<<8>>, <<10>>, <<11>>, <<15>>>>, !.indiretos = <<0, 0, 0, 0>>]

-----------------------------------------------------------------------------
(* FAT12: tables at sectors 1 and 2, the root at 3 and 4, data from 5.      *)

Tabela(f) ==
    LET n(i) == IF i \in DOMAIN f THEN f[i] ELSE 0
    IN  [b \in 1..BytesPorSetor |->
            LET k == 2 * ((b - 1) \div 3)
            IN  CASE (b - 1) % 3 = 0 -> n(k) % 256
                  [] (b - 1) % 3 = 1 -> (n(k) \div 256) + 16 * (n(k + 1) % 16)
                  [] OTHER -> n(k + 1) \div 16]

Fat(cadeia, nome, primeiro, conjs, defeito) ==
    LET t == [Branco EXCEPT !.octetos = Tabela(cadeia)]
        r == [Branco EXCEPT !.raiz = <<[nome |-> "LEIAME  TXT", conj |-> 6],
                                       [nome |-> nome, conj |-> primeiro]>>]
    IN  [setor |-> "fat", boot |-> 0, a20 |-> 0, defeito |-> defeito,
         discos |-> [d \in {0} |->
             [lba \in 0..23 |-> IF lba \in {1, 2} THEN t ELSE IF lba = 4 THEN r ELSE Branco]],
         arquivos |-> <<[i \in 1..Len(conjs) |-> <<0, conjs[i] + 3>>], <<>>, <<>>>>]

Cadeia(conjs) ==
    [n \in {0, 1} \cup {conjs[i] : i \in 1..Len(conjs)} |->
        IF n < 2 THEN 4080 + 15 * n
        ELSE LET i == CHOOSE j \in 1..Len(conjs) : conjs[j] = n
             IN  IF i = Len(conjs) THEN 4095 ELSE conjs[i + 1]]

-----------------------------------------------------------------------------
MCMaquinas ==
    [comum |-> Minix(Volume, 0, 0, "nenhum"),
     unidade1 |-> Minix(Volume, 1, 1, "nenhum"),
     espalhado |-> Minix([Volume EXCEPT
         !.arqs = <<<<22, 9, 8>>, <<10, 17>>, <<20>>, <<21, 12, 16>>>>, !.indiretos = <<18, 0, 0, 23>>,
         !.diretorio = <<E(0, "BRASIS.Nucleo"), E(5, "BRASIS.Image"), E(0, "BRASIS.cfg"),
                         E(2, NomeInicial), E(4, "BRASIS.Nucleo"), E(0, "Extra"),
                         E(3, "BRASIS.cfg"), E(1, ".")>>], 0, 0, "nenhum"),
     semImagem |-> Minix([Volume EXCEPT !.arqs = <<<<8, 9>>, <<10>>, <<11, 12>>, <<>>>>,
                                        !.indiretos = <<0, 0, 0, 0>>], 0, 3, "nenhum"),
     a20teclado |-> Minix(Pequeno, 0, 2, "nenhum"),
     a20porta |-> Minix(Pequeno, 0, 4, "nenhum"),
     a20nunca |-> Minix(Pequeno, 0, 5, "nenhum"),
     apagado |-> Minix([Pequeno EXCEPT !.diretorio = <<E(0, NomeInicial)>> \o @], 0, 0, "apagado"),
     tabela |-> Minix([Pequeno EXCEPT !.arqs = @ \o <<<<16>>, <<17>>>>,
                                      !.indiretos = @ \o <<0, 0>>, !.itensTotal = 8,
                                      !.diretorio[6] = E(7, "BRASIS.Image")], 0, 0, "tabela"),
     buraco |-> Minix([Volume EXCEPT !.arqs[3] = <<11, 0, 13>>], 0, 0, "buraco"),
     cilindro |-> Minix([Pequeno EXCEPT !.blocos = 30, !.arqs[4] = <<26>>], 0, 0, "cilindro"),
     rigido |-> [Minix(Pequeno, 128, 0, "rigido") EXCEPT
                     !.discos = [d \in {0, 128} |-> Disquete(Pequeno)]],
     rigidoSo |-> Minix(Pequeno, 128, 0, "rigido"),
     segundoBloco |-> Minix([Pequeno EXCEPT
         !.diretorio = SubSeq(@, 1, 5) \o <<E(0, ""), E(0, ""), E(0, ""), E(5, "BRASIS.Image")>>],
         0, 0, "segundo_bloco"),
     ausente |-> Minix([Pequeno EXCEPT !.diretorio = SubSeq(@, 1, 5)], 0, 0, "ausente"),
     cfgVazio |-> Minix([Pequeno EXCEPT !.arqs[2] = <<>>], 0, 0, "ausente"),
     cheio |-> Minix([Volume EXCEPT !.arqs[3] = <<11, 12, 13, 16>>], 0, 0, "cheio"),
     outro |-> Minix([Pequeno EXCEPT !.magico = FALSE], 0, 0, "outro"),
     fat |-> Fat(Cadeia(<<3, 2, 5>>), NomeEstagio2, 3, <<3, 2, 5>>, "nenhum"),
     fatAusente |-> Fat(Cadeia(<<2>>), "ESTAGIO3BIN", 2, <<>>, "ausente"),
     fatLongo |-> Fat(Cadeia(<<2, 3, 4, 5>>), NomeEstagio2, 2, <<2, 3, 4, 5>>, "longo"),
     fatLivre |-> Fat(Cadeia(<<2>>), NomeEstagio2, 0, <<>>, "livre")]

MCLixo == {0, 19}
=============================================================================
