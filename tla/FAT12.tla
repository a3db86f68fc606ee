------------------------------- MODULE FAT12 -------------------------------
(***************************************************************************)
(* The boot sector for FAT12, Inicial/FAT12.asm: it reads the root          *)
(* directory, looks for ESTAGIO2.BIN, reads the allocation tables over it   *)
(* and follows the chain of clusters of one sector, loading at 0:0x600.     *)
(***************************************************************************)
EXTENDS Disco, FiniteSetsExt

CONSTANTS
    BytesPorSetor,      \* 512
    SetoresPorTabela,   \* 9, of two tables
    SetoresDaRaiz,      \* 14
    Livres              \* sectors from 0x600 to the stack below 0x7c00 (58)

ASSUME FAT12Assumption ==
    /\ BytesPorSetor \in Nat \ {0} /\ SetoresPorTabela \in Nat \ {0}
    /\ SetoresDaRaiz \in Nat \ {0} /\ Livres \in Nat

VARIABLES
    tabela,         \* cells of the allocation tables
    conj            \* varConj: the cluster to load

NomeEstagio2 == "ESTAGIO2BIN"
RaizEndereco == 1 + 2 * SetoresPorTabela
DadosEndereco == RaizEndereco + SetoresDaRaiz

\* The BIOS drive is not looked at: fatDiscoNumero is 0 in the sector.
Monta ==
    /\ pc = "raiz_fat"
    /\ unidade' = 0
    /\ Comeca(RaizEndereco, SetoresDaRaiz, "busca_fat")
    /\ UNCHANGED <<maquina, etapa, geo, segundo, tabela, conj>>

\* The entry number e[2] of sector e[1] of the root, and the order of entries.
Raiz(e) == Setor(lido[e[1]]).raiz[e[2]]
Achadas ==
    {e \in (1..Len(lido)) \X (1..BytesPorSetor) :
        e[2] \in DOMAIN Setor(lido[e[1]]).raiz /\ Raiz(e).nome = NomeEstagio2}
Antes(a, b) == a[1] < b[1] \/ (a[1] = b[1] /\ a[2] <= b[2])

\* The first entry with the name gives the first cluster; the tables are read.
BuscaFat ==
    /\ pc = "busca_fat"
    /\ IF Achadas = {}
       THEN pc' = "parado" /\ UNCHANGED <<conj, transfere>>
       ELSE /\ \E a \in Achadas : (\A b \in Achadas : Antes(a, b)) /\ conj' = Raiz(a).conj
            /\ Comeca(1, 2 * SetoresPorTabela, "tabela")
    /\ UNCHANGED <<maquina, etapa, unidade, geo, segundo, tabela>>

GuardaTabela ==
    /\ pc = "tabela"
    /\ tabela' = lido /\ pc' = "conjunto"
    /\ UNCHANGED <<maquina, etapa, unidade, geo, transfere, segundo, conj>>

\* Clusters 0 and 1 wrap in 16 bits to the sectors before the data.
LeConjunto ==
    /\ pc = "conjunto"
    /\ Comeca((conj - 2 + DadosEndereco) % 65536, 1, "conj_lido")
    /\ UNCHANGED <<maquina, etapa, unidade, geo, segundo, tabela, conj>>

Octeto(i) == Setor(tabela[(i \div BytesPorSetor) + 1]).octetos[(i % BytesPorSetor) + 1]

\* Twelve bits of the word at n + n/2.
Seguinte(n) ==
    LET i == n + (n \div 2)
        w == Octeto(i) + 256 * Octeto(i + 1)
    IN  IF n % 2 = 0 THEN w % 4096 ELSE w \div 16

\* A cluster read: past the room below 0x7c00 it has fallen on the stack and
\* then on the boot sector itself.  0xff0 and above end the chain.
SegueCadeia ==
    /\ pc = "conj_lido"
    /\ segundo' = segundo \o lido
    /\ IF Len(segundo') > Livres
       THEN pc' = "perdida" /\ conj' = conj
       ELSE /\ conj' = Seguinte(conj)
            /\ pc' = IF conj' >= 4080 THEN "salta" ELSE "conjunto"
    /\ UNCHANGED <<maquina, etapa, unidade, geo, transfere, tabela>>

\* Jump to 0:0x600, with the drive and its geometry in dx, cx and bx.
SaltaFat ==
    /\ pc = "salta"
    /\ etapa' = 2 /\ pc' = "inicial"
    /\ UNCHANGED <<maquina, unidade, geo, transfere, segundo, tabela, conj>>

SetorFat == Monta \/ BuscaFat \/ GuardaTabela \/ LeConjunto \/ SegueCadeia \/ SaltaFat
=============================================================================
