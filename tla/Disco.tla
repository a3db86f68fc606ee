------------------------------- MODULE Disco -------------------------------
(***************************************************************************)
(* Sectors read through INT 13h.  The three boot programs carry the same    *)
(* loop: DiscoLeia of MinixFS.asm, disco_leia of FAT12.asm and             *)
(* disco_leia_direto of Estagio2.asm.  Each sector is addressed by         *)
(* cylinder, head and sector, tried a few times with a reset of the drive  *)
(* in between, and given up by halting the machine.                        *)
(*                                                                         *)
(* A sector is a record with one field for each way a program looks at its *)
(* bytes; a cell <<drive, number>> names the sector that a piece of memory *)
(* was really read from.                                                   *)
(***************************************************************************)
EXTENDS Integers, Sequences, FiniteSets

CONSTANTS
    Maquinas,       \* by name: the drives and their sectors, what the BIOS boots
    Setores,        \* sectors of a track (18, 15 or 9)
    Cabecas,        \* heads (2)
    Cilindros       \* cylinders that CH can tell apart (256)

ASSUME DiscoAssumption ==
    /\ Setores \in Nat \ {0} /\ Cabecas \in Nat \ {0} /\ Cilindros \in Nat \ {0}

VARIABLES
    maquina,        \* the machine, fixed
    etapa,          \* the program that runs: boot sector, second stage, kernel
    pc,             \* its next step; "parado" is the hlt loop
    unidade,        \* DL of every INT 13h
    geo,            \* sectors and heads by which addresses are split
    leitura,        \* the transfer: next sector, how many are left, what follows
    lido,           \* cells of the transfer so far
    tentativas,     \* attempts left for the current sector
    falhas,         \* failures of the current sector, for the properties only
    segundo         \* cells the boot sector has loaded at 0:0x600, in order

transfere == <<leitura, lido, tentativas, falhas>>
disco == <<maquina, etapa, pc, unidade, geo, transfere>>

M == Maquinas[maquina]

\* The sector a cell names.
Setor(celula) == M.discos[celula[1]][celula[2]]

\* The split of an address.  The bits of the cylinder above CH are rotated into
\* place and then masked out (and ah, 0x3f), and FAT12.asm drops them at once.
\* (Fewer than 4 * Cilindros cylinders: a floppy disk has 80.)
CHS(lba, g) ==
    LET trilha == lba \div g.setores
    IN  [c |-> (trilha \div g.cabecas) % Cilindros, h |-> trilha % g.cabecas,
         s |-> lba % g.setores]

\* The sector of the real drive at an address, and whether it has one.
Onde(chs) == (chs.c * Cabecas + chs.h) * Setores + chs.s
Existe(chs) ==
    /\ chs.h < Cabecas /\ chs.s < Setores
    /\ unidade \in DOMAIN M.discos
    /\ Onde(chs) \in DOMAIN M.discos[unidade]

\* mov si, 5 in MinixFS.asm and Estagio2.asm, 6 in FAT12.asm.
Limite == IF etapa = 1 /\ M.setor = "fat" THEN 6 ELSE 5

\* Start of a transfer of n sectors from lba; the program goes on at apos.
Comeca(lba, n, apos) ==
    /\ leitura' = [lba |-> lba, resta |-> n, apos |-> apos]
    /\ lido' = <<>>
    /\ tentativas' = Limite /\ falhas' = 0
    /\ pc' = "setor"

\* Wrong version: the attempts are counted once for the whole transfer.
ErroUmLimite ==
    /\ pc = "setor"
    /\ LET chs == CHS(leitura.lba, geo)
       IN  Existe(chs) /\ lido' = Append(lido, <<unidade, Onde(chs)>>)
    /\ leitura' = [lba |-> leitura.lba + 1, resta |-> leitura.resta - 1, apos |-> leitura.apos]
    /\ pc' = IF leitura.resta = 1 THEN leitura.apos ELSE "setor"
    /\ falhas' = 0
    /\ UNCHANGED <<maquina, etapa, unidade, geo, tentativas>>

\* INT 13h without carry: the next sector, with all its attempts.
LeSetor ==
    /\ pc = "setor"
    /\ LET chs == CHS(leitura.lba, geo)
       IN  Existe(chs) /\ lido' = Append(lido, <<unidade, Onde(chs)>>)
    /\ leitura' = [lba |-> leitura.lba + 1, resta |-> leitura.resta - 1, apos |-> leitura.apos]
    /\ pc' = IF leitura.resta = 1 THEN leitura.apos ELSE "setor"
    /\ tentativas' = Limite /\ falhas' = 0
    /\ UNCHANGED <<maquina, etapa, unidade, geo>>

\* Carry: the drive is reset and the same sector tried again.
Falha ==
    /\ pc = "setor" /\ tentativas > 1
    /\ tentativas' = tentativas - 1 /\ falhas' = falhas + 1
    /\ UNCHANGED <<maquina, etapa, pc, unidade, geo, leitura, lido>>

\* Carry on the last attempt.
Desiste ==
    /\ pc = "setor" /\ tentativas = 1
    /\ tentativas' = 0 /\ falhas' = falhas + 1 /\ pc' = "parado"
    /\ UNCHANGED <<maquina, etapa, unidade, geo, leitura, lido>>
=============================================================================
