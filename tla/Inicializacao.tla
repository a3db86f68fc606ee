--------------------------- MODULE Inicializacao ---------------------------
(***************************************************************************)
(* From the BIOS to Inicial(): one of the two boot sectors, the second      *)
(* stage, and the first instructions of the kernel (Nucleo/Inicial.asm).    *)
(* The programs share the machine and what one leaves to the next: the      *)
(* drive and its geometry, the memory, and the register edi.                *)
(***************************************************************************)
EXTENDS NoDisco, Estagio2

CONSTANT TamBss     \* blocks of the kernel's bss, less than 1 MiB

ASSUME InicializacaoAssumption == TamBss \in 1..NucleoInicio

vars == <<disco, minix, segundo, tabela, conj, segundoEstagio>>

\* Disks that make a loader take something else for a file.  apagado: a deleted
\* entry named BRASIS.Inicial.  tabela: an item past the last full block of the
\* table.  buraco: a zone 0 inside a file.  cilindro: a file above cylinder
\* 255.  rigido: booted from a hard disk.  longo, livre: a second stage too big
\* or empty on FAT12.
Engana == {"apagado", "tabela", "buraco", "cilindro", "rigido", "longo", "livre"}

\* Disks on which a loader gives up: an entry after the first block of the
\* directory, a file or a line of the configuration that is not there, a file
\* of all the zones the item can name, another file system.
Impede == {"segundo_bloco", "ausente", "cheio", "outro"}

Defeitos == Engana \cup Impede \cup {"nenhum"}

Serve == M.defeito \notin Engana

\* What the labels promise.
ASSUME VolumeAssumption ==
    \A m \in DOMAIN Maquinas :
        /\ Maquinas[m].setor \in {"minix", "fat"} /\ Maquinas[m].a20 \in Nat
        /\ Maquinas[m].defeito \notin Engana =>
               IF Maquinas[m].setor = "minix"
               THEN /\ Integro(m) /\ Arquivado(m)
                    /\ Maquinas[m].defeito = "nenhum" => Completo(m)
               ELSE Encadeado(m)

-----------------------------------------------------------------------------
Init ==
    /\ maquina \in DOMAIN Maquinas
    /\ etapa = 1 /\ pc = IF M.setor = "fat" THEN "raiz_fat" ELSE "extensao"
    /\ unidade = M.boot
    /\ geo = [setores |-> Setores, cabecas |-> Cabecas]
    /\ leitura = [lba |-> 0, resta |-> 0, apos |-> "nada"] /\ lido = <<>>
    /\ tentativas = Limite /\ falhas = 0
    /\ itens = <<>> /\ bloco = <<>> /\ cache = 0 /\ cf = FALSE
    /\ pedido = [item |-> 1, zona |-> 0, volta |-> "nada", bloco |-> 0]
    /\ segundo = <<>> /\ tabela = <<>> /\ conj = 0
    /\ a20 = 0 /\ alvo = "cfg" /\ dir = [bloco |-> 0, sub |-> 0]
    /\ nomes = [cfg |-> NomeCfg, nucleo |-> "", imagem |-> ""]
    /\ memoria = [e \in NucleoInicio..(FimDaMemoria - 1) |-> <<>>]
    /\ tam = [nucleo |-> 0, imagem |-> 0] /\ edi = Baixa

\* The block that rep stosb leaves.
Zeros == <<"zero">>

\* Nucleo/Inicial.asm: the start of the bss is loaded in esi, and the zeros go
\* to where edi points; then Inicial(params).
LimpaBss ==
    /\ pc = "__start"
    /\ memoria' = [e \in DOMAIN memoria |->
                       IF e \in edi..(edi + TamBss - 1) THEN Zeros ELSE memoria[e]]
    /\ edi' = edi + TamBss
    /\ pc' = "Inicial"
    /\ UNCHANGED <<maquina, etapa, unidade, geo, transfere, minix, segundo, tabela, conj,
                   a20, alvo, nomes, dir, tam>>

PassoDisco == (LeSetor \/ Falha \/ Desiste) /\ UNCHANGED <<minix, segundo, tabela, conj, segundoEstagio>>
PassoZona  == Zona /\ UNCHANGED <<segundo, tabela, conj, segundoEstagio>>
PassoMinix == SetorMinix /\ UNCHANGED <<tabela, conj, segundoEstagio>>
PassoFat   == SetorFat /\ UNCHANGED <<minix, segundoEstagio>>
PassoDois  == SegundoEstagio /\ UNCHANGED <<segundo, tabela, conj>>
PassoTecla == Tecla /\ UNCHANGED <<segundo, tabela, conj>>

Passo == PassoDisco \/ PassoZona \/ PassoMinix \/ PassoFat \/ PassoDois \/ LimpaBss

Next == Passo \/ PassoTecla

Spec == Init /\ [][Next]_vars

\* The processor goes on while nothing waits for the keyboard.
FairSpec == Spec /\ WF_vars(Passo)

-----------------------------------------------------------------------------
\* The sector read for an address, and the two of a block.
Celula(lba) == <<unidade, Onde(CHS(lba, geo))>>
Bloco(p) == <<Celula(2 * p), Celula(2 * p + 1)>>

\* disco_leia_1kib answers from memory when the number matches: the buffer must
\* hold the block of that number whenever the number is there, though the words
\* of the cache are reached through the DS that the last printed dot left.
CacheFiel == cache # 0 => bloco = Bloco(cache)

\* The asker of a zone (the search, the load of the second stage, of the
\* configuration, of the kernel and of the image) finds the zone that the file
\* system gives for its item and index, or carry clear when there is none:
\* through hits, misses, indirect blocks in temp, failed attempts, and requests
\* that come back to a block after another one was read.
ZonaCerta ==
    pc \in {"busca", "zona", "proximo", "leu"} /\ Serve /\ M.setor = "minix" =>
        LET p == ZonaEm(maquina, pedido.item, pedido.zona)
        IN  /\ cf <=> p # 0
            /\ cf => (IF etapa = 1 THEN lido ELSE bloco) = BlocoEm(maquina, p)

\* The loader halts for a reason: one sector has failed as many times in a row
\* as it is tried (and not the transfer as a whole), the A20 line cannot be
\* opened, or the disk is one of those above.  A FAT12 disk always stops the
\* second stage, which reads only Minix.
ErroSoComMotivo ==
    pc = "parado" =>
        \/ falhas = Limite
        \/ M.a20 > 4
        \/ M.setor = "fat"
        \/ M.defeito # "nenhum"

\* Every boot reaches the kernel or a halt, or stands at the A20 line waiting
\* for a key.
BootTermina == []<>(pc \in {"Inicial", "parado", "perdida", "tecla"})

\* The chain keeps the promise of a chain of loaders: in memory there is at any
\* time a beginning of the file as it is on the disk, each program starts with
\* the next file whole, and at Inicial() both kernel and image are still intact
\* although the kernel has zeroed its bss at the address the loader left in edi.
Blocos(a, inicio) == [i \in 1..tam[a] |-> memoria[inicio + i - 1]]

\* The file whose turn it is, and what is in memory of the three.
Vez == IF etapa = 3 THEN 4 ELSE IF etapa = 2 /\ alvo = "imagem" THEN 3 ELSE etapa
NaMemoria == <<segundo, Blocos("nucleo", NucleoInicio), Blocos("imagem", ImagemInicio)>>

Promessa == INSTANCE Carga WITH
    arquivos  <- M.arquivos,
    serve     <- Serve,
    etapa     <- Vez,
    carregado <- NaMemoria,
    parado    <- pc = "parado"

CumprePromessa == Promessa!Spec
=============================================================================
