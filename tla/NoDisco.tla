------------------------------ MODULE NoDisco ------------------------------
(***************************************************************************)
(* What the disks of the boot hold, followed on the disks themselves and    *)
(* not in the buffers of the programs that load from them: the terms in     *)
(* which the properties of the boot are stated.  m is the name of a         *)
(* machine; the disk is the one in the drive that its BIOS boots.           *)
(***************************************************************************)
EXTENDS Estagio1, FAT12

Geometria == [setores |-> Setores, cabecas |-> Cabecas]

\* The cell at an address, those of a block, and the sector a cell names.
CelulaEm(m, lba) == <<Maquinas[m].boot, Onde(CHS(lba, Geometria))>>
BlocoEm(m, p)    == <<CelulaEm(m, 2 * p), CelulaEm(m, 2 * p + 1)>>
SetorDa(m, c)    == Maquinas[m].discos[c[1]][c[2]]

-----------------------------------------------------------------------------
(* A Minix volume.                                                         *)

Zonas == Diretas + PorIndice

SuperEm(m) == SetorDa(m, CelulaEm(m, 2))

\* The items in the blocks of the table that the loaders read.
NaTabela(m) == 1..(2 * BlocosItens(SuperEm(m)) * ItensPorSetor)

ItemEm(m, n) ==
    LET c == CelulaEm(m, 2 * PosItens(SuperEm(m)) + ((n - 1) \div ItensPorSetor))
    IN  SetorDa(m, c).itens[((n - 1) % ItensPorSetor) + 1]

PonteiroEm(m, i, k) ==
    SetorDa(m, BlocoEm(m, i)[(k \div PonteirosPorSetor) + 1]).ponteiros[(k % PonteirosPorSetor) + 1]

\* Zone z of item n; 0 when there is none.
ZonaEm(m, n, z) ==
    IF z < Diretas THEN ItemEm(m, n)[z + 1]
    ELSE IF ItemEm(m, n)[Diretas + 1] = 0 THEN 0
    ELSE PonteiroEm(m, ItemEm(m, n)[Diretas + 1], z - Diretas)

\* Entry e of block z of the root directory.
EntradaEm(m, z, e) ==
    LET b == BlocoEm(m, ZonaEm(m, 1, z))
    IN  SetorDa(m, b[(e \div EntradasPorSetor) + 1]).entradas[(e % EntradasPorSetor) + 1]

\* The entries of the first block that are of a file of this name, and the item
\* of the first of them.
Nomeadas(m, nome) ==
    {e \in 0..(Entradas - 1) :
        ZonaEm(m, 1, 0) # 0 /\ EntradaEm(m, 0, e).item # 0 /\ EntradaEm(m, 0, e).nome = nome}

ItemDe(m, nome) == EntradaEm(m, 0, Min(Nomeadas(m, nome))).item

\* The names that the second stage looks for.
NomeCfg == "BRASIS.cfg"
LinhasCfg(m) == SetorDa(m, BlocoEm(m, ZonaEm(m, ItemDe(m, NomeCfg), 0))[1]).linhas
NomeEm(m, a) ==
    IF a = "cfg" THEN NomeCfg ELSE IF a = "nucleo" THEN LinhasCfg(m)[1] ELSE LinhasCfg(m)[2]

\* s are the blocks of item n: of its zones up to the first there is not, or of
\* all that an item can name.
Conteudo(m, n, s) ==
    /\ Len(s) <= Zonas
    /\ \A z \in 0..(Len(s) - 1) : ZonaEm(m, n, z) # 0 /\ s[z + 1] = BlocoEm(m, ZonaEm(m, n, z))
    /\ Len(s) < Zonas => ZonaEm(m, n, Len(s)) = 0

AosPares(s) == [z \in 1..(Len(s) \div 2) |-> <<s[2 * z - 1], s[2 * z]>>]

\* Nothing on the disk is what it does not seem: it is in a drive whose number
\* is kept by the second stage, every entry of the root is of an item in the
\* table or is empty, and no empty one has the name that the boot sector looks
\* for.
Integro(m) ==
    /\ Maquinas[m].boot \in 0..15
    /\ SuperEm(m).magico =>
           /\ SuperEm(m).mapas \in Nat /\ SuperEm(m).itensTotal \in Nat
           /\ 1 \in NaTabela(m)
           /\ \A z \in 0..(Zonas - 1) : ZonaEm(m, 1, z) # 0 =>
                  \A e \in 0..(Entradas - 1) :
                      \/ EntradaEm(m, z, e).item \in NaTabela(m)
                      \/ EntradaEm(m, z, e).item = 0 /\ EntradaEm(m, z, e).nome # NomeInicial

\* What arquivos says of the machine is what its disk holds under these names.
UmBloco == (Int \X Int) \X (Int \X Int)

Arquivado(m) ==
    LET a == Maquinas[m].arquivos
    IN  /\ a[1] \in Seq(Int \X Int) /\ a[2] \in Seq(UmBloco) /\ a[3] \in Seq(UmBloco)
        /\ SuperEm(m).magico =>
               /\ Nomeadas(m, NomeInicial) # {} =>
                      Len(a[1]) % 2 = 0 /\ Conteudo(m, ItemDe(m, NomeInicial), AosPares(a[1]))
               /\ Nomeadas(m, NomeEm(m, "nucleo")) # {} =>
                      Conteudo(m, ItemDe(m, NomeEm(m, "nucleo")), a[2])
               /\ Nomeadas(m, NomeEm(m, "imagem")) # {} =>
                      Conteudo(m, ItemDe(m, NomeEm(m, "imagem")), a[3])

\* Everything the boot needs is there, and no file takes all the zones that an
\* item can name.
Completo(m) ==
    /\ SuperEm(m).magico
    /\ \A nome \in {NomeInicial} \cup {NomeEm(m, a) : a \in {"cfg", "nucleo", "imagem"}} :
           Nomeadas(m, nome) # {}
    /\ ZonaEm(m, ItemDe(m, NomeCfg), 0) # 0
    /\ Len(Maquinas[m].arquivos[1]) < 2 * Zonas
    /\ Len(Maquinas[m].arquivos[2]) < Zonas /\ Len(Maquinas[m].arquivos[3]) < Zonas

-----------------------------------------------------------------------------
(* A FAT12 volume.                                                         *)

NaRaizEm(m, e) == SetorDa(m, CelulaEm(m, RaizEndereco + e[1] - 1)).raiz[e[2]]

AchadasEm(m) ==
    {e \in (1..SetoresDaRaiz) \X (1..BytesPorSetor) :
        /\ e[2] \in DOMAIN SetorDa(m, CelulaEm(m, RaizEndereco + e[1] - 1)).raiz
        /\ NaRaizEm(m, e).nome = NomeEstagio2}

OctetoEm(m, i) ==
    SetorDa(m, CelulaEm(m, 1 + (i \div BytesPorSetor))).octetos[(i % BytesPorSetor) + 1]

SeguinteEm(m, n) ==
    LET i == n + (n \div 2)
        w == OctetoEm(m, i) + 256 * OctetoEm(m, i + 1)
    IN  IF n % 2 = 0 THEN w % 4096 ELSE w \div 16

\* The cluster of sector i of the second stage.
ConjuntoEm(m, i) == Maquinas[m].arquivos[1][i][2] - DadosEndereco + 2

\* Sector i is that of its cluster, which the tables hold and from which they
\* lead to the cluster of the next, or to the end after the last.
Elo(m, i) ==
    LET a == Maquinas[m].arquivos[1]
        n == ConjuntoEm(m, i)
    IN  /\ n \in 2..4079
        /\ n + (n \div 2) + 1 < 2 * SetoresPorTabela * BytesPorSetor
        /\ a[i] = CelulaEm(m, (n - 2 + DadosEndereco) % 65536)
        /\ IF i < Len(a) THEN SeguinteEm(m, n) = ConjuntoEm(m, i + 1) ELSE SeguinteEm(m, n) >= 4080

\* The disk is in drive 0, it is no Minix volume, and the second stage, if it
\* has one, is the chain of its entry, and short enough.
Encadeado(m) ==
    LET a == Maquinas[m].arquivos[1]
    IN  /\ Maquinas[m].boot = 0 /\ ~ SuperEm(m).magico
        /\ a \in Seq(Int \X Int)
        /\ AchadasEm(m) # {} =>
               /\ Len(a) \in 1..Livres
               /\ \A e \in AchadasEm(m) :
                      (\A f \in AchadasEm(m) : Antes(e, f)) => NaRaizEm(m, e).conj = ConjuntoEm(m, 1)
               /\ \A i \in 1..Len(a) : Elo(m, i)
=============================================================================
