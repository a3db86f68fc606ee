SPECIFICATION FairSpec
CONSTANTS
    Setores = 3
    Cabecas = 2
    Cilindros = 8
    Diretas = 2
    PonteirosPorSetor = 1
    ItensPorSetor = 3
    EntradasPorSetor = 4
    BytesPorSetor = 12
    SetoresPorTabela = 1
    SetoresDaRaiz = 2
    Livres = 3
    NucleoInicio = 8
    ImagemInicio = 12
    FimDaMemoria = 20
    TamBss = 2
    Lixo <- MCLixo
    Maquinas <- MCMaquinas
INVARIANTS
    CacheFiel
    ZonaCerta
    ErroSoComMotivo
PROPERTIES
    BootTermina
    CumprePromessa
CHECK_DEADLOCK FALSE
