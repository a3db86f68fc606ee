SPECIFICATION PartidaSpec
CONSTANTS
    QtdPaginas = 4096
    Fronteira = 256
    Maquinas <- MCMaquinas
    Nucleos <- MCNucleos
    Imagens <- MCImagens
INVARIANT
    NucleoMarcado
CHECK_DEADLOCK FALSE
