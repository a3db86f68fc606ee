SPECIFICATION PartidaSpec
CONSTANTS
    QtdPaginas = 4096
    Fronteira = 256
    Maquinas <- MCMaquinas
    Nucleos <- MCNucleos
    Imagens <- MCImagens
INVARIANTS
    MapaServe
    LivreEhRam
    PaginasCheiasMarcadas
    ImagemMarcada
CHECK_DEADLOCK FALSE
