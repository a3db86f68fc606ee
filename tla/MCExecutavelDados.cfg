SPECIFICATION Spec
CONSTANTS
    QtdPaginas = 8
    Fronteira = 2
    Marcadas <- MCMarcadas
    Vizinho = 0
    TamPagina = 16
    Modulos <- MCModulos
    Arquivo <- MCArquivo
    Cortes = {0, 22}
    MaxCargas = 3
INVARIANT
    DadosRelocados
CHECK_DEADLOCK FALSE
