SPECIFICATION Spec
CONSTANTS
    QtdPaginas = 7
    Fronteira = 2
    Marcadas <- MCMarcadas
    Vizinhos = {0, 2}
    Processos = {2, 3}
    Qtds = {0, 1, 2, 3}
INVARIANTS
    TypeOK
    BlocosMarcados
    BlocosDisjuntos
    Contabilidade
    ContaDoProcesso
PROPERTIES
    PaginaSoMudaLiberada
    EntregaZerada
