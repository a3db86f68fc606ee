SPECIFICATION FairSpec
CONSTANTS
    Vagas = 2
    Sistemas <- MCSistemas
    Nome <- MCNome
    Arquivo <- MCArquivo
    Itens = {i1, i2}
    Enderecos <- MCEnderecos
    Posicoes = {1, 3}
    Tamanhos = {3}
    Lixos = {950}
    NADA = NADA
INVARIANTS
    LeituraDentroDoMembro
    LeituraCurtaSoNoFim
PROPERTIES
    AbreAchaOPrimeiro
    RegistroEstavel
    AbreTermina
CHECK_DEADLOCK FALSE
