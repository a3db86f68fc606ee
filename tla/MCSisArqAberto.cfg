SPECIFICATION Spec
CONSTANTS
    Vagas = 2
    Sistemas <- MCSistemas
    Nome <- MCNome
    Arquivo <- MCArquivo
    Itens = {i1}
    Enderecos <- MCEnderecos
    Posicoes = {1}
    Tamanhos = {3}
    Lixos = {0}
    NADA = NADA
PROPERTY
    ItemAberto
CHECK_DEADLOCK FALSE
