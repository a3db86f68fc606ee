SPECIFICATION FairSpec
CONSTANTS
    TamBuffer = 3
    TamLinha = 6
    Letras = {"a", "b"}
    Arquivos <- MCArquivos
INVARIANTS
    TypeOK
    NadaPerdido
    LinhasCertas
PROPERTY
    LeituraTermina
