SPECIFICATION FairSpec
CONSTANTS
    Colunas = 2
    Linhas = 2
    Caracteres <- MCCaracteres
    Aviso <- MCAviso
INVARIANTS
    EscreveNaTela
    CaractereCerto
PROPERTY
    AvisoTermina
