SPECIFICATION FairSpec
CONSTANTS
    Irqs <- MCIrqs
    Registraveis <- MCRegistraveis
    MaxPedidos = 5
    MaxChamadas = 3
INVARIANTS
    LinhaNoSeuManipulador
    ServicoTemDono
    ServicoEncerra
    TickContado
PROPERTY
    PedidoAtendido
CHECK_DEADLOCK FALSE
