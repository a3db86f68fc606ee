----------------------------- MODULE Processador -----------------------------
(***************************************************************************)
(* Hardware interrupts in Nucleo/Processador386.c: the order in which      *)
(* Processador() builds the tables and programs the 8259 pair, the stubs   *)
(* _PIC_ManipuladorN, and the registration of handlers.                    *)
(*                                                                         *)
(* The 8259 and the processor are external: requests come at any time, the *)
(* processor takes one between two instructions, a request may be gone by  *)
(* then (a spurious interrupt), and a handler may enable interrupts again. *)
(***************************************************************************)
EXTENDS Naturals, Sequences, FiniteSets

CONSTANTS
    Irqs,           \* the lines in use
    Registraveis,   \* those a module registers a handler for
    MaxPedidos,     \* bound: requests in one boot
    MaxChamadas     \* bound: calls of the interface in one boot

Cascata == 2        \* the master's line the slave is on

ASSUME ProcessadorAssumption ==
    /\ Irqs \subseteq (0..15) \ {Cascata}
    /\ {0, 7, 15} \subseteq Irqs
    /\ Registraveis \subseteq Irqs \ {0}
    /\ MaxPedidos \in Nat
    /\ MaxChamadas \in Nat

VARIABLES
    fase,           \* the next statement of Processador(), then "pronto"
    idt,            \* what the IDT has: "nada", "excecoes", "tudo"
    base,           \* the vector of line 0
    manipuladores,  \* _PIC_Manipuladores
    habilitadas,    \* the processor's interrupt flag
    pedidos,        \* the request registers
    servico,        \* the in-service registers
    pilha,          \* the interrupted stubs, the running one last
    contador,       \* _PIT_Contador
    aceitos,        \* history: interrupts of line 0 taken
    regular,        \* history: no spurious interrupt
    chegaram,       \* bound
    chamadas        \* bound

vars == <<fase, idt, base, manipuladores, habilitadas, pedidos, servico, pilha, contador,
          aceitos, regular, chegaram, chamadas>>

hardware == <<base, pedidos, servico, aceitos, regular, chegaram>>

Manipuladores == {"nenhum", "tick", "modulo"}
Fases == {"idt", "pic", "reprograma", "pit", "sti", "pronto"}

Init ==
    /\ fase = "idt"
    /\ idt = "nada"
    /\ base = 8
    /\ manipuladores = [n \in Irqs |-> "nenhum"]
    /\ habilitadas = FALSE
    /\ pedidos \in SUBSET Irqs
    /\ servico = {}
    /\ pilha = << >>
    /\ contador = 0
    /\ aceitos = 0
    /\ regular = TRUE
    /\ chegaram = 0
    /\ chamadas = 0

-----------------------------------------------------------------------------
(* The 8259 pair.                                                          *)

\* Line 0 first; the slave's lines come in the place of line 2.
Ordem(n) == IF n < 8 THEN 10 * n ELSE 20 + n - 8

Mestre == servico \cap (0..7)
Escravo == servico \cap (8..15)

\* A request goes through when nothing of its order or before it is in service.
Passam == {n \in pedidos : \A s \in servico : Ordem(n) < Ordem(s)}

Primeira(linhas) == CHOOSE n \in linhas : \A o \in linhas : Ordem(n) <= Ordem(o)

\* The vector of a line, and what the IDT has there.
Vetor(n) == IF n < 8 THEN base + n ELSE IF base = 8 THEN 112 + n - 8 ELSE base + n

Entrada(v) ==
    [n    |-> IF idt = "tudo" /\ v \in 32..47 THEN v - 32 ELSE v,
     tipo |-> IF idt = "nada" THEN "nada"
              ELSE IF v < 32 THEN "excecao"
              ELSE IF idt = "tudo" /\ v < 48 THEN "pic" ELSE "generico"]

Pedido(n) ==
    /\ chegaram < MaxPedidos
    /\ n \notin pedidos
    /\ pedidos' = pedidos \cup {n}
    /\ chegaram' = chegaram + 1
    /\ UNCHANGED <<fase, idt, base, manipuladores, habilitadas, servico, pilha, contador,
                   aceitos, regular, chamadas>>

-----------------------------------------------------------------------------
(* The processor.                                                          *)

Interrompe == habilitadas /\ Passam # {}

\* A stub: the line it was called for, the entry it was called through, the
\* statement it is at and the handler it is in.
Quadro(n) == [linha |-> n, entrada |-> Entrada(Vetor(n)), em |-> "entrada", trata |-> "nenhum"]

\* An interrupt gate: the flag is cleared until the IRET.
Chama(n) ==
    /\ pilha' = Append(pilha, Quadro(n))
    /\ habilitadas' = FALSE
    /\ UNCHANGED <<fase, idt, base, manipuladores, contador, chegaram, chamadas>>

Aceita ==
    /\ Interrompe
    /\ LET n == Primeira(Passam)
       IN  /\ pedidos' = pedidos \ {n}
           /\ servico' = servico \cup {n} \cup (IF n < 8 THEN {} ELSE {Cascata})
           /\ aceitos' = aceitos + IF n = 0 THEN 1 ELSE 0
           /\ Chama(n)
    /\ UNCHANGED regular

\* The request is gone when the processor asks for the vector: the master answers
\* with line 7 and nothing in service, the slave with 15 and only the cascade.
Espuria ==
    /\ Interrompe
    /\ LET n == Primeira(Passam)
       IN  /\ pedidos' = pedidos \ {n}
           /\ \/ servico' = servico /\ Chama(7)
              \/ n > 7 /\ servico' = servico \cup {Cascata} /\ Chama(15)
    /\ regular' = FALSE
    /\ UNCHANGED aceitos

-----------------------------------------------------------------------------
(* The stubs.                                                              *)

Topo == pilha[Len(pilha)]

\* The running stub is at this statement and the processor goes on with it.
No(em) == pilha # << >> /\ ~ Interrompe /\ Topo.em = em

Segue(em) == pilha' = [pilha EXCEPT ![Len(pilha)].em = em]

resto == <<fase, idt, base, pedidos, aceitos, regular, chegaram>>

\* The stubs of the exceptions only write a message, with no end of interrupt.
SoMensagem(e) == e.tipo # "pic"

\* if(_PIC_Manipuladores[n]) _PIC_Manipuladores[n]().
Testa ==
    /\ No("entrada")
    /\ LET e == Topo.entrada
           m == IF SoMensagem(e) THEN "nenhum" ELSE manipuladores[e.n]
       IN  pilha' = [pilha EXCEPT ![Len(pilha)].em = IF SoMensagem(e) THEN "sai"
                                                     ELSE IF m = "nenhum" THEN "eoi" ELSE "trata",
                                  ![Len(pilha)].trata = m]
    /\ UNCHANGED <<resto, manipuladores, habilitadas, servico, contador, chamadas>>

Tick ==
    /\ No("trata") /\ Topo.trata = "tick"
    /\ contador' = contador + 1
    /\ Segue("eoi")
    /\ UNCHANGED <<resto, manipuladores, habilitadas, servico, chamadas>>

\* A module's handler calls Processador_HabilitarInterrupcoes.
HabilitaNoMeio ==
    /\ No("trata") /\ Topo.trata = "modulo"
    /\ chamadas < MaxChamadas
    /\ ~ habilitadas /\ habilitadas' = TRUE
    /\ chamadas' = chamadas + 1
    /\ UNCHANGED <<resto, manipuladores, servico, pilha, contador>>

Volta ==
    /\ No("trata") /\ Topo.trata = "modulo"
    /\ Segue("eoi")
    /\ UNCHANGED <<resto, manipuladores, habilitadas, servico, contador, chamadas>>

\* What a non-specific end of interrupt leaves in service.
Fim(linhas) == IF linhas = {} THEN servico ELSE servico \ {Primeira(linhas)}

\* A wrong version of DoEscravo: every stub ends the interrupt in the master only.
ErroDoEscravo(n) == FALSE

\* The stubs of the slave's lines end the interrupt in both.
DoEscravo(n) == n > 7

\* A wrong version of EoiEscravo: the master is forgotten.
ErroSoEscravo ==
    /\ No("eoi") /\ DoEscravo(Topo.entrada.n)
    /\ servico' = Fim(Escravo)
    /\ Segue("sai")
    /\ UNCHANGED <<resto, manipuladores, habilitadas, contador, chamadas>>

EoiEscravo ==
    /\ No("eoi") /\ DoEscravo(Topo.entrada.n)
    /\ servico' = Fim(Escravo)
    /\ Segue("eoi2")
    /\ UNCHANGED <<resto, manipuladores, habilitadas, contador, chamadas>>

EoiMestre ==
    /\ \/ No("eoi") /\ ~ DoEscravo(Topo.entrada.n)
       \/ No("eoi2")
    /\ servico' = Fim(Mestre)
    /\ Segue("sai")
    /\ UNCHANGED <<resto, manipuladores, habilitadas, contador, chamadas>>

\* IRETD: the flags are those of the interrupted code, which had interrupts enabled.
Sai ==
    /\ No("sai")
    /\ pilha' = SubSeq(pilha, 1, Len(pilha) - 1)
    /\ habilitadas' = TRUE
    /\ UNCHANGED <<resto, manipuladores, servico, contador, chamadas>>

-----------------------------------------------------------------------------
(* Processador() and the interface.                                        *)

Livre(f) == pilha = << >> /\ ~ Interrompe /\ fase = f

\* _IDT: 256 entries and LIDT.
Idt ==
    /\ Livre("idt")
    /\ idt' = "excecoes"
    /\ fase' = "pic"
    /\ UNCHANGED <<hardware, manipuladores, habilitadas, pilha, contador, chamadas>>

\* _PIC, first half: the table of handlers and the stubs.
Pic ==
    /\ Livre("pic")
    /\ manipuladores' = [n \in Irqs |-> "nenhum"]
    /\ idt' = "tudo"
    /\ fase' = "reprograma"
    /\ UNCHANGED <<hardware, habilitadas, pilha, contador, chamadas>>

\* Where the initialisation words put line 0.  Wrong version: it stays where
\* the BIOS has it.
ErroBase == 8
Base == 32

\* Second half: the ten words.  The first one clears requests and services.
Reprograma ==
    /\ Livre("reprograma")
    /\ base' = Base
    /\ pedidos' = {}
    /\ servico' = {}
    /\ fase' = "pit"
    /\ UNCHANGED <<idt, manipuladores, habilitadas, pilha, contador, aceitos, regular,
                   chegaram, chamadas>>

\* A wrong version of Pit: the handler is registered when it is first wanted.
ErroPit ==
    /\ Livre("pit")
    /\ fase' = "sti"
    /\ UNCHANGED <<hardware, idt, manipuladores, habilitadas, pilha, contador, chamadas>>

\* _PIT.
Pit ==
    /\ Livre("pit")
    /\ manipuladores' = [manipuladores EXCEPT ![0] = "tick"]
    /\ fase' = "sti"
    /\ UNCHANGED <<hardware, idt, habilitadas, pilha, contador, chamadas>>

Sti ==
    /\ Livre("sti")
    /\ habilitadas' = TRUE
    /\ fase' = "pronto"
    /\ UNCHANGED <<hardware, idt, manipuladores, pilha, contador, chamadas>>

\* Processador_RegistraIRQ.
RegistraIRQ(n, m) ==
    /\ Livre("pronto") /\ chamadas < MaxChamadas
    /\ manipuladores' = [manipuladores EXCEPT ![n] = m]
    /\ chamadas' = chamadas + 1
    /\ UNCHANGED <<hardware, fase, idt, habilitadas, pilha, contador>>

DesabilitarInterrupcoes ==
    /\ Livre("pronto") /\ chamadas < MaxChamadas
    /\ habilitadas /\ habilitadas' = FALSE
    /\ chamadas' = chamadas + 1
    /\ UNCHANGED <<hardware, fase, idt, manipuladores, pilha, contador>>

HabilitarInterrupcoes ==
    /\ Livre("pronto")
    /\ ~ habilitadas /\ habilitadas' = TRUE
    /\ UNCHANGED <<hardware, fase, idt, manipuladores, pilha, contador, chamadas>>

Inicia == Idt \/ Pic \/ Reprograma \/ Pit \/ Sti

Interface ==
    \/ \E n \in Registraveis, m \in {"nenhum", "modulo"} : RegistraIRQ(n, m)
    \/ DesabilitarInterrupcoes

Segmento ==
    \/ Aceita \/ Espuria
    \/ Testa \/ Tick \/ Volta \/ EoiEscravo \/ EoiMestre \/ Sai
    \/ Inicia \/ HabilitarInterrupcoes

Next ==
    \/ \E n \in Irqs : Pedido(n)
    \/ Segmento
    \/ HabilitaNoMeio \/ Interface

Spec == Init /\ [][Next]_vars

\* The processor runs, handlers return, and who disables interrupts enables them.
FairSpec == Spec /\ WF_vars(Segmento)

-----------------------------------------------------------------------------
(* Properties.                                                             *)

Quadros == [linha : Irqs,
            entrada : [tipo : {"pic", "excecao", "generico", "nada"}, n : 0..255],
            em : {"entrada", "trata", "eoi", "eoi2", "sai"},
            trata : Manipuladores]

TypeOK ==
    /\ fase \in Fases
    /\ idt \in {"nada", "excecoes", "tudo"}
    /\ base \in {8, 32}
    /\ manipuladores \in [Irqs -> Manipuladores]
    /\ habilitadas \in BOOLEAN
    /\ pedidos \subseteq Irqs
    /\ servico \subseteq Irqs \cup {Cascata}
    /\ pilha \in Seq(Quadros)
    /\ contador \in Nat /\ aceitos \in Nat
    /\ regular \in BOOLEAN
    /\ chegaram \in 0..MaxPedidos /\ chamadas \in 0..MaxChamadas

\* An interrupt of a line only ever enters the stub of that line: none is enabled
\* while the BIOS's vectors, which are those of the exceptions, or an IDT without
\* the stubs are in place.
LinhaNoSeuManipulador ==
    \A k \in DOMAIN pilha : pilha[k].entrada = [tipo |-> "pic", n |-> pilha[k].linha]

\* What the stubs on the stack have still to end.
Devem == {pilha[k].linha : k \in {j \in DOMAIN pilha : pilha[j].em \in {"entrada", "trata", "eoi"}}}
         \cup {Cascata : k \in {j \in DOMAIN pilha : pilha[j].linha > 7 /\ pilha[j].em # "sai"}}

\* Every end of interrupt ends its own: with no spurious interrupt, what is in
\* service is what the stubs have still to end, however they are nested.
ServicoTemDono == regular => servico = Devem

\* No line is left in service, and so dead, when all stubs have returned, spurious
\* interrupts included.
ServicoEncerra == pilha = << >> => servico = {}

\* Each interrupt of the timer counts once: after the stub's call, not before.
TickContado ==
    aceitos = contador
              + Cardinality({k \in DOMAIN pilha : pilha[k].linha = 0 /\ pilha[k].em \in {"entrada", "trata"}})

\* Every request is taken (or withdrawn): no line waits for ever behind an interrupt
\* that was not ended or a flag that was not given back.
PedidoAtendido == \A n \in Irqs : n \in pedidos ~> n \notin pedidos
=============================================================================
