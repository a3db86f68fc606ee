------------------------------- MODULE SisArq -------------------------------
(***************************************************************************)
(* The file layer of the kernel: the registry and Abre, VaPara and Leia of *)
(* Nucleo/SisArq.c, over the archives of AR.c kept in the memory devices   *)
(* of DispMemoria.c.                                                       *)
(*                                                                         *)
(* Abre is modelled loop by loop; the frame of the call is in quadro.  The *)
(* other operations are a single step: nothing runs between their lines.   *)
(***************************************************************************)
EXTENDS AR

CONSTANTS
    Vagas,          \* slots of the registry (64 in the source)
    Sistemas,       \* the SisArq_t objects: one per archive
    Nome,           \* the disk name each one was built with
    Arquivo,        \* the archive on the device of each one
    Itens,          \* the Item_t variables of the callers
    Enderecos,      \* addresses callers open
    Posicoes,       \* arguments of VaPara
    Tamanhos,       \* byte counts asked of Leia
    Lixos,          \* what a word of the stack no one initialised may hold
    NADA            \* a null pointer

\* An address is [disco, separado, trechos]: the text before "://", whether the
\* separator is there, and what lies between the slashes that follow it.
ASSUME SisArqAssumption ==
    /\ Vagas \in Nat \ {0}
    /\ NADA \notin Sistemas
    /\ \A s \in Sistemas : Arquivo[s] \in Seq([nome : Seq(STRING), tam : Nat])
    /\ \A e \in Enderecos : /\ e.separado \in BOOLEAN
                            /\ e.trechos \in Seq(Seq(STRING)) \ {<< >>}
    /\ Posicoes \cup Tamanhos \cup Lixos \subseteq Nat

VARIABLES
    registro,       \* _SisArq
    disp,           \* Posicao of the device of each file system
    itens,          \* the callers' items
    status,         \* Status_t of the last call that wrote it
    fase,           \* where the running call of Abre is, "livre" when none runs
    quadro,         \* its arguments and locals
    firmes,         \* history: items positioned by VaPara since they were opened
    lido            \* history: what the last step read

vars == <<registro, disp, itens, status, fase, quadro, firmes, lido>>

-----------------------------------------------------------------------------

Ok == [ok |-> TRUE, tipo |-> "sem_erros"]
Erro(tipo) == [ok |-> FALSE, tipo |-> tipo]

\* Item(): the state of an Item_t no one opened.  Only arquivo has VaPara and Leia.
SemItem == [nome |-> << >>, sis |-> NADA, tipo |-> "nenhum", status |-> "nenhum",
            id |-> 0, pos |-> 0, total |-> 0]

\* _Raiz: the directory of a whole archive.
Raiz(s) == [SemItem EXCEPT !.sis = s, !.tipo = "diretorio", !.status = "fechado"]

SemChamada == [alvo |-> NADA, endereco |-> NADA, sis |-> NADA, resto |-> << >>,
               acima |-> SemItem, atual |-> SemItem]

SemLeitura == [item |-> NADA, pedido |-> 0, de |-> 0, qtd |-> 0]

Init ==
    /\ registro = [k \in 1..Vagas |-> NADA]
    /\ disp = [s \in Sistemas |-> 0]
    /\ itens = [i \in Itens |-> SemItem]
    /\ status = Ok
    /\ fase = "livre"
    /\ quadro = SemChamada
    /\ firmes = {}
    /\ lido = SemLeitura

-----------------------------------------------------------------------------
(* The registry.                                                           *)

\* A wrong version of VagaDe: the last empty slot.
ErroUltimaVaga == Max({k \in 1..Vagas : registro[k] = NADA})

\* The slot SisArq_Registra takes: the first empty one.
VagaDe == Min({k \in 1..Vagas : registro[k] = NADA})

\* SisArq_Registra.
Registra(s) ==
    /\ fase = "livre"
    /\ \/ /\ \E k \in 1..Vagas : registro[k] = NADA
          /\ registro' = [registro EXCEPT ![VagaDe] = s]
          /\ status' = Ok
       \/ /\ \A k \in 1..Vagas : registro[k] # NADA
          /\ status' = Erro("estouro")
          /\ UNCHANGED registro
    /\ lido' = SemLeitura
    /\ UNCHANGED <<disp, itens, fase, quadro, firmes>>

ComNome(reg, nome) == {k \in 1..Vagas : reg[k] # NADA /\ Nome[reg[k]] = nome}

\* The file system Abre takes for a disk name: the first slot that has it.
Acha(reg, nome) ==
    LET ks == ComNome(reg, nome)
    IN  IF ks = {} THEN NADA ELSE reg[Min(ks)]

-----------------------------------------------------------------------------
(* Abre, one loop iteration at a time.                                     *)

\* Abre is called: alvo is the caller's item.
ChamaAbre(i, e) ==
    /\ fase = "livre"
    /\ fase' = "disco"
    /\ quadro' = [SemChamada EXCEPT !.alvo = i, !.endereco = e, !.resto = e.trechos]
    /\ lido' = SemLeitura
    /\ UNCHANGED <<registro, disp, itens, status, firmes>>

\* Abre gives up with an error.
Falha(tipo) ==
    /\ status' = Erro(tipo)
    /\ fase' = "livre"
    /\ quadro' = SemChamada
    /\ UNCHANGED <<registro, disp, itens, firmes, lido>>

DiscoInvalido ==
    /\ fase = "disco"
    /\ ~quadro.endereco.separado
    /\ Falha("endereco_invalido")

DiscoNaoAchado ==
    /\ fase = "disco"
    /\ quadro.endereco.separado
    /\ Acha(registro, quadro.endereco.disco) = NADA
    /\ Falha("nao_encontrado")

\* The disk is found and its root loaded into acima.
AbreDisco ==
    LET s == Acha(registro, quadro.endereco.disco)
    IN  /\ fase = "disco"
        /\ quadro.endereco.separado
        /\ s # NADA
        /\ quadro' = [quadro EXCEPT !.sis = s, !.acima = Raiz(s)]
        /\ status' = Ok
        /\ fase' = "trecho"
        /\ UNCHANGED <<registro, disp, itens, firmes, lido>>

\* A slash after something that is not a directory.
EsperadoDiretorio ==
    /\ fase = "trecho"
    /\ quadro.resto # << >>
    /\ quadro.acima.tipo # "diretorio"
    /\ Falha("nao_encontrado")

\* Two slashes in a row: the empty name between them is skipped.
TrechoVazio ==
    /\ fase = "trecho"
    /\ quadro.resto # << >>
    /\ quadro.acima.tipo = "diretorio"
    /\ Head(quadro.resto) = << >>
    /\ quadro' = [quadro EXCEPT !.resto = Tail(@)]
    /\ UNCHANGED <<registro, disp, itens, status, fase, firmes, lido>>

\* Primeiro: the listing of acima starts over.
Primeiro ==
    /\ fase = "trecho"
    /\ quadro.resto # << >>
    /\ quadro.acima.tipo = "diretorio"
    /\ Head(quadro.resto) # << >>
    /\ quadro' = [quadro EXCEPT !.acima.pos = TamAssinatura]
    /\ fase' = "procura"
    /\ UNCHANGED <<registro, disp, itens, status, firmes, lido>>

Lista == Arquivo[quadro.sis]

\* The member _Proximo finds at acima.pos, 0 when there is no header there or its
\* size reads as 0.
Proximo ==
    LET k == MembroEm(Lista, quadro.acima.pos)
    IN  IF k # 0 /\ Lista[k].tam > 0 THEN k ELSE 0

\* The read of the header reaches the end of the device before the size of a
\* member: what follows the bytes read is what the stack holds.
CabecalhoCurto ==
    /\ Proximo = 0
    /\ quadro.acima.pos < TamDispositivo(Lista)
    /\ TamDispositivo(Lista) - quadro.acima.pos <= PosTamanho

\* The seek of _Proximo moves the device, unless it is past its end.
Posiciona ==
    disp' = IF quadro.acima.pos < TamDispositivo(Lista)
            THEN [disp EXCEPT ![quadro.sis] = quadro.acima.pos]
            ELSE disp

\* What _Proximo leaves in atual.  It never writes Posicao: lixo is there.
ItemDe(k, lixo) ==
    [nome |-> Apara(Lista[k].nome), sis |-> quadro.sis, tipo |-> "arquivo",
     status |-> "fechado", id |-> quadro.acima.pos, pos |-> lixo, total |-> Lista[k].tam]

\* _Proximo finds no member: the name is not in the directory.
FimDaLista ==
    /\ fase = "procura"
    /\ Proximo = 0
    /\ Posiciona
    /\ status' = Erro("nao_encontrado")
    /\ fase' = "livre"
    /\ quadro' = SemChamada
    /\ UNCHANGED <<registro, itens, firmes, lido>>

\* _Proximo finds a member of another name.
Outro ==
    /\ fase = "procura"
    /\ Proximo # 0
    /\ Apara(Lista[Proximo].nome) # Head(quadro.resto)
    /\ Posiciona
    /\ quadro' = [quadro EXCEPT !.acima.pos = Seguinte(@, Lista[Proximo])]
    /\ status' = Ok
    /\ UNCHANGED <<registro, itens, fase, firmes, lido>>

\* _Proximo takes a short header for a member, with the size the stack holds.  The
\* name starts with the padding or a zero of the block, which no name asked for does.
Fantasma ==
    /\ fase = "procura"
    /\ CabecalhoCurto
    /\ Posiciona
    /\ \E lixo \in Lixos \ {0} :
          quadro' = [quadro EXCEPT !.acima.pos = @ + TamCabecalho + lixo]
    /\ status' = Ok
    /\ UNCHANGED <<registro, itens, fase, firmes, lido>>

\* _Proximo finds the name: the caller's item is filled.
Achado ==
    /\ fase = "procura"
    /\ Proximo # 0
    /\ Apara(Lista[Proximo].nome) = Head(quadro.resto)
    /\ Posiciona
    /\ \E lixo \in Lixos :
          /\ quadro' = [quadro EXCEPT !.acima = ItemDe(Proximo, lixo),
                                      !.atual = ItemDe(Proximo, lixo),
                                      !.resto = Tail(@)]
          /\ itens' = [itens EXCEPT ![quadro.alvo] = ItemDe(Proximo, lixo)]
    /\ firmes' = firmes \ {quadro.alvo}
    /\ status' = Ok
    /\ fase' = "trecho"
    /\ UNCHANGED <<registro, lido>>

\* The path ends.  _Abre gets the address of the pointer and not the item, so
\* the item stays as it is, and the second statement of the STATUS_ERRO under
\* the else runs always.
Termina ==
    /\ fase = "trecho"
    /\ quadro.resto = << >>
    /\ quadro.atual # SemItem
    /\ status' = [Ok EXCEPT !.tipo = "nao_implementado"]
    /\ fase' = "livre"
    /\ quadro' = SemChamada
    /\ UNCHANGED <<registro, disp, itens, firmes, lido>>

\* The path had no name: atual was never written, and its Abre is whatever the
\* stack holds: null, _Abre from an earlier call, or nothing one can call.
TerminaSemAlvo ==
    /\ fase = "trecho"
    /\ quadro.resto = << >>
    /\ quadro.atual = SemItem
    /\ quadro' = SemChamada
    /\ \/ /\ fase' = "livre"
          /\ \E ok \in BOOLEAN : status' = [ok |-> ok, tipo |-> "nao_implementado"]
       \/ /\ fase' = "perdida"
          /\ UNCHANGED status
    /\ UNCHANGED <<registro, disp, itens, firmes, lido>>

Passo ==
    \/ DiscoInvalido \/ DiscoNaoAchado \/ AbreDisco
    \/ EsperadoDiretorio \/ TrechoVazio \/ Primeiro
    \/ FimDaLista \/ Outro \/ Fantasma \/ Achado
    \/ Termina \/ TerminaSemAlvo

-----------------------------------------------------------------------------
(* VaPara and Leia.                                                        *)

\* AR.c _VaPara takes a position when the member has a byte there.
Cabe(item, pos) == pos < item.total

\* VaPara.  AR.c _VaPara leaves status as it was when it succeeds.
VaPara(i, pos) ==
    /\ fase = "livre"
    /\ \/ /\ itens[i].tipo = "nenhum"
          /\ status' = Erro("nao_implementado")
          /\ UNCHANGED <<itens, firmes>>
       \/ /\ itens[i].tipo = "arquivo"
          /\ ~Cabe(itens[i], pos)
          /\ status' = Erro("estouro")
          /\ UNCHANGED <<itens, firmes>>
       \/ /\ itens[i].tipo = "arquivo"
          /\ Cabe(itens[i], pos)
          /\ itens' = [itens EXCEPT ![i].pos = pos]
          /\ firmes' = firmes \cup {i}
          /\ UNCHANGED status
    /\ lido' = SemLeitura
    /\ UNCHANGED <<registro, disp, fase, quadro>>

\* Where AR.c _Leia seeks the device for an item.
Aponta(item) == item.id + TamCabecalho + item.pos

\* Wrong versions of Corta: no cut, and a cut one byte early.
ErroSemCorte(item, qtd) == qtd

ErroCortaCedo(item, qtd) ==
    IF item.pos < item.total /\ qtd >= item.total - item.pos
    THEN item.total - item.pos - 1
    ELSE qtd

\* The count _Leia asks of the device: cut at the end of the member, unless the
\* unsigned difference wraps because the position is already past it.
Corta(item, qtd) ==
    IF item.pos <= item.total /\ qtd >= item.total - item.pos
    THEN item.total - item.pos
    ELSE qtd

\* What DispMemoria.c _Leia can give at a position.
Disponivel(s, pos, qtd) == Min({qtd, TamDispositivo(Arquivo[s]) - pos})

\* Leia.  The Bloqueia and Libera around the lines of AR.c set and clear bit 0 of
\* their own argument on the stack, an even address: they neither wait nor leave
\* anything written.
Leia(i, qtd) ==
    LET item == itens[i]
        de   == Aponta(item)
        cabe == Disponivel(item.sis, de, Corta(item, qtd))
    IN  /\ fase = "livre"
        /\ \/ /\ item.tipo = "nenhum"
              /\ status' = Erro("nao_implementado")
              /\ lido' = [SemLeitura EXCEPT !.item = i, !.pedido = qtd]
              /\ UNCHANGED <<disp, itens>>
           \/ /\ item.tipo = "arquivo"
              /\ de >= TamDispositivo(Arquivo[item.sis])
              /\ status' = Erro("estouro")
              /\ lido' = [SemLeitura EXCEPT !.item = i, !.pedido = qtd]
              /\ UNCHANGED <<disp, itens>>
           \/ /\ item.tipo = "arquivo"
              /\ de < TamDispositivo(Arquivo[item.sis])
              /\ disp' = [disp EXCEPT ![item.sis] = de]
              /\ itens' = [itens EXCEPT ![i].pos = @ + cabe]
              /\ status' = IF cabe > 0 THEN Ok ELSE Erro("estouro")
              /\ lido' = [item |-> i, pedido |-> qtd, de |-> de, qtd |-> cabe]
        /\ UNCHANGED <<registro, fase, quadro, firmes>>

-----------------------------------------------------------------------------

Next ==
    \/ Passo
    \/ \E s \in Sistemas : Registra(s)
    \/ \E i \in Itens :
          \/ \E e \in Enderecos : ChamaAbre(i, e)
          \/ \E p \in Posicoes : VaPara(i, p)
          \/ \E n \in Tamanhos : Leia(i, n)

Spec == Init /\ [][Next]_vars

\* Abre runs on its own processor and only returns: it never waits.
FairSpec == Spec /\ WF_vars(Passo)

-----------------------------------------------------------------------------
(* What Abre should find, without its loops.                               *)

\* The members of an archive the listing reaches: an odd size hides the rest,
\* and so does an empty member.
Alcanca(arq) ==
    {k \in DOMAIN arq : /\ arq[k].tam > 0
                        /\ \A j \in 1..(k - 1) : arq[j].tam > 0 /\ arq[j].tam % 2 = 0}

Candidatos(s, nome) == {k \in Alcanca(Arquivo[s]) : Apara(Arquivo[s][k].nome) = nome}

\* The first name of a path, and whether it is the last of its trechos.
Nomeados(e) == {j \in DOMAIN e.trechos : e.trechos[j] # << >>}

Abriu == fase # "livre" /\ fase' = "livre"

\* For every address with a name in it: Abre succeeds exactly when the disk is
\* registered and one name follows the slashes, with no slash after it, that a
\* member the listing reaches has once its padding is cut; and then the
\* caller's item is the first such member of the first such disk.
AbreAchaOPrimeiro ==
    [][ LET e == quadro.endereco
            s == Acha(registro, e.disco)
            j == Min(Nomeados(e))
        IN  Abriu /\ Nomeados(e) # {} =>
              /\ status'.ok <=> /\ e.separado
                                /\ s # NADA
                                /\ j = Len(e.trechos)
                                /\ Candidatos(s, e.trechos[j]) # {}
              /\ status'.ok =>
                    LET k == Min(Candidatos(s, e.trechos[j]))
                        i == itens'[quadro.alvo]
                    IN  /\ i.sis = s
                        /\ i.id = Inicio(Arquivo[s], k)
                        /\ i.total = Arquivo[s][k].tam ]_vars

\* What a disk name stands for never changes once it stands for something: a
\* later registration under the same name does not take over the open names.
RegistroEstavel ==
    [][ \A s \in Sistemas :
          Acha(registro, Nome[s]) # NADA =>
            Acha(registro', Nome[s]) = Acha(registro, Nome[s]) ]_vars

\* A read of an item positioned by VaPara, whatever the other items of the
\* device did in between, delivers bytes of the member the item was opened
\* for, from where the previous one stopped, and nothing of its neighbours.
LeituraDentroDoMembro ==
    lido.item \in firmes =>
      LET item  == itens[lido.item]
          arq   == Arquivo[item.sis]
          k     == MembroEm(arq, item.id)
          dados == Inicio(arq, k) + TamCabecalho
      IN  /\ k # 0 /\ Apara(arq[k].nome) = item.nome
          /\ lido.qtd > 0 => /\ dados <= lido.de
                             /\ lido.de + lido.qtd <= dados + arq[k].tam
                             /\ lido.de + lido.qtd = dados + item.pos

\* A positioned item is cut short only at the end of its member: what loops
\* over Leia until it returns less (StrBuffer_LeiaLinha, the loader) loses nothing.
LeituraCurtaSoNoFim ==
    lido.item \in firmes /\ lido.qtd < lido.pedido =>
      itens[lido.item].pos = itens[lido.item].total

\* Every call of Abre returns, or runs away through an unwritten pointer.
AbreTermina == fase # "livre" ~> fase \in {"livre", "perdida"}

\* The header file says of Abre that it opens the item: after it succeeds on an
\* address with a name, the item is open.
ItemAberto ==
    [][ Abriu /\ Nomeados(quadro.endereco) # {} /\ status'.ok =>
          itens'[quadro.alvo].status = "aberto" ]_vars
=============================================================================
