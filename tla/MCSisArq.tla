------------------------------ MODULE MCSisArq ------------------------------
(* Two archives under one disk name: the order of registration decides     *)
(* which one answers.  "inicial" has two members of one trimmed name, and  *)
(* ends 24 bytes before the end of its block, so that a short header is    *)
(* read after its last member; "outro" hides a member behind an odd one.   *)
EXTENDS SisArq

Membro(nome, tam) == [nome |-> nome, tam |-> tam]

MCSistemas == {"inicial", "outro"}
MCNome == [s \in MCSistemas |-> "a"]
MCArquivo == [
    inicial |-> <<Membro(<<"x", "/", " ">>, 2), Membro(<<"y", "/">>, 4),
                  Membro(<<"x", "0", "/">>, 2), Membro(<<"z", "/">>, 743)>>,
    outro   |-> <<Membro(<<"y", "/">>, 3), Membro(<<"x", "/">>, 2)>>]

Endereco(disco, trechos) == [disco |-> disco, separado |-> TRUE, trechos |-> trechos]

MCEnderecos == {
    Endereco("a", <<<<"x">>>>), Endereco("a", <<<< >>, <<"y">>>>),
    Endereco("a", <<<<"y">>, << >>>>), Endereco("a", <<<<"x">>, <<"y">>>>),
    Endereco("a", <<<<"w">>>>), Endereco("a", <<<< >>>>), Endereco("c", <<<<"x">>>>),
    [disco |-> "a", separado |-> FALSE, trechos |-> <<<<"x">>>>]}
=============================================================================
