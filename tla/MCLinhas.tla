------------------------------ MODULE MCLinhas ------------------------------
(* Every file of up to five bytes over two letters and the three bytes the *)
(* reader looks at, and every text of six to ten bytes with line feeds     *)
(* anywhere, in blocks of three bytes and lines of up to five, so that a   *)
(* line may lie in one block, fill it, or span two or three.               *)
EXTENDS Linhas

\* Text of n bytes with line feeds at qs; the letters alternate, so that a byte
\* of the block before is not the one expected.
Texto(n, qs) ==
    SubSeq([k \in 1..n |-> IF k \in qs THEN LF ELSE IF k % 2 = 0 THEN "a" ELSE "b"], 1, n)

MCArquivos ==
    UNION {[1..n -> Bytes] : n \in 0..5} \cup
    UNION {{Texto(n, qs) : qs \in SUBSET (1..n)} : n \in 6..10}
=============================================================================
