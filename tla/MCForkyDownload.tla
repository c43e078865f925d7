-------------------------- MODULE MCForkyDownload --------------------------
(* Small instances of ForkyDownload: slices of two headers.                  *)
EXTENDS ForkyDownload

Header(c, n, p, d) ==
    [number |-> n, hash |-> <<c, n>>, parent |-> <<p, n - 1>>, ok |-> TRUE, difficulty |-> d]
A(n) == Header("a", n, "a", 2)
\* Chain b leaves chain a after block 4, heavier at first and lighter later.
B(n) == Header("b", n, IF n = 5 THEN "a" ELSE "b", IF n = 5 THEN 3 ELSE 1)
\* Chain x is linked to nothing else.
X(n) == Header("x", n, "x", 3)

MCParent == A(1)

WholeAnswers ==
    {<<A(2), A(3)>>, <<A(4), A(5)>>, <<A(4), B(5)>>, <<A(6), A(7)>>, <<B(6), B(7)>>,
     <<X(4), X(5)>>}

\* An answer whose second header does not follow its first.
BrokenAnswers == WholeAnswers \cup {<<A(6), X(7)>>}
=============================================================================
