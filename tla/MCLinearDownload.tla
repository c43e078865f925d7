-------------------------- MODULE MCLinearDownload --------------------------
(* Small instances of LinearDownload: slices of two headers, a window *)
(* of two or three.                                                          *)
EXTENDS LinearDownload

\* Header n of chain c whose parent is the header before it on chain p.
Header(c, n, p) == [number |-> n, hash |-> <<c, n>>, parent |-> <<p, n - 1>>, ok |-> TRUE]
A(n) == Header("a", n, "a")
\* Chain b leaves chain a after block 3 and is as valid as a.
B(n) == Header("b", n, IF n = 4 THEN "a" ELSE "b")
\* Chain c leaves chain a after block 2.
C(n) == Header("c", n, IF n = 3 THEN "a" ELSE "c")
\* Headers of no chain: linked to each other, to nothing else.
X(n) == [Header("x", n, "x") EXCEPT !.ok = n % 2 = 1]
Wrong(n) == [A(n) EXCEPT !.hash = <<"w", n>>, !.ok = FALSE]

MCParent == A(1)
MCTrusted == [n \in {0, 2, 4, 6, 8} |-> <<"a", n>>]

\* What DownloaderPreverified asks for has one header more than a slice.
Longer(n) == <<A(n), A(n+1), A(n+2)>>

MCAnswers ==
    {Longer(2), <<A(2), A(3)>>, <<A(2), X(3), A(4)>>, <<A(2), C(3), C(4)>>,
     Longer(4), <<B(4), B(5), B(6)>>,
     <<A(4), A(5)>>, <<B(4), B(5)>>, <<X(4), X(5)>>,
     <<A(6), A(7)>>, <<B(6), B(7)>>, <<A(6), Wrong(7)>>, <<A(6)>>,
     <<A(8), A(9)>>, <<A(8)>>}

MCHonest == {A(n) : n \in 2..9}

ShortAnswers == {Longer(2), Longer(4), <<A(2)>>, <<A(4)>>}
=============================================================================
