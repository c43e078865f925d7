---------------------------- MODULE HeaderChain ----------------------------
(***************************************************************************)
(* What a header downloader promises to the rest of the node: the canonical *)
(* headers after a saved parent form one linked chain without gaps, a       *)
(* download only ever adds to its end.                                      *)
(***************************************************************************)
EXTENDS Integers, Sequences

CONSTANTS Parent,   \* the saved header the chain starts from
          Limit     \* the most headers a run may add

VARIABLE chain      \* the canonical headers after Parent, in order

Linked(c) ==
    \A i \in DOMAIN c :
        /\ c[i].parent = (IF i = 1 THEN Parent ELSE c[i-1]).hash
        /\ c[i].number = Parent.number + i

Init == chain = <<>>

(* Headers are added after the last one; the earlier ones stay. *)
Extend ==
    /\ Len(chain') \in (Len(chain) + 1)..Limit
    /\ \A i \in DOMAIN chain : chain'[i] = chain[i]
    /\ Linked(chain')

Spec == Init /\ [][Extend]_chain
=============================================================================
