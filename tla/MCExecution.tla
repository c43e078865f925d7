---------------------------- MODULE MCExecution ----------------------------
(* Instance of Execution: 1 is the RIPEMD precompile, 2 a sender, 4 the       *)
(* contract its first transaction may create, 3 the contract that 4 creates   *)
(* with CREATE2, so that it can be created again after a self-destruct.       *)
EXTENDS ExecutionImplements

MCChildOf == (2 :> 4) @@ (4 :> 3)

Eoa(balance, nonce) == [balance |-> balance, nonce |-> nonce, code |-> EMPTY_HASH]
Contract(balance) == [balance |-> balance, nonce |-> 1, code |-> 1]
NoSlots == [k \in Keys |-> 0]

(* Both contracts live, with storage; or only the sender exists. *)
Deployed2 ==
    [accounts |-> (1 :> None) @@ (2 :> Eoa(2, 1)) @@ (3 :> Contract(1)) @@ (4 :> Contract(0)),
     slots    |-> (1 :> NoSlots) @@ (2 :> NoSlots) @@ (3 :> [k \in Keys |-> 1]) @@ (4 :> NoSlots)]
Empty2 ==
    [accounts |-> (1 :> None) @@ (2 :> Eoa(1, 0)) @@ (3 :> None) @@ (4 :> None),
     slots    |-> [a \in Addresses |-> NoSlots]]

MCWorlds == {Deployed2, Empty2}
=============================================================================
