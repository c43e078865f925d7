---------------------------- MODULE WorldState ----------------------------
(***************************************************************************)
(* What the execution of blocks promises, said without caches, journal,     *)
(* buffer or change sets: one world of accounts and storage, the substate   *)
(* of the running transaction, a stack with a whole copy of both for each   *)
(* running call, and the world as it was after each block.  A call that     *)
(* fails takes its copy back.                                               *)
(***************************************************************************)
EXTENDS Integers, Sequences, FiniteSets, TLC

LOCAL INSTANCE Functions
LOCAL INSTANCE FiniteSetsExt

CONSTANTS Addresses, Keys, None,
          RIPEMD_ADDRESS,   \* its touch outlives a failed call
          Codes,
          Amounts           \* numbers that a step may move or pay

VARIABLES phase,    \* "idle", "block", "message", "run" or "settle"
          world,    \* accounts[a], None when absent; slots[a][k]
          sub,      \* destructs, touched, logs, refund, warm
          stack,    \* a copy of the world and the substate for each running call
          history   \* history[n]: the world after block n

vars == <<phase, world, sub, stack, history>>

Blank == [balance |-> 0, nonce |-> 0, code |-> 0]
ValueOf(w, a) == IF w.accounts[a] = None THEN Blank ELSE w.accounts[a]

Paid(w, a, n) == [w EXCEPT !.accounts[a] = [ValueOf(w, a) EXCEPT !.balance = @ + n]]
Moved(w, a, b, n) == Paid(Paid(w, a, -n), b, n)
NonceUp(w, a) == [w EXCEPT !.accounts[a] = [ValueOf(w, a) EXCEPT !.nonce = @ + 1]]
Born(w, a) ==
    [w EXCEPT !.accounts[a] = [Blank EXCEPT !.balance = ValueOf(w, a).balance, !.nonce = 1],
              !.slots[a] = [k \in Keys |-> 0]]
Gone(w, A) ==
    [accounts |-> [a \in Addresses |-> IF a \in A THEN None ELSE w.accounts[a]],
     slots    |-> [a \in Addresses |-> IF a \in A THEN [k \in Keys |-> 0] ELSE w.slots[a]]]

Init ==
    /\ phase = "idle"
    /\ sub = [destructs |-> {}, touched |-> {}, logs |-> 0, refund |-> 0, warm |-> {}]
    /\ stack = <<>>
    /\ history = (0 :> world)

StartBatch ==
    /\ phase = "idle" /\ phase' = "block"
    /\ UNCHANGED <<world, sub, stack, history>>

BeginTx ==
    /\ phase = "block" /\ phase' = "message"
    /\ \E a \in Addresses, n \in Amounts :
          \/ world' = Paid(world, a, -n)
          \/ world' = NonceUp(Paid(world, a, -n), a)
    /\ sub'.destructs = {} /\ sub'.logs = 0 /\ sub'.refund = 0
    /\ UNCHANGED <<stack, history>>

(* A call that runs code: a copy is kept, with the access of its address. *)
Enter ==
    /\ phase \in {"message", "run"} /\ phase' = "run"
    /\ \E b \in {{}} \cup {{<<a>>} : a \in Addresses} :
          stack' = Append(stack, [world |-> world, sub |-> [sub EXCEPT !.warm = @ \cup b]])
    /\ \/ world' = world
       \/ \E a, b \in Addresses, n \in Amounts : world' = Moved(world, a, b, n)
    /\ sub'.destructs = sub.destructs /\ sub'.logs = sub.logs /\ sub'.refund = sub.refund
    /\ UNCHANGED history

(* A creation, of an address without nonce or code: the creator's nonce and the access of the new address stay
   whatever becomes of it. *)
EnterCreate ==
    /\ phase \in {"message", "run"} /\ phase' = "run"
    /\ Len(stack') = Len(stack) + 1
    /\ \E a, b \in Addresses, n \in Amounts :
          LET kept == [world |-> NonceUp(world, a),
                       sub   |-> [sub EXCEPT !.warm = @ \cup {<<b>>}]]
          IN  /\ ValueOf(kept.world, b).nonce = 0 /\ ValueOf(kept.world, b).code = 0
              /\ stack' = Append(stack, kept)
              /\ world' = Moved(Born(kept.world, b), a, b, n)
    /\ sub'.destructs = sub.destructs /\ sub'.logs = sub.logs /\ sub'.refund = sub.refund
    /\ UNCHANGED history

(* A call that runs no code, or a creation that is refused. *)
PassBy ==
    /\ <<phase, phase'>> \in {<<"message", "settle">>, <<"run", "run">>}
    /\ UNCHANGED <<stack, history>>
    /\ \/ world' = world
       \/ \E a, b \in Addresses, n \in Amounts : world' = Moved(world, a, b, n)
       \/ \E a \in Addresses : world' = NonceUp(world, a)
    /\ sub'.destructs = sub.destructs /\ sub'.logs = sub.logs /\ sub'.refund = sub.refund

(* What a running call may do: write a slot, log. *)
Operate ==
    /\ phase = "run" /\ phase' = "run"
    /\ UNCHANGED <<stack, history>>
    /\ \/ world' = world
       \/ \E a \in Addresses, k \in Keys : world' = [world EXCEPT !.slots[a][k] = world'.slots[a][k]]
    /\ sub'.destructs = sub.destructs /\ sub'.touched = sub.touched

Leave ==
    /\ phase = "run"
    /\ stack' = SubSeq(stack, 1, Len(stack) - 1)
    /\ phase' = IF stack' = <<>> THEN "settle" ELSE "run"

Succeed ==
    /\ Leave
    /\ \/ world' = world
       \/ \E a \in {x \in Addresses : world.accounts[x] # None}, code \in Codes :
             world' = [world EXCEPT !.accounts[a].code = code]
    /\ UNCHANGED <<sub, history>>

Fail ==
    /\ Leave
    /\ world' = stack[Len(stack)].world
    /\ sub' = stack[Len(stack)].sub
    /\ UNCHANGED history

(* The whole balance goes to the beneficiary; to itself, it is destroyed. *)
SelfDestruct ==
    /\ Leave
    /\ \E a \in {x \in Addresses : world.accounts[x] # None}, b \in Addresses :
          /\ world' = [Paid(world, b, ValueOf(world, a).balance) EXCEPT !.accounts[a].balance = 0]
          /\ sub'.destructs = sub.destructs \cup {a}
    /\ sub'.logs = sub.logs /\ sub'.refund = sub.refund
    /\ UNCHANGED history

(* Fees are settled; destroyed and dead accounts go with their storage. *)
EndTx ==
    /\ phase = "settle" /\ phase' = "block"
    /\ \E a, b \in Addresses, n, m \in Amounts, ripemd \in SUBSET {RIPEMD_ADDRESS} :
          LET w == Paid(Paid(world, a, n), b, m)
              seen == sub.touched \cup {a, b} \cup ripemd
              dead == {x \in seen : w.accounts[x] \in {None, Blank}}
          IN  world' = Gone(w, sub.destructs \cup dead)
    /\ UNCHANGED <<stack, history>>

EndBlock ==
    /\ phase = "block" /\ phase' \in {"block", "idle"}
    /\ \E a \in Addresses, n \in Amounts : world' = Paid(world, a, n)
    /\ history' = history @@ ((Max(DOMAIN history) + 1) :> world')
    /\ UNCHANGED stack

(* A batch is given up: the world is the one of the last batch committed. *)
GiveUp ==
    /\ phase \in {"block", "idle"} /\ phase' = "idle"
    /\ \E n \in DOMAIN history :
          /\ history' = RestrictDomain(history, LAMBDA m : m <= n)
          /\ world' = history[n]
    /\ UNCHANGED stack

(* An unwind may lose an account or a slot, but invents none: each one is as
   it was after the block, or missing. *)
Unwind ==
    /\ phase = "idle" /\ phase' = "idle"
    /\ \E n \in DOMAIN history :
          /\ \A a \in Addresses :
                /\ world'.accounts[a] \in {history[n].accounts[a], None}
                /\ \A k \in Keys : world'.slots[a][k] \in {history[n].slots[a][k], 0}
          /\ history' = (n :> world')
    /\ UNCHANGED stack

Next == StartBatch \/ BeginTx \/ Enter \/ EnterCreate \/ PassBy \/ Operate \/ Succeed \/ Fail
          \/ SelfDestruct \/ EndTx \/ EndBlock \/ GiveUp \/ Unwind

Spec == Init /\ [][Next]_vars
===========================================================================
