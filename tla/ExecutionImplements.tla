------------------------ MODULE ExecutionImplements ------------------------
(***************************************************************************)
(* Execution implements WorldState.  The refinement mapping is held in      *)
(* three variables that every step sets to their mapped values, so that     *)
(* TLC computes the mapping once a step.                                    *)
(***************************************************************************)
EXTENDS Execution

LOCAL INSTANCE FiniteSetsExt

VARIABLES world, sub, stack

SubstateOf(s) ==
    [destructs |-> s.self_destructs, touched |-> s.touched \ {RIPEMD_ADDRESS},
     logs |-> Len(s.logs), refund |-> s.refund,
     warm |-> {<<a>> : a \in s.accessed_addresses} \cup s.accessed_storage_keys]

(* The substate between batches: that of a block not begun *)
Working == IF state = None THEN NewState(WorldOf(tables)) ELSE state

(* The journal stands for whole copies: what each running call would go back to. *)
Copy(s, snapshot) ==
    LET back == RevertToSnapshot(s, snapshot)
    IN  [world |-> View(back), sub |-> SubstateOf(back)]

InitMapped == Init /\ world = View(Working) /\ sub = SubstateOf(Working) /\ stack = <<>>
NextMapped ==
    /\ Next
    /\ \E s \in {Working'}, calls \in {frames'} :
          /\ world' = View(s)
          /\ sub' = SubstateOf(s)
          /\ stack' = [i \in DOMAIN calls |-> Copy(s, calls[i].snapshot)]
SpecMapped == InitMapped /\ [][NextMapped]_<<vars, world, sub, stack>>

Abstract == INSTANCE WorldState WITH Amounts <- 0..Max(Fees \cup Values \cup {Reward})

(* Caches, journal, buffer, change sets and tables implement one world with
   whole copies: a call that fails leaves no trace in accounts, storage or
   substate, whatever ran inside it; a destroyed account leaves no storage to
   the one created after it; what a block leaves in the buffer or the tables
   is what its transactions left; and an unwind invents no value. *)
ImplementsWorldState == Abstract!Spec
=============================================================================
