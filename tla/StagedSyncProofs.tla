-------------------------- MODULE StagedSyncProofs --------------------------
(***************************************************************************)
(* The safety properties of StagedSync for every number of stages, every   *)
(* chain height and every commit threshold.                                *)
(*                                                                         *)
(* What is committed is consistent because what the open transaction sees  *)
(* is, at every step: stages are unwound in reverse order, so the canonical*)
(* chain is cut last, when no stage has a row above the cut any more; and  *)
(* stages run forward in order, so a stage never finds itself ahead of the *)
(* one it follows.  TxOrdered is the strengthening that carries the second *)
(* half over a stage that resets on unwind.                                *)
(***************************************************************************)
EXTENDS StagedSync, TLAPS

(* A stage that resets is known to have caught up with its predecessors     *)
(* only once the current pass has executed it.                              *)
CaughtUp(i) == i \notin Resetting \/ (pc = "execute" /\ i < stage)

TxOrdered ==
  \A i, j \in Stages : i < j /\ CaughtUp(i) => txProgress[j] <= txProgress[i]

(* Where the loop is, and what its local variables mean there.              *)
LoopInv ==
  /\ pc \in {"begin", "execute"} => stage >= 1
  /\ pc = "unwind" => stage <= NumStages /\ unwindTo \in Progress
  /\ pc = "unwind" => \A s \in Stages : s > stage => txProgress[s] <= unwindTo
  /\ pc = "execute" /\ stage > 1 => previous = txProgress[stage - 1]
  /\ pc = "execute" /\ stage > 1 => minimum # NoNumber
  /\ pc = "execute" => \A s \in Stages : s < stage => minimum <= txProgress[s]

IInv ==
  /\ TypeOK
  /\ LoopInv
  /\ CommittedConsistent
  /\ CommittedOrdered
  /\ Consistent(txProgress, txRows)
  /\ TxOrdered
  /\ ReturnsAtMaxBlock

(* The initial database, empty but for the genesis block, satisfies it.     *)
LEMMA InitIInv == Init => IInv
  BY StagesAssumption, BlocksAssumption
  DEF Init, IInv, TypeOK, LoopInv, CommittedConsistent, CommittedOrdered, Consistent,
      Ordered, TxOrdered, CaughtUp, ReturnsAtMaxBlock, NoRows, Stages, Progress,
      Numbers, NoNumber

(* One invocation of a stage preserves it.  The stage never moves back and  *)
(* never overtakes the stages before it; what it adds to the rows is        *)
(* canonical because no other stage has a row above the headers' progress.  *)
LEMMA ExecuteIInv ==
  ASSUME IInv, NEW p \in Progress, NEW done \in BOOLEAN, NEW source, Execute(p, done, source),
         \/ stage = 1 /\ source \in [Numbers -> Blocks]
         \/ stage > 1 /\ source = txRows[1]
  PROVE  IInv'
  <1> USE StagesAssumption, BlocksAssumption DEF Stages, Progress, Numbers, NoNumber
  <1> DEFINE rows == ExtendRows(stage, p, source)
  <1>1. /\ pc = "execute" /\ pc' = "execute" /\ stage \in Stages /\ 1 \in Stages
        /\ txProgress' = [txProgress EXCEPT ![stage] = p]
        /\ txRows' = [txRows EXCEPT ![stage] = rows]
        /\ unwindTo' = unwindTo
        /\ IF done THEN previous' = p /\ stage' = stage + 1
                   ELSE previous' = previous /\ stage' = stage
    <2>1. pc = "execute" /\ pc' = "execute" /\ stage <= NumStages
      BY DEF Execute
    <2>2. stage \in 0..(NumStages + 1) /\ stage >= 1
      BY <2>1 DEF IInv, TypeOK, LoopInv
    <2>3. /\ txProgress' = [txProgress EXCEPT ![stage] = p]
          /\ txRows' = [txRows EXCEPT ![stage] = rows]
          /\ unwindTo' = unwindTo
      BY DEF Execute
    <2>4. IF done THEN previous' = p /\ stage' = stage + 1
                  ELSE previous' = previous /\ stage' = stage
      BY DEF Execute
    <2> QED
      BY <2>1, <2>2, <2>3, <2>4
  <1>ty. /\ txProgress \in [Stages -> Progress]
         /\ txRows \in [Stages -> [Numbers -> Blocks \cup {NoBlock}]]
         /\ previous \in Progress \cup {NoNumber} /\ minimum \in Progress \cup {NoNumber}
    BY DEF IInv, TypeOK
  <1>lo. /\ stage > 1 => previous = txProgress[stage - 1] /\ minimum # NoNumber
         /\ \A s \in Stages : s < stage => minimum <= txProgress[s]
    BY <1>1 DEF IInv, LoopInv
  <1>2. txProgress[stage] <= p
    <2>1. CASE stage = 1
      BY <1>1, <1>ty, <2>1 DEF Execute, Reach
    <2>2. CASE stage > 1
      <3>1. stage - 1 \in Stages /\ previous = txProgress[stage - 1] /\ CaughtUp(stage - 1)
        BY <1>1, <1>lo, <2>2 DEF CaughtUp
      <3>2. txProgress[stage] <= previous
        BY <1>1, <3>1 DEF IInv, TxOrdered
      <3> QED
        BY <1>1, <1>ty, <2>2, <3>1, <3>2 DEF Execute, Reach
    <2> QED
      BY <1>1, <2>1, <2>2
  <1>3. \A i \in Stages : i < stage => p <= txProgress[i]
    <2> SUFFICES ASSUME NEW i \in Stages, i < stage PROVE p <= txProgress[i]
      OBVIOUS
    <2>1. stage - 1 \in Stages /\ previous = txProgress[stage - 1] /\ CaughtUp(i)
      BY <1>1, <1>lo DEF CaughtUp
    <2>2. previous <= txProgress[i]
      <3>1. i < stage - 1 => txProgress[stage - 1] <= txProgress[i]
        BY <2>1 DEF IInv, TxOrdered
      <3>2. i = stage - 1 \/ i < stage - 1
        BY <1>1
      <3> QED
        BY <1>ty, <2>1, <3>1, <3>2
    <2>3. p <= previous
      BY <1>1, <1>ty, <2>1 DEF Execute, Reach
    <2> QED
      BY <1>ty, <2>1, <2>2, <2>3
  <1>4. stage \in Resetting => p = txProgress[stage - 1] /\ stage > 1
    BY <1>1, <1>lo DEF Execute, Reach
  <1>5. rows \in [Numbers -> Blocks \cup {NoBlock}]
    <2>1. txRows[stage] \in [Numbers -> Blocks \cup {NoBlock}]
      BY <1>1, <1>ty
    <2>2. source \in [Numbers -> Blocks \cup {NoBlock}]
      BY <1>1, <1>ty
    <2> QED
      BY <2>1, <2>2 DEF ExtendRows
  <1> HIDE DEF rows
  <1>6. txProgress' \in [Stages -> Progress] /\ txRows' \in [Stages -> [Numbers -> Blocks \cup {NoBlock}]]
    BY <1>1, <1>ty, <1>5
  <1>7. TypeOK'
    <2>1. /\ dbProgress' \in [Stages -> Progress]
          /\ dbRows' \in [Stages -> [Numbers -> Blocks \cup {NoBlock}]]
      <3>1. CASE ShouldCommit(p)
        BY <1>6, <3>1 DEF Execute, Commit
      <3>2. CASE ~ShouldCommit(p)
        BY <3>2 DEF Execute, IInv, TypeOK, dbVars
      <3> QED
        BY <3>1, <3>2
    <2>2. minimum' \in Progress \cup {NoNumber}
      BY <1>ty DEF Execute, Min
    <2>3. startProgress' \in Progress
      <3>1. CASE done
        <4>1. startProgress' = IF stage < NumStages THEN txProgress[stage + 1] ELSE 0
          BY <3>1 DEF Execute
        <4> QED
          BY <1>1, <1>ty, <4>1
      <3>2. CASE ~done
        BY <3>2 DEF Execute, IInv, TypeOK
      <3> QED
        BY <3>1, <3>2
    <2>4. previous' \in Progress \cup {NoNumber} /\ stage' \in 0..(NumStages + 1)
      <3>1. previous' \in {previous, p} /\ stage' \in {stage, stage + 1}
        BY <1>1
      <3> QED
        BY <1>1, <1>ty, <3>1
    <2>5. pc' \in {"begin", "execute", "unwind", "returned"} /\ unwindTo' \in Progress \cup {NoNumber}
      BY <1>1 DEF IInv, TypeOK
    <2> QED
      BY <1>6, <2>1, <2>2, <2>3, <2>4, <2>5 DEF TypeOK
  <1>8. minimum' \in Progress /\ minimum' <= p /\ (minimum # NoNumber => minimum' <= minimum)
    BY <1>1, <1>ty DEF Execute, Min
  <1>9. LoopInv'
    <2>1. \A s \in Stages : s < stage' => minimum' <= txProgress'[s]
      <3> SUFFICES ASSUME NEW s \in Stages, s < stage' PROVE minimum' <= txProgress'[s]
        OBVIOUS
      <3>1. CASE s = stage
        BY <1>1, <1>8, <1>ty, <3>1
      <3>2. CASE s # stage
        <4>1. s < stage /\ stage > 1 /\ txProgress'[s] = txProgress[s]
          BY <1>1, <1>ty, <3>2
        <4>2. minimum' <= minimum /\ minimum <= txProgress[s] /\ minimum \in Progress
          BY <1>8, <1>lo, <1>ty, <4>1
        <4> QED
          BY <1>8, <1>ty, <4>1, <4>2
      <3> QED
        BY <3>1, <3>2
    <2>2. stage' > 1 => previous' = txProgress'[stage' - 1]
      <3>1. stage \in Int /\ txProgress'[stage] = p
        BY <1>1, <1>ty
      <3>2. CASE done
        <4>1. previous' = p /\ stage' = stage + 1
          BY <1>1, <3>2
        <4> QED
          BY <3>1, <4>1
      <3>3. CASE ~done
        <4>1. previous' = previous /\ stage' = stage
          BY <1>1, <3>3
        <4>2. stage > 1 => previous = txProgress[stage - 1]
          BY <1>lo
        <4>3. stage > 1 => txProgress'[stage - 1] = txProgress[stage - 1]
          BY <1>1, <1>ty, <3>1
        <4> QED
          BY <4>1, <4>2, <4>3
      <3> QED
        BY <3>2, <3>3
    <2> QED
      BY <1>1, <1>8, <2>1, <2>2 DEF LoopInv
  <1>10. Consistent(txProgress, txRows)'
    <2> SUFFICES ASSUME NEW s \in Stages, NEW n \in Numbers
                 PROVE /\ n <= txProgress'[s] =>
                            txRows'[s][n] = txRows'[1][n] /\ txRows'[s][n] # NoBlock
                       /\ n > txProgress'[s] => txRows'[s][n] = NoBlock
      BY DEF Consistent
    <2>1. rows[n] = IF n > txProgress[stage] /\ n <= p THEN source[n] ELSE txRows[stage][n]
      BY DEF rows, ExtendRows
    <2>2. txProgress[s] <= txProgress[1]
      BY <1>1 DEF IInv, TypeOK, TxOrdered, CaughtUp
    <2>3. CASE stage = 1
      BY <1>1, <1>2, <1>ty, <2>1, <2>2, <2>3 DEF IInv, Consistent
    <2>4. CASE stage > 1
      <3>1. p <= txProgress[1]
        BY <1>1, <1>3, <2>4
      <3> DEFINE Canonical(t) ==
                   /\ n <= txProgress[t] => txRows[t][n] = txRows[1][n] /\ txRows[t][n] # NoBlock
                   /\ n > txProgress[t] => txRows[t][n] = NoBlock
      <3>2. Canonical(1) /\ Canonical(s) /\ Canonical(stage)
        BY <1>1 DEF IInv, Consistent
      <3>3. txRows'[1] = txRows[1]
        BY <1>1, <1>ty, <2>4
      <3>4. CASE s = stage
        <4>1. txProgress'[s] = p /\ txRows'[s] = rows
          BY <1>1, <1>ty, <3>4
        <4>2. source[n] = txRows[1][n]
          BY <1>1, <2>4
        <4>3. n <= p => txRows[1][n] # NoBlock
          BY <1>1, <1>ty, <3>1, <3>2
        <4> QED
          BY <1>1, <1>2, <1>6, <1>ty, <2>1, <3>2, <3>3, <3>4, <4>1, <4>2, <4>3
      <3>5. CASE s # stage
        <4>1. txProgress'[s] = txProgress[s] /\ txRows'[s] = txRows[s]
          BY <1>1, <1>ty, <3>5
        <4> QED
          BY <1>6, <1>ty, <3>2, <3>3, <4>1
      <3> QED
        BY <3>4, <3>5
    <2> QED
      BY <1>1, <2>3, <2>4
  <1>11. TxOrdered'
    <2> SUFFICES ASSUME NEW i \in Stages, NEW j \in Stages, i < j, CaughtUp(i)'
                 PROVE  txProgress'[j] <= txProgress'[i]
      BY DEF TxOrdered
    <2>1. CASE i = stage
      <3>1. CASE i \notin Resetting
        <4>1. txProgress[j] <= txProgress[i]
          BY <3>1 DEF IInv, TxOrdered, CaughtUp
        <4> QED
          BY <1>1, <1>2, <1>ty, <2>1, <4>1
      <3>2. CASE i \in Resetting
        <4>1. stage - 1 \in Stages /\ CaughtUp(stage - 1)
          BY <1>1, <1>4, <2>1, <3>2 DEF CaughtUp
        <4>2. txProgress[j] <= txProgress[stage - 1]
          BY <2>1, <4>1 DEF IInv, TxOrdered
        <4> QED
          BY <1>1, <1>4, <1>ty, <2>1, <3>2, <4>2
      <3> QED
        BY <3>1, <3>2
    <2>2. CASE i # stage
      <3>1. CaughtUp(i)
        BY <1>1, <2>2 DEF CaughtUp
      <3> QED
        BY <1>1, <1>3, <1>ty, <2>2, <3>1 DEF IInv, TxOrdered
    <2> QED
      BY <2>1, <2>2
  <1>12. Ordered(txProgress)'
    BY <1>11 DEF TxOrdered, Ordered, CaughtUp
  <1>13. CommittedConsistent' /\ CommittedOrdered'
    <2>1. CASE ShouldCommit(p)
      <3>1. dbProgress' = txProgress' /\ dbRows' = txRows'
        BY <2>1 DEF Execute, Commit
      <3> QED
        BY <1>10, <1>12, <3>1 DEF CommittedConsistent, CommittedOrdered, Consistent, Ordered
    <2>2. CASE ~ShouldCommit(p)
      <3>1. dbProgress' = dbProgress /\ dbRows' = dbRows
        BY <2>2 DEF Execute, dbVars
      <3> QED
        BY <3>1 DEF IInv, CommittedConsistent, CommittedOrdered, Consistent, Ordered
    <2> QED
      BY <2>1, <2>2
  <1> QED
    BY <1>1, <1>7, <1>9, <1>10, <1>11, <1>13 DEF IInv, ReturnsAtMaxBlock

(* Every step of the loop, and a restart, preserves it.                     *)
LEMMA NextIInv == IInv /\ [Next]_vars => IInv'
  <1> SUFFICES ASSUME IInv, [Next]_vars PROVE IInv'
    OBVIOUS
  <1> USE StagesAssumption, BlocksAssumption DEF Stages, Progress, Numbers, NoNumber
  <1>1. CASE BeginForward
    BY <1>1 DEF BeginForward, IInv, TypeOK, LoopInv, CommittedConsistent, CommittedOrdered,
      Consistent, Ordered, TxOrdered, CaughtUp, ReturnsAtMaxBlock, dbVars
  <1>2. CASE BeginUnwind
    BY <1>2 DEF BeginUnwind, IInv, TypeOK, LoopInv, CommittedConsistent, CommittedOrdered,
      Consistent, Ordered, TxOrdered, CaughtUp, ReturnsAtMaxBlock, dbVars
  <1>3. CASE UnwindStage
    <2> DEFINE p == UnwoundProgress(stage, unwindTo)
    <2>1. /\ stage \in Stages /\ unwindTo \in Progress
          /\ p \in Progress /\ p <= unwindTo /\ p < txProgress[stage]
          /\ p = unwindTo \/ stage \in Resetting
      BY <1>3 DEF UnwindStage, IInv, TypeOK, LoopInv, UnwoundProgress
    <2>2. /\ txProgress' = [txProgress EXCEPT ![stage] = p]
          /\ txRows' = [txRows EXCEPT ![stage] = Truncate(txRows[stage], p)]
          /\ UNCHANGED <<dbVars, loopVars>>
      BY <1>3 DEF UnwindStage
    <2> HIDE DEF p
    <2>3. TypeOK'
      BY <2>1, <2>2 DEF IInv, TypeOK, Truncate, dbVars, loopVars
    <2>4. LoopInv'
      BY <1>3, <2>1, <2>2 DEF UnwindStage, IInv, TypeOK, LoopInv, dbVars, loopVars
    <2>5. Consistent(txProgress, txRows)'
      <3> SUFFICES ASSUME NEW s \in Stages, NEW n \in Numbers
                   PROVE /\ n <= txProgress'[s] =>
                              txRows'[s][n] = txRows'[1][n] /\ txRows'[s][n] # NoBlock
                         /\ n > txProgress'[s] => txRows'[s][n] = NoBlock
        BY DEF Consistent
      <3>1. stage = 1 => txProgress'[s] <= p
        BY <1>3, <2>1, <2>2 DEF UnwindStage, IInv, TypeOK, LoopInv
      <3>2. 1 \in Stages /\ txRows[1][n] \in Blocks \cup {NoBlock}
        BY DEF IInv, TypeOK
      <3>3. /\ n <= txProgress[s] => txRows[s][n] = txRows[1][n] /\ txRows[s][n] # NoBlock
            /\ n > txProgress[s] => txRows[s][n] = NoBlock
        BY DEF IInv, Consistent
      <3>4. txProgress[s] \in Progress /\ txProgress[stage] \in Progress
        BY <2>1 DEF IInv, TypeOK
      <3>5. CASE s = stage
        <4>1. txProgress'[s] = p /\ (n <= p => n <= txProgress[s])
          BY <2>1, <2>2, <3>4, <3>5 DEF IInv, TypeOK
        <4>2. txRows'[s][n] = IF n > p THEN NoBlock ELSE txRows[s][n]
          BY <2>1, <2>2, <3>5 DEF IInv, TypeOK, Truncate
        <4>3. n <= p => txRows'[1][n] = txRows[1][n]
          BY <2>1, <2>2, <3>2 DEF IInv, TypeOK, Truncate
        <4>4. CASE n <= p
          BY <2>1, <3>3, <4>1, <4>2, <4>3, <4>4
        <4>5. CASE n > p
          BY <2>1, <4>1, <4>2, <4>5
        <4> QED
          BY <2>1, <4>4, <4>5
      <3>6. CASE s # stage
        <4>1. txProgress'[s] = txProgress[s] /\ txRows'[s] = txRows[s]
          BY <2>2, <3>6 DEF IInv, TypeOK
        <4>2. n <= txProgress[s] => txRows'[1][n] = txRows[1][n]
          <5>1. CASE stage = 1
            BY <2>1, <2>2, <3>1, <3>2, <3>4, <4>1, <5>1 DEF IInv, TypeOK, Truncate
          <5>2. CASE stage # 1
            BY <2>1, <2>2, <3>2, <5>2 DEF IInv, TypeOK
          <5> QED
            BY <5>1, <5>2
        <4> QED
          BY <3>3, <3>4, <4>1, <4>2
      <3> QED
        BY <3>5, <3>6
    <2>6. TxOrdered'
      <3> SUFFICES ASSUME NEW i \in Stages, NEW j \in Stages, i < j, CaughtUp(i)'
                   PROVE  txProgress'[j] <= txProgress'[i]
        BY DEF TxOrdered
      <3>1. i \notin Resetting /\ txProgress[j] <= txProgress[i]
        BY <1>3, <2>2 DEF UnwindStage, IInv, TxOrdered, CaughtUp, loopVars
      <3>2. \A t \in Stages : txProgress[t] \in Progress
                             /\ txProgress'[t] = IF t = stage THEN p ELSE txProgress[t]
        BY <2>2 DEF IInv, TypeOK
      <3>3. CASE i = stage
        <4>1. txProgress[j] <= unwindTo /\ p = unwindTo
          BY <1>3, <2>1, <3>1, <3>3 DEF UnwindStage, IInv, LoopInv
        <4> QED
          BY <2>1, <3>2, <3>3, <4>1
      <3>4. CASE i # stage
        BY <2>1, <3>1, <3>2, <3>4
      <3> QED
        BY <3>3, <3>4
    <2> QED
      BY <1>3, <2>2, <2>3, <2>4, <2>5, <2>6
      DEF UnwindStage, IInv, CommittedConsistent, CommittedOrdered, Consistent, Ordered,
          ReturnsAtMaxBlock, dbVars, loopVars
  <1>4. CASE UnwindNext
    <2> USE <1>4 DEF UnwindNext
    <2>1. stage \in Stages /\ stage' = stage - 1 /\ pc = "unwind" /\ pc' = "unwind"
      BY DEF IInv, TypeOK, LoopInv
    <2>2. TypeOK'
      BY <2>1 DEF IInv, TypeOK, dbVars, txVars
    <2>3. \A s \in Stages : s > stage' => txProgress'[s] <= unwindTo'
      BY <2>1 DEF IInv, TypeOK, LoopInv, txVars
    <2>4. LoopInv'
      BY <2>1, <2>3 DEF IInv, LoopInv, TypeOK
    <2>5. (Consistent(txProgress, txRows) /\ CommittedConsistent /\ CommittedOrdered)'
      BY <1>4 DEF UnwindNext, IInv, CommittedConsistent, CommittedOrdered, Consistent, Ordered,
        dbVars, txVars
    <2>6. TxOrdered' /\ ReturnsAtMaxBlock'
      BY <1>4 DEF UnwindNext, IInv, TxOrdered, CaughtUp, ReturnsAtMaxBlock, dbVars, txVars
    <2> QED
      BY <2>2, <2>4, <2>5, <2>6 DEF IInv
  <1>5. CASE UnwindCommit
    BY <1>5 DEF UnwindCommit, Commit, IInv, TypeOK, LoopInv, CommittedConsistent,
      CommittedOrdered, Consistent, Ordered, TxOrdered, CaughtUp, ReturnsAtMaxBlock, txVars
  <1>6. CASE ExecuteHeaders
    BY <1>6, ExecuteIInv DEF ExecuteHeaders
  <1>7. CASE ExecuteStage
    BY <1>7, ExecuteIInv DEF ExecuteStage
  <1>8. CASE RequestUnwind
    BY <1>8 DEF RequestUnwind, IInv, TypeOK, LoopInv, CommittedConsistent, CommittedOrdered,
      Consistent, Ordered, TxOrdered, CaughtUp, ReturnsAtMaxBlock, dbVars, txVars
  <1>9. CASE Complete
    BY <1>9 DEF Complete, Commit, IInv, TypeOK, LoopInv, CommittedConsistent,
      CommittedOrdered, Consistent, Ordered, TxOrdered, CaughtUp, ReturnsAtMaxBlock, txVars
  <1>10. CASE Restart
    BY <1>10 DEF Restart, IInv, TypeOK, LoopInv, CommittedConsistent, CommittedOrdered,
      Consistent, Ordered, TxOrdered, CaughtUp, ReturnsAtMaxBlock, dbVars
  <1>11. CASE UNCHANGED vars
    BY <1>11 DEF vars, IInv, TypeOK, LoopInv, CommittedConsistent, CommittedOrdered,
      Consistent, Ordered, TxOrdered, CaughtUp, ReturnsAtMaxBlock
  <1> QED
    BY <1>1, <1>2, <1>3, <1>4, <1>5, <1>6, <1>7, <1>8, <1>9, <1>10, <1>11 DEF Next, Step

(* The invariant holds in every reachable state.                            *)
LEMMA SpecIInv == Spec => []IInv
  BY InitIInv, NextIInv, PTL DEF Spec

(* Type correctness of the loop's state.                                    *)
THEOREM TypeCorrect == Spec => []TypeOK
  BY SpecIInv, PTL DEF IInv

(* At whatever point the process dies, the database it is restarted on      *)
(* holds rows of one chain only, and exactly up to each stage's progress.   *)
THEOREM CommitConsistency == Spec => []CommittedConsistent
  BY SpecIInv, PTL DEF IInv

(* No stage is committed ahead of a stage it depends on.                    *)
THEOREM CommitOrder == Spec => []CommittedOrdered
  BY SpecIInv, PTL DEF IInv

(* run() returns only when every stage is committed at max_block.           *)
THEOREM ReturnSynced == Spec => []ReturnsAtMaxBlock
  BY SpecIInv, PTL DEF IInv

(* How the open transaction's canonical chain relates to the committed one: *)
(* a forward pass keeps it and adds to it, an unwind only cuts it.          *)
SameChain ==
  \A n \in Numbers :
    /\ pc = "execute" /\ dbRows[1][n] # NoBlock => txRows[1][n] = dbRows[1][n]
    /\ pc = "unwind" => txRows[1][n] \in {dbRows[1][n], NoBlock}

(* An invocation of a stage keeps the committed chain.                      *)
LEMMA ExecuteSameChain ==
  ASSUME IInv, SameChain, NEW p \in Progress, NEW done \in BOOLEAN, NEW source,
         Execute(p, done, source)
  PROVE  SameChain'
  <1> USE StagesAssumption, BlocksAssumption DEF Stages, Progress, Numbers, NoNumber
  <1>1. SUFFICES ASSUME NEW n \in Numbers, dbRows'[1][n] # NoBlock
                 PROVE  txRows'[1][n] = dbRows'[1][n]
    BY DEF Execute, SameChain
  <1>2. CASE ShouldCommit(p)
    BY <1>2 DEF Execute, Commit
  <1>3. CASE ~ShouldCommit(p)
    <2>1. dbRows' = dbRows /\ pc = "execute"
      BY <1>3 DEF Execute, dbVars
    <2>2. txRows[1][n] = dbRows[1][n] /\ 1 \in Stages /\ stage \in Stages
      BY <1>1, <2>1 DEF SameChain, Execute, IInv, TypeOK, LoopInv
    <2>3. n <= txProgress[1]
      BY <1>1, <2>1, <2>2 DEF IInv, TypeOK, Consistent
    <2>4. txRows'[1][n] = txRows[1][n]
      BY <2>2, <2>3 DEF Execute, ExtendRows, IInv, TypeOK
    <2> QED
      BY <2>1, <2>2, <2>4
  <1> QED
    BY <1>2, <1>3

(* So does every other step.                                                *)
LEMMA NextSameChain == IInv /\ SameChain /\ [Next]_vars => SameChain'
  <1> SUFFICES ASSUME IInv, SameChain, [Next]_vars PROVE SameChain'
    OBVIOUS
  <1> USE StagesAssumption, BlocksAssumption DEF Stages, Progress, Numbers, NoNumber
  <1>1. CASE ExecuteHeaders \/ ExecuteStage
    BY <1>1, ExecuteSameChain DEF ExecuteHeaders, ExecuteStage
  <1>2. CASE UnwindStage
    BY <1>2 DEF UnwindStage, Truncate, SameChain, IInv, TypeOK, dbVars, loopVars
  <1>3. CASE BeginForward \/ BeginUnwind \/ UnwindNext \/ UnwindCommit \/ RequestUnwind
             \/ Complete \/ Restart \/ UNCHANGED vars
    BY <1>3 DEF BeginForward, BeginUnwind, UnwindNext, UnwindCommit, RequestUnwind,
      Complete, Restart, SameChain, dbVars, txVars, loopVars, vars
  <1> QED
    BY <1>1, <1>2, <1>3 DEF Next, Step

(* A step that commits either keeps the committed chain or cuts it.         *)
LEMMA CommitsKeep ==
  ASSUME IInv, IInv', SameChain, SameChain', [Next]_vars,
         NEW n \in Numbers, dbRows[1][n] # NoBlock, dbRows'[1][n] # dbRows[1][n],
         NEW s \in Stages
  PROVE  dbRows'[s][n] = NoBlock
  <1> USE StagesAssumption, BlocksAssumption DEF Stages, Progress, Numbers, NoNumber
  <1>1. CASE UnwindCommit
    <2>1. dbRows'[1][n] = NoBlock /\ 1 \in Stages
      BY <1>1 DEF UnwindCommit, Commit, SameChain
    <2>2. n > dbProgress'[1]
      BY <2>1 DEF IInv, TypeOK, CommittedConsistent, Consistent
    <2>3. dbProgress'[s] <= dbProgress'[1]
      BY <2>1 DEF IInv, TypeOK, CommittedOrdered, Ordered
    <2>4. n > dbProgress'[s]
      BY <2>2, <2>3 DEF IInv, TypeOK
    <2> QED
      BY <2>4 DEF IInv, CommittedConsistent, Consistent
  <1>2. CASE ExecuteHeaders \/ ExecuteStage
    <2>1. pc = "execute" /\ pc' = "execute"
      BY <1>2 DEF ExecuteHeaders, ExecuteStage, Execute
    <2>2. txRows[1][n] = dbRows[1][n]
      BY <2>1 DEF SameChain
    <2>3. PICK p \in Progress, done \in BOOLEAN, source \in [Numbers -> Blocks] \cup {txRows[1]} :
            Execute(p, done, source)
      BY <1>2 DEF ExecuteHeaders, ExecuteStage
    <2>4. 1 \in Stages /\ stage \in Stages /\ n <= txProgress[1]
      <3>1. 1 \in Stages /\ stage \in Stages
        BY <2>1, <2>3 DEF Execute, IInv, TypeOK, LoopInv
      <3>2. n > txProgress[1] => txRows[1][n] = NoBlock
        BY <3>1 DEF IInv, Consistent
      <3>3. txProgress[1] \in Progress
        BY <3>1 DEF IInv, TypeOK
      <3> QED
        BY <2>2, <3>1, <3>2, <3>3
    <2>5. txRows'[1][n] = txRows[1][n]
      BY <2>3, <2>4 DEF Execute, ExtendRows, IInv, TypeOK
    <2>6. dbRows' = dbRows \/ dbRows' = txRows'
      BY <2>3 DEF Execute, Commit, dbVars
    <2> QED
      BY <2>2, <2>5, <2>6
  <1>3. CASE Complete
    BY <1>3 DEF Complete, Commit, SameChain
  <1>4. CASE BeginForward \/ BeginUnwind \/ UnwindStage \/ UnwindNext \/ RequestUnwind
             \/ Restart \/ UNCHANGED vars
    BY <1>4 DEF BeginForward, BeginUnwind, UnwindStage, UnwindNext, RequestUnwind,
      Restart, dbVars, vars
  <1> QED
    BY <1>1, <1>2, <1>3, <1>4 DEF Next, Step

(* A commit never swaps a canonical block for another one: it first takes   *)
(* the block out, with every stage's row for it.                            *)
THEOREM CommitsNeverReplace == Spec => NeverReplaced
  <1> DEFINE Kept == \A n \in Numbers : dbRows[1][n] # NoBlock /\ dbRows[1][n]' # dbRows[1][n] =>
                       \A s \in Stages : dbRows[s][n]' = NoBlock
  <1>1. Init => SameChain
    BY DEF Init, SameChain
  <1>2. IInv /\ IInv' /\ SameChain /\ SameChain' /\ [Next]_vars => [Kept]_vars
    BY CommitsKeep
  <1> QED
    BY <1>1, <1>2, SpecIInv, NextSameChain, PTL DEF Spec, NeverReplaced

(* The loop forgets a requested unwind only when every stage is committed   *)
(* at or below its target, or when the process is restarted.                *)
THEOREM UnwindsAreKept == Spec => UnwindKept
  <1> DEFINE Kept == unwindTo # NoNumber /\ unwindTo' = NoNumber =>
                       Restart \/ \A s \in Stages : dbProgress'[s] <= unwindTo
  <1>1. IInv /\ [Next]_vars => [Kept]_vars
    <2> SUFFICES ASSUME IInv, Next PROVE Kept
      OBVIOUS
    <2>1. CASE Restart
      BY <2>1
    <2>2. CASE UnwindCommit
      BY <2>2 DEF UnwindCommit, Commit, IInv, LoopInv, Stages
    <2>3. CASE RequestUnwind
      <3> PICK to \in Progress : unwindTo' = to
        BY <2>3 DEF RequestUnwind
      <3> QED
        BY BlocksAssumption DEF Progress, NoNumber
    <2>4. ASSUME BeginForward \/ BeginUnwind \/ UnwindStage \/ UnwindNext \/ Complete
          PROVE  unwindTo' = unwindTo
      BY <2>4 DEF BeginForward, BeginUnwind, UnwindStage, UnwindNext, Complete, loopVars
    <2>5. ASSUME ExecuteHeaders \/ ExecuteStage
          PROVE  unwindTo' = unwindTo
      BY <2>5 DEF ExecuteHeaders, ExecuteStage, Execute
    <2> QED
      BY <2>1, <2>2, <2>3, <2>4, <2>5 DEF Next, Step
  <1> QED
    BY <1>1, SpecIInv, PTL DEF Spec, UnwindKept
=============================================================================
