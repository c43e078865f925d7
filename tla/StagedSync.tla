----------------------------- MODULE StagedSync -----------------------------
(***************************************************************************)
(* The staged synchronisation loop, src/src/stagedsync/mod.rs.             *)
(*                                                                         *)
(* A fixed sequence of stages runs in order inside one read-write          *)
(* transaction of the database.  Every stage has a progress (the highest   *)
(* block it has processed, table SyncStage) and rows derived from the      *)
(* blocks up to it.  The rows of a stage are abstracted to the block they  *)
(* were derived from, so that a row left behind by an incomplete unwind,   *)
(* or derived from a block that is no longer canonical, can be told from a *)
(* good one.  Stage 1 (Headers) owns the canonical chain itself.           *)
(*                                                                         *)
(* An absent progress is block 0 wherever the code reads one               *)
(* (unwrap_or_default), and is 0 here.                                     *)
(***************************************************************************)
EXTENDS Integers

CONSTANTS
  NumStages,      \* self.stages.len()
  Batching,       \* stages that may return done = false, or stop early
  Resetting,      \* stages whose unwind drops all they have (Interhashes)
  Requesters,     \* stages whose execute may return ExecOutput::Unwind
  Blocks,         \* block identities (hashes)
  NoBlock,        \* the absence of a row
  TopBlock,       \* bound: the highest block number of the model
  MinCommit,      \* min_progress_to_commit_after_stage
  MaxBlock,       \* max_block, or NoNumber
  ExitAfterSync   \* exit_after_sync: stored by its setter, read by nothing

NoNumber == -1    \* Option::None of a block number
Numbers == 1..TopBlock
Progress == 0..TopBlock
Stages == 1..NumStages

ASSUME StagesAssumption ==
  /\ NumStages \in Nat \ {0}
  /\ Batching \subseteq Stages
  /\ Resetting \subseteq Stages \ {1}
  /\ Resetting \cap Batching = {}
  /\ Requesters \subseteq Stages \ Resetting

ASSUME BlocksAssumption ==
  /\ TopBlock \in Nat
  /\ MinCommit \in Nat
  /\ MaxBlock \in Nat \cup {NoNumber}
  /\ ExitAfterSync \in BOOLEAN
  /\ NoBlock \notin Blocks

VARIABLES
  dbProgress,     \* SyncStage as of the last commit
  dbRows,         \* the rows of every stage as of the last commit
  txProgress,     \* SyncStage as seen by the open transaction
  txRows,         \* the rows as seen by the open transaction
  pc,             \* where the run loop is
  stage,          \* index of the stage being executed or unwound
  unwindTo,       \* unwind_to of the run loop, then `to` of the unwind
  startProgress,  \* start_progress of the stage being executed
  previous,       \* previous_stage's progress, NoNumber before the first
  minimum         \* minimum_progress

dbVars == <<dbProgress, dbRows>>
txVars == <<txProgress, txRows>>
loopVars == <<pc, stage, unwindTo, startProgress, previous, minimum>>
vars == <<dbProgress, dbRows, txProgress, txRows,
          pc, stage, unwindTo, startProgress, previous, minimum>>

-----------------------------------------------------------------------------

NoRows == [n \in Numbers |-> NoBlock]

Init ==
  /\ dbProgress = [s \in Stages |-> 0]
  /\ dbRows = [s \in Stages |-> NoRows]
  /\ txProgress = dbProgress
  /\ txRows = dbRows
  /\ pc = "begin"
  /\ stage = 1
  /\ unwindTo = NoNumber
  /\ startProgress = 0
  /\ previous = NoNumber
  /\ minimum = NoNumber

Commit(progress, rows) ==
  /\ dbProgress' = progress
  /\ dbRows' = rows

(* `let mut tx = db.begin_mutable()?` with no unwind requested.             *)
BeginForward ==
  /\ pc = "begin"
  /\ unwindTo = NoNumber
  /\ txProgress' = dbProgress
  /\ txRows' = dbRows
  /\ pc' = "execute"
  /\ stage' = 1
  /\ startProgress' = dbProgress[1]
  /\ previous' = NoNumber
  /\ minimum' = NoNumber
  /\ UNCHANGED <<dbVars, unwindTo>>

(* `if let Some(to) = unwind_to.take()`: unwind in reverse order.           *)
BeginUnwind ==
  /\ pc = "begin"
  /\ unwindTo # NoNumber
  /\ txProgress' = dbProgress
  /\ txRows' = dbRows
  /\ pc' = "unwind"
  /\ stage' = NumStages
  /\ UNCHANGED <<dbVars, unwindTo, startProgress, previous, minimum>>

-----------------------------------------------------------------------------
(* The unwind loop.                                                         *)

(* Mutants: a stage that goes one block too far back, or one too few.       *)
UnwoundProgressTooFar(s, to) == IF s \in Resetting THEN 0 ELSE to - 1
UnwoundProgressTooNear(s, to) == IF s \in Resetting THEN 0 ELSE to + 1

(* What stage.unwind leaves: nothing above `to`, or nothing at all.         *)
UnwoundProgress(s, to) == IF s \in Resetting THEN 0 ELSE to

(* Mutant: the row just above the target survives.                          *)
TruncateOffByOne(rows, to) ==
  [n \in Numbers |-> IF n > to + 1 THEN NoBlock ELSE rows[n]]

Truncate(rows, to) == [n \in Numbers |-> IF n > to THEN NoBlock ELSE rows[n]]

(* One call of stage.unwind, followed by save_progress.                     *)
UnwindStage ==
  /\ pc = "unwind"
  /\ stage >= 1
  /\ txProgress[stage] > unwindTo
  /\ LET p == UnwoundProgress(stage, unwindTo)
     IN /\ txProgress' = [txProgress EXCEPT ![stage] = p]
        /\ txRows' = [txRows EXCEPT ![stage] = Truncate(@, p)]
  /\ UNCHANGED <<dbVars, loopVars>>

(* Mutant: the first stage is left out of the loop.                         *)
UnwindNextButFirst ==
  /\ pc = "unwind"
  /\ stage >= 1
  /\ txProgress[stage] <= unwindTo
  /\ stage' = IF stage <= 2 THEN 0 ELSE stage - 1
  /\ UNCHANGED <<dbVars, txVars, pc, unwindTo, startProgress, previous, minimum>>

(* "Unwind point too far for stage", or the stage is unwound.               *)
UnwindNext ==
  /\ pc = "unwind"
  /\ stage >= 1
  /\ txProgress[stage] <= unwindTo
  /\ stage' = stage - 1
  /\ UNCHANGED <<dbVars, txVars, pc, unwindTo, startProgress, previous, minimum>>

(* Mutant: the loop goes forward in the transaction of the unwind.          *)
UnwindCommitMissing ==
  /\ pc = "unwind"
  /\ stage = 0
  /\ pc' = "execute"
  /\ stage' = 1
  /\ unwindTo' = NoNumber
  /\ startProgress' = txProgress[1]
  /\ previous' = NoNumber
  /\ minimum' = NoNumber
  /\ UNCHANGED <<dbVars, txVars>>

(* All stages are unwound: commit, and go round the loop.                   *)
UnwindCommit ==
  /\ pc = "unwind"
  /\ stage = 0
  /\ Commit(txProgress, txRows)
  /\ pc' = "begin"
  /\ stage' = 1
  /\ unwindTo' = NoNumber
  /\ UNCHANGED <<txVars, startProgress, previous, minimum>>

-----------------------------------------------------------------------------
(* The forward loop.                                                        *)

(* Mutant: a stage follows the headers, not its predecessor.                *)
ReachHeaders(s) ==
  IF s = 1 THEN txProgress[1]..TopBlock
  ELSE IF s \in Batching THEN txProgress[s]..txProgress[1]
  ELSE {txProgress[1]}

(* The progress a stage may report.  Stage 1 follows a source of headers;   *)
(* the others process the blocks their predecessor is done with, and a      *)
(* stage that batches may stop before all of them, or at once.              *)
Reach(s) ==
  IF s = 1 THEN txProgress[1]..TopBlock
  ELSE IF s \in Batching THEN txProgress[s]..previous
  ELSE {previous}

(* The rows a stage writes for blocks above its progress: the headers stage *)
(* chooses the chain, any other derives its rows from the canonical one.    *)
ExtendRows(s, p, source) ==
  [n \in Numbers |-> IF n > txProgress[s] /\ n <= p THEN source[n] ELSE txRows[s][n]]

(* saturating_sub(start_progress) >= min_progress_to_commit_after_stage     *)
ShouldCommit(p) ==
  (IF p > startProgress THEN p - startProgress ELSE 0) >= MinCommit

(* Mutant: the running minimum is a maximum.                                *)
MinSwapped(a, b) == IF a <= b THEN b ELSE a

Min(a, b) == IF a <= b THEN a ELSE b

(* One invocation of stage.execute that returns ExecOutput::Progress, then  *)
(* save_progress, the running minimum and the commit, if one is due.        *)
Execute(p, done, source) ==
  /\ pc = "execute"
  /\ stage <= NumStages
  /\ p \in Reach(stage)
  /\ done \/ stage \in Batching
  /\ txProgress' = [txProgress EXCEPT ![stage] = p]
  /\ txRows' = [txRows EXCEPT ![stage] = ExtendRows(stage, p, source)]
  /\ minimum' = IF minimum = NoNumber THEN p ELSE Min(minimum, p)
  /\ IF ShouldCommit(p) THEN Commit(txProgress', txRows') ELSE UNCHANGED dbVars
  /\ IF done
     THEN /\ previous' = p
          /\ stage' = stage + 1
          /\ startProgress' = IF stage < NumStages THEN txProgress[stage + 1] ELSE 0
     ELSE UNCHANGED <<previous, stage, startProgress>>
  /\ UNCHANGED <<pc, unwindTo>>

ExecuteHeaders ==
  /\ stage = 1
  /\ \E p \in Progress, done \in BOOLEAN, source \in [Numbers -> Blocks] :
       Execute(p, done, source)

ExecuteStage ==
  /\ stage > 1
  /\ \E p \in Progress, done \in BOOLEAN : Execute(p, done, txRows[1])

(* ExecOutput::Unwind: the transaction is dropped and the loop restarts.    *)
(* A target may lie above the stage's own progress: the header stage counts *)
(* from what its downloader saved.                                          *)
RequestUnwind ==
  /\ pc = "execute"
  /\ stage \in Requesters
  /\ unwindTo' \in Progress
  /\ pc' = "begin"
  /\ UNCHANGED <<dbVars, txVars, stage, startProgress, previous, minimum>>

(* All stages are done: commit, and return if max_block is reached.         *)
Complete ==
  /\ pc = "execute"
  /\ stage = NumStages + 1
  /\ Commit(txProgress, txRows)
  /\ pc' = IF MaxBlock # NoNumber /\ minimum = MaxBlock THEN "returned" ELSE "begin"
  /\ stage' = 1
  /\ UNCHANGED <<txVars, unwindTo, startProgress, previous, minimum>>

(* The process dies, or a stage fails with an error, and is started again:  *)
(* the open transaction and everything in memory are lost.                  *)
Restart ==
  /\ pc' = "begin"
  /\ stage' = 1
  /\ unwindTo' = NoNumber
  /\ startProgress' = 0
  /\ previous' = NoNumber
  /\ minimum' = NoNumber
  /\ txProgress' = dbProgress
  /\ txRows' = dbRows
  /\ UNCHANGED dbVars

Step ==
  \/ BeginForward
  \/ BeginUnwind
  \/ UnwindStage
  \/ UnwindNext
  \/ UnwindCommit
  \/ ExecuteHeaders
  \/ ExecuteStage
  \/ RequestUnwind
  \/ Complete

Next == Step \/ Restart

Spec == Init /\ [][Next]_vars

(* The loop itself never waits: as long as the process lives, one of its    *)
(* steps is always taken.                                                   *)
FairSpec == Spec /\ WF_vars(Step)

(* The same for a process that is not restarted.                            *)
LiveSpec == Init /\ [][Step]_vars /\ WF_vars(Step)

-----------------------------------------------------------------------------
(* Properties.                                                              *)

TypeOK ==
  /\ dbProgress \in [Stages -> Progress]
  /\ txProgress \in [Stages -> Progress]
  /\ dbRows \in [Stages -> [Numbers -> Blocks \cup {NoBlock}]]
  /\ txRows \in [Stages -> [Numbers -> Blocks \cup {NoBlock}]]
  /\ pc \in {"begin", "execute", "unwind", "returned"}
  /\ stage \in 0..(NumStages + 1)
  /\ unwindTo \in Progress \cup {NoNumber}
  /\ startProgress \in Progress
  /\ previous \in Progress \cup {NoNumber}
  /\ minimum \in Progress \cup {NoNumber}

(* Whatever the moment the process dies at, every row the database holds    *)
(* for a block was derived from the block that is canonical at that height, *)
(* and a stage has a row exactly for the blocks up to its progress: the     *)
(* commits between stages, and the one after an unwind, never publish a     *)
(* mixture of two chains.                                                   *)
Consistent(progress, rows) ==
  \A s \in Stages, n \in Numbers :
    /\ n <= progress[s] => rows[s][n] = rows[1][n] /\ rows[s][n] # NoBlock
    /\ n > progress[s] => rows[s][n] = NoBlock

CommittedConsistent == Consistent(dbProgress, dbRows)

(* No stage is ahead of one that runs before it in what is committed (only  *)
(* a stage that resets on unwind may fall behind a later one), so that the  *)
(* rows a stage reads from its predecessors are there after any restart.    *)
Ordered(progress) ==
  \A i, j \in Stages : i < j /\ i \notin Resetting => progress[j] <= progress[i]

CommittedOrdered == Ordered(dbProgress)

(* A commit never replaces one canonical block by another: the old one is   *)
(* first removed, by the commit of an unwind, together with every row       *)
(* derived from it.                                                         *)
NeverReplaced ==
  [][\A n \in Numbers : dbRows[1][n] # NoBlock /\ dbRows[1][n]' # dbRows[1][n] =>
       \A s \in Stages : dbRows[s][n]' = NoBlock]_vars

(* run() returns only when every stage has been committed at max_block.     *)
ReturnsAtMaxBlock ==
  pc = "returned" => \A s \in Stages : dbProgress[s] >= MaxBlock

(* The loop forgets an unwind that a stage asked for only when it is carried *)
(* out, for every stage, or when the process is restarted.                  *)
UnwindKept ==
  [][unwindTo # NoNumber /\ unwindTo' = NoNumber =>
       Restart \/ \A s \in Stages : dbProgress'[s] <= unwindTo]_vars

(* An unwind that a stage asked for comes to its end, before the loop moves *)
(* forward again: the inner `while stage_progress > to` terminates.         *)
UnwindCompletes == unwindTo # NoNumber ~> unwindTo = NoNumber

(* A fully synced node that was started with --exit-after-sync returns.     *)
ExitsAfterSync ==
  (ExitAfterSync /\ <>[](\A s \in Stages : dbProgress[s] = TopBlock))
    => <>(pc = "returned")
=============================================================================
