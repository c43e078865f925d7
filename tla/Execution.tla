----------------------------- MODULE Execution -----------------------------
(***************************************************************************)
(* The execution stage: batches of blocks (stages/execution.rs), the        *)
(* transactions of a block (execution/processor.rs), and the calls,         *)
(* creations and host operations of a transaction (execution/evmglue.rs),   *)
(* over IntraBlockState, Buffer and the tables.                             *)
(*                                                                          *)
(* The rules are those of London (EIP-158, 2929, 3529).  What a contract    *)
(* does is any sequence of host operations; gas is left out, so that a call *)
(* may fail at any point and any part of the prepaid fee may come back.     *)
(***************************************************************************)
EXTENDS Buffer

LOCAL INSTANCE FiniteSetsExt
LOCAL INSTANCE Functions

CONSTANTS Senders,        \* accounts that sign transactions
          Beneficiary,    \* of every block
          Precompiles,
          ChildOf,        \* ChildOf[a]: address a contract (CREATE2) or nonce 0 of a sender gives
          Worlds,         \* the worlds of the tables before the first block
          Reward,         \* block reward
          Fees, Values, SlotValues,
          Targets,        \* addresses that transactions are sent to and that code asks about
          Codes,          \* hashes of code that a creation may deploy
          Operations,     \* bound: what code does, of "call", "create", "sstore", "sload", "log",
                          \* "inspect" and "selfdestruct"
          MaxBlock, MaxTxs, MaxOps, MaxDepth   \* bounds

ASSUME BoundsAssumption ==
    /\ MaxBlock \in Nat /\ MaxTxs \in Nat /\ MaxOps \in Nat /\ MaxDepth \in Nat \ {0}
    /\ Reward \in Nat /\ Fees \subseteq Nat /\ Values \subseteq Nat /\ SlotValues \subseteq Nat

VARIABLES
    tables,     \* the tables as the stage's transaction sees them, and the stage's progress
    committed,  \* the tables on disk
    buffer,     \* Buffer
    state,      \* IntraBlockState of the block in execution, None outside
    frames,     \* running calls, the innermost last
    txn,        \* transaction in execution
    phase,      \* "idle", "block", "message", "run" or "settle"
    history,    \* history[n]: the world after block n, from the last unwind on
    txs, ops    \* bound counters

vars == <<tables, committed, buffer, state, frames, txn, phase, history, txs, ops>>
store == <<tables, committed, buffer, history>>

NoTxn == [sender |-> None, kind |-> "call", to |-> None, value |-> 0, prepaid |-> 0]
WorldOf(t) == [accounts |-> t.accounts, slots |-> t.slots]
View(s) == [accounts |-> [a \in Addresses |-> Current(s, a)],
            slots |-> [a \in Addresses |-> [k \in Keys |-> StorageValue(s, a, k, FALSE)]]]

Observed(t) == View(NewState(WorldOf(t)))     \* the world a block finds in the tables

Init ==
    /\ \E w \in Worlds :
          tables = [accounts |-> w.accounts, slots |-> w.slots, account_changes |-> EmptyMap,
                    storage_changes |-> EmptyMap, progress |-> 0,
                    code |-> {w.accounts[a].code : a \in {x \in Addresses : w.accounts[x] # None}}]
    /\ committed = tables
    /\ buffer = NewBuffer /\ state = None /\ frames = <<>> /\ txn = NoTxn
    /\ phase = "idle" /\ history = (0 :> Observed(tables)) /\ txs = 0 /\ ops = 0

Top == frames[Len(frames)]
Block == Max(DOMAIN history) + 1     \* the block in execution
Caller == IF frames = <<>> THEN txn.sender ELSE Top.address
Returned(fs) == IF fs = <<>> THEN "settle" ELSE "run"

----------------------------------------------------------------------------
(* execution.rs, processor.rs *)

(* Execution::execute: a batch starts with an empty buffer. *)
StartBatch ==
    /\ phase = "idle" /\ tables.progress < MaxBlock
    /\ state' = NewState(WorldOf(tables))
    /\ phase' = "block"
    /\ UNCHANGED <<store, frames, txn, txs, ops>>

(* validate_transaction: EIP-3607, and the up-front cost *)
Valid(sender, value, fee) ==
    Account(state, sender).code = EMPTY_HASH /\ Account(state, sender).balance >= fee + value

(* validate_transaction, then execute_transaction up to the EVM. *)
BeginTx(sender, kind, to, value, fee) ==
    LET clear   == AccessAccount(ClearJournalAndSubstate(GetObject(state, sender)), sender)
        charged == SubtractFromBalance(clear, sender, fee)
    IN  /\ phase = "block" /\ txs < MaxTxs
        /\ Valid(sender, value, fee)
        /\ state' = IF kind = "call"
                    THEN SetNonce(AccessAccount(charged, to), sender,
                                  Account(state, sender).nonce + 1)
                    ELSE charged
        /\ txn' = [sender |-> sender, kind |-> kind, to |-> to, value |-> value, prepaid |-> fee]
        /\ phase' = "message" /\ txs' = txs + 1
        /\ UNCHANGED <<store, frames, ops>>

\* Mutant of Settled: dead accounts go before the beneficiary is paid.
SettledEarly(s, left, tip) ==
    LET swept == DestructTouchedDead(DestructSelfdestructs(s))
    IN  FinalizeTransaction(AddToBalance(AddToBalance(swept, txn.sender, left), Beneficiary, tip))

(* The end of execute_transaction: refund_gas, the beneficiary's fee, the
   accounts that go, and the storage of the transaction. *)
Settled(s, left, tip) ==
    LET paid == AddToBalance(AddToBalance(s, txn.sender, left), Beneficiary, tip)
    IN  FinalizeTransaction(DestructTouchedDead(DestructSelfdestructs(paid)))

EndTx(left, tip) ==
    /\ phase = "settle" /\ left + tip <= txn.prepaid
    /\ state' = Settled(state, left, tip)
    /\ phase' = "block" /\ txn' = NoTxn
    /\ UNCHANGED <<store, frames, txs, ops>>

(* execute_and_write_block for a block that passes its checks, and the end of
   the loop body: write_history when enough gas was used, then the end of the
   batch (write_to_db) or the next block. *)
EndBlock(writeHistory, endOfBatch) ==
    LET rewarded == AddToBalance(state, Beneficiary, Reward)
        b == WriteBlock(rewarded, buffer, tables, Block)
        t == IF writeHistory THEN WriteHistory(b, tables) ELSE tables
        c == IF writeHistory THEN HistoryTaken(b) ELSE b
        flushed == [WriteToTables(c, t) EXCEPT !.progress = Block]
    IN  /\ phase = "block"
        /\ Block = MaxBlock => endOfBatch
        /\ IF endOfBatch
           THEN /\ tables' = flushed
                /\ buffer' = NewBuffer /\ state' = None /\ phase' = "idle"
           ELSE /\ tables' = t /\ buffer' = c
                /\ state' = NewState(ReadAll(c, t))
                /\ UNCHANGED phase
        /\ history' = Put(history, Block, View(rewarded))
        /\ UNCHANGED <<committed, frames, txn, txs, ops>>

(* StagedSync::run commits once enough blocks were processed, which may be
   after this batch or a later one, ... *)
Commit ==
    /\ phase = "idle" /\ committed # tables
    /\ committed' = tables
    /\ UNCHANGED <<tables, buffer, history, state, frames, txn, phase, txs, ops>>

(* ... or drops the transaction: a block fails its checks, or another stage
   fails or asks for an unwind before the batch is committed. *)
Drop ==
    /\ phase = "block" \/ (phase = "idle" /\ committed # tables)
    /\ tables' = committed /\ buffer' = NewBuffer /\ state' = None /\ phase' = "idle"
    /\ history' = RestrictDomain(history, LAMBDA n : n <= committed.progress)
    /\ UNCHANGED <<committed, frames, txn, txs, ops>>

(* Execution::unwind, in a transaction of its own *)
Unwind(to) ==
    /\ phase = "idle" /\ committed = tables
    /\ to \in DOMAIN history /\ to < tables.progress /\ to + 1 >= PruneFrom
    /\ tables' = [Unwound(tables, to) EXCEPT !.progress = to]
    /\ committed' = tables'
    /\ history' = (to :> Observed(tables'))
    /\ UNCHANGED <<buffer, state, frames, txn, phase, txs, ops>>

----------------------------------------------------------------------------
(* evmglue.rs: calls and creations *)

Enter(s, before, address, kind, static) ==
    /\ Len(frames) < MaxDepth
    /\ state' = s
    /\ frames' = Append(frames, [address |-> address, kind |-> kind, static |-> static,
                                 snapshot |-> TakeSnapshot(before)])
    /\ phase' = "run"

(* EvmHost::access_account *)
Accessed(s, a) == IF a \in Precompiles THEN s ELSE AccessAccount(s, a)

PassBy(s) == state' = s /\ phase' = Returned(frames) /\ UNCHANGED frames

(* The value moves and the touch of Evm::call, before any code runs. *)
Transferred(s, kind, static, to, value) ==
    CASE kind = "delegate" -> s
      [] kind = "call" /\ static -> Touch(s, to)
      [] OTHER -> AddToBalance(SubtractFromBalance(s, Caller, value), to, value)

\* Mutant of Affords: off by one.
AffordsOneMore(value) == Account(state, Caller).balance + 1 >= value

Affords(value) == Account(state, Caller).balance >= value

(* Evm::call *)
Call(kind, static, to, value) ==
    LET called == IF frames = <<>> THEN state ELSE Accessed(state, to)
        checked == GetObject(called, Caller)
        loaded == IF to \in Precompiles THEN checked ELSE GetObject(checked, to)
        s == Transferred(loaded, kind, static, to, value)
    IN  IF kind = "call" /\ ~Affords(value)
        THEN PassBy(checked)
        ELSE IF value = 0 /\ to \notin Precompiles /\ ~Exists(state, to)
        THEN PassBy(loaded)
        ELSE IF to \in Precompiles
        THEN \E ok \in BOOLEAN :
                PassBy(IF ok THEN s ELSE RevertToSnapshot(s, TakeSnapshot(loaded)))
        ELSE IF Account(state, to).code = EMPTY_HASH
        THEN PassBy(s)
        ELSE Enter(s, loaded, IF kind = "delegate" THEN Caller ELSE to, "call", static)

(* Evm::create *)
Create(new, value) ==
    LET loaded == GetObject(state, Caller)
        nonced == AccessAccount(SetNonce(loaded, Caller, Account(state, Caller).nonce + 1), new)
        found  == GetObject(nonced, new)
        born   == SetNonce(CreateContract(found, new), new, 1)
        funded == AddToBalance(SubtractFromBalance(born, Caller, value), new, value)
    IN  IF ~Affords(value)
        THEN PassBy(loaded)
        ELSE IF Account(found, new).nonce # 0 \/ Account(found, new).code # EMPTY_HASH
        THEN PassBy(found)
        ELSE Enter(funded, found, new, "create", FALSE)

(* The message of the transaction. *)
Message ==
    /\ phase = "message"
    /\ IF txn.kind = "call" THEN Call("call", FALSE, txn.to, txn.value)
       ELSE Create(txn.to, txn.value)
    /\ UNCHANGED <<store, txn, txs, ops>>

Running(op) ==
    /\ phase = "run" /\ op \in Operations
    /\ ops < MaxOps /\ ops' = ops + 1
    /\ UNCHANGED <<store, txn, txs>>
Writing(op) == Running(op) /\ ~Top.static

(* CALL, STATICCALL and DELEGATECALL of the running code *)
InnerCall(kind, static, to, value) ==
    /\ Running("call")
    /\ Top.static => static
    /\ static \/ kind = "delegate" => value = 0
    /\ Call(kind, static, to, value)

InnerCreate(value) ==
    /\ Writing("create")
    /\ Top.address \in DOMAIN ChildOf
    /\ Create(ChildOf[Top.address], value)

----------------------------------------------------------------------------
(* evmglue.rs: host operations of the running code *)

(* fee::* from Berlin and London *)
G_SSET == 20000
WARM_STORAGE_READ_COST == 100
SSTORE_RESET_GAS == 5000 - 2100
SSTORE_CLEARS_REFUND == SSTORE_RESET_GAS + 1900

\* Mutant of RefundTaken: the refund of a slot that was not cleared is taken, too.
RefundTakenAlways(original, current) ==
    IF original # current /\ original # 0 THEN SSTORE_CLEARS_REFUND ELSE 0

(* set_storage, EIP-2200 with EIP-3529: the refund of a slot cleared before in
   the transaction is taken back first, ... *)
RefundTaken(original, current) ==
    IF original # current /\ original # 0 /\ current = 0 THEN SSTORE_CLEARS_REFUND ELSE 0

(* ... then the refunds of clearing it and of restoring it are given. *)
RefundGiven(original, current, new) ==
    (IF original # 0 /\ new = 0 THEN SSTORE_CLEARS_REFUND ELSE 0)
    + (IF original = current \/ original # new THEN 0
       ELSE IF original = 0 THEN G_SSET - WARM_STORAGE_READ_COST
       ELSE SSTORE_RESET_GAS - WARM_STORAGE_READ_COST)

SStore(k, v) ==
    LET a == Top.address
        s == AccessStorage(state, a, k)
        current == StorageValue(s, a, k, FALSE)
        original == StorageValue(s, a, k, TRUE)
        written == GetStorage(SetStorage(s, a, k, v), a, k, TRUE)
    IN  /\ Writing("sstore")
        /\ state' = IF current = v THEN GetStorage(s, a, k, FALSE)
                    ELSE AddRefund(SubtractRefund(written, RefundTaken(original, current)),
                                   RefundGiven(original, current, v))
        /\ UNCHANGED <<frames, phase>>

SLoad(k) ==
    /\ Running("sload")
    /\ state' = GetStorage(AccessStorage(state, Top.address, k), Top.address, k, FALSE)
    /\ UNCHANGED <<frames, phase>>

EmitLog ==
    /\ Writing("log")
    /\ state' = AddLog(state, Top.address)
    /\ UNCHANGED <<frames, phase>>

(* BALANCE and EXTCODE* of an address: an access, and the account is cached. *)
Inspect(a) ==
    /\ Running("inspect")
    /\ state' = GetObject(Accessed(state, a), a)
    /\ UNCHANGED <<frames, phase>>

Left == SubSeq(frames, 1, Len(frames) - 1)

(* The end of Evm::create deploys the code a creation returns. *)
Deployed(s, code) == IF Top.kind = "create" THEN SetCode(s, Top.address, code) ELSE s

(* Success of the running call. *)
Return(code) ==
    /\ phase = "run"
    /\ Top.kind = "call" => code = EMPTY_HASH
    /\ state' = Deployed(state, code)
    /\ frames' = Left /\ phase' = Returned(Left)
    /\ UNCHANGED <<store, txn, txs, ops>>

(* REVERT, out of gas, or code that may not be deployed *)
Fail ==
    /\ phase = "run"
    /\ state' = RevertToSnapshot(state, Top.snapshot)
    /\ frames' = Left /\ phase' = Returned(Left)
    /\ UNCHANGED <<store, txn, txs, ops>>

\* Mutant of Destroyed: the balance that went to the beneficiary also stays.
DestroyedKeepsBalance(s, a, to) == AddToBalance(RecordSelfdestruct(s, a), to, Account(s, a).balance)

(* selfdestruct *)
Destroyed(s, a, to) ==
    SetBalance(AddToBalance(RecordSelfdestruct(s, a), to, Account(s, a).balance), a, 0)

(* SELFDESTRUCT also ends the call. *)
SelfDestruct(to) ==
    /\ Writing("selfdestruct")
    /\ state' = Deployed(Destroyed(Accessed(state, to), Top.address, to), EMPTY_HASH)
    /\ frames' = Left /\ phase' = Returned(Left)

Next ==
    \/ StartBatch
    \/ \E sender \in Senders, to \in Targets, value \in Values, fee \in Fees :
          BeginTx(sender, "call", to, value, fee)
    \/ \E sender \in Senders, value \in Values, fee \in Fees :
          /\ sender \in DOMAIN ChildOf /\ phase = "block" /\ Account(state, sender).nonce = 0
          /\ BeginTx(sender, "create", ChildOf[sender], value, fee)
    \/ \E left, tip \in 0..Max(Fees) : EndTx(left, tip)
    \/ \E writeHistory, endOfBatch \in BOOLEAN : EndBlock(writeHistory, endOfBatch)
    \/ Commit
    \/ Drop
    \/ \E to \in 0..MaxBlock : Unwind(to)
    \/ Message
    \/ \E static \in BOOLEAN, to \in Addresses, value \in Values :
          InnerCall("call", static, to, value)
    \/ \E to \in Addresses : phase = "run" /\ InnerCall("delegate", Top.static, to, 0)
    \/ \E value \in Values : InnerCreate(value)
    \/ \E k \in Keys, v \in SlotValues : SStore(k, v)
    \/ \E k \in Keys : SLoad(k)
    \/ EmitLog
    \/ \E a \in Targets : Inspect(a)
    \/ \E code \in Codes : Return(code)
    \/ Fail
    \/ \E to \in Addresses : SelfDestruct(to)

Spec == Init /\ [][Next]_vars

----------------------------------------------------------------------------
(* Properties *)

Now == IF state = None THEN Observed(tables) ELSE View(state)
Seen == {Now} \cup Range(history)

(* The phases of a block and the parts of the state go together, and no
   account ever has a balance below zero. *)
TypeOK ==
    /\ phase \in {"idle", "block", "message", "run", "settle"}
    /\ (phase = "idle") = (state = None)
    /\ (phase = "run") = (frames # <<>>)
    /\ tables.progress \in 0..MaxBlock /\ committed.progress <= tables.progress
    /\ DOMAIN history = Min(DOMAIN history)..Max(DOMAIN history)
    /\ \A w \in Seen, a \in Addresses :
          w.accounts[a] = None \/ w.accounts[a] \in [balance : Nat, nonce : Nat, code : Codes]

Balance(w) == MapThenSumSet(LAMBDA a : IF w.accounts[a] = None THEN 0 ELSE w.accounts[a].balance,
                            Addresses)

(* Transfers, failed calls, self-destructs and the settlement of fees never
   make money: what the accounts hold, with the fee a running transaction has
   prepaid, is at most what they held after the first block known plus the
   rewards since. *)
SupplyConserved ==
    LET first == Min(DOMAIN history)
        blocks == Cardinality(DOMAIN history) - 1
    IN  Balance(Now) + txn.prepaid <= Balance(history[first]) + Reward * blocks

(* subtract_refund never takes the refund counter below zero, not even before
   what set_storage gives is added: it covers what writing again every slot
   cleared so far would take, whatever was written, cleared or taken back by a
   failed call, and whatever earlier transactions of the block did. *)
RefundNotNegative ==
    state # None =>
       state.refund >= MapThenSumSet(LAMBDA x : RefundTaken(StorageValue(state, x[1], x[2], TRUE),
                                                            StorageValue(state, x[1], x[2], FALSE)),
                                     Addresses \X Keys)

(* The account change sets, in the buffer or in the table, are what they are
   said to be: a row of block n holds the account as it was before block n,
   and every account that block n changed has a row. *)
AccountChangesExact ==
    LET rows == buffer.account_changes @@ tables.account_changes
    IN  \A n \in {m \in DOMAIN history : m - 1 \in DOMAIN history /\ m >= PruneFrom},
           a \in Addresses :
           IF <<n, a>> \in DOMAIN rows THEN rows[<<n, a>>] = history[n - 1].accounts[a]
           ELSE history[n].accounts[a] = history[n - 1].accounts[a]

(* Every contract of the account table has its code in the code table. *)
CodeStored ==
    \A a \in Addresses : tables.accounts[a] # None => tables.accounts[a].code \in tables.code

(* interface.rs: "Change sets are backward changes of the state, i.e.
   account/storage values _at the beginning of a block_."  A row of the storage
   change sets holds the slot as it was before the block. *)
StorageChangesExact ==
    LET rows == buffer.storage_changes @@ tables.storage_changes
    IN  \A r \in DOMAIN rows :
           r[1] - 1 \in DOMAIN history => rows[r] = history[r[1] - 1].slots[r[2]][r[3]]

(* Execution::unwind takes the tables back to the world after the block it
   unwinds to. *)
UnwindRestores ==
    [][\A to \in DOMAIN history : Unwind(to) => Observed(tables') = history[to]]_vars
=============================================================================
