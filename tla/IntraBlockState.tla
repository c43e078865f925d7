-------------------------- MODULE IntraBlockState --------------------------
(***************************************************************************)
(* The state of the block being executed (state/intra_block_state.rs,       *)
(* state/delta.rs, state/object.rs): accounts and storage cached over a     *)
(* database, the substate of the transaction, and the journal of deltas     *)
(* that takes a failed call back to its snapshot.                           *)
(*                                                                          *)
(* A state s is a record with one field per field of the Rust structure;    *)
(* hash maps are functions whose domain is the set of the keys present.     *)
(* s.db is what the database under it answers for the whole block:          *)
(* accounts[a] (None when absent) and slots[a][k].  A method that changes   *)
(* the state is an operator from s to the state it leaves.  Code is its     *)
(* hash, a number; amounts and nonces are numbers.                          *)
(***************************************************************************)
EXTENDS Integers, Sequences, FiniteSets, TLC

LOCAL INSTANCE SequencesExt
LOCAL INSTANCE Functions
LOCAL INSTANCE FiniteSetsExt

CONSTANTS Addresses,      \* numbers: the tables are ordered by address
          Keys,           \* storage locations
          RIPEMD_ADDRESS, \* the precompile whose touch is never reverted
          None            \* Option::None

ASSUME AddressAssumption == Addresses \subseteq Nat /\ IsFiniteSet(Addresses)

EMPTY_HASH == 0
DefaultAccount == [balance |-> 0, nonce |-> 0, code |-> EMPTY_HASH]
EmptyMap == [x \in {} |-> x]
NoStorage == [committed |-> EmptyMap, current |-> EmptyMap]

Put(f, x, v) == (x :> v) @@ f
Without(f, x) == Restrict(f, DOMAIN f \ {x})
Get(f, x, default) == IF x \in DOMAIN f THEN f[x] ELSE default

(* IntraBlockState::new *)
NewState(db) ==
    [db |-> db, objects |-> EmptyMap, storage |-> EmptyMap, incarnations |-> EmptyMap,
     new_code |-> {}, journal |-> <<>>, self_destructs |-> {}, logs |-> <<>>,
     touched |-> {}, refund |-> 0, accessed_addresses |-> {}, accessed_storage_keys |-> {}]

----------------------------------------------------------------------------
(* Accounts *)

(* get_object: an account of the database is cached, with no delta. *)
GetObject(s, a) ==
    IF a \in DOMAIN s.objects \/ s.db.accounts[a] = None THEN s
    ELSE [s EXCEPT !.objects = Put(@, a, [initial |-> s.db.accounts[a],
                                          current |-> s.db.accounts[a]])]

(* What get_balance, get_nonce, get_code_hash and exists look at. *)
Current(s, a) == IF a \in DOMAIN s.objects THEN s.objects[a].current ELSE s.db.accounts[a]
Exists(s, a) == Current(s, a) # None
IsDead(s, a) == Current(s, a) \in {None, DefaultAccount}
Account(s, a) == IF Exists(s, a) THEN Current(s, a) ELSE DefaultAccount

Push(s, delta) == [s EXCEPT !.journal = Append(@, delta)]

(* ensure_object *)
EnsureObject(s, a) ==
    LET l == GetObject(s, a)
    IN  IF a \notin DOMAIN l.objects
        THEN [Push(l, [delta |-> "Create", address |-> a])
                EXCEPT !.objects = Put(@, a, [initial |-> None, current |-> DefaultAccount])]
        ELSE IF l.objects[a].current = None
        THEN [Push(l, [delta |-> "Update", address |-> a, previous |-> l.objects[a]])
                EXCEPT !.objects[a].current = DefaultAccount]
        ELSE l

(* touch *)
Touch(s, a) ==
    IF a \in s.touched THEN s
    ELSE LET t == [s EXCEPT !.touched = @ \cup {a}]
         IN  IF a = RIPEMD_ADDRESS THEN t ELSE Push(t, [delta |-> "Touch", address |-> a])

\* Mutant of SetBalance: the change is not journalled.
SetBalanceNoDelta(s, a, value) ==
    Touch([EnsureObject(s, a) EXCEPT !.objects[a].current.balance = value], a)

(* set_balance; add_to_balance and subtract_from_balance differ in the value. *)
SetBalance(s, a, value) ==
    LET e == EnsureObject(s, a)
    IN  Touch([Push(e, [delta |-> "UpdateBalance", address |-> a,
                        previous |-> e.objects[a].current.balance])
                EXCEPT !.objects[a].current.balance = value], a)

AddToBalance(s, a, addend) == SetBalance(s, a, Account(s, a).balance + addend)
SubtractFromBalance(s, a, subtrahend) == SetBalance(s, a, Account(s, a).balance - subtrahend)

SetAccount(s, a, account) ==
    LET e == EnsureObject(s, a)
    IN  [Push(e, [delta |-> "Update", address |-> a, previous |-> e.objects[a]])
            EXCEPT !.objects[a].current = account]

SetNonce(s, a, nonce) == SetAccount(s, a, [Account(s, a) EXCEPT !.nonce = nonce])

(* set_code: new_code keeps the code even when the change is reverted. *)
SetCode(s, a, code) ==
    [SetAccount(s, a, [Account(s, a) EXCEPT !.code = code]) EXCEPT !.new_code = @ \cup {code}]

(* create_contract: the balance stays, the storage starts anew. *)
CreateContract(s, a) ==
    LET l == GetObject(s, a)
        known == a \in DOMAIN l.objects
        update == IF known
                  THEN [delta |-> "Update", address |-> a, previous |-> l.objects[a]]
                  ELSE [delta |-> "Create", address |-> a]
        wipe == IF a \in DOMAIN l.storage
                THEN [delta |-> "StorageWipe", address |-> a, storage |-> l.storage[a]]
                ELSE [delta |-> "StorageCreate", address |-> a]
    IN  [l EXCEPT
           !.objects = Put(@, a, [initial |-> IF known THEN l.objects[a].initial ELSE None,
                                  current |-> [DefaultAccount EXCEPT
                                                 !.balance = Account(s, a).balance]]),
           !.incarnations = Put(@, a, Get(@, a, 0) + 1),
           !.storage = Without(@, a),
           !.journal = @ \o <<update, [delta |-> "Incarnation", address |-> a], wipe>>]

\* Mutant of Destruct: the cached storage stays.
DestructKeepsStorage(s, a) ==
    LET l == GetObject(s, a)
    IN  [l EXCEPT !.incarnations = Put(@, a, Get(@, a, 0) + 1),
                  !.objects = IF a \in DOMAIN @ THEN [@ EXCEPT ![a].current = None] ELSE @]

(* destruct *)
Destruct(s, a) ==
    LET l == GetObject(s, a)
    IN  [l EXCEPT !.incarnations = Put(@, a, Get(@, a, 0) + 1),
                  !.storage = Without(@, a),
                  !.objects = IF a \in DOMAIN @ THEN [@ EXCEPT ![a].current = None] ELSE @]

(* record_selfdestruct *)
RecordSelfdestruct(s, a) ==
    IF a \in s.self_destructs THEN s
    ELSE [Push(s, [delta |-> "Selfdestruct", address |-> a])
            EXCEPT !.self_destructs = @ \cup {a}]

(* destruct_selfdestructs and destruct_touched_dead *)
DestructSelfdestructs(s) == FoldSet(LAMBDA a, acc : Destruct(acc, a), s, s.self_destructs)
DestructTouchedDead(s) ==
    FoldSet(LAMBDA a, acc : IF IsDead(acc, a) THEN Destruct(acc, a) ELSE acc, s, s.touched)

----------------------------------------------------------------------------
(* Access lists, storage *)

(* access_account *)
AccessAccount(s, a) ==
    IF a \in s.accessed_addresses THEN s
    ELSE [Push(s, [delta |-> "AccountAccess", address |-> a])
            EXCEPT !.accessed_addresses = @ \cup {a}]

(* access_storage *)
AccessStorage(s, a, k) ==
    IF <<a, k>> \in s.accessed_storage_keys THEN s
    ELSE [Push(s, [delta |-> "StorageAccess", address |-> a, key |-> k])
            EXCEPT !.accessed_storage_keys = @ \cup {<<a, k>>}]

(* The three places get_storage looks for a value, in its order. *)
Fresh(s, a) == (a \in DOMAIN s.objects /\ s.objects[a].initial = None)
                  \/ a \in DOMAIN s.incarnations
StorageOf(s, a) == Get(s.storage, a, NoStorage)
StorageValue(s, a, k, original) ==
    LET st == StorageOf(s, a)
    IN  IF ~Exists(s, a) THEN 0
        ELSE IF ~original /\ k \in DOMAIN st.current THEN st.current[k]
        ELSE IF k \in DOMAIN st.committed THEN st.committed[k].original
        ELSE IF Fresh(s, a) THEN 0 ELSE s.db.slots[a][k]

(* get_storage: what the read leaves in the caches. *)
GetStorage(s, a, k, original) ==
    LET l  == GetObject(s, a)
        st == StorageOf(s, a)
        found == (~original /\ k \in DOMAIN st.current) \/ k \in DOMAIN st.committed
        v  == s.db.slots[a][k]
    IN  IF ~Exists(l, a) THEN l
        ELSE [l EXCEPT !.storage =
                 Put(@, a, IF found \/ Fresh(l, a) THEN st
                           ELSE [st EXCEPT !.committed =
                                   Put(@, k, [initial |-> v, original |-> v])])]

(* set_storage *)
SetStorage(s, a, k, value) ==
    LET previous == StorageValue(s, a, k, FALSE)
        l == GetStorage(s, a, k, FALSE)
    IN  IF previous = value THEN l
        ELSE Push([l EXCEPT !.storage =
                      Put(@, a, [StorageOf(l, a) EXCEPT !.current = Put(@, k, value)])],
                  [delta |-> "StorageChange", address |-> a, key |-> k, previous |-> previous])

----------------------------------------------------------------------------
(* Substate, snapshots *)

AddLog(s, log) == [s EXCEPT !.logs = Append(@, log)]
AddRefund(s, amount) == [s EXCEPT !.refund = @ + amount]
SubtractRefund(s, amount) == [s EXCEPT !.refund = @ - amount]

(* Delta::revert *)
RevertDelta(s, d) ==
    LET a == d.address
    IN  CASE d.delta = "Create" -> [s EXCEPT !.objects = Without(@, a)]
          [] d.delta = "Update" -> [s EXCEPT !.objects = Put(@, a, d.previous)]
          [] d.delta = "UpdateBalance" -> [s EXCEPT !.objects[a].current.balance = d.previous]
          [] d.delta = "Incarnation" ->
               [s EXCEPT !.incarnations = IF @[a] = 1 THEN Without(@, a) ELSE Put(@, a, @[a] - 1)]
          [] d.delta = "Selfdestruct" -> [s EXCEPT !.self_destructs = @ \ {a}]
          [] d.delta = "Touch" -> [s EXCEPT !.touched = @ \ {a}]
          [] d.delta = "StorageChange" ->
               [s EXCEPT !.storage = Put(@, a, [StorageOf(s, a) EXCEPT
                                                  !.current = Put(@, d.key, d.previous)])]
          [] d.delta = "StorageWipe" -> [s EXCEPT !.storage = Put(@, a, d.storage)]
          [] d.delta = "StorageCreate" -> [s EXCEPT !.storage = Without(@, a)]
          [] d.delta = "StorageAccess" ->
               [s EXCEPT !.accessed_storage_keys = @ \ {<<a, d.key>>}]
          [] d.delta = "AccountAccess" -> [s EXCEPT !.accessed_addresses = @ \ {a}]

(* take_snapshot *)
TakeSnapshot(s) ==
    [journal_size |-> Len(s.journal), log_size |-> Len(s.logs), refund |-> s.refund]

(* revert_to_snapshot: the last delta first. *)
RevertToSnapshot(s, snapshot) ==
    LET undone == SubSeq(s.journal, snapshot.journal_size + 1, Len(s.journal))
    IN  [FoldRight(LAMBDA d, acc : RevertDelta(acc, d), undone, s)
           EXCEPT !.journal = SubSeq(@, 1, snapshot.journal_size),
                  !.logs = SubSeq(@, 1, snapshot.log_size),
                  !.refund = snapshot.refund]

(* finalize_transaction: what the transaction wrote becomes the original. *)
FinalizeTransaction(s) ==
    LET Finalized(st) ==
          [committed |-> [k \in DOMAIN st.current |->
                             [initial |-> IF k \in DOMAIN st.committed
                                          THEN st.committed[k].initial ELSE 0,
                              original |-> st.current[k]]] @@ st.committed,
           current |-> EmptyMap]
    IN  [s EXCEPT !.storage = [a \in DOMAIN @ |-> Finalized(@[a])]]

(* clear_journal_and_substate *)
ClearJournalAndSubstate(s) ==
    [s EXCEPT !.journal = <<>>, !.self_destructs = {}, !.logs = <<>>, !.touched = {},
              !.refund = 0, !.accessed_addresses = {}, !.accessed_storage_keys = {}]
=============================================================================
