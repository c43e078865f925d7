------------------------------- MODULE Buffer -------------------------------
(***************************************************************************)
(* The write buffer of the execution stage (state/buffer.rs) over the       *)
(* tables of the database, the write of an executed block into it           *)
(* (IntraBlockState::write_to_db), and the unwind of the tables by their    *)
(* change sets (stages/execution.rs).                                       *)
(*                                                                          *)
(* Tables t: accounts[a] (None: no row), slots[a][k] (0: no row), the two   *)
(* change set tables as functions from the key of a row to the value it     *)
(* records, <<block, address>> and <<block, address, location>>, and the    *)
(* hashes with a row in the Code table.  The buffer b keeps overlays of the *)
(* same shape.                                                              *)
(***************************************************************************)
EXTENDS IntraBlockState

LOCAL INSTANCE SequencesExt
LOCAL INSTANCE FiniteSetsExt
LOCAL INSTANCE Functions

CONSTANTS PruneFrom     \* Execution::prune_from

(* Buffer::new *)
NewBuffer ==
    [accounts |-> EmptyMap, storage |-> EmptyMap, account_changes |-> EmptyMap,
     storage_changes |-> EmptyMap, code |-> {}, block |-> 0, changed_storage |-> {}]

NoOverlay == [erased |-> FALSE, slots |-> EmptyMap]

(* read_account, read_storage: the overlay, then the table. *)
ReadAccount(b, t, a) == Get(b.accounts, a, t.accounts[a])
ReadStorage(b, t, a, k) ==
    LET overlay == Get(b.storage, a, NoOverlay)
    IN  IF k \in DOMAIN overlay.slots THEN overlay.slots[k]
        ELSE IF overlay.erased THEN 0 ELSE t.slots[a][k]

ReadAll(b, t) ==
    [accounts |-> [a \in Addresses |-> ReadAccount(b, t, a)],
     slots    |-> [a \in Addresses |-> [k \in Keys |-> ReadStorage(b, t, a, k)]]]

(* begin_block *)
BeginBlock(b, block) == [b EXCEPT !.block = block, !.changed_storage = {}]

(* erase_storage: the values in the overlay are recorded first, then, unless
   an earlier erasure has already discarded them, the rows of the table. *)
EraseStorage(b, t, a) ==
    LET overlay == Get(b.storage, a, NoOverlay)
        Row(k) == <<b.block, a, k>>
        stored == {k \in Keys : ~overlay.erased /\ t.slots[a][k] # 0}
        buffered == [r \in {Row(k) : k \in DOMAIN overlay.slots} |-> overlay.slots[r[3]]]
        discarded == [r \in {Row(k) : k \in stored} |-> t.slots[a][r[3]]]
    IN  [b EXCEPT !.storage = Put(@, a, [erased |-> TRUE, slots |-> EmptyMap]),
                  !.storage_changes = (buffered @@ @) @@ discarded]

(* update_storage *)
UpdateStorage(b, a, k, initial, current) ==
    LET overlay == Get(b.storage, a, NoOverlay)
        kept == b.block >= PruneFrom
    IN  IF current = initial THEN b
        ELSE [b EXCEPT
                !.changed_storage = IF kept THEN @ \cup {a} ELSE @,
                !.storage_changes = IF kept THEN Put(@, <<b.block, a, k>>, initial) ELSE @,
                !.storage = Put(@, a, [overlay EXCEPT !.slots = Put(@, k, current)])]

\* Mutant of UpdateAccount: a deleted account is not recorded.
UpdateAccountLive(b, a, initial, current) ==
    IF current = initial /\ a \notin b.changed_storage THEN b
    ELSE [b EXCEPT
            !.account_changes = IF b.block >= PruneFrom /\ current # None
                                THEN Put(@, <<b.block, a>>, initial) ELSE @,
            !.accounts = IF current = initial THEN @ ELSE Put(@, a, current)]

(* update_account *)
UpdateAccount(b, a, initial, current) ==
    IF current = initial /\ current # None /\ a \notin b.changed_storage THEN b
    ELSE [b EXCEPT
            !.account_changes = IF b.block >= PruneFrom
                                THEN Put(@, <<b.block, a>>, initial) ELSE @,
            !.accounts = IF current = initial THEN @ ELSE Put(@, a, current)]

----------------------------------------------------------------------------
(* IntraBlockState::write_to_db: erasures, then storage, then accounts *)

WriteErasures(s, b, t) ==
    FoldSet(LAMBDA a, acc : EraseStorage(acc, t, a), b, DOMAIN s.incarnations)

WriteStorage(s, b) ==
    LET live == {a \in DOMAIN s.storage : a \in DOMAIN s.objects /\ s.objects[a].current # None}
        slots == UNION {{<<a, k>> : k \in DOMAIN s.storage[a].committed} : a \in live}
        Value(x) == s.storage[x[1]].committed[x[2]]
    IN  FoldSet(LAMBDA x, acc :
                   UpdateStorage(acc, x[1], x[2], Value(x).initial, Value(x).original),
                b, slots)

WriteAccounts(s, b) ==
    FoldSet(LAMBDA a, acc :
               UpdateAccount(acc, a, s.objects[a].initial, s.objects[a].current),
            b, DOMAIN s.objects)

\* Mutant of WriteBlock: only the last block's code is kept.
WriteBlockLastCode(s, b, t, block) ==
    LET stored == WriteStorage(s, WriteErasures(s, BeginBlock(b, block), t))
    IN  [WriteAccounts(s, stored) EXCEPT !.code = s.new_code]

WriteBlock(s, b, t, block) ==
    LET stored == WriteStorage(s, WriteErasures(s, BeginBlock(b, block), t))
    IN  [WriteAccounts(s, stored) EXCEPT !.code = @ \cup s.new_code]

----------------------------------------------------------------------------
(* Buffer to tables *)

(* write_history: the two change sets and no state. *)
WriteHistory(b, t) ==
    [t EXCEPT !.account_changes = b.account_changes @@ @,
              !.storage_changes = b.storage_changes @@ @]
HistoryTaken(b) == [b EXCEPT !.account_changes = EmptyMap, !.storage_changes = EmptyMap]

\* Mutant of WriteToTables: the rows of an erased account stay in the table.
WriteToTablesNoErase(b, t) ==
    [WriteHistory(b, t) EXCEPT
       !.accounts = [a \in Addresses |-> ReadAccount(b, t, a)],
       !.slots = [a \in Addresses |-> [k \in Keys |->
                    IF a \in DOMAIN b.storage THEN Get(b.storage[a].slots, k, @[a][k])
                    ELSE @[a][k]]],
       !.code = @ \cup b.code]

(* Buffer::write_to_db *)
WriteToTables(b, t) ==
    LET Kept(a) == IF Get(b.storage, a, NoOverlay).erased THEN [k \in Keys |-> 0] ELSE t.slots[a]
    IN  [WriteHistory(b, t) EXCEPT
           !.accounts = [a \in Addresses |-> Get(b.accounts, a, @[a])],
           !.slots = [a \in Addresses |->
                        [k \in Keys |-> Get(Get(b.storage, a, NoOverlay).slots, k, Kept(a)[k])]],
           !.code = @ \cup b.code]

----------------------------------------------------------------------------
(* Execution::unwind *)

(* Rows in key order, the last first: the order of cursor.last() *)
Descending(rows) ==
    LET Before(r, q) ==
          \E i \in DOMAIN r : r[i] > q[i] /\ \A j \in 1..(i - 1) : r[j] = q[j]
    IN  [i \in 1..Cardinality(rows) |->
            CHOOSE r \in rows : Cardinality({q \in rows : Before(q, r)}) = i - 1]

(* account_cursor: put, or seek and delete_current; seek stops at the first
   row at or after the address. *)
UnwindAccount(accounts, a, value) ==
    LET after == {x \in Addresses : x >= a /\ accounts[x] # None}
    IN  IF value # None THEN [accounts EXCEPT ![a] = value]
        ELSE IF after # {} THEN [accounts EXCEPT ![Min(after)] = None]
        ELSE accounts

\* Mutant of Unwound: rows are taken from the oldest to the newest.
UnwoundForward(t, to) ==
    LET gone(changes) == {r \in DOMAIN changes : r[1] > to}
    IN  [t EXCEPT
           !.accounts = FoldLeft(LAMBDA acc, r : UnwindAccount(acc, r[2], t.account_changes[r]),
                                 @, Reverse(Descending(gone(t.account_changes)))),
           !.slots = FoldLeft(LAMBDA acc, r : [acc EXCEPT ![r[2]][r[3]] = t.storage_changes[r]],
                              @, Reverse(Descending(gone(t.storage_changes)))),
           !.account_changes = RestrictDomain(@, LAMBDA r : r[1] <= to),
           !.storage_changes = RestrictDomain(@, LAMBDA r : r[1] <= to)]

Unwound(t, to) ==
    LET gone(changes) == {r \in DOMAIN changes : r[1] > to}
    IN  [t EXCEPT
           !.accounts = FoldLeft(LAMBDA acc, r : UnwindAccount(acc, r[2], t.account_changes[r]),
                                 @, Descending(gone(t.account_changes))),
           !.slots = FoldLeft(LAMBDA acc, r : [acc EXCEPT ![r[2]][r[3]] = t.storage_changes[r]],
                              @, Descending(gone(t.storage_changes))),
           !.account_changes = RestrictDomain(@, LAMBDA r : r[1] <= to),
           !.storage_changes = RestrictDomain(@, LAMBDA r : r[1] <= to)]
=============================================================================
