---------------------------- MODULE HeaderSlices ----------------------------
(***************************************************************************)
(* The window of header slices that the three header downloaders share      *)
(* (headers_downloader/headers/header_slices.rs), and the checks on the     *)
(* headers of a slice (verification/header_slice_verifier.rs).              *)
(*                                                                          *)
(* A header is a record [number, hash, parent, ok]: hash and parent are     *)
(* block identifiers, and ok says that the timestamp and the difficulty are *)
(* right for a child of the block "parent".  A slice without headers (None) *)
(* has headers = <<>>: an empty vector is never stored.                     *)
(*                                                                          *)
(* A window is a record: its slices, the block number after the last slice  *)
(* (max), and one counter per status.  The counters are state of their own  *)
(* in the code (atomics changed beside the slices), and they are what every *)
(* stage waits on, so they are kept here and never recomputed.  An usize    *)
(* that wrapped below zero is a negative number here.                       *)
(***************************************************************************)
EXTENDS Integers, Sequences, FiniteSets

CONSTANTS SliceSize     \* HEADER_SLICE_SIZE, 192 in the code

ASSUME SliceSizeAssumption == SliceSize \in Nat \ {0}

Statuses == {"Empty", "Waiting", "Downloaded", "VerifiedInternally",
             "Verified", "Invalid", "Fork", "Saved"}

NoPeer == "none"

EmptySlice(start) == [start |-> start, status |-> "Empty",
                      headers |-> <<>>, peer |-> NoPeer]

AlignToSliceStart(num) == (num \div SliceSize) * SliceSize

NoSlices == [slices |-> <<>>, max |-> 0, count |-> [s \in Statuses |-> 0]]

(* slices.iter().filter(|s| s.status == status) *)
InStatus(w, status) == {i \in DOMAIN w.slices : w.slices[i].status = status}

(* from_slices_vec: the counters start from the statuses of the slices. *)
WindowOf(slices, max) ==
    [slices |-> slices, max |-> max,
     count |-> [s \in Statuses |->
                  Cardinality({i \in DOMAIN slices : slices[i].status = s})]]

\* Mutant of Refilled: the slice limit is ignored.
RefilledPastLimit(w, maxSlices, final) ==
    LET left == (final - w.max + SliceSize - 1) \div SliceSize
    IN  [w EXCEPT !.slices = @ \o [i \in 1..left |-> EmptySlice(w.max + (i - 1) * SliceSize)],
                  !.max = @ + left * SliceSize,
                  !.count["Empty"] = @ + left]

(* refill: Empty slices are pushed while there is room below final. *)
Refilled(w, maxSlices, final) ==
    LET room  == maxSlices - Len(w.slices)
        left  == (final - w.max + SliceSize - 1) \div SliceSize
        Least(a, b) == IF a < b THEN a ELSE b
        n     == IF room < 0 \/ left < 0 THEN 0 ELSE Least(room, left)
    IN  [w EXCEPT !.slices = @ \o [i \in 1..n |-> EmptySlice(w.max + (i - 1) * SliceSize)],
                  !.max = @ + n * SliceSize,
                  !.count["Empty"] = @ + n]

(* HeaderSlices::new *)
NewWindow(start, maxSlices, final) ==
    Refilled(WindowOf(<<>>, start), maxSlices, final)

(* set_slice_status on every slice of a set of positions. *)
SetStatuses(w, I, status) ==
    [w EXCEPT !.slices = [i \in DOMAIN @ |->
                            IF i \in I THEN [@[i] EXCEPT !.status = status] ELSE @[i]],
              !.count = [s \in Statuses |->
                           @[s] - Cardinality({i \in I : w.slices[i].status = s})
                                + (IF s = status THEN Cardinality(I) ELSE 0)]]

(* The headers of the slices at a set of positions become None. *)
DropHeaders(w, I) ==
    [w EXCEPT !.slices = [i \in DOMAIN @ |->
                            IF i \in I THEN [@[i] EXCEPT !.headers = <<>>] ELSE @[i]]]

\* Mutant of RemoveStatus: the counter is not brought down.
RemoveKeepsCount(w, status) ==
    [w EXCEPT !.slices = SelectSeq(@, LAMBDA s : s.status # status)]

(* remove: the slices of a status leave the window, wherever they are. *)
RemoveStatus(w, status) ==
    LET kept == SelectSeq(w.slices, LAMBDA s : s.status # status)
    IN  [w EXCEPT !.slices = kept,
                  !.count[status] = @ - (Len(w.slices) - Len(kept))]

(* find_by_start_block_num: the position of the slice, or none. *)
AtStart(w, start) == {i \in DOMAIN w.slices : w.slices[i].start = start}

(* find_by_block_num: only a slice that has the header. *)
FindByBlockNum(w, num) ==
    {i \in AtStart(w, AlignToSliceStart(num)) :
        num < w.slices[i].start + Len(w.slices[i].headers)}

(* block_num_range().end *)
RangeEnd(slice) == slice.start + Len(slice.headers)

(* reset_to_single_slice *)
SingleSlice(slice) == WindowOf(<<slice>>, slice.start + SliceSize)

(* prepend_slice, when it does not fail. *)
CanPrepend(w, maxSlices) ==
    Len(w.slices) \in 1..(maxSlices - 1) /\ w.slices[1].start >= SliceSize

Prepended(w) ==
    [w EXCEPT !.slices = <<EmptySlice(w.slices[1].start - SliceSize)>> \o @,
              !.count["Empty"] = @ + 1]

Appended(w) ==
    [w EXCEPT !.slices = Append(@, EmptySlice(w.max)),
              !.max = @ + SliceSize,
              !.count["Empty"] = @ + 1]

\* Mutant of TrimStart: the counters keep the removed slices.
TrimKeepsCount(w, maxSlices) ==
    LET n == IF Len(w.slices) > maxSlices THEN Len(w.slices) - maxSlices ELSE 0
    IN  [w EXCEPT !.slices = SubSeq(@, n + 1, Len(@))]

(* trim_start_to_fit_max_slices *)
TrimStart(w, maxSlices) ==
    LET n == IF Len(w.slices) > maxSlices THEN Len(w.slices) - maxSlices ELSE 0
    IN  [w EXCEPT !.slices = SubSeq(@, n + 1, Len(@)),
                  !.count = [s \in Statuses |->
                     @[s] - Cardinality({i \in 1..n : w.slices[i].status = s})]]

MinBlockNum(w) == IF w.slices = <<>> THEN w.max ELSE w.slices[1].start

IsEmptyAtFinal(w, final) == w.slices = <<>> /\ w.max >= final

(* contains_status: the counter, not the slices, is consulted. *)
ContainsStatus(w, status) == w.count[status] # 0

(* Positions of the leading run of slices whose status is in a set. *)
LeadingRun(w, S) ==
    {i \in DOMAIN w.slices : \A j \in 1..i : w.slices[j].status \in S}

----------------------------------------------------------------------------
(* header_slice_verifier.rs *)

VerifyLink(child, parent) ==
    /\ child.parent = parent.hash
    /\ child.number = parent.number + 1
    /\ child.ok

LinkedByParentHash(headers) ==
    \A i \in 2..Len(headers) : headers[i].parent = headers[i-1].hash

VerifySlice(headers, start) ==
    /\ \A i \in 2..Len(headers) : VerifyLink(headers[i], headers[i-1])
    /\ headers # <<>> => headers[1].number = start

LastHeader(slice) == slice.headers[Len(slice.headers)]

----------------------------------------------------------------------------
(* What the stages do to one window. *)

\* Mutant of UpdateSlice: the first header is taken for the parent and dropped.
UpdateSliceTail(w, i, headers, peer) ==
    LET d == SetStatuses(w, {i}, "Downloaded")
    IN  [d EXCEPT !.slices[i].headers = Tail(headers), !.slices[i].peer = peer]

(* FetchReceiveStage::update_slice *)
UpdateSlice(w, i, headers, peer) ==
    LET d == SetStatuses(w, {i}, "Downloaded")
    IN  [d EXCEPT !.slices[i].headers = headers, !.slices[i].peer = peer]

(* find_batch_by_status(Downloaded, num_cpus) *)
NextBatch(w, size) ==
    LET down == InStatus(w, "Downloaded")
    IN  {w.slices[i].start :
            i \in {i \in down : Cardinality({j \in down : j < i}) < size}}

\* Mutant of VerifySliceLink: any whole slice is taken.
VerifySliceLinkAny(slice, parent, genesis) == Len(slice.headers) = SliceSize

(* VerifyLinkLinearStage::verify_slice_link *)
VerifySliceLink(slice, parent, genesis) ==
    /\ Len(slice.headers) = SliceSize
    /\ IF slice.headers[1].number = 0
       THEN slice.headers[1].hash = genesis
       ELSE VerifyLink(slice.headers[1], parent)

\* Mutant of UpdatedCount: the slices linked before count again.
UpdatedCountAll(linked, decided) == Cardinality(linked \cup decided)

(* The updated_count of a pass over the pending slices. *)
UpdatedCount(linked, decided) == Cardinality(decided)

(* verify_pending_monotonic: after the slices already linked, internally     *)
(* verified slices are linked one after the other until one does not fit.    *)
LinkPending(w, last, genesis, invalid) ==
    LET linked  == LeadingRun(w, {"Verified", "Saved"})
        pending == LeadingRun(w, {"Verified", "Saved", "VerifiedInternally"}) \ linked
        parentOf(i) == IF i - 1 \in pending THEN LastHeader(w.slices[i-1]) ELSE last
        fits    == {i \in pending : \A j \in pending :
                       j <= i => VerifySliceLink(w.slices[j], parentOf(j), genesis)}
        misfit  == {i \in pending \ fits : i - 1 \in fits \cup linked \cup {0}}
    IN  [window  |-> SetStatuses(SetStatuses(w, fits, "Verified"), misfit, invalid),
         last    |-> IF fits = {} THEN last
                     ELSE LastHeader(w.slices[CHOOSE i \in fits : \A j \in fits : j <= i]),
         updated |-> UpdatedCount(linked, fits \cup misfit)]

(* Every counter equals the number of slices it counts. *)
CountersAgree(w) ==
    \A s \in Statuses : w.count[s] = Cardinality(InStatus(w, s))

(* The slices follow each other without a gap up to the end of the window. *)
Contiguous(w) ==
    \A i \in DOMAIN w.slices :
        w.slices[i].start = w.max - (Len(w.slices) - i + 1) * SliceSize
=============================================================================
