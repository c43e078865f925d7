--------------------------- MODULE ForkyDownload ---------------------------
(***************************************************************************)
(* The last phase of the header download, across its runs: DownloaderForky   *)
(* (two windows of slices, "main" for the canonical chain and "fork" for a   *)
(* competing one), ForkModeStage, ForkSwitchCommand, and the HeaderDownload  *)
(* stage of the sync with its transaction, commits, unwinds and restarts.    *)
(*                                                                           *)
(* As in LinearDownload an action of the loop is one completed               *)
(* Stage::execute, and verification is split around its thread pool.  The    *)
(* loop may end at any time (TimeoutStage).  Penalizing is one step here:    *)
(* its two halves are the subject of LinearDownload.                         *)
(*                                                                           *)
(* The database is a record: canon (CanonicalHeader, by number), rows        *)
(* (Header), td (the hashes that have HeadersTotalDifficulty), last          *)
(* (LastHeader) and progress (the stage's SyncStage entry).                  *)
(***************************************************************************)
EXTENDS HeaderSlices

LOCAL INSTANCE SequencesExt
LOCAL INSTANCE FiniteSetsExt

CONSTANTS
    Start,          \* target_final_block_num of the linear phase, aligned
    MaxBlock,       \* no peer has a block above this one
    MaxSlices,      \* forky_max_blocks_count / HEADER_SLICE_SIZE
    BatchSize,      \* num_cpus::get()
    ParentHeader,   \* the canonical header of block Start - 1
    Answers,        \* the header lists peers may send
    MaxRuns         \* bound on runs of the loop and restarts

ASSUME ForkyAssumption ==
    /\ Start \in Nat /\ Start >= SliceSize /\ Start % SliceSize = 0
    /\ MaxBlock \in Nat /\ MaxSlices \in Nat \ {0} /\ BatchSize \in Nat \ {0}
    /\ ParentHeader.number = Start - 1
    /\ <<>> \notin Answers
    /\ MaxRuns \in Nat

Groups == {"main", "fork"}
Canonical == {"Verified", "Saved"}      \* is_canonical_slice_status
NoHash == <<"none", -1>>
NoHeader == [number |-> -1, hash |-> NoHash, parent |-> NoHash, ok |-> FALSE, difficulty |-> 0]
NoCommand == [connection |-> -1]
Blocks == (Start - 1)..MaxBlock
SomeHeaders == UNION {{a[i] : i \in DOMAIN a} : a \in Answers}

VARIABLES
    win,            \* header_slices and fork_header_slices
    batch,          \* slices being verified: [start, verdict of the pool]
    mode,           \* VerifyLinkForkyStage.mode, "Linear" or "Fork"
    parent,         \* VerifyLinkForkyStage.last_verified_header
    lastVerified,   \* VerifyLinkLinearStage.last_verified_header
    remaining,      \* remaining counts of the link stage, by group
    canonicalRange, forkRange,      \* ForkModeStage
    saveRemaining,  \* SaveStage.remaining_count, by group
    extendRemaining,
    progressStart,  \* progress_start_block_num of the run
    command,        \* the ForkSwitchCommand on its way through the unwind
    phase,          \* "idle", "loop", "unwind" or "failed"
    tx, committed,  \* the database as seen by the transaction, and on disk
    runs            \* bound counter: runs and restarts

memory == <<win, batch, mode, parent, lastVerified, remaining, canonicalRange,
            forkRange, saveRemaining, extendRemaining, progressStart, command>>
vars == <<win, batch, mode, parent, lastVerified, remaining, canonicalRange,
          forkRange, saveRemaining, extendRemaining, progressStart, command,
          phase, tx, committed, runs>>
linkState == <<mode, parent, lastVerified, remaining, canonicalRange, forkRange>>
outside == <<progressStart, committed, runs>>

NoRange == [start |-> 0, end |-> 0]
EmptyWindows == [g \in Groups |-> NoSlices]
NoBatch == [g \in Groups |-> {}]
Zeros == [g \in Groups |-> 0]

Init ==
    /\ win = EmptyWindows /\ batch = NoBatch
    /\ mode = "Linear" /\ parent = NoHeader /\ lastVerified = NoHeader
    /\ remaining = Zeros /\ saveRemaining = Zeros /\ extendRemaining = 0
    /\ canonicalRange = NoRange /\ forkRange = NoRange
    /\ progressStart = Start /\ command = NoCommand
    /\ phase = "idle"
    /\ tx = [canon |-> [n \in Blocks |-> IF n = Start - 1 THEN ParentHeader ELSE NoHeader],
             rows |-> {ParentHeader}, td |-> {ParentHeader.hash},
             last |-> ParentHeader.hash, progress |-> Start - 1]
    /\ committed = tx
    /\ runs = 0

----------------------------------------------------------------------------
(* save_stage.rs: rows of the database *)

(* update_canonical_chain_header *)
UpdateCanonical(d, h) ==
    [d EXCEPT !.canon[h.number] = h, !.last = h.hash,
              !.td = IF h.parent \in d.td THEN @ \cup {h.hash} ELSE @]

(* save_header, for all headers of a slice *)
SaveHeaders(d, headers, canonical) ==
    FoldLeft(LAMBDA acc, h :
                [(IF canonical THEN UpdateCanonical(acc, h) ELSE acc)
                    EXCEPT !.rows = @ \cup {h}],
             d, headers)

(* load_canonical_header_by_num *)
CanonicalHeader(d, num) ==
    IF d.canon[num] \in d.rows THEN d.canon[num] ELSE NoHeader

(* SaveStage::unwind; it fails when the block to stay has no canonical row. *)
UnwoundTo(d, to) ==
    LET gone == {n \in Blocks : n > to /\ \A m \in (to + 1)..n : d.canon[m] # NoHeader}
    IN  [d EXCEPT !.canon = [n \in Blocks |-> IF n \in gone THEN NoHeader ELSE @[n]],
                  !.last = d.canon[to].hash]

----------------------------------------------------------------------------
(* fork_mode_stage.rs *)

(* find_canonical_range *)
CanonicalRange(w) ==
    LET run == LeadingRun(w, Canonical)
    IN  [start |-> MinBlockNum(w),
         end   |-> IF run = {} THEN MinBlockNum(w) ELSE RangeEnd(w.slices[Max(run)])]

(* find_fork_range: the run of canonical statuses at the end. *)
ForkRange(w) ==
    LET run == {i \in DOMAIN w.slices :
                   \A j \in i..Len(w.slices) : w.slices[j].status \in Canonical}
        end == RangeEnd(w.slices[Len(w.slices)])
    IN  IF w.slices = <<>> THEN NoRange
        ELSE [start |-> IF run = {} THEN end ELSE w.slices[Min(run)].start, end |-> end]

(* verify_slices_link *)
SlicesLink(child, prev) ==
    /\ child.headers # <<>> /\ prev.headers # <<>>
    /\ VerifyLink(child.headers[1], LastHeader(prev))

(* try_extend_canonical: the slice follows the end of the canonical range. *)
ExtendsCanonical(main, range, i) ==
    \E j \in FindByBlockNum(main, range.end - 1) : SlicesLink(main.slices[i], main.slices[j])

\* Mutant of ExtendsFork: only the numbers are compared.
ExtendsForkNumbers(fork, range, i) ==
    \E j \in FindByBlockNum(fork, range.start) :
        fork.slices[j].headers[1].number = LastHeader(fork.slices[i]).number + 1

(* try_extend_fork: the slice comes before the start of the fork range. *)
ExtendsFork(fork, range, i) ==
    \E j \in FindByBlockNum(fork, range.start) : SlicesLink(fork.slices[j], fork.slices[i])

HeaderAt(w, num) ==
    LET slice == w.slices[CHOOSE i \in FindByBlockNum(w, num) : TRUE]
    IN  slice.headers[num - slice.start + 1]

\* Mutant of Counted: the blocks of the first slice only.
CountedOneSlice(w, range, connection) ==
    {n \in (connection + 1)..(range.end - 1) :
        AlignToSliceStart(n) = AlignToSliceStart(connection)}

(* range_difficulty: the blocks after the connection, up to the first one of *)
(* the range that is not there.                                              *)
Counted(w, range, connection) ==
    LET Has(n) == /\ n \in range.start..(range.end - 1)
                  /\ \E i \in FindByBlockNum(w, n) : w.slices[i].status \in Canonical
    IN  {n \in (connection + 1)..(range.end - 1) : \A m \in (connection + 1)..n : Has(m)}

RangeDifficulty(w, range, connection) ==
    MapThenSumSet(LAMBDA n : HeaderAt(w, n).difficulty, Counted(w, range, connection))

(* find_fork_connection_block_num: the last equal hash, -1 if none. *)
ConnectionOf(main, fork, range) ==
    LET pairs == {<<i, j>> \in (DOMAIN main.slices) \X FindByBlockNum(fork, range.start) :
                     main.slices[i].start = fork.slices[j].start}
        equal == UNION {{main.slices[p[1]].headers[k].number :
                            k \in {k \in DOMAIN main.slices[p[1]].headers
                                          \cap DOMAIN fork.slices[p[2]].headers :
                                     main.slices[p[1]].headers[k].hash
                                        = fork.slices[p[2]].headers[k].hash}} : p \in pairs}
    IN  IF equal = {} THEN -1 ELSE Max(equal)

(* refetch_canonical_slice, refetch_fork_slice *)
Refetch(w, I) == DropHeaders(SetStatuses(w, I, "Empty"), I)

(* find_last_verified_header, or the parent of the window. *)
LastVerified(w, start) ==
    LET run == LeadingRun(w, Canonical)
    IN  IF run = {} \/ w.slices[Max(run)].headers = <<>> THEN start
        ELSE LastHeader(w.slices[Max(run)])

----------------------------------------------------------------------------
(* The stages of a group: fetch, retry, verify, penalize, save *)

Running == phase = "loop"
Update(g, w) == win' = [win EXCEPT ![g] = w]

FetchRequest(g) ==
    LET empty == InStatus(win[g], "Empty")
    IN  /\ Running
        /\ \E last \in empty :
              Update(g, SetStatuses(win[g], {i \in empty : i <= last}, "Waiting"))
        /\ UNCHANGED <<batch, linkState, saveRemaining, extendRemaining, command, phase, tx, outside>>

(* Both groups listen to the same stream, each takes what it waits for. *)
FetchReceive(g, answer) ==
    /\ Running
    /\ \E i \in AtStart(win[g], answer[1].number) :
          /\ win[g].slices[i].status = "Waiting"
          /\ Update(g, UpdateSlice(win[g], i, answer, NoPeer))
    /\ UNCHANGED <<batch, linkState, saveRemaining, extendRemaining, command, phase, tx, outside>>

Retry(g) ==
    /\ Running
    /\ \E late \in (SUBSET InStatus(win[g], "Waiting")) \ {{}} :
          Update(g, SetStatuses(win[g], late, "Empty"))
    /\ UNCHANGED <<batch, linkState, saveRemaining, extendRemaining, command, phase, tx, outside>>

(* A batch waits for the thread pool, which locks its slices one by one:     *)
(* each verdict is about the headers of that moment.                         *)
BatchOf(w) == {[start |-> n, verdict |-> "none"] : n \in NextBatch(w, BatchSize)}

VerifyBegin(g) ==
    /\ Running
    /\ batch[g] = {}
    /\ ContainsStatus(win[g], "Downloaded")
    /\ batch' = [batch EXCEPT ![g] = BatchOf(win[g])]
    /\ UNCHANGED <<win, linkState, saveRemaining, extendRemaining, command, phase, tx, outside>>

At(w, start) == CHOOSE i \in AtStart(w, start) : TRUE

(* VerifySlicesStage::verify_slice *)
SliceVerdict(headers, start) == headers # <<>> /\ VerifySlice(headers, start)

(* verify_slices_parallel, for one slice *)
VerifyPool(g) ==
    \E b \in batch[g] :
        LET good == SliceVerdict(win[g].slices[At(win[g], b.start)].headers, b.start)
        IN  /\ Running
            /\ b.verdict = "none"
            /\ batch' = [batch EXCEPT ![g] =
                   (@ \ {b}) \cup {[b EXCEPT !.verdict = IF good THEN "good" ELSE "bad"]}]
            /\ UNCHANGED <<win, linkState, saveRemaining, extendRemaining, command, phase, tx, outside>>

(* The verdicts are applied to whatever the slices hold by then. *)
VerifyFinish(g) ==
    LET w == win[g]
        Judged(verdict) == {At(w, b.start) : b \in {b \in batch[g] : b.verdict = verdict}}
        next == SetStatuses(SetStatuses(w, Judged("good"), "VerifiedInternally"),
                            Judged("bad"), "Invalid")
    IN  /\ Running
        /\ batch[g] # {}
        /\ \A b \in batch[g] : b.verdict # "none"
        /\ Update(g, next)
        /\ batch' = [batch EXCEPT ![g] = BatchOf(next)]
        /\ UNCHANGED <<linkState, saveRemaining, extendRemaining, command, phase, tx, outside>>

Penalize(g) ==
    /\ Running
    /\ ContainsStatus(win[g], "Invalid")
    /\ Update(g, Refetch(win[g], InStatus(win[g], "Invalid")))
    /\ UNCHANGED <<batch, linkState, saveRemaining, extendRemaining, command, phase, tx, outside>>

(* find_next_pending_monotonic for "main", find_by_status for "fork" *)
ToSave(g, w) ==
    InStatus(w, "Verified") \cap (IF g = "main" THEN LeadingRun(w, Canonical) ELSE DOMAIN w.slices)

(* SaveStage: in order and canonical for "main", any order and not canonical *)
(* for "fork".  It fails on a Verified slice without headers.                *)
Save(g) ==
    LET w      == win[g]
        toSave == ToSave(g, w)
        todo   == {i \in toSave : \A j \in toSave : j <= i => w.slices[j].headers # <<>>}
        done   == SetToSortSeq(todo, <)
    IN  /\ Running
        /\ w.count["Verified"] # saveRemaining[g]
        /\ Update(g, SetStatuses(w, todo, "Saved"))
        /\ tx' = FoldLeft(LAMBDA d, i : SaveHeaders(d, w.slices[i].headers, g = "main"),
                          tx, done)
        /\ saveRemaining' = [saveRemaining EXCEPT ![g] = w.count["Verified"] - Cardinality(toSave)]
        /\ phase' = IF todo = toSave THEN phase ELSE "over"
        /\ UNCHANGED <<batch, linkState, extendRemaining, command, outside>>

(* ExtendStage: a full window of Saved slices gets one more. *)
Extend ==
    LET w == win["main"]
    IN  /\ Running
        /\ w.count["Saved"] # extendRemaining
        /\ extendRemaining' = w.count["Saved"]
        /\ Update("main", IF w.count["Saved"] = Len(w.slices) THEN Appended(w) ELSE w)
        /\ UNCHANGED <<batch, linkState, saveRemaining, command, phase, tx, outside>>

----------------------------------------------------------------------------
(* VerifyLinkForkyStage *)

(* ForkModeStage::setup, on the window left by the linear link: the slice    *)
(* that does not fit starts the fork chain, and both neighbours are fetched. *)
SwitchToForkMode(main) ==
    LET range == CanonicalRange(main)
        cont  == {i \in FindByBlockNum(main, range.end) : main.slices[i].status = "Fork"}
        slice == [main.slices[CHOOSE i \in cont : TRUE] EXCEPT !.status = "Verified", !.peer = NoPeer]
        fork  == SingleSlice(slice)
    IN  IF cont = {}
        THEN /\ phase' = "over"
             /\ win' = [win EXCEPT !["main"] = main]
             /\ UNCHANGED <<mode, canonicalRange, forkRange>>
        ELSE /\ canonicalRange' = range
             /\ forkRange' = [start |-> slice.start, end |-> RangeEnd(slice)]
             /\ IF CanPrepend(fork, MaxSlices)
                THEN /\ win' = [main |-> Refetch(main, cont), fork |-> Prepended(fork)]
                     /\ mode' = "Fork" /\ UNCHANGED phase
                ELSE /\ win' = [main |-> Refetch(main, cont), fork |-> fork]
                     /\ phase' = "over" /\ UNCHANGED mode

LinkLinear ==
    LET link  == LinkPending(win["main"], lastVerified, NoHash, "Fork")
        forks == InStatus(link.window, "Fork")
        first == Min(forks)
    IN  /\ Running /\ mode = "Linear"
        /\ win["main"].count["VerifiedInternally"] # remaining["main"]
        /\ lastVerified' = link.last
        /\ \/ /\ forks = {}
              /\ Update("main", link.window)
              /\ UNCHANGED <<mode, canonicalRange, forkRange, phase>>
           \/ /\ forks # {}
              /\ link.window.slices[first].start = parent.number + 1
              /\ Update("main", SetStatuses(link.window, {first}, "Invalid"))
              /\ UNCHANGED <<mode, canonicalRange, forkRange, phase>>
           \/ /\ forks # {}
              /\ link.window.slices[first].start # parent.number + 1
              /\ SwitchToForkMode(link.window)
        /\ remaining' = IF mode' = "Fork" THEN Zeros
                        ELSE [remaining EXCEPT !["main"] =
                                 win["main"].count["VerifiedInternally"] - link.updated]
        /\ UNCHANGED <<batch, parent, saveRemaining, extendRemaining, command, tx, outside>>

(* ForkModeStage::process_pending.  The canonical chain is extended at its   *)
(* end, the fork at its start; a slice that does not link is fetched again.  *)
LinkFork ==
    LET pending == [g \in Groups |-> win[g].count["VerifiedInternally"]]
        main  == win["main"]
        fork  == win["fork"]
        cont  == {i \in FindByBlockNum(main, canonicalRange.end) :
                     main.slices[i].status = "VerifiedInternally" /\ pending["main"] > 0}
        grown == {i \in cont : ExtendsCanonical(main, canonicalRange, i)}
        fcont  == {i \in FindByBlockNum(fork, forkRange.start - 1) :
                     fork.slices[i].status = "VerifiedInternally" /\ pending["fork"] > 0}
        fgrown == {i \in fcont : ExtendsFork(fork, forkRange, i)}
        main1 == Refetch(SetStatuses(main, grown, "Verified"), cont \ grown)
        fork1 == Refetch(SetStatuses(fork, fgrown, "Verified"), fcont \ fgrown)
        crange == [canonicalRange EXCEPT !.end =
                     IF grown = {} THEN @ ELSE RangeEnd(main.slices[CHOOSE i \in grown : TRUE])]
        frange == [forkRange EXCEPT !.start =
                     IF fgrown = {} THEN @ ELSE fork.slices[CHOOSE i \in fgrown : TRUE].start]
        connection == IF fgrown = {} THEN -1 ELSE ConnectionOf(main1, fork1, frange)
        better == RangeDifficulty(fork1, frange, connection)
                     > RangeDifficulty(main1, crange, connection)
        updated == [main |-> Cardinality(cont), fork |-> Cardinality(fcont)]
        \* the slice after the extended canonical chain is fetched again too
        after == IF grown = {} THEN {} ELSE FindByBlockNum(main1, crange.end)
        afterUpdated == Cardinality({i \in after :
                           /\ main1.slices[i].status = "VerifiedInternally"
                           /\ updated["main"] < pending["main"]})
    IN  /\ Running /\ mode = "Fork"
        /\ \E g \in Groups : pending[g] # remaining[g]
        /\ canonicalRange' = crange
        /\ \/ /\ connection # -1 /\ better          \* switch_to_fork
              /\ command' = [connection |-> connection, canonicalRange |-> crange,
                             forkRange |-> frange]
              /\ phase' = "over"
              /\ win' = [main |-> main1, fork |-> fork1]
              /\ forkRange' = frange
              /\ remaining' = [g \in Groups |-> pending[g] - updated[g]]
              /\ UNCHANGED <<mode, lastVerified>>
           \/ /\ fgrown # {}                         \* discard_fork
              /\ \/ connection # -1 /\ ~better
                 \/ connection = -1 /\ frange.start = crange.start
              /\ win' = [main |-> main1, fork |-> NoSlices]
              /\ forkRange' = [frange EXCEPT !.start = frange.end]
              /\ mode' = "Linear"
              /\ lastVerified' = LastVerified(main1, parent)
              /\ remaining' = Zeros
              /\ UNCHANGED <<command, phase>>
           \/ /\ connection = -1
              /\ fgrown # {} => frange.start # crange.start
              /\ win' = [main |-> Refetch(main1, after),
                         fork |-> IF fgrown # {} /\ CanPrepend(fork1, MaxSlices)
                                  THEN Prepended(fork1) ELSE fork1]
              /\ phase' = IF fgrown # {} /\ ~CanPrepend(fork1, MaxSlices) THEN "over" ELSE phase
              /\ forkRange' = frange
              /\ remaining' = [main |-> pending["main"] - updated["main"] - afterUpdated,
                               fork |-> pending["fork"] - updated["fork"]]
              /\ UNCHANGED <<mode, lastVerified, command>>
        /\ UNCHANGED <<batch, parent, saveRemaining, extendRemaining, tx, outside>>

----------------------------------------------------------------------------
(* Runs of the loop: DownloaderForky::run and the HeaderDownload stage *)

(* The loop ends when a stage says so, or when TimeoutStage does: any time.  *)
LoopEnds == phase = "over" \/ Running

(* downloaded_count *)
DownloadedCount(w, start) ==
    MapThenSumSet(LAMBDA i : IF w.slices[i].start >= start THEN Len(w.slices[i].headers)
                             ELSE IF start < RangeEnd(w.slices[i]) THEN RangeEnd(w.slices[i]) - start
                             ELSE 0,
                  LeadingRun(w, {"Saved"}))

(* The end of a run: the report, then Progress or Unwind (the transaction is *)
(* dropped by the sync loop in that case).                                   *)
EndRun ==
    LET main == TrimStart(win["main"], MaxSlices)
    IN  /\ LoopEnds
        /\ win' = [main |-> main,
                   fork |-> IF MinBlockNum(win["fork"]) <= MinBlockNum(main)
                            THEN NoSlices ELSE win["fork"]]
        /\ batch' = NoBatch
        /\ IF command # NoCommand
           THEN /\ phase' = "unwind"
                /\ tx' = committed
           ELSE /\ phase' = "idle"
                /\ tx' = [tx EXCEPT !.progress =
                             progressStart + DownloadedCount(win["main"], progressStart) - 1]
        /\ UNCHANGED <<linkState, saveRemaining, extendRemaining, command, outside>>

(* HeaderDownload::unwind, called by the sync loop when the stage is past    *)
(* the unwind point, and the commit after it.                                *)
Unwind ==
    LET to == command.connection
    IN  /\ phase = "unwind"
        /\ IF tx.progress <= to THEN phase' = "idle" /\ UNCHANGED <<tx, committed>>
           ELSE IF tx.canon[to] = NoHeader THEN phase' = "failed" /\ UNCHANGED <<tx, committed>>
           ELSE /\ phase' = "idle"
                /\ tx' = [UnwoundTo(tx, to) EXCEPT !.progress = to]
                /\ committed' = tx'
        /\ UNCHANGED <<memory, runs>>

----------------------------------------------------------------------------
(* fork_switch_command.rs *)

SliceStarts(from, to) == {n \in from..(to - 1) : n % SliceSize = 0}

(* The unwraps and asserts of switch_to_fork hold. *)
CanSwitch(main, fork, c) ==
    LET promoted == SliceStarts(c.forkRange.start, c.forkRange.end)
    IN  /\ \A n \in promoted :
              /\ AtStart(main, n) # {} /\ AtStart(fork, n) # {}
              /\ RangeEnd(fork.slices[At(fork, n)]) \in {n + SliceSize, c.forkRange.end}
        /\ \A n \in SliceStarts(Max(promoted) + SliceSize, c.canonicalRange.end) :
              \E i \in AtStart(main, n) :
                 main.slices[i].status \in Canonical /\ main.slices[i].headers # <<>>

(* The fork slices take their places in the main window ... *)
Promoted(main, fork, c) ==
    LET starts == SliceStarts(c.forkRange.start, c.forkRange.end)
        In(status) == {At(main, n) : n \in {n \in starts :
                          fork.slices[At(fork, n)].status = status}}
        w == SetStatuses(SetStatuses(main, In("Verified"), "Verified"), In("Saved"), "Saved")
    IN  [w EXCEPT !.slices = [i \in DOMAIN @ |->
            IF @[i].start \in starts
            THEN [@[i] EXCEPT !.headers = fork.slices[At(fork, main.slices[i].start)].headers]
            ELSE @[i]]]

(* ... and the canonical slices above them are emptied. *)
SwitchToFork(main, fork, c) ==
    LET top  == Max(SliceStarts(c.forkRange.start, c.forkRange.end)) + SliceSize
        rest == {At(main, n) : n \in SliceStarts(top, c.canonicalRange.end)}
    IN  Refetch(Promoted(main, fork, c), rest)

(* update_canonical_chain_headers: only what the fork had saved. *)
UpdateCanonicalChain(d, main, c) ==
    LET saved == SetToSortSeq({i \in DOMAIN main.slices :
                                 /\ main.slices[i].start \in SliceStarts(c.forkRange.start, c.forkRange.end)
                                 /\ main.slices[i].status = "Saved"}, <)
        headers == FlattenSeq([k \in DOMAIN saved |-> main.slices[saved[k]].headers])
    IN  FoldLeft(UpdateCanonical, d, SelectSeq(headers, LAMBDA h : h.number > c.connection))

(* load_header_slices: whole slices of canonical rows, Empty ones after them. *)
LoadHeaderSlices(d, start) ==
    LET Whole(k) == \A n \in (start + (k-1) * SliceSize)..(start + k * SliceSize - 1) :
                       n \in Blocks /\ d.canon[n] \in d.rows
        Slice(k) == LET from == start + (k-1) * SliceSize
                    IN  IF \A j \in 1..k : Whole(j)
                        THEN [start |-> from, status |-> "Saved", peer |-> NoPeer,
                              headers |-> [i \in 1..SliceSize |-> d.canon[from + i - 1]]]
                        ELSE EmptySlice(from)
    IN  WindowOf([k \in 1..MaxSlices |-> Slice(k)], start + MaxSlices * SliceSize)

(* HeaderDownload::execute up to the loop: the pending switch is completed   *)
(* in the new transaction, the windows of the last run are taken over unless *)
(* the progress is below them, and the stages are built.                     *)
BeginRun ==
    LET switch == command # NoCommand
        main == IF switch THEN SwitchToFork(win["main"], win["fork"], command) ELSE win["main"]
        fork == IF switch THEN NoSlices ELSE win["fork"]
        d    == IF switch THEN UpdateCanonicalChain(tx, main, command) ELSE tx
        from == AlignToSliceStart(d.progress + 1)
        reuse == main.slices # <<>> /\ from >= MinBlockNum(main)
        start == IF reuse THEN MinBlockNum(main) ELSE Start
        windows == IF reuse THEN [main |-> main, fork |-> fork]
                   ELSE [main |-> LoadHeaderSlices(d, start), fork |-> NoSlices]
    IN  /\ phase = "idle"
        /\ runs < MaxRuns
        /\ runs' = runs + 1
        /\ IF (switch /\ ~CanSwitch(win["main"], win["fork"], command))
              \/ CanonicalHeader(d, start - 1) = NoHeader
           THEN phase' = "failed" /\ UNCHANGED <<memory, tx>>
           ELSE /\ from >= start
                /\ phase' = "loop"
                /\ tx' = d
                /\ win' = windows
                /\ command' = NoCommand
                /\ progressStart' = from
                /\ parent' = CanonicalHeader(d, start - 1)
                /\ mode' = IF windows.fork.slices = <<>> THEN "Linear" ELSE "Fork"
                /\ lastVerified' = LastVerified(windows.main, parent')
                /\ canonicalRange' = CanonicalRange(windows.main)
                /\ forkRange' = ForkRange(windows.fork)
                /\ remaining' = Zeros
                /\ saveRemaining' = Zeros
                /\ extendRemaining' = 0
                /\ UNCHANGED batch
        /\ UNCHANGED committed

(* The sync loop commits between runs of the stage, or not yet. *)
Commit ==
    /\ phase = "idle"
    /\ tx # committed
    /\ committed' = tx
    /\ UNCHANGED <<memory, phase, tx, runs>>

(* The process dies and starts again: memory and transaction are lost. *)
Crash ==
    /\ runs \in 1..(MaxRuns - 1)
    /\ runs' = runs + 1
    /\ win' = EmptyWindows /\ batch' = NoBatch
    /\ mode' = "Linear" /\ parent' = NoHeader /\ lastVerified' = NoHeader
    /\ remaining' = Zeros /\ saveRemaining' = Zeros /\ extendRemaining' = 0
    /\ canonicalRange' = NoRange /\ forkRange' = NoRange
    /\ progressStart' = Start /\ command' = NoCommand
    /\ tx' = committed
    /\ phase' = "idle"
    /\ UNCHANGED committed

Next ==
    \/ \E g \in Groups : \/ FetchRequest(g) \/ Retry(g) \/ VerifyBegin(g) \/ VerifyPool(g)
                         \/ VerifyFinish(g) \/ Penalize(g) \/ Save(g)
                         \/ \E answer \in Answers : FetchReceive(g, answer)
    \/ Extend \/ LinkLinear \/ LinkFork
    \/ EndRun \/ Unwind \/ BeginRun \/ Commit \/ Crash

Spec == Init /\ [][Next]_vars

----------------------------------------------------------------------------
TypeOK ==
    /\ \A g \in Groups :
          /\ win[g].max \in Nat /\ win[g].count \in [Statuses -> Int]
          /\ \A i \in DOMAIN win[g].slices :
                /\ win[g].slices[i].start \in Nat
                /\ win[g].slices[i].status \in Statuses
          /\ remaining[g] \in Nat /\ saveRemaining[g] \in Nat
    /\ mode \in {"Linear", "Fork"}
    /\ phase \in {"idle", "loop", "over", "unwind", "failed"}
    /\ \A d \in {tx, committed} :
          /\ d.canon \in [Blocks -> SomeHeaders \cup {ParentHeader, NoHeader}]
          /\ d.progress \in Nat

(* Both windows keep exact status counters and no hole, although the fork    *)
(* window is cleared, reset and prepended while its own stages are suspended *)
(* over it, and slices move from one window to the other on a switch.        *)
WindowsExact ==
    \A g \in Groups :
        /\ CountersAgree(win[g]) /\ Contiguous(win[g])
        /\ \A b \in batch[g] : AtStart(win[g], b.start) # {}

(* The headers of a run of slices, in order. *)
HeadersOf(w, I) ==
    FlattenSeq([k \in DOMAIN SetToSortSeq(I, <) |-> w.slices[SetToSortSeq(I, <)[k]].headers])

LinkedFrom(start, headers) ==
    \A k \in DOMAIN headers : VerifyLink(headers[k], IF k = 1 THEN start ELSE headers[k-1])

(* Whatever arrives in which order, through linear linking, fork mode, fork  *)
(* switches and reloads, the leading Verified and Saved slices of the main   *)
(* window have headers, and each begins with the child of the last header    *)
(* before it, the first one with the child of the saved parent.              *)
CanonicalConnected ==
    phase \in {"loop", "over"} =>
        LET slices == win["main"].slices
        IN  \A i \in LeadingRun(win["main"], Canonical) :
               /\ slices[i].headers # <<>>
               /\ VerifyLink(slices[i].headers[1], IF i = 1 THEN parent ELSE LastHeader(slices[i-1]))

(* HeaderSliceStatus says of Verified: "headers of the slice and linked in a *)
(* proper way to a known verified header".  The leading Verified and Saved   *)
(* slices of the main window are one chain of linked headers, inside the     *)
(* slices too.  A verdict that is stale when it is applied breaks this.      *)
CanonicalLinked ==
    phase \in {"loop", "over"} =>
        LinkedFrom(parent, HeadersOf(win["main"], LeadingRun(win["main"], Canonical)))

(* The part of the fork window that ForkModeStage counts as the fork chain   *)
(* (fork_range) starts where the range says and its slices connect, while it *)
(* grows downwards through refetches and discards.                           *)
ForkConnected ==
    phase \in {"loop", "over"} /\ mode = "Fork" =>
        LET slices == win["fork"].slices
            I == {i \in DOMAIN slices : slices[i].start >= forkRange.start}
        IN  /\ I # {} /\ slices[Min(I)].start = forkRange.start
            /\ \A i \in I : slices[i].status \in Canonical /\ slices[i].headers # <<>>
            /\ \A i \in I \ {Min(I)} : SlicesLink(slices[i], slices[i-1])

(* The difficulty of the known canonical chain never goes down while the     *)
(* windows are kept in memory: a fork is switched to only when it is heavier *)
(* and nothing of the chain is lost otherwise.                               *)
ChainDifficulty(w) ==
    LET SliceDifficulty(i) == FoldLeft(LAMBDA sum, h : sum + h.difficulty, 0, w.slices[i].headers)
    IN  MapThenSumSet(SliceDifficulty, LeadingRun(w, Canonical))

HeaviestKept ==
    [][MinBlockNum(win["main"]') = MinBlockNum(win["main"])
          => ChainDifficulty(win["main"]') >= ChainDifficulty(win["main"])]_(win["main"])

(* HeaderSliceStatus says of Saved: "saved in the database".                 *)
SavedInDb ==
    phase = "loop" => \A i \in InStatus(win["main"], "Saved") :
        \A k \in DOMAIN win["main"].slices[i].headers :
            win["main"].slices[i].headers[k] \in tx.rows

(* The canonical rows up to the committed progress, which are what the other *)
(* stages read, are of one chain: docs/spec.md has unwind() wipe the old     *)
(* canonical chain from the fork point, and the next execute() switch to the *)
(* fork.                                                                     *)
CommittedLinked ==
    \A n \in Start..MaxBlock :
        n <= committed.progress /\ committed.canon[n] # NoHeader /\ committed.canon[n-1] # NoHeader
            => committed.canon[n].parent = committed.canon[n-1].hash
=============================================================================
