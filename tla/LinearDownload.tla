--------------------------- MODULE LinearDownload ---------------------------
(***************************************************************************)
(* The first two phases of Downloader::run, DownloaderPreverified and then   *)
(* DownloaderLinear from where it got to: in each the concurrent stages of   *)
(* DownloaderStageLoop work on one window of header slices.                  *)
(* Every action is one completed Stage::execute, followed by the check of    *)
(* the loop (Then); the two stages that suspend in the middle of their work  *)
(* (verification on a thread pool, penalizing through the sentry) have one   *)
(* action for each part, so that the other stages run in between.            *)
(*                                                                           *)
(* Peers and the sentry are outside: any answer of Answers may arrive at any *)
(* time, once, never, late or again.                                         *)
(***************************************************************************)
EXTENDS HeaderSlices

CONSTANTS
    Start,          \* start_block_num of the run, aligned
    Middle, Final,  \* final_block_num of the preverified and the linear phase
    MaxSlices,      \* what the memory limit allows
    BatchSize,      \* num_cpus::get(): slices verified at once
    ParentHeader,   \* the saved canonical header of block Start - 1
    Trusted,        \* number of a slice start -> its preverified hash
    Answers,        \* the header lists peers may send
    Honest,         \* the headers of the chain to download
    Peers

ASSUME RunAssumption ==
    /\ {Start, Middle, Final} \subseteq {n \in Nat : n % SliceSize = 0}
    /\ Start <= Middle /\ Middle < Final
    /\ MaxSlices \in Nat \ {0} /\ BatchSize \in Nat \ {0}
    /\ ParentHeader.number = Start - 1
    /\ <<>> \notin Answers /\ NoPeer \notin Peers

VARIABLES
    downloader,     \* "preverified" or "linear"
    window,         \* header_slices
    batch,          \* starts of the slices being verified on the pool
    penalizing,     \* peers being penalized, or NotPenalizing
    linkRemaining,  \* VerifyLinkLinearStage.remaining_count
    lastVerified,   \* VerifyLinkLinearStage.last_verified_header
    saveRemaining,  \* SaveStage.remaining_count
    receiveOver,    \* FetchReceiveStage.is_over
    topOver,        \* TopBlockEstimateStage.is_over
    running,        \* the stage loop has not been left
    failed,         \* it was left because a stage returned an error
    canonical       \* the CanonicalHeader rows of Start..Final, by number

vars == <<downloader, window, batch, penalizing, linkRemaining, lastVerified,
          saveRemaining, receiveOver, topOver, running, failed, canonical>>

NotPenalizing == {NoPeer}
NoHeader == [number |-> -1, hash |-> <<"none", -1>>, parent |-> <<"none", -1>>, ok |-> FALSE]
SomeHeaders == UNION {{a[i] : i \in DOMAIN a} : a \in Answers}

(* final_block_num of the downloader that runs. *)
Preverified == downloader = "preverified"
Target == IF Preverified THEN Middle ELSE Final

Init ==
    /\ downloader = IF Start < Middle THEN "preverified" ELSE "linear"
    /\ window = NewWindow(Start, MaxSlices, Target)
    /\ batch = {}
    /\ penalizing = NotPenalizing
    /\ linkRemaining = 0
    /\ lastVerified = ParentHeader
    /\ saveRemaining = 0
    /\ receiveOver = FALSE
    /\ topOver = FALSE
    /\ running = TRUE
    /\ failed = FALSE
    /\ canonical = [n \in Start..Final |-> NoHeader]

\* Mutant of CanProceed: the penalize stage does not count as able to proceed.
CanProceedNoInvalid(w, remaining, over, top) ==
    \/ ContainsStatus(w, "Empty")
    \/ ~over /\ ContainsStatus(w, "Waiting")
    \/ ContainsStatus(w, "Downloaded")
    \/ ~Preverified /\ ContainsStatus(w, "VerifiedInternally")
    \/ w.count["Verified"] # remaining
    \/ ContainsStatus(w, "Saved")
    \/ Preverified /\ ~top

(* some_stage_can_proceed: the can_proceed_check of every stage. *)
CanProceed(w, remaining, over, top) ==
    \/ ContainsStatus(w, "Empty")
    \/ ~over /\ ContainsStatus(w, "Waiting")
    \/ ContainsStatus(w, "Downloaded")
    \/ ~Preverified /\ ContainsStatus(w, "VerifiedInternally")
    \/ ContainsStatus(w, "Invalid")
    \/ w.count["Verified"] # remaining
    \/ ContainsStatus(w, "Saved")
    \/ Preverified /\ ~top

(* The stage loop after a stage has completed. *)
Then ==
    /\ running' = /\ ~IsEmptyAtFinal(window', Target)
                  /\ CanProceed(window', saveRemaining', receiveOver', topOver')
    /\ UNCHANGED <<failed, downloader>>

(* FetchRequestStage: requests go out in order until the send queue is full. *)
FetchRequest ==
    LET empty == InStatus(window, "Empty")
    IN  /\ running
        /\ ContainsStatus(window, "Empty")
        /\ \E last \in empty :
              window' = SetStatuses(window, {i \in empty : i <= last}, "Waiting")
        /\ UNCHANGED <<batch, penalizing, linkRemaining, lastVerified, saveRemaining,
                       receiveOver, topOver, canonical>>
        /\ Then

(* FetchReceiveStage::on_headers_message: the slice is found by the number  *)
(* of the first header, and takes the headers only while it is Waiting.     *)
FetchReceive(answer, peer) ==
    /\ running
    /\ ~receiveOver
    /\ \E i \in AtStart(window, answer[1].number) :
          /\ window.slices[i].status = "Waiting"
          /\ window' = UpdateSlice(window, i, answer, peer)
    /\ UNCHANGED <<batch, penalizing, linkRemaining, lastVerified, saveRemaining,
                   receiveOver, topOver, canonical>>
    /\ Then

(* The message stream of the sentry ends. *)
ReceiveOver ==
    /\ running /\ ~receiveOver
    /\ receiveOver' = TRUE
    /\ UNCHANGED <<window, batch, penalizing, linkRemaining, lastVerified,
                   saveRemaining, topOver, canonical>>
    /\ Then

TopOver ==
    /\ running /\ Preverified /\ ~topOver
    /\ topOver' = TRUE
    /\ UNCHANGED <<window, batch, penalizing, linkRemaining, lastVerified,
                   saveRemaining, receiveOver, canonical>>
    /\ Then

(* RetryStage::reset_pending: the requests whose time is up go out again. *)
Retry ==
    /\ running
    /\ \E late \in (SUBSET InStatus(window, "Waiting")) \ {{}} :
          window' = SetStatuses(window, late, "Empty")
    /\ UNCHANGED <<batch, penalizing, linkRemaining, lastVerified, saveRemaining,
                   receiveOver, topOver, canonical>>
    /\ Then

VerifyBegin ==
    /\ running
    /\ batch = {}
    /\ ContainsStatus(window, "Downloaded")
    /\ batch' = NextBatch(window, BatchSize)
    /\ UNCHANGED <<window, penalizing, linkRemaining, lastVerified, saveRemaining,
                   receiveOver, topOver, running, failed, downloader, canonical>>

(* VerifyPreverifiedStage::preverified_hash: None off the step or past the list. *)
PreverifiedHash(num) ==
    IF num \in DOMAIN Trusted THEN {Trusted[num]} ELSE {}

\* Mutant of VerifyPreverified: the last header is not looked up.
VerifyFirstEdge(headers, start) ==
    /\ headers # <<>>
    /\ headers[1].hash \in PreverifiedHash(start)
    /\ LinkedByParentHash(headers)

(* VerifyPreverifiedStage::verify_slice: the two edges and the links between. *)
VerifyPreverified(headers, start) ==
    /\ headers # <<>>
    /\ headers[1].hash \in PreverifiedHash(start)
    /\ headers[Len(headers)].hash \in PreverifiedHash(start + Len(headers) - 1)
    /\ LinkedByParentHash(headers)

Passes(slice) ==
    IF Preverified THEN VerifyPreverified(slice.headers, slice.start)
                   ELSE slice.headers # <<>> /\ VerifySlice(slice.headers, slice.start)

(* The statuses are set after the pool has answered, and the next batch is   *)
(* taken at once: the stage completes when nothing is Downloaded.            *)
VerifyFinish ==
    LET I    == {i \in DOMAIN window.slices : window.slices[i].start \in batch}
        good == {i \in I : Passes(window.slices[i])}
        next == SetStatuses(SetStatuses(window, good,
                               IF Preverified THEN "Verified" ELSE "VerifiedInternally"),
                            I \ good, "Invalid")
    IN  /\ running
        /\ batch # {}
        /\ window' = next
        /\ batch' = NextBatch(next, BatchSize)
        /\ UNCHANGED <<penalizing, linkRemaining, lastVerified, saveRemaining,
                       receiveOver, topOver, canonical>>
        /\ IF batch' = {} THEN Then ELSE UNCHANGED <<running, failed, downloader>>

(* VerifyLinkLinearStage *)
VerifyLinkLinear ==
    LET link == LinkPending(window, lastVerified, Trusted[0], "Invalid")
    IN  /\ running /\ ~Preverified
        /\ window.count["VerifiedInternally"] # linkRemaining
        /\ window' = link.window
        /\ lastVerified' = link.last
        /\ linkRemaining' = window.count["VerifiedInternally"] - link.updated
        /\ UNCHANGED <<batch, penalizing, saveRemaining, receiveOver, topOver, canonical>>
        /\ Then

(* PenalizeStage up to its await: the peers of the Invalid slices. *)
PenalizeBegin ==
    /\ running
    /\ penalizing = NotPenalizing
    /\ ContainsStatus(window, "Invalid")
    /\ penalizing' = {window.slices[i].peer : i \in InStatus(window, "Invalid")}
    /\ UNCHANGED <<window, batch, linkRemaining, lastVerified, saveRemaining,
                   receiveOver, topOver, running, failed, downloader, canonical>>

\* Mutant of PenalizeReset: the slices are not emptied.
PenalizeOnly ==
    /\ running
    /\ penalizing # NotPenalizing
    /\ penalizing' = NotPenalizing
    /\ UNCHANGED <<window, batch, linkRemaining, lastVerified, saveRemaining,
                   receiveOver, topOver, canonical>>
    /\ Then

(* PenalizeStage::reset_pending, after the await: every slice Invalid by now. *)
PenalizeReset ==
    LET invalid == InStatus(window, "Invalid")
    IN  /\ running
        /\ penalizing # NotPenalizing
        /\ window' = DropHeaders(SetStatuses(window, invalid, "Empty"), invalid)
        /\ penalizing' = NotPenalizing
        /\ UNCHANGED <<batch, linkRemaining, lastVerified, saveRemaining,
                       receiveOver, topOver, canonical>>
        /\ Then

(* SaveStage in Monotonic order: the Verified slices after the Saved ones.   *)
Save ==
    LET toSave == InStatus(window, "Verified") \cap LeadingRun(window, {"Saved", "Verified"})
        rows   == UNION {{window.slices[i].headers[j] : j \in DOMAIN window.slices[i].headers}
                            : i \in toSave}
    IN  /\ running
        /\ window.count["Verified"] # saveRemaining
        /\ window' = SetStatuses(window, toSave, "Saved")
        /\ canonical' = [n \in DOMAIN canonical |->
                           IF \E h \in rows : h.number = n
                           THEN CHOOSE h \in rows : h.number = n ELSE canonical[n]]
        /\ saveRemaining' = window.count["Verified"] - Cardinality(toSave)
        /\ UNCHANGED <<batch, penalizing, linkRemaining, lastVerified,
                       receiveOver, topOver>>
        /\ Then

(* RefillStage *)
Refill ==
    /\ running
    /\ ContainsStatus(window, "Saved")
    /\ window' = Refilled(RemoveStatus(window, "Saved"), MaxSlices, Target)
    /\ UNCHANGED <<batch, penalizing, linkRemaining, lastVerified, saveRemaining,
                   receiveOver, topOver, canonical>>
    /\ Then

(* A stage fails (the reactor has stopped): the loop is left, the error logged. *)
StageFails ==
    /\ running
    /\ running' = FALSE
    /\ failed' = TRUE
    /\ UNCHANGED <<downloader, window, batch, penalizing, linkRemaining, lastVerified,
                   saveRemaining, receiveOver, topOver, canonical>>

(* The saved canonical header before a block (load_canonical_header_by_num). *)
ParentOf(start) == IF start = Start THEN ParentHeader ELSE canonical[start - 1]

(* Downloader::run goes on with the linear downloader, from the first block  *)
(* the preverified one did not finish, however its loop ended.  The linear   *)
(* one fails if the header before it is not saved.                           *)
StartLinear ==
    LET start == MinBlockNum(window)
    IN  /\ ~running /\ Preverified
        /\ downloader' = "linear"
        /\ IF ParentOf(start) = NoHeader
           THEN /\ failed' = TRUE
                /\ UNCHANGED <<window, batch, penalizing, linkRemaining, lastVerified,
                               saveRemaining, receiveOver, running>>
           ELSE /\ window' = NewWindow(start, MaxSlices, Final)
                /\ lastVerified' = ParentOf(start)
                /\ batch' = {} /\ penalizing' = NotPenalizing
                /\ linkRemaining' = 0 /\ saveRemaining' = 0
                /\ receiveOver' = FALSE
                /\ running' = TRUE /\ failed' = FALSE
        /\ UNCHANGED <<topOver, canonical>>

(* A whole answer of the chain to download: what honest peers send. *)
Useful(answer) ==
    /\ Len(answer) = SliceSize + (IF Preverified THEN 1 ELSE 0)
    /\ \A k \in DOMAIN answer : answer[k] \in Honest

Stages ==
    \/ FetchRequest
    \/ \E answer \in Answers, peer \in Peers : FetchReceive(answer, peer)
    \/ Retry
    \/ VerifyBegin \/ VerifyFinish
    \/ VerifyLinkLinear
    \/ PenalizeBegin \/ PenalizeReset
    \/ Save
    \/ Refill
    \/ StartLinear

Next == Stages \/ ReceiveOver \/ TopOver \/ StageFails

Spec == Init /\ [][Next]_vars

RightAnswer(n) ==
    \E answer \in Answers, peer \in Peers :
       answer[1].number = n /\ Useful(answer) /\ FetchReceive(answer, peer)

(* Every stage is polled again and again by the loop, and of the answers a   *)
(* slice is sent infinitely often some are whole and right.                  *)
Progress ==
    /\ WF_vars(FetchRequest) /\ WF_vars(VerifyBegin) /\ WF_vars(VerifyFinish)
    /\ WF_vars(VerifyLinkLinear) /\ WF_vars(PenalizeBegin) /\ WF_vars(PenalizeReset)
    /\ WF_vars(Save) /\ WF_vars(Refill) /\ WF_vars(StartLinear)
    /\ \A n \in Start..(Final - 1) : SF_vars(RightAnswer(n))

LiveSpec == Spec /\ Progress

----------------------------------------------------------------------------
TypeOK ==
    /\ downloader \in {"preverified", "linear"}
    /\ window.max \in Nat
    /\ window.count \in [Statuses -> Int]
    /\ \A i \in DOMAIN window.slices :
          /\ window.slices[i].start \in Nat
          /\ window.slices[i].status \in Statuses
          /\ window.slices[i].headers \in Answers \cup {<<>>}
          /\ window.slices[i].peer \in Peers \cup {NoPeer}
    /\ batch \subseteq Nat
    /\ penalizing \subseteq Peers \cup {NoPeer}
    /\ linkRemaining \in Nat
    /\ saveRemaining \in Nat
    /\ lastVerified \in SomeHeaders \cup {ParentHeader}
    /\ {receiveOver, topOver, running, failed} \subseteq BOOLEAN
    /\ canonical \in [Start..Final -> SomeHeaders \cup {NoHeader}]

(* The status counters every stage waits on (state_watches) always equal the *)
(* number of slices in that status, although the slices are moved, removed   *)
(* and refilled by eight stages, some of them across an await.               *)
CountersExact == CountersAgree(window)

(* The window stays within the memory limit and has no hole: removing Saved  *)
(* slices wherever they are (RefillStage) only ever removes the front.       *)
WindowOK ==
    /\ Len(window.slices) <= MaxSlices
    /\ Contiguous(window)

(* The report of a run (final_block_num = header_slices.min_block_num())     *)
(* covers saved headers only: nothing below it is missing.                   *)
ReportedSaved ==
    \A n \in Start..(MinBlockNum(window) - 1) : canonical[n] # NoHeader

(* The loop is left without an error only when the run is complete, or when  *)
(* the sentry's message stream has ended.                                    *)
EndsWhenDone ==
    ~running => failed \/ receiveOver \/ IsEmptyAtFinal(window, Target)

(* The two phases implement the abstract header chain: what they report as   *)
(* downloaded is one linked chain on the saved parent, only ever extended at *)
(* its end, also when a failed preverified phase hands over in the middle.   *)
Reported == [i \in 1..(MinBlockNum(window) - Start) |-> canonical[Start + i - 1]]

Chain == INSTANCE HeaderChain WITH
            chain <- Reported, Parent <- ParentHeader, Limit <- Final - Start

GrowsOneChain == Chain!Spec

(* Once every slice is offered a right answer again and again, the run ends  *)
(* with all headers saved, if the stream of messages stays open, no stage    *)
(* fails, and no answer off the chain to download passes the verification.   *)
Undisturbed ==
    /\ ~failed /\ ~receiveOver
    /\ \A i \in DOMAIN window.slices :
          LET headers == window.slices[i].headers
          IN  Passes(window.slices[i]) => \A k \in DOMAIN headers : headers[k] \in Honest
Complete == ~running /\ IsEmptyAtFinal(window, Final)
Completes == []Undisturbed => <>Complete
=============================================================================
