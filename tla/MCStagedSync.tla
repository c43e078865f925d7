---------------------------- MODULE MCStagedSync ----------------------------
(* StagedSync for TLC: four stages, of which the first two batch and may    *)
(* ask for an unwind (Headers, Bodies) and the third resets on an unwind    *)
(* (Interhashes).                                                           *)
EXTENDS StagedSync

MCBatching == {1, 2}
MCResetting == {3}
MCRequesters == {1, 2}
=============================================================================
