---------------------------- MODULE MCCheckQueue ----------------------------
(* Two workers and three checks, one of them failing, batches of at most 2. *)
EXTENDS CheckQueue, TLC

CONSTANTS w1, w2, c1, c2, c3
MCWorkers == {w1, w2}
MCChecks == {c1, c2, c3}
MCFailing == {c3}
=============================================================================
