----------------------------- MODULE MCWorkQueue -----------------------------
(* Three workers, three requests and room for two: the queue can be full.   *)
EXTENDS WorkQueue
CONSTANTS w1, w2, w3, r1, r2, r3

MCThreads == {w1, w2, w3}
MCRequests == {r1, r2, r3}
=============================================================================
