----------------------------- MODULE MCPoolBatch -----------------------------
(* Model-checking instance of PoolBatch: two workers, so both channels     *)
(* hold 4.  SubmitAndWait is called with 2 * size + 1 jobs, one more than  *)
(* the result channel holds, so that it completes only because it collects *)
(* while its goroutine submits.  SubmitBatch is called with 2 * size jobs, *)
(* the largest batch whose results fit the result channel: with one more,  *)
(* Stop waits for a worker blocked on the full result channel, which      *)
(* nobody reads before Drain, and the call sequence never ends.            *)
EXTENDS PoolBatch

CONSTANTS w1, w2, j1, j2, j3, j4, j5

MCWorkers == {w1, w2}
MCModes == {"SubmitBatch", "SubmitAndWait"}
MCBatch == [m \in MCModes |-> IF m = "SubmitBatch" THEN << j1, j2, j3, j4 >>
                                                  ELSE << j1, j2, j3, j4, j5 >>]
=============================================================================
