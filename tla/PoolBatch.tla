------------------------------ MODULE PoolBatch ------------------------------
(***************************************************************************)
(* The batch API of the worker pool (src/internal/monitor/worker.go):      *)
(* SubmitBatch, SubmitAndWait and Drain, used by a caller the way the pool *)
(* is meant to be used: start the pool, hand it a batch of jobs, Stop it,  *)
(* Drain the results.  The caller either calls SubmitBatch (which blocks   *)
(* on a full job channel) or SubmitAndWait (whose goroutine submits while  *)
(* the caller collects len(jobs) results).  The pool's workers and Stop    *)
(* are module WorkerPool's; the root context may be cancelled while the    *)
(* caller runs.                                                            *)
(***************************************************************************)
EXTENDS Naturals, Sequences, SequencesExt

CONSTANTS
    Workers,      \* worker ids, model values
    NoJob,        \* model value: a worker holds no job
    Modes,        \* the APIs the caller may use: "SubmitBatch", "SubmitAndWait"
    Batch         \* per API, the batch it is called with: distinct jobs (model values)

ASSUME \A m \in Modes : Batch[m] # << >>

VARIABLES
    jobChan, jobClosed, resultChan, resultClosed, wpc, wjob, cancelled, panicked,
    mode,       \* the API the caller uses
    caller,     \* "start", "submit", "collect", "stop", "stopWait", "drain", "returned"
    toSend,     \* jobs not yet on the job channel (SubmitBatch's range, or the goroutine's)
    sender,     \* SubmitAndWait's submitting goroutine: "none", "running", "done"
    collected,  \* the results SubmitAndWait has returned
    drained     \* the results Drain has returned

Pool == INSTANCE WorkerPool

(* The jobs argument of the call.                                          *)
Jobs == Batch[mode]

poolVars == <<jobChan, jobClosed, resultChan, resultClosed, wpc, wjob>>
callerVars == <<mode, caller, toSend, sender, collected, drained>>
vars == <<poolVars, cancelled, panicked, callerVars>>

-----------------------------------------------------------------------------
(* SubmitBatch(jobs): for each job, wp.jobChan <- job -- no context.       *)

SubmitBatch ==
    /\ caller = "submit"
    /\ Pool!Submit(Head(toSend))
    /\ toSend' = Tail(toSend)
    /\ caller' = IF Len(toSend) = 1 THEN "stop" ELSE "submit"
    /\ UNCHANGED <<mode, sender, collected, drained>>

-----------------------------------------------------------------------------
(* SubmitAndWait(ctx, jobs): a goroutine submits, each send in a select    *)
(* with ctx.Done(); the caller collects len(jobs) results, each receive in *)
(* a select with ctx.Done(), and returns what it has on cancellation.      *)

StartSubmitAndWait ==
    /\ caller = "start"
    /\ sender' = "running"
    /\ caller' = "collect"
    /\ UNCHANGED <<poolVars, cancelled, panicked, mode, toSend, collected, drained>>

(* case wp.jobChan <- job.                                                 *)
SenderSend ==
    /\ sender = "running"
    /\ Pool!Submit(Head(toSend))
    /\ toSend' = Tail(toSend)
    /\ sender' = IF Len(toSend) = 1 THEN "done" ELSE "running"
    /\ UNCHANGED <<mode, caller, collected, drained>>

(* The send case is chosen on a closed channel: Go panics.                 *)
SenderSendOnClosed ==
    /\ sender = "running"
    /\ Pool!SubmitOnClosed
    /\ UNCHANGED callerVars

(* case <-ctx.Done(): return.                                              *)
SenderCancelled ==
    /\ sender = "running"
    /\ cancelled
    /\ sender' = "done"
    /\ UNCHANGED <<poolVars, cancelled, panicked, mode, caller, toSend, collected, drained>>

Sender == SenderSend \/ SenderSendOnClosed \/ SenderCancelled

(* Seeded fault for NoResultLostWithoutCancel: the collect loop stops one  *)
(* result short.                                                           *)
CollectOneShort ==
    /\ caller = "collect"
    /\ Pool!ReceiveResult
    /\ collected' = Append(collected, Head(resultChan))
    /\ caller' = IF Len(collected) + 2 >= Len(Jobs) THEN "stop" ELSE "collect"
    /\ UNCHANGED <<mode, toSend, sender, drained>>

(* case result := <-wp.resultChan: results = append(results, result); the  *)
(* loop ends after len(jobs) results.                                      *)
Collect ==
    /\ caller = "collect"
    /\ Pool!ReceiveResult
    /\ collected' = Append(collected, Head(resultChan))
    /\ caller' = IF Len(collected) + 1 = Len(Jobs) THEN "stop" ELSE "collect"
    /\ UNCHANGED <<mode, toSend, sender, drained>>

(* Seeded fault for CallSequenceEnds: the receive has no ctx.Done() case.  *)
CollectCancelledNever == FALSE

(* case <-ctx.Done(): return results.                                      *)
CollectCancelled ==
    /\ caller = "collect"
    /\ cancelled
    /\ caller' = "stop"
    /\ UNCHANGED <<poolVars, cancelled, panicked, mode, toSend, sender, collected, drained>>

-----------------------------------------------------------------------------
(* Stop, then Drain: for result := range wp.resultChan.                    *)

StopCloseJobs ==
    /\ caller = "stop"
    /\ Pool!StopCloseJobs
    /\ caller' = "stopWait"
    /\ UNCHANGED <<mode, toSend, sender, collected, drained>>

StopCloseResults ==
    /\ caller = "stopWait"
    /\ Pool!StopCloseResults
    /\ caller' = "drain"
    /\ UNCHANGED <<mode, toSend, sender, collected, drained>>

Drain ==
    /\ caller = "drain"
    /\ Pool!ReceiveResult
    /\ drained' = Append(drained, Head(resultChan))
    /\ UNCHANGED <<mode, caller, toSend, sender, collected>>

DrainDone ==
    /\ caller = "drain"
    /\ resultClosed
    /\ resultChan = << >>
    /\ caller' = "returned"
    /\ UNCHANGED <<poolVars, cancelled, panicked, mode, toSend, sender, collected, drained>>

Caller ==
    \/ SubmitBatch \/ StartSubmitAndWait \/ Collect \/ CollectCancelled
    \/ StopCloseJobs \/ StopCloseResults \/ Drain \/ DrainDone

Worker(w) ==
    /\ Pool!Worker(w)
    /\ UNCHANGED callerVars

(* The root context's cancel().                                           *)
Cancel ==
    /\ ~cancelled
    /\ cancelled' = TRUE
    /\ UNCHANGED <<poolVars, panicked, callerVars>>

(* The caller has returned, or the process died of the panic.              *)
Finished ==
    /\ caller = "returned" \/ panicked
    /\ UNCHANGED vars

-----------------------------------------------------------------------------

Init ==
    /\ Pool!PoolInit
    /\ cancelled = FALSE
    /\ panicked = FALSE
    /\ mode \in Modes
    /\ caller = IF mode = "SubmitBatch" THEN "submit" ELSE "start"
    /\ toSend = Jobs
    /\ sender = "none"
    /\ collected = << >>
    /\ drained = << >>

Alive == ~panicked

Next ==
    \/ Alive /\ Caller
    \/ Alive /\ Sender
    \/ Alive /\ \E w \in Workers : Worker(w)
    \/ Alive /\ Cancel
    \/ Finished

(* Each goroutine -- the caller, SubmitAndWait's sender, every worker --   *)
(* takes its steps while it can; cancellation is not obliged to happen.    *)
Spec ==
    /\ Init /\ [][Next]_vars
    /\ WF_vars(Alive /\ Caller)
    /\ WF_vars(Alive /\ Sender)
    /\ \A w \in Workers : WF_vars(Alive /\ Worker(w))

-----------------------------------------------------------------------------
(* Properties.                                                             *)

HoldsEveryJob(s) == Len(s) = Len(Jobs) /\ Range(s) = Range(Jobs)

(* Spec 5 (worker pool): unless the context is cancelled, no result is     *)
(* lost -- SubmitAndWait returns the result of every job it was given      *)
(* (its goroutine's sends, the workers and its collect loop together), and *)
(* after Stop and Drain every job's result has been returned once, by      *)
(* SubmitAndWait or by Drain.                                              *)
NoResultLostWithoutCancel ==
    ~cancelled =>
        /\ (mode = "SubmitAndWait" /\ caller \notin {"start", "collect"}) => HoldsEveryJob(collected)
        /\ caller = "returned" => HoldsEveryJob(collected \o drained)

(* Spec 5 (shutdown): the caller's sequence -- submit, Stop, Drain --      *)
(* completes: no goroutine is left blocked on a full channel that nobody   *)
(* reads, whether or not the context is cancelled (or the process dies of  *)
(* a panic).                                                               *)
CallSequenceEnds == <>(caller = "returned" \/ panicked)

=============================================================================
