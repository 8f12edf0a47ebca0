----------------------------- MODULE WorkerPool -----------------------------
(***************************************************************************)
(* The worker pool of the monitor (src/internal/monitor/worker.go 1-165):  *)
(* a buffered job channel and a buffered result channel of capacity        *)
(* 2 * size each, size worker goroutines, and Stop.  Channels are          *)
(* sequences; a closed channel is a flag beside its buffer.  The context   *)
(* passed to Start is the root context: `cancelled` is ctx.Done().         *)
(*                                                                         *)
(* The processor (Monitor.Process) is called in one step; what it fetches  *)
(* and writes is abstracted here, so a result carries its job.  Whoever    *)
(* calls Submit and reads Results is the composing module's business       *)
(* (module Monitor).                                                       *)
(***************************************************************************)
EXTENDS Naturals, Sequences, FiniteSets

CONSTANTS
    Workers,   \* worker ids 0..size-1, as a set of model values
    NoJob      \* model value: the worker holds no job

VARIABLES
    jobChan,       \* wp.jobChan buffer
    jobClosed,     \* close(wp.jobChan) has run
    resultChan,    \* wp.resultChan buffer
    resultClosed,  \* close(wp.resultChan) has run
    wpc,           \* per worker: "recv", "process", "send" or "exited"
    wjob,          \* per worker: the job it holds
    cancelled,     \* the root context is cancelled
    panicked       \* a goroutine sent on a closed channel: the process crashed

poolVars == <<jobChan, jobClosed, resultChan, resultClosed, wpc, wjob>>

(* make(chan Job, size*2) and make(chan Result, size*2).                   *)
QueueCap == 2 * Cardinality(Workers)

PoolInit ==
    /\ jobChan = << >>
    /\ jobClosed = FALSE
    /\ resultChan = << >>
    /\ resultClosed = FALSE
    /\ wpc = [w \in Workers |-> "recv"]
    /\ wjob = [w \in Workers |-> NoJob]

-----------------------------------------------------------------------------
(* Submit(job): wp.jobChan <- job.  It blocks while the buffer is full;    *)
(* on a closed channel -- including one closed while the sender is         *)
(* blocked -- Go panics with "send on closed channel".                     *)

Submit(job) ==
    /\ ~jobClosed
    /\ Len(jobChan) < QueueCap
    /\ jobChan' = Append(jobChan, job)
    /\ UNCHANGED <<jobClosed, resultChan, resultClosed, wpc, wjob, cancelled, panicked>>

SubmitOnClosed ==
    /\ jobClosed
    /\ panicked' = TRUE
    /\ UNCHANGED <<poolVars, cancelled>>

-----------------------------------------------------------------------------
(* worker(ctx, id): the loop of worker.go 74-104.                          *)

SetWorker(w, pc, job) ==
    /\ wpc' = [wpc EXCEPT ![w] = pc]
    /\ wjob' = [wjob EXCEPT ![w] = job]

(* select case <-ctx.Done(): return.                                       *)
WorkerCancelled(w) ==
    /\ wpc[w] = "recv"
    /\ cancelled
    /\ SetWorker(w, "exited", NoJob)
    /\ UNCHANGED <<jobChan, jobClosed, resultChan, resultClosed, cancelled, panicked>>

(* select case job, ok := <-wp.jobChan with ok: a buffered job is taken    *)
(* (a closed channel still delivers what it buffers).                      *)
WorkerReceive(w) ==
    /\ wpc[w] = "recv"
    /\ jobChan # << >>
    /\ jobChan' = Tail(jobChan)
    /\ SetWorker(w, "process", Head(jobChan))
    /\ UNCHANGED <<jobClosed, resultChan, resultClosed, cancelled, panicked>>

(* ... with !ok: the channel is closed and drained, the worker returns.    *)
WorkerChannelClosed(w) ==
    /\ wpc[w] = "recv"
    /\ jobClosed
    /\ jobChan = << >>
    /\ SetWorker(w, "exited", NoJob)
    /\ UNCHANGED <<jobChan, jobClosed, resultChan, resultClosed, cancelled, panicked>>

(* data, err := wp.processor.Process(ctx, job); the Result is built.       *)
WorkerProcess(w) ==
    /\ wpc[w] = "process"
    /\ SetWorker(w, "send", wjob[w])
    /\ UNCHANGED <<jobChan, jobClosed, resultChan, resultClosed, cancelled, panicked>>

(* Seeded fault for AllSubmittedJobsLogged: the worker returns after       *)
(* sending its first result instead of looping.                            *)
WorkerSendResultAndReturn(w) ==
    /\ wpc[w] = "send"
    /\ Len(resultChan) < QueueCap
    /\ resultChan' = Append(resultChan, wjob[w])
    /\ SetWorker(w, "exited", NoJob)
    /\ UNCHANGED <<jobChan, jobClosed, resultClosed, cancelled, panicked>>

(* select case wp.resultChan <- result.                                    *)
WorkerSendResult(w) ==
    /\ wpc[w] = "send"
    /\ Len(resultChan) < QueueCap
    /\ resultChan' = Append(resultChan, wjob[w])
    /\ SetWorker(w, "recv", NoJob)
    /\ UNCHANGED <<jobChan, jobClosed, resultClosed, cancelled, panicked>>

(* Seeded fault for StopReturns: the result is sent with a plain           *)
(* wp.resultChan <- result, without the ctx.Done() case.                   *)
WorkerSendNoCancel(w) == FALSE

(* select case <-ctx.Done(): return -- the result is dropped.              *)
WorkerSendCancelled(w) ==
    /\ wpc[w] = "send"
    /\ cancelled
    /\ SetWorker(w, "exited", NoJob)
    /\ UNCHANGED <<jobChan, jobClosed, resultChan, resultClosed, cancelled, panicked>>

Worker(w) ==
    \/ WorkerCancelled(w)
    \/ WorkerReceive(w)
    \/ WorkerChannelClosed(w)
    \/ WorkerProcess(w)
    \/ WorkerSendResult(w)
    \/ WorkerSendCancelled(w)

-----------------------------------------------------------------------------
(* Results(): a read of the result channel by the consumer.                *)

ReceiveResult ==
    /\ resultChan # << >>
    /\ resultChan' = Tail(resultChan)
    /\ UNCHANGED <<jobChan, jobClosed, resultClosed, wpc, wjob, cancelled, panicked>>

-----------------------------------------------------------------------------
(* Stop (worker.go 124-129): close(wp.jobChan); wp.wg.Wait();              *)
(* close(wp.resultChan).                                                   *)

StopCloseJobs ==
    /\ jobClosed' = TRUE
    /\ UNCHANGED <<jobChan, resultChan, resultClosed, wpc, wjob, cancelled, panicked>>

AllWorkersExited == \A w \in Workers : wpc[w] = "exited"

StopCloseResults ==
    /\ AllWorkersExited
    /\ resultClosed' = TRUE
    /\ UNCHANGED <<jobChan, jobClosed, resultChan, wpc, wjob, cancelled, panicked>>

=============================================================================
