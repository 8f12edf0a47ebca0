------------------------------- MODULE Monitor -------------------------------
(***************************************************************************)
(* The monitor (src/unnamed/part_001) composed with its scheduler and its  *)
(* worker pool, and the shutdown sequence of main (src/main.go).           *)
(*                                                                         *)
(* Goroutines: runLoop (the producer), the pool's workers, processResults  *)
(* (the consumer), and after a signal the goroutine that runs              *)
(* Monitor.Stop.  runLoop's ProcessEvents step of module Scheduler is      *)
(* refined here into processEvent: a ctx check, then one blocking Submit   *)
(* per job.  Process and logResult are abstracted to "the job's result is *)
(* logged"; what Process fetches and writes is modelled in other modules.  *)
(***************************************************************************)
EXTENDS Naturals, Sequences, FiniteSets

CONSTANTS
    SlotsPerEpoch, IntervalSlots, InitSlots, MaxSlot, MaxClockStepBacks, MaxStepBackSlots, Fail,
    Workers, NoJob,
    Validators     \* cfg.Validators, a sequence of validator indices

VARIABLES
    now, finalized, lastEpoch, lastFinalEpoch, loop, target, events, emitted,
    stepBacks,
    jobChan, jobClosed, resultChan, resultClosed, wpc, wjob, cancelled, panicked,
    pending,    \* jobs of the current tick runLoop has still to submit
    cpc,        \* processResults: "recv" or "exited"
    logged,     \* jobs whose result processResults has logged
    submitted,  \* jobs runLoop has put on the job channel
    shutdown    \* main after the signal: "none", "closeJobs", "closeResults",
                \* "waitLoops" (Monitor.Stop) or "exited"

Sched == INSTANCE Scheduler
Pool == INSTANCE WorkerPool

schedulerVars == <<now, finalized, lastEpoch, lastFinalEpoch, loop, target,
                   events, emitted, stepBacks>>
poolVars == <<jobChan, jobClosed, resultChan, resultClosed, wpc, wjob>>
monitorVars == <<pending, cpc, logged, submitted, shutdown>>
vars == <<schedulerVars, poolVars, cancelled, panicked, monitorVars>>

Job(type, slot, epoch, validator) ==
    [type |-> type, slot |-> slot, epoch |-> epoch, validator |-> validator]

(* processEvent: the jobs one event expands to.  pollValidators fans out   *)
(* one Status job per validator; fetchDuties and fetchRewards submit one   *)
(* job with ValidatorIndex 0.                                              *)
EventJobs(ev) ==
    CASE ev.type = "SlotPoll" ->
            [i \in DOMAIN Validators |-> Job("Status", ev.slot, ev.epoch, Validators[i])]
      [] ev.type = "EpochBoundary" -> << Job("Duties", ev.slot, ev.epoch, 0) >>
      [] ev.type = "EpochFinalized" -> << Job("Rewards", ev.slot, ev.epoch, 0) >>

RECURSIVE JobsOf(_)
JobsOf(evs) == IF evs = << >> THEN << >> ELSE EventJobs(Head(evs)) \o JobsOf(Tail(evs))

-----------------------------------------------------------------------------
(* runLoop (part_001 78-104) and processEvent/pollValidators/fetchDuties/  *)
(* fetchRewards (107-171).                                                 *)

Running == ~panicked /\ shutdown # "exited"

StartWait ==
    /\ Running
    /\ Sched!StartWait
    /\ UNCHANGED <<poolVars, cancelled, panicked, monitorVars>>

(* The timer fired: NextEvents runs.  Once the context is cancelled, the   *)
(* finality request fails (the rate limiter's Wait returns ctx.Err()).     *)
SlotReached ==
    /\ Running
    /\ \E resp \in IF cancelled THEN {Fail} ELSE Sched!FinalityResponses :
          Sched!SlotReachedWith(resp)
    /\ pending' = JobsOf(events')
    /\ UNCHANGED <<poolVars, cancelled, panicked, cpc, logged, submitted, shutdown>>

(* WaitForSlotInterval: select case <-ctx.Done(); runLoop returns.         *)
RunLoopCancelled ==
    /\ Running
    /\ loop = "sleep"
    /\ cancelled
    /\ loop' = "exited"
    /\ UNCHANGED <<now, finalized, lastEpoch, lastFinalEpoch, target, events, emitted,
                   stepBacks, poolVars, cancelled, panicked, monitorVars>>

(* select case <-ctx.Done(): return.  Every later event of the tick takes  *)
(* the same branch, so the rest of the tick is dropped.                    *)
DispatchCancelled ==
    /\ Running
    /\ loop = "dispatch"
    /\ pending # << >>
    /\ cancelled
    /\ pending' = << >>
    /\ UNCHANGED <<schedulerVars, poolVars, cancelled, panicked,
                   cpc, logged, submitted, shutdown>>

(* select default: the context looked live, runLoop goes on to Submit.     *)
DispatchCheck ==
    /\ Running
    /\ loop = "dispatch"
    /\ pending # << >>
    /\ ~cancelled
    /\ loop' = "submit"
    /\ UNCHANGED <<now, finalized, lastEpoch, lastFinalEpoch, target, events, emitted,
                   stepBacks, poolVars, cancelled, panicked, monitorVars>>

(* m.workerPool.Submit(job) completes.                                     *)
DispatchSubmit ==
    /\ Running
    /\ loop = "submit"
    /\ Pool!Submit(Head(pending))
    /\ pending' = Tail(pending)
    /\ submitted' = submitted \cup {Head(pending)}
    /\ loop' = "dispatch"
    /\ UNCHANGED <<now, finalized, lastEpoch, lastFinalEpoch, target, events, emitted,
                   stepBacks, cpc, logged, shutdown>>

(* Submit finds the job channel closed: send on closed channel panics.     *)
DispatchPanic ==
    /\ Running
    /\ loop = "submit"
    /\ Pool!SubmitOnClosed
    /\ UNCHANGED <<schedulerVars, monitorVars>>

(* All events of the tick are processed; the loop waits for the next slot. *)
DispatchDone ==
    /\ Running
    /\ loop = "dispatch"
    /\ pending = << >>
    /\ loop' = "wait"
    /\ events' = << >>
    /\ UNCHANGED <<now, finalized, lastEpoch, lastFinalEpoch, target, emitted, stepBacks,
                   poolVars, cancelled, panicked, monitorVars>>

RunLoop ==
    \/ StartWait \/ SlotReached \/ RunLoopCancelled
    \/ DispatchCancelled \/ DispatchCheck \/ DispatchSubmit \/ DispatchPanic
    \/ DispatchDone

-----------------------------------------------------------------------------
(* The pool's workers run Monitor.Process.                                 *)

Worker(w) ==
    /\ Running
    /\ Pool!Worker(w)
    /\ UNCHANGED <<schedulerVars, monitorVars>>

-----------------------------------------------------------------------------
(* processResults (part_001 305-331); logResult is the log line.           *)

ConsumerReceive ==
    /\ Running
    /\ cpc = "recv"
    /\ Pool!ReceiveResult
    /\ logged' = logged \cup {Head(resultChan)}
    /\ UNCHANGED <<schedulerVars, pending, cpc, submitted, shutdown>>

ConsumerCancelled ==
    /\ Running
    /\ cpc = "recv"
    /\ cancelled
    /\ cpc' = "exited"
    /\ UNCHANGED <<schedulerVars, poolVars, cancelled, panicked,
                   pending, logged, submitted, shutdown>>

ConsumerClosed ==
    /\ Running
    /\ cpc = "recv"
    /\ resultClosed
    /\ resultChan = << >>
    /\ cpc' = "exited"
    /\ UNCHANGED <<schedulerVars, poolVars, cancelled, panicked,
                   pending, logged, submitted, shutdown>>

Consumer == ConsumerReceive \/ ConsumerCancelled \/ ConsumerClosed

-----------------------------------------------------------------------------
(* main (main.go 91-113): on SIGINT/SIGTERM cancel() and run Monitor.Stop  *)
(* (part_001 378-383): workerPool.Stop(), then m.wg.Wait() for runLoop and *)
(* processResults.                                                         *)

Signal ==
    /\ Running
    /\ shutdown = "none"
    /\ cancelled' = TRUE
    /\ shutdown' = "closeJobs"
    /\ UNCHANGED <<schedulerVars, poolVars, panicked, pending, cpc, logged, submitted>>

StopCloseJobs ==
    /\ Running
    /\ shutdown = "closeJobs"
    /\ Pool!StopCloseJobs
    /\ shutdown' = "closeResults"
    /\ UNCHANGED <<schedulerVars, pending, cpc, logged, submitted>>

StopCloseResults ==
    /\ Running
    /\ shutdown = "closeResults"
    /\ Pool!StopCloseResults
    /\ shutdown' = "waitLoops"
    /\ UNCHANGED <<schedulerVars, pending, cpc, logged, submitted>>

(* m.wg.Wait() returns, Stop returns, main logs "Graceful shutdown         *)
(* completed" and exits.                                                   *)
StopWaitLoops ==
    /\ Running
    /\ shutdown = "waitLoops"
    /\ loop = "exited"
    /\ cpc = "exited"
    /\ shutdown' = "exited"
    /\ UNCHANGED <<schedulerVars, poolVars, cancelled, panicked,
                   pending, cpc, logged, submitted>>

StopSteps == StopCloseJobs \/ StopCloseResults \/ StopWaitLoops

Shutdown == Signal \/ StopSteps

(* The process has exited, gracefully or by the panic.                     *)
Terminated ==
    /\ ~Running
    /\ UNCHANGED vars

-----------------------------------------------------------------------------

Init ==
    /\ Sched!Init
    /\ Pool!PoolInit
    /\ cancelled = FALSE
    /\ panicked = FALSE
    /\ pending = << >>
    /\ cpc = "recv"
    /\ logged = {}
    /\ submitted = {}
    /\ shutdown = "none"

Environment ==
    /\ Running
    /\ Sched!Environment
    /\ UNCHANGED <<poolVars, cancelled, panicked, monitorVars>>

Next ==
    \/ Environment
    \/ RunLoop
    \/ \E w \in Workers : Worker(w)
    \/ Consumer
    \/ Shutdown
    \/ Terminated

(* Every goroutine that can take a step eventually does: the Go scheduler  *)
(* preempts goroutines, and a channel operation that stays ready is        *)
(* eventually taken.  Neither the clock, nor the chain, nor the signal is  *)
(* obliged to happen.                                                      *)
Fairness ==
    /\ WF_vars(RunLoop)
    /\ \A w \in Workers : WF_vars(Worker(w))
    /\ WF_vars(Consumer)
    /\ WF_vars(StopSteps)

Spec == Init /\ [][Next]_vars /\ Fairness

-----------------------------------------------------------------------------
(* Properties.                                                             *)

(* While the monitor runs, every job runLoop submits is eventually taken   *)
(* by a worker, processed, handed to processResults and logged: the pool   *)
(* neither loses nor strands work (worker loop, result hand-off, consumer  *)
(* loop), unless a shutdown has begun.                                     *)
AllSubmittedJobsLogged == <>[](cancelled \/ logged = submitted)

(* After the signal, Monitor.Stop returns and main reports a graceful      *)
(* shutdown -- every worker, runLoop and processResults exits and no       *)
(* goroutine stays blocked on a channel, so the 30 s timeout of main never *)
(* has to force the exit -- or the process dies of a panic.                *)
StopReturns == (shutdown # "none") ~> (shutdown = "exited" \/ panicked)

(* Spec 8, scenario 6: a shutdown during a tick completes without a crash: *)
(* no goroutine sends on the closed job channel.                           *)
NoSendOnClosedChannel == ~panicked

=============================================================================
