------------------------------ MODULE Scheduler ------------------------------
(***************************************************************************)
(* The slot scheduler of the monitor (internal/monitor/scheduler.go, which *)
(* is appended to src/internal/monitor/worker.go) together with the tick   *)
(* loop that drives it (Monitor.runLoop, src/unnamed/part_001).            *)
(*                                                                         *)
(* Time is the wall clock read in whole slots since genesis (CurrentSlot). *)
(* Go's time.Since(genesisTime) reads the wall clock, because genesisTime  *)
(* is built with time.Unix and carries no monotonic reading, so the clock  *)
(* may also step back (an NTP correction).  The chain's finalized epoch    *)
(* advances on its own; GetFinalityCheckpoints("head") either fails or     *)
(* returns a finalized epoch no later than the chain's (a syncing or       *)
(* lagging node reports an older one; Start only warns when the node is    *)
(* syncing).                                                               *)
(*                                                                         *)
(* Here the events of a tick are handed to the monitor in a single step    *)
(* (ProcessEvents); module Monitor refines that step into one job          *)
(* submission at a time on the worker pool.                                *)
(***************************************************************************)
EXTENDS Naturals, Sequences, FiniteSets

CONSTANTS
    SlotsPerEpoch,      \* 32 in the code; any value >= 2 exercises the same mod/div logic
    IntervalSlots,      \* cfg.PollingIntervalSlots, >= 1 after setDefaults
    InitSlots,          \* wall-clock slots at which the process may start
    MaxSlot,            \* bound: the wall clock never passes this slot
    MaxClockStepBacks,  \* bound: number of backward wall-clock steps
    MaxStepBackSlots,   \* bound: slots a single backward step may span
    Fail                \* model value: GetFinalityCheckpoints returned an error

ASSUME SlotsPerEpoch \in Nat \ {0, 1}
ASSUME IntervalSlots \in Nat \ {0}
ASSUME InitSlots \subseteq 0..MaxSlot
ASSUME MaxClockStepBacks \in Nat
ASSUME MaxStepBackSlots \in Nat \ {0}

VARIABLES
    now,             \* CurrentSlot(): the wall clock in slots
    finalized,       \* the chain's finalized epoch
    lastEpoch,       \* Scheduler.lastEpoch
    lastFinalEpoch,  \* Scheduler.lastFinalEpoch
    loop,            \* where runLoop is: "wait", "sleep" or "dispatch"
    target,          \* the slot WaitForSlotInterval sleeps until
    events,          \* events of the current tick not yet processed
    emitted,         \* history: every event NextEvents has returned, in order
    stepBacks        \* backward clock steps taken so far

schedVars == <<lastEpoch, lastFinalEpoch>>
clockVars == <<now, finalized, stepBacks>>
loopVars == <<loop, target, events, emitted>>
vars == <<clockVars, schedVars, loopVars>>

EventTypes == {"SlotPoll", "EpochBoundary", "EpochFinalized"}

Event(type, slot, epoch) == [type |-> type, slot |-> slot, epoch |-> epoch]

Range(s) == {s[i] : i \in DOMAIN s}

-----------------------------------------------------------------------------
(* Slot and epoch arithmetic (SlotToEpoch, IsEpochBoundary).               *)

SlotToEpoch(slot) == slot \div SlotsPerEpoch

IsEpochBoundary(slot) == slot % SlotsPerEpoch = 0

(* The latest epoch the chain can have finalized when the clock is at      *)
(* slot s: finality trails the current epoch by at least two epochs.       *)
Finalizable(s) == IF SlotToEpoch(s) >= 2 THEN SlotToEpoch(s) - 2 ELSE 0

(* Answers GetFinalityCheckpoints("head") may give.                        *)
FinalityResponses == {Fail} \cup 0..finalized

-----------------------------------------------------------------------------
(* NextEvents(slot): the events of one tick and the scheduler's update.    *)

BoundaryDue(slot) == IsEpochBoundary(slot) /\ SlotToEpoch(slot) # lastEpoch

(* The response advances finality past what was already handled.          *)
FinalityAdvances(resp) == resp # Fail /\ resp > lastFinalEpoch

(* Seeded fault for FinalizedEpochsExactlyOnce: the catch-up loop starts   *)
(* at lastFinalEpoch instead of lastFinalEpoch + 1.                        *)
FinalizedEventsFromLast(slot, resp) ==
    IF FinalityAdvances(resp)
    THEN [i \in 1..(resp - lastFinalEpoch + 1) |->
              Event("EpochFinalized", slot, lastFinalEpoch + i - 1)]
    ELSE <<>>

(* Epochs lastFinalEpoch+1 .. resp, one EpochFinalized event each.         *)
FinalizedEvents(slot, resp) ==
    IF FinalityAdvances(resp)
    THEN [i \in 1..(resp - lastFinalEpoch) |->
              Event("EpochFinalized", slot, lastFinalEpoch + i)]
    ELSE <<>>

TickEvents(slot, resp) ==
    << Event("SlotPoll", slot, SlotToEpoch(slot)) >>
    \o (IF BoundaryDue(slot)
        THEN << Event("EpochBoundary", slot, SlotToEpoch(slot) + 1) >>
        ELSE << >>)
    \o FinalizedEvents(slot, resp)

(* Seeded fault for TypeOK: lastFinalEpoch takes the response whether or   *)
(* not the request succeeded and advanced.                                 *)
NextEventsUnguarded(slot, resp) ==
    /\ lastEpoch' = IF BoundaryDue(slot) THEN SlotToEpoch(slot) ELSE lastEpoch
    /\ lastFinalEpoch' = resp

NextEvents(slot, resp) ==
    /\ lastEpoch' = IF BoundaryDue(slot) THEN SlotToEpoch(slot) ELSE lastEpoch
    /\ lastFinalEpoch' = IF FinalityAdvances(resp) THEN resp ELSE lastFinalEpoch

-----------------------------------------------------------------------------
(* The environment: wall clock and chain finality.                         *)

AdvanceClock ==
    /\ now < MaxSlot
    /\ now' = now + 1
    /\ UNCHANGED <<finalized, stepBacks, schedVars, loopVars>>

(* An NTP correction sets the wall clock back, by up to MaxStepBackSlots  *)
(* slots; a span above SlotsPerEpoch crosses an epoch's first slot.        *)
ClockStepBack ==
    /\ stepBacks < MaxClockStepBacks
    /\ now > 0
    /\ now' \in {t \in 0..(now - 1) : now - t <= MaxStepBackSlots}
    /\ stepBacks' = stepBacks + 1
    /\ UNCHANGED <<finalized, schedVars, loopVars>>

Finalize ==
    /\ finalized < Finalizable(now)
    /\ finalized' = finalized + 1
    /\ UNCHANGED <<now, stepBacks, schedVars, loopVars>>

-----------------------------------------------------------------------------
(* runLoop.                                                                *)

(* WaitForSlotInterval, first half: the target slot is read from the clock.*)
StartWait ==
    /\ loop = "wait"
    /\ target' = now + IntervalSlots
    /\ loop' = "sleep"
    /\ UNCHANGED <<clockVars, schedVars, events, emitted>>

(* The timer fires at the start of the target slot; runLoop then calls     *)
(* NextEvents(ctx, target), whose finality read over HTTP answers resp.    *)
SlotReachedWith(resp) ==
    /\ loop = "sleep"
    /\ now >= target
    /\ NextEvents(target, resp)
    /\ events' = TickEvents(target, resp)
    /\ emitted' = emitted \o TickEvents(target, resp)
    /\ loop' = "dispatch"
    /\ UNCHANGED <<clockVars, target>>

SlotReached == \E resp \in FinalityResponses : SlotReachedWith(resp)

(* The tick's events are handed to processEvent, all of them.              *)
ProcessEvents ==
    /\ loop = "dispatch"
    /\ events' = << >>
    /\ loop' = "wait"
    /\ UNCHANGED <<clockVars, schedVars, target, emitted>>

(* The model's time horizon: the clock is at MaxSlot and runLoop sleeps   *)
(* for a later slot.  The real process would keep running; the bounded     *)
(* model stutters here instead of reporting a deadlock.                    *)
TimeHorizon ==
    /\ now = MaxSlot
    /\ loop = "sleep"
    /\ target > now
    /\ UNCHANGED vars

-----------------------------------------------------------------------------

Init ==
    /\ now \in InitSlots
    /\ finalized \in 0..Finalizable(now)
    /\ stepBacks = 0
    /\ lastEpoch = 0
    /\ lastFinalEpoch = 0
    /\ loop = "wait"
    /\ target = 0
    /\ events = << >>
    /\ emitted = << >>

Environment == AdvanceClock \/ ClockStepBack \/ Finalize

Next ==
    \/ Environment
    \/ StartWait
    \/ SlotReached
    \/ ProcessEvents
    \/ TimeHorizon

Spec == Init /\ [][Next]_vars

-----------------------------------------------------------------------------
(* Properties.                                                             *)

EventType == [type : EventTypes, slot : Nat, epoch : Nat]

TypeOK ==
    /\ now \in 0..MaxSlot
    /\ finalized \in Nat
    /\ lastEpoch \in Nat
    /\ lastFinalEpoch \in Nat
    /\ loop \in {"wait", "sleep", "dispatch"}
    /\ target \in Nat
    /\ events \in Seq(EventType)
    /\ emitted \in Seq(EventType)
    /\ stepBacks \in 0..MaxClockStepBacks

EmittedOfType(type) == SelectSeq(emitted, LAMBDA e : e.type = type)

EpochsOf(s) == [i \in DOMAIN s |-> s[i].epoch]

(* Finalization catch-up (scheduler.go 334-350): across all ticks, with    *)
(* failed and stale finality answers, the EpochFinalized events name the   *)
(* epochs 1, 2, ..., lastFinalEpoch, each exactly once and in ascending    *)
(* order -- no finalized epoch is skipped or rewarded twice.               *)
FinalizedEpochsExactlyOnce ==
    EpochsOf(EmittedOfType("EpochFinalized")) = [i \in 1..lastFinalEpoch |-> i]

DutiesBeforeRewards ==
    \A i \in DOMAIN emitted :
        emitted[i].type = "EpochFinalized" =>
            \E j \in 1..(i - 1) :
                /\ emitted[j].type = "EpochBoundary"
                /\ emitted[j].epoch = emitted[i].epoch

(* Spec section 3: duties are created at every epoch boundary.  Whenever   *)
(* the tick loop has run both before and at-or-after the first slot of     *)
(* epoch e, the duties of epoch e+1 have been requested.                   *)
TickedSlots == {e.slot : e \in Range(EmittedOfType("SlotPoll"))}

NoEpochBoundarySkipped ==
    \A e \in 1..SlotToEpoch(MaxSlot) :
        (\E s1, s2 \in TickedSlots : s1 < e * SlotsPerEpoch /\ s2 >= e * SlotsPerEpoch)
            => \E ev \in Range(emitted) : ev.type = "EpochBoundary" /\ ev.epoch = e + 1

=============================================================================
