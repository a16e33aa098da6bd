-------------------------- MODULE MeasurementWindow -------------------------
(***************************************************************************)
(* When orchestrator.Run acts: the clock and its slots, the polls of the   *)
(* targets, what is recorded when Run looks, the epoch boundary the window *)
(* is tied to, the deadman TTL of the partition, its removal and the       *)
(* recovery window that follows.                                           *)
(*                                                                         *)
(* Time is counted in ticks, TicksPerSlot to a slot; a timestamp is the    *)
(* tick it was taken in.  Each target starts at most one poll per tick.    *)
(***************************************************************************)
EXTENDS Integers, FiniteSets, FiniteSetsExt

CONSTANTS
    Targets,
    TicksPerSlot,
    SlotsPerEpoch,
    DurationEpochs,   \* Spec.Fault.DurationEpochs
    PostFaultEpochs,  \* Spec.Methodology.PostFaultObservationEpochs
    Tolerance,        \* Spec.Thresholds.HeadDivergenceToleranceSlots
    CallTicks,        \* bound: how long an Apply, a Revert or the start takes
    MaxFinality,      \* bound: finalized epochs go up to it
    MaxSlack          \* bound: how often a poll fails or anything is late

ASSUME WindowAssumption ==
    /\ IsFiniteSet(Targets) /\ Targets # {}
    /\ TicksPerSlot \in Nat \ {0}
    /\ SlotsPerEpoch \in Nat \ {0}
    /\ DurationEpochs \in Nat \ {0}
    /\ PostFaultEpochs \in Nat \ {0}
    /\ Tolerance \in Nat
    /\ CallTicks \in Nat
    /\ MaxFinality \in Nat
    /\ MaxSlack \in Nat

VARIABLES
    now,        \* the clock
    finalized,  \* the finalized epoch each Beacon node reports
    polled,     \* the targets that have started their poll of this tick
    inflight,   \* the observation a target has made and not yet recorded
    beacon,     \* the recorded observations of each target
    gaps,       \* the recorded poll failures
    slack,      \* polls that failed, and what was late by a tick
    pc,
    condition,
    deadline,   \* of the wait Run is in
    boundary,   \* of the boundary context, which spans two waits and Apply
    createdAt, injectedAt, healedAt,   \* the partition
    startSlot,
    initial, ending,                   \* observations at the ends of the window
    removedAt, removalSlot,
    recoveryWindowComplete

environment == <<finalized, polled, inflight, beacon, gaps, slack>>
partition == <<createdAt, injectedAt, healedAt>>
window == <<startSlot, initial, ending, removedAt, removalSlot, recoveryWindowComplete>>
vars == <<now, environment, pc, condition, deadline, boundary, partition, window>>

Never == -1

\* CurrentSlotAt.
SlotOf(tick) == tick \div TicksPerSlot

\* runtimeDuration.
Ticks(slots) == slots * TicksPerSlot

NoObservation == [at |-> Never, epoch |-> 0, head |-> "common"]

endSlot == startSlot + DurationEpochs * SlotsPerEpoch

-----------------------------------------------------------------------------
(* Reading a snapshot *)

Newest(observations) ==
    IF observations = {} THEN NoObservation
    ELSE CHOOSE o \in observations : \A other \in observations : other.at <= o.at

\* latestByTarget
latest(t) == Newest(beacon[t])

observationAtSlot(t, slot) == Newest({o \in beacon[t] : SlotOf(o.at) = slot})

\* Mutant of observedAt: a later observation is taken for one at the slot.
observedAt_OrLater(t, slot) == \E o \in beacon[t] : SlotOf(o.at) >= slot

observedAt(t, slot) == \E o \in beacon[t] : SlotOf(o.at) = slot

\* commonLatestSlot: every target has an observation and their latest ones are
\* of one slot.
commonLatestSlot(slot) ==
    \A t \in Targets : beacon[t] # {} /\ SlotOf(latest(t).at) = slot

latestSlotExceeds(maximum) ==
    \E t \in Targets : beacon[t] # {} /\ SlotOf(latest(t).at) > maximum

\* What waitForRecoveryOrCensor waits for.
AllRecovered == \A t \in Targets : latest(t).epoch > ending[t].epoch

AllCensored(slot) == \A t \in Targets : SlotOf(latest(t).at) >= slot

censorSlot == removalSlot + PostFaultEpochs * SlotsPerEpoch

\* The slot rule of waitForCommonSlot: the last slot of an epoch in a fault run,
\* the first one in a control run.
slotRule(slot) ==
    slot % SlotsPerEpoch = IF condition = "fault" THEN SlotsPerEpoch - 1 ELSE 0

\* The predicate of the wait that Run is in.
WaitSatisfied ==
    \/ pc = "specs" /\ \A t \in Targets : beacon[t] # {}
    \/ pc = "boundary" /\ \E slot \in 0 .. SlotOf(now) : commonLatestSlot(slot) /\ slotRule(slot)
    \/ pc = "injected" /\ \A t \in Targets : observedAt(t, startSlot)
    \/ pc = "window" /\ \A t \in Targets : observedAt(t, endSlot)
    \/ pc = "recovery" /\ (AllRecovered \/ AllCensored(censorSlot))

-----------------------------------------------------------------------------

Init ==
    /\ now \in 0 .. Ticks(SlotsPerEpoch) - 1
    /\ finalized = [t \in Targets |-> 0]
    /\ polled = {}
    /\ inflight = [t \in Targets |-> NoObservation]
    /\ beacon = [t \in Targets |-> {}]
    /\ gaps = {}
    /\ slack = 0
    /\ pc = "specs"
    /\ condition \in {"control", "fault"}
    /\ deadline = now + CallTicks
    /\ boundary = Never
    /\ createdAt = Never /\ injectedAt = Never /\ healedAt = Never
    /\ startSlot = 0
    /\ initial = inflight /\ ending = inflight
    /\ removedAt = Never
    /\ removalSlot = 0
    /\ recoveryWindowComplete = TRUE

-----------------------------------------------------------------------------
(* The environment: clock, chain, polls *)

Running == pc \notin {"done", "failed"}

\* stopObserver has not been called.
Polling == Running /\ pc # "stop"

\* A call of the backend is over after CallTicks, and a wait does not outlive its
\* deadline by a whole tick.
Tick ==
    /\ Polling
    /\ now < deadline
    /\ now' = now + 1
    /\ slack' = slack + Cardinality(Targets \ polled)
                     + Cardinality({t \in Targets : inflight[t] # NoObservation})
                     + (IF WaitSatisfied THEN 1 ELSE 0)
    /\ slack' <= MaxSlack
    /\ polled' = {}
    /\ UNCHANGED <<finalized, inflight, beacon, gaps, pc, condition, deadline, boundary,
                   partition, window>>

\* A node finalizes in the first slot of an epoch, before or after its poll.  Epochs
\* are only compared with those at the ends of the window: earlier ones are left out.
Finalize(t) ==
    /\ pc \in {"window", "revert", "recovery"}
    /\ SlotOf(now) % SlotsPerEpoch = 0
    /\ finalized[t] < MaxFinality
    /\ finalized' = [finalized EXCEPT ![t] = @ + 1]
    /\ UNCHANGED <<now, polled, inflight, beacon, gaps, slack, pc, condition, deadline,
                   boundary, partition, window>>

\* The head a target reports: while the partition is in force each side builds on a
\* head of its own (two targets stand for the two sides), and they agree otherwise.
\* An idealised environment: real heads part with the next block of either side, and
\* come together some blocks after the partition is gone.
HeadOf(t) == IF injectedAt # Never /\ healedAt = Never THEN t ELSE "common"

\* pollBeacon has succeeded and the timestamp is taken.
Fetch(t) ==
    /\ Polling
    /\ t \notin polled
    /\ inflight[t] = NoObservation
    /\ polled' = polled \cup {t}
    /\ inflight' = [inflight EXCEPT ![t] =
                      [at |-> now, epoch |-> finalized[t], head |-> HeadOf(t)]]
    /\ UNCHANGED <<now, finalized, beacon, gaps, slack, pc, condition, deadline, boundary,
                   partition, window>>

\* RecordBeacon, at any time after the timestamp was taken.
Record(t) ==
    /\ Running
    /\ inflight[t] # NoObservation
    /\ beacon' = [beacon EXCEPT ![t] = @ \cup {inflight[t]}]
    /\ inflight' = [inflight EXCEPT ![t] = NoObservation]
    /\ UNCHANGED <<now, finalized, polled, gaps, slack, pc, condition, deadline, boundary,
                   partition, window>>

\* RecordPollFailure.
PollFails(t) ==
    /\ Polling
    /\ t \notin polled
    /\ inflight[t] = NoObservation
    /\ slack < MaxSlack
    /\ slack' = slack + 1
    /\ polled' = polled \cup {t}
    /\ gaps' = gaps \cup {[target |-> t, at |-> now]}
    /\ UNCHANGED <<now, finalized, inflight, beacon, pc, condition, deadline, boundary,
                   partition, window>>

-----------------------------------------------------------------------------
(* Run up to the start of the window *)

\* waitForSpecsAndHeads; then the boundary context is made.
SpecsKnown ==
    /\ pc = "specs"
    /\ WaitSatisfied
    /\ pc' = "boundary"
    /\ boundary' = now + Ticks(2 * SlotsPerEpoch)
    /\ deadline' = boundary'
    /\ UNCHANGED <<now, environment, condition, partition, window>>

\* waitForCommonSlot of a fault run, in the last slot of an epoch; Apply is
\* called and the object created, with the next slot as the committed boundary.
CallApply ==
    /\ pc = "boundary"
    /\ condition = "fault"
    /\ \E preBoundary \in 0 .. SlotOf(now) :
          /\ commonLatestSlot(preBoundary)
          /\ slotRule(preBoundary)
          /\ startSlot' = preBoundary + 1
    /\ createdAt' = now
    /\ pc' = "apply"
    /\ deadline' = now + CallTicks
    /\ UNCHANGED <<now, environment, condition, boundary, injectedAt, healedAt, initial,
                   ending, removedAt, removalSlot, recoveryWindowComplete>>

\* The controller, before or after Apply has given up.
Inject ==
    /\ pc = "apply"
    /\ injectedAt = Never
    /\ injectedAt' = now
    /\ UNCHANGED <<now, environment, pc, condition, deadline, boundary, createdAt, healedAt,
                   window>>

\* Apply returns: the run is given up if an observation of a later slot than the
\* one before the boundary has been recorded, and waits for the boundary otherwise.
ApplyReturns ==
    /\ pc = "apply"
    /\ injectedAt # Never
    /\ pc' = IF latestSlotExceeds(startSlot - 1) THEN "failed" ELSE "injected"
    /\ deadline' = IF boundary > now THEN boundary ELSE now
    /\ UNCHANGED <<now, environment, condition, boundary, partition, window>>

ApplyFails ==
    /\ pc = "apply"
    /\ pc' = "failed"
    /\ UNCHANGED <<now, environment, condition, deadline, boundary, partition, window>>

\* waitForExactSlot at the committed boundary.
BoundaryObserved ==
    /\ pc = "injected"
    /\ WaitSatisfied
    /\ initial' = [t \in Targets |-> observationAtSlot(t, startSlot)]
    /\ pc' = "window"
    /\ deadline' = now + Ticks((DurationEpochs + 1) * SlotsPerEpoch)
    /\ UNCHANGED <<now, environment, condition, boundary, partition, startSlot, ending,
                   removedAt, removalSlot, recoveryWindowComplete>>

\* waitForCommonSlot of a control run, in the first slot of an epoch.
ControlBoundary ==
    /\ pc = "boundary"
    /\ condition = "control"
    /\ \E slot \in 0 .. SlotOf(now) :
          /\ commonLatestSlot(slot)
          /\ slotRule(slot)
          /\ startSlot' = slot
          /\ initial' = [t \in Targets |-> observationAtSlot(t, slot)]
    /\ pc' = "window"
    /\ deadline' = now + Ticks((DurationEpochs + 1) * SlotsPerEpoch)
    /\ UNCHANGED <<now, environment, condition, boundary, partition, ending, removedAt,
                   removalSlot, recoveryWindowComplete>>

-----------------------------------------------------------------------------
(* The window, the removal, the recovery *)

\* Mutant of deadmanTTL: the length of the window without the two spare epochs.
deadmanTTL_NoSpare == Ticks(DurationEpochs * SlotsPerEpoch)

\* The duration the object is created with.
deadmanTTL == Ticks((DurationEpochs + 2) * SlotsPerEpoch)

\* The deadman: the controller heals the partition on its own.
Expire ==
    /\ Running
    /\ injectedAt # Never
    /\ healedAt = Never
    /\ now >= createdAt + deadmanTTL
    /\ healedAt' = now
    /\ UNCHANGED <<now, environment, pc, condition, deadline, boundary, createdAt,
                   injectedAt, window>>

\* waitForExactSlot at the end of the window; a fault run then calls Revert.
WindowObserved ==
    /\ pc = "window"
    /\ WaitSatisfied
    /\ ending' = [t \in Targets |-> observationAtSlot(t, endSlot)]
    /\ IF condition = "fault"
       THEN pc' = "revert" /\ deadline' = now + CallTicks
       ELSE pc' = "stop" /\ UNCHANGED deadline
    /\ UNCHANGED <<now, environment, condition, boundary, partition, startSlot, initial,
                   removedAt, removalSlot, recoveryWindowComplete>>

Heal ==
    /\ pc = "revert"
    /\ healedAt = Never
    /\ healedAt' = now
    /\ UNCHANGED <<now, environment, pc, condition, deadline, boundary, createdAt,
                   injectedAt, window>>

\* Revert returns: the removal is tied to the latest slot of any observation.
RevertReturns ==
    /\ pc = "revert"
    /\ healedAt # Never
    /\ removedAt' = now
    /\ removalSlot' = Max({endSlot} \cup {SlotOf(latest(t).at) : t \in Targets})
    /\ pc' = "recovery"
    /\ deadline' = now + Ticks((PostFaultEpochs + 1) * SlotsPerEpoch)
    /\ UNCHANGED <<now, environment, condition, boundary, partition, startSlot, initial,
                   ending, recoveryWindowComplete>>

RevertFails ==
    /\ pc = "revert"
    /\ pc' = "failed"
    /\ UNCHANGED <<now, environment, condition, deadline, boundary, partition, window>>

\* waitForRecoveryOrCensor.
RecoveryObserved ==
    /\ pc = "recovery"
    /\ WaitSatisfied
    /\ pc' = "stop"
    /\ UNCHANGED <<now, environment, condition, deadline, boundary, partition, window>>

\* The deadline of a wait: only that of the recovery window does not fail the run.
WaitTimesOut ==
    /\ pc \in {"boundary", "injected", "window", "recovery"}
    /\ now >= deadline
    /\ pc' = IF pc = "recovery" THEN "stop" ELSE "failed"
    /\ recoveryWindowComplete' = (pc # "recovery")
    /\ UNCHANGED <<now, environment, condition, deadline, boundary, partition, startSlot,
                   initial, ending, removedAt, removalSlot>>

\* The context of the run ends while it has no observation of some target: the
\* first wait has no deadline of its own.
Canceled ==
    /\ pc = "specs"
    /\ pc' = "failed"
    /\ UNCHANGED <<now, environment, condition, deadline, boundary, partition, window>>

\* stopObserver returns when every observation that was made is recorded; the
\* summary is made of what is recorded then.
StopObserver ==
    /\ pc = "stop"
    /\ \A t \in Targets : inflight[t] = NoObservation
    /\ pc' = "done"
    /\ UNCHANGED <<now, environment, condition, deadline, boundary, partition, window>>

Over == ~Running /\ UNCHANGED vars

Environment ==
    \/ Tick
    \/ \E t \in Targets : Finalize(t) \/ Fetch(t) \/ Record(t) \/ PollFails(t)
    \/ Inject \/ Expire \/ Heal

Run ==
    \/ SpecsKnown \/ CallApply \/ ApplyReturns \/ ApplyFails \/ BoundaryObserved
    \/ ControlBoundary \/ WindowObserved \/ RevertReturns \/ RevertFails
    \/ RecoveryObserved \/ WaitTimesOut \/ Canceled \/ StopObserver

Next == Environment \/ Run \/ Over

Spec == Init /\ [][Next]_vars

-----------------------------------------------------------------------------
(* summarizeRun *)

\* Mutant of Recoveries: the slot of the removal decides, not its time.
Recoveries_BySlot(t) ==
    {o \in beacon[t] : o.epoch > ending[t].epoch /\ SlotOf(o.at) >= removalSlot}

\* RecoverySlots of a target: the first observation after the removal whose
\* finalized epoch is beyond that of the end of the window.
Recoveries(t) ==
    {o \in beacon[t] : /\ o.at >= removedAt
                       /\ o.epoch > ending[t].epoch
                       /\ SlotOf(o.at) >= removalSlot}

Recovered(t) == Recoveries(t) # {}

RecoverySlots(t) == Min({SlotOf(o.at) : o \in Recoveries(t)}) - removalSlot

\* RecoveryMeasurementComplete: no poll failure since the removal, and the wait
\* did not time out.
RecoveryMeasurementComplete ==
    /\ recoveryWindowComplete
    /\ \A gap \in gaps : gap.at < removedAt

latestTimestamp(observations) == Max({observations[t].at : t \in Targets})

\* No poll failure from the last first observation to the last last one, no slot of
\* the window in which a target was not observed, no finality that went back.
PrimaryMeasurementComplete ==
    /\ \A gap \in gaps : gap.at \notin latestTimestamp(initial) .. latestTimestamp(ending)
    /\ \A slot \in startSlot .. endSlot : \A t \in Targets : observedAt(t, slot)
    /\ \A t \in Targets : initial[t].epoch <= ending[t].epoch

\* The last heads that were observed in the slot; a missing one makes them agree.
headsDisagreeAtCurrentSlot(slot) ==
    /\ \A t \in Targets : observedAt(t, slot)
    /\ \E t, u \in Targets : observationAtSlot(t, slot).head # observationAtSlot(u, slot).head

\* Mutant of DivergenceExceeded: every slot of the window has to disagree.
DivergenceExceeded_Throughout ==
    \A slot \in startSlot .. endSlot : headsDisagreeAtCurrentSlot(slot)

\* headDivergenceExceeded: more than Tolerance slots of the window in a row.
DivergenceExceeded ==
    \E slot \in startSlot .. endSlot - Tolerance :
        \A k \in slot .. slot + Tolerance : headsDisagreeAtCurrentSlot(k)

-----------------------------------------------------------------------------
(* Properties *)

\* The summary compares real observations: a run that gets as far as Revert, or
\* to its summary, has one of every target in the first and one in the last slot
\* of the window.  observationsAtSlotMap would give zero epochs for a missing one.
EndpointsAreObserved ==
    pc \in {"revert", "recovery", "stop", "done"} =>
        \A t \in Targets : /\ initial[t].at # Never /\ SlotOf(initial[t].at) = startSlot
                           /\ ending[t].at # Never /\ SlotOf(ending[t].at) = endSlot

\* The partition is in force for the whole of the window of a run that is not
\* given up: it was injected before, and neither removed nor expired by its
\* deadman TTL until after, every observation of the slots behind the first one
\* up to the one that ends the window.
PartitionSpansWindow ==
    condition = "fault" /\ pc \in {"revert", "recovery", "stop", "done"} =>
        \A t \in Targets : \A o \in beacon[t] :
            SlotOf(o.at) > startSlot /\ o.at <= ending[t].at =>
                injectedAt <= o.at /\ (healedAt = Never \/ o.at <= healedAt)

\* A recovery is one from the fault, and none is missed: summarizeRun counts no
\* observation that was made before the partition was really healed, although the
\* finality may have moved on in the slot of the removal while Revert was still at
\* work; and it counts every observation of a later finality made since the removal
\* was noted, although the removal slot comes from another place than the time of
\* the removal, the latest slots recorded when Revert returned.
RecoveryIsFromFault ==
    condition = "fault" /\ pc = "done" =>
        \A t \in Targets : \A o \in beacon[t] :
            /\ o \in Recoveries(t) => healedAt # Never /\ healedAt <= o.at
            /\ removedAt <= o.at /\ ending[t].epoch < o.epoch => o \in Recoveries(t)

\* The partition shows: a fault run that completes its primary measurement reports
\* that the heads diverged for longer than is tolerated, although the first slot may
\* hold observations made before the injection, and the last one observations made
\* after the removal, which summarizeRun reads because it looks at the final dataset.
DivergenceShowsPartition ==
    condition = "fault" /\ pc = "done" /\ PrimaryMeasurementComplete => DivergenceExceeded

-----------------------------------------------------------------------------
(* What the documents say and the code does not guarantee *)

\* ADR-0004: absence of recovery inside the window is observed right-censoring.
\* A target without a recovery, in a measurement that is complete, was observed
\* to the end of the recovery window.
CensoringIsObserved ==
    condition = "fault" /\ pc = "done" /\ RecoveryMeasurementComplete =>
        \A t \in Targets : Recovered(t) \/ SlotOf(latest(t).at) >= censorSlot
=============================================================================
