----------------------- MODULE ObserverPipelineProofs -----------------------
(***************************************************************************)
(* Proofs about ObserverPipeline, for every set of targets, every bound    *)
(* and every family of predicates.                                         *)
(***************************************************************************)
EXTENDS ObserverPipeline, TLAPS

\* The orchestrator gets to the close only after group.Wait, and the file is
\* closed by nobody else: this is the part of the argument about the teardown
\* that the properties leave implicit.
JoinBeforeClose ==
    /\ pc \in {"close", "closed"} => \A t \in Targets : poller[t] = "exited"
    /\ ~rawOpen => pc = "closed"

IInv == TypeOK /\ NoLostWakeup /\ RawCoversData /\ JoinBeforeClose

LEMMA InitIInv == Init => IInv
<1> SUFFICES ASSUME Init PROVE IInv
  OBVIOUS
<1>1. TypeOK
  <2>1. 0 \in 0..MaxRecords /\ 1 \in 1..NumWaits
    BY PipelineAssumption
  <2>2. [t \in Targets |-> 0] \in Snapshots
    BY <2>1 DEF Snapshots
  <2> QED
    BY <2>1, <2>2 DEF Init, TypeOK
<1>2. RawCoversData
  <2> SUFFICES ASSUME NEW t \in Targets
               PROVE  raw[t] = data[t] + (IF poller[t] = "written" THEN 1 ELSE 0)
    BY Zenon DEF RawCoversData
  <2>1. raw[t] = 0 /\ data[t] = 0 /\ poller[t] = "polling"
    BY Zenon DEF Init
  <2> QED
    BY <2>1
<1>3. NoLostWakeup /\ JoinBeforeClose
  BY DEF Init, NoLostWakeup, JoinBeforeClose
<1> QED
  BY <1>1, <1>2, <1>3 DEF IInv

\* Every step of a target's goroutine preserves the invariant.
LEMMA TargetIInv ==
    ASSUME IInv, NEW t \in Targets, TargetStep(t) PROVE IInv'
<1> USE PipelineAssumption DEF IInv, TypeOK, Snapshots
<1>1. CASE Tick(t) \/ PollCanceled(t) \/ Exit(t)
  BY <1>1 DEF Tick, PollCanceled, Exit, NoLostWakeup, RawCoversData, JoinBeforeClose
<1>2. CASE WriteRaw(t)
  BY <1>2 DEF WriteRaw, NoLostWakeup, RawCoversData, JoinBeforeClose
<1>3. CASE WriteRawFails(t)
  BY <1>3 DEF WriteRawFails, NoLostWakeup, RawCoversData, JoinBeforeClose
<1>4. CASE Store(t)
  BY <1>4 DEF Store, NoLostWakeup, RawCoversData, JoinBeforeClose
<1>5. CASE Notify(t)
  BY <1>5 DEF Notify, NoLostWakeup, RawCoversData, JoinBeforeClose
<1> QED
  BY <1>1, <1>2, <1>3, <1>4, <1>5 DEF TargetStep

\* Every step of the orchestrator, and every change of a context, does too.
LEMMA OrchestratorIInv ==
    ASSUME IInv, WaiterStep \/ Deadline \/ CancelRun \/ Teardown PROVE IInv'
<1> USE PipelineAssumption DEF IInv, TypeOK, Snapshots
<1>1. CASE Satisfied
  <2>1. TypeOK'
    <3>1. wait' \in 1..NumWaits
      BY <1>1 DEF Satisfied
    <3>2. pc' \in {"check", "stop"} /\ pred' \in Predicates /\ ctxDone' \in BOOLEAN
      BY <1>1, Zenon DEF Satisfied
    <3> QED
      BY <1>1, <3>1, <3>2, Zenon DEF Satisfied
  <2>2. NoLostWakeup'
    BY <1>1, Zenon DEF Satisfied, NoLostWakeup
  <2>3. RawCoversData' /\ JoinBeforeClose'
    BY <1>1 DEF Satisfied, RawCoversData, JoinBeforeClose
  <2> QED
    BY <2>1, <2>2, <2>3
<1>2. CASE Block
  BY <1>2 DEF Block, NoLostWakeup, RawCoversData, JoinBeforeClose
<1>3. CASE Wake
  BY <1>3 DEF Wake, NoLostWakeup, RawCoversData, JoinBeforeClose
<1>4. CASE WaitFails
  BY <1>4 DEF WaitFails, NoLostWakeup, RawCoversData, JoinBeforeClose
<1>5. CASE Deadline \/ CancelRun
  BY <1>5 DEF Deadline, CancelRun, NoLostWakeup, RawCoversData, JoinBeforeClose
<1>6. CASE Teardown
  BY <1>6 DEF Teardown, CancelObserver, JoinObserver, CloseRaw,
              NoLostWakeup, RawCoversData, JoinBeforeClose
<1> QED
  BY <1>1, <1>2, <1>3, <1>4, <1>5, <1>6 DEF WaiterStep

LEMMA NextIInv == IInv /\ [Next]_vars => IInv'
<1> SUFFICES ASSUME IInv, [Next]_vars PROVE IInv'
  OBVIOUS
<1>1. CASE \E t \in Targets : TargetStep(t)
  BY <1>1, TargetIInv
<1>2. CASE WaiterStep \/ Deadline \/ CancelRun \/ Teardown
  BY <1>2, OrchestratorIInv
<1>3. CASE Finished \/ UNCHANGED vars
  BY <1>3 DEF Finished, vars, IInv, TypeOK, NoLostWakeup, RawCoversData,
              JoinBeforeClose
<1> QED
  BY <1>1, <1>2, <1>3 DEF Next

LEMMA PipelineInvariant == Spec => []IInv
BY InitIInv, NextIInv, PTL DEF Spec

\* waitFor never sleeps on a changed dataset without a notification under way,
\* although DatasetRecorder.notify drops what the cap-1 channel cannot hold.
THEOREM WakeupsAreNotLost == Spec => []NoLostWakeup
<1>1. IInv => NoLostWakeup
  BY DEF IInv
<1> QED
  BY <1>1, PipelineInvariant, PTL

\* Whatever the orchestrator has decided on is in raw-timeseries.jsonl.
THEOREM DecisionsAreInEvidence == Spec => []RawCoversData
<1>1. IInv => RawCoversData
  BY DEF IInv
<1> QED
  BY <1>1, PipelineInvariant, PTL

\* The closed time-series file is written to by nobody, and holds exactly the
\* observations that the run summary is computed from.
THEOREM ClosedEvidenceIsFinal ==
    Spec => []NoWriteAfterClose
<1>1. IInv => NoWriteAfterClose
  <2> SUFFICES ASSUME IInv, ~rawOpen
               PROVE  (\A t \in Targets : poller[t] = "exited") /\ raw = data
    BY DEF NoWriteAfterClose
  <2>1. \A t \in Targets : poller[t] = "exited"
    BY DEF IInv, JoinBeforeClose
  <2>2. ASSUME NEW t \in Targets PROVE raw[t] = data[t]
    <3>1. raw[t] = data[t] + (IF poller[t] = "written" THEN 1 ELSE 0)
      BY Zenon DEF IInv, RawCoversData
    <3>2. data[t] \in Nat /\ poller[t] = "exited"
      BY <2>1 DEF IInv, TypeOK, Snapshots
    <3> QED
      BY <3>1, <3>2
  <2> QED
    BY <2>1, <2>2 DEF IInv, TypeOK, Snapshots
<1> QED
  BY <1>1, PipelineInvariant, PTL
=============================================================================
