------------------------ MODULE ObserveCommandProofs ------------------------
(***************************************************************************)
(* Proofs about ObserveCommand, for every number of targets, every chain   *)
(* and every metadata the nodes may answer: what is recorded is of one     *)
(* state and of one network, and the exit status tells what happened.      *)
(***************************************************************************)
EXTENDS ObserveCommand, TLAPS

-----------------------------------------------------------------------------
(* The exit status *)

Errors == {None, "canceled", "failure"}

\* Where an error or a cancellation comes from: the context is done after an
\* interrupt or an error of a member; an error of cancellation has one of these
\* behind it; the server returns, and its goroutine wakes up, only then; and a
\* failure anywhere is remembered in broken.
CauseInv ==
    /\ done \in BOOLEAN /\ interrupted \in BOOLEAN /\ broken \in BOOLEAN
    /\ runErr \in Errors /\ groupErr \in Errors
    /\ shutdownResult \in {None, "nil", "timeout"}
    /\ done => interrupted \/ groupErr # None
    /\ runErr = "canceled" => done
    /\ groupErr = "canceled" => interrupted
    /\ server = "returned" => done
    /\ helper # "waiting" => done
    /\ shutdownResult # None => helper # "waiting"
    /\ runErr = "failure" => broken
    /\ groupErr = "failure" => broken
    /\ shutdownResult = "timeout" => broken

StatusInv == CauseInv /\ ResultIsFaithful

\* What a step of the Beacon observer does to its error: an error of cancellation
\* is new only when the context is done.
LEMMA ObserverErrors ==
    ASSUME CauseInv, ObserverStep
    PROVE  /\ done' = done
           /\ runErr' \in Errors
           /\ runErr' = "canceled" => done
           /\ runErr = "failure" => runErr' = "failure"
<1> USE BeaconAssumption DEF CauseInv, Errors, FirstError, GroupDone
<1>1. CASE Compare \/ RecordSpec \/ RecordSpecFails \/ LoopsEnded
  BY <1>1 DEF Compare, RecordSpec, RecordSpecFails, LoopsEnded
<1>2. ASSUME NEW t \in Targets, TargetStep(t) \/ NextPoll(t) \/ LoopReturns(t)
      PROVE  /\ done' = done
             /\ runErr' \in Errors
             /\ runErr' = "canceled" => done
             /\ runErr = "failure" => runErr' = "failure"
  BY <1>2 DEF TargetStep, FetchAnswered, FetchFails, FetchHead, FetchFinality, RequestFails,
              RecordBeacon, RecordHeadComparison, RecordPollFailure, RecordFails, NextPoll,
              LoopReturns
<1> QED
  BY <1>1, <1>2 DEF ObserverStep

LEMMA InitStatus == Init => StatusInv
BY BeaconAssumption DEF Init, BeaconInit, StatusInv, CauseInv, Errors, ResultIsFaithful

LEMMA StepStatus == StatusInv /\ [Next]_vars => StatusInv'
<1> SUFFICES ASSUME StatusInv, [Next]_vars PROVE StatusInv'
  OBVIOUS
<1> USE BeaconAssumption DEF StatusInv, CauseInv, Errors, ResultIsFaithful, beaconVars,
        UnchangedBeacon, MemberReturns, FirstError
<1>1. CASE Start
  BY <1>1 DEF Start
<1>2. CASE Interrupt
  BY <1>2 DEF Interrupt
<1>3. CASE Wait
  BY <1>3 DEF Wait
<1>4. CASE CloseOutput
  BY <1>4 DEF CloseOutput
<1>5. CASE Serve \/ Shutdown
  BY <1>5 DEF Serve, Shutdown
<1>6. CASE ServeFails
  BY <1>6 DEF ServeFails
<1>7. CASE ShutdownEnds
  BY <1>7 DEF ShutdownEnds
<1>8. CASE ServerReturns
  BY <1>8 DEF ServerReturns
<1>9. CASE ExecSubscriptionEnds \/ ExecRecordsGap
  <2>1. broken' \in BOOLEAN /\ (broken => broken')
    BY <1>9, Zenon DEF ExecSubscriptionEnds, ExecRecordsGap
  <2>2. UNCHANGED <<done, interrupted, runErr, groupErr, server, helper, shutdownResult,
                    result>>
    BY <1>9 DEF ExecSubscriptionEnds, ExecRecordsGap
  <2> QED
    BY <2>1, <2>2
<1>10. CASE ExecReturns
  BY <1>10 DEF ExecReturns
<1>11. CASE Observe
  <2>1. /\ done' = done
        /\ runErr' \in Errors
        /\ runErr' = "canceled" => done
        /\ runErr = "failure" => runErr' = "failure"
    BY <1>11, ObserverErrors DEF Observe
  <2> QED
    BY <1>11, <2>1 DEF Observe
<1>12. CASE ObserverReturns
  BY <1>12 DEF ObserverReturns
<1>13. CASE Over \/ UNCHANGED vars
  BY <1>13 DEF Over, vars, commandVars
<1> QED
  BY <1>1, <1>2, <1>3, <1>4, <1>5, <1>6, <1>7, <1>8, <1>9, <1>10, <1>11, <1>12, <1>13
     DEF Next

\* The command succeeds only on an interrupt and fails only on a failure, whatever
\* the order in which its members return.
THEOREM StatusIsFaithful == Spec => []ResultIsFaithful
<1>1. StatusInv => ResultIsFaithful
  BY DEF StatusInv
<1> QED
  BY <1>1, InitStatus, StepStatus, PTL DEF Spec

-----------------------------------------------------------------------------
(* The observations *)

\* What a poll loop carries from one of its steps to the next: the state the head
\* named, and the finality of that state.
Places ==
    [at : {"idle", "poll", "compare", "gap", "returned"}]
      \cup [at : {"finality"}, state : ChainStates]
      \cup {p \in [at : {"record"}, state : ChainStates, epoch : 0 .. MaxUint,
                   observedAt : 0 .. MaxNow] : p.epoch = p.state.epoch}

\* No loop works before the metadata of every target is compared and recorded.
PollInv ==
    /\ network \in [Targets -> Metadata]
    /\ loop \in [Targets -> Places]
    /\ run \in {"init", "specs"} => /\ \A t \in Targets : loop[t] = Idle
                                    /\ observation = None
    /\ run \in {"specs", "polling"} => MetadataAgrees
    /\ run = "polling" => recorded = Targets
    /\ \A t \in Targets : loop[t] # Idle => recorded = Targets /\ MetadataAgrees
    /\ observation # None => recorded = Targets /\ MetadataAgrees

ObservedInv == PollInv /\ ObservationIsOneState

\* An epoch that the overflow check of the client lets through has a first slot
\* that fits, so that the unsigned product does not wrap around.
LEMMA StartOfEpochFits ==
    ASSUME NEW epoch \in Nat, NEW spe \in Nat \ {0}, NEW max \in Nat,
           epoch <= max \div spe
    PROVE  epoch * spe <= max /\ (epoch * spe) % (max + 1) = epoch * spe
<1> DEFINE q == max \div spe
<1>1. q \in Nat /\ q * spe <= max
  BY Z3
<1>2. epoch * spe <= q * spe
  <2>1. (q - epoch) \in Nat
    BY <1>1
  <2>2. (q - epoch) * spe >= 0
    BY <2>1, Z3
  <2> HIDE DEF q
  <2>3. (q - epoch) * spe = q * spe - epoch * spe
    BY <1>1, Z3
  <2> QED
    BY <2>2, <2>3, <1>1, Z3
<1>3. epoch * spe \in Nat
  BY Z3
<1> DEFINE p == epoch * spe
<1>4. p \in Nat /\ p <= max
  BY <1>1, <1>2, <1>3, Z3
<1> HIDE DEF p
<1>5. p % (max + 1) = p
  BY <1>4, Z3
<1> QED
  BY <1>4, <1>5 DEF p

\* The arithmetic of RecordBeacon: a lag that is recorded is exact.
LEMMA LagIsExact ==
    ASSUME PollInv, NEW epoch \in 0 .. MaxUint, NEW at \in 0 .. MaxNow,
           CurrentSlotAt(at) # None,
           FinalityLag(CurrentSlotAt(at), epoch) # None
    PROVE  epoch * reference.slotsPerEpoch + FinalityLag(CurrentSlotAt(at), epoch)
             = CurrentSlotAt(at)
<1> DEFINE spe  == reference.slotsPerEpoch
           slot == CurrentSlotAt(at)
<1>1. reference \in Metadata
  BY BeaconAssumption DEF PollInv, reference, Targets
<1>2. spe \in Nat \ {0} /\ reference.secondsPerSlot \in Nat \ {0}
        /\ reference.genesis.time \in Nat /\ reference.genesis.slot \in Nat
  BY <1>1, BeaconAssumption
<1>3. slot \in Int
  <2>1. at - reference.genesis.time \in Nat
    BY <1>2, BeaconAssumption DEF CurrentSlotAt
  <2>2. (at - reference.genesis.time) \div reference.secondsPerSlot \in Int
    BY <1>2, <2>1
  <2> QED
    BY <1>2, <2>1, <2>2, BeaconAssumption DEF CurrentSlotAt
<1>4. epoch <= MaxUint \div spe
  <2>1. ~(epoch > MaxUint \div spe)
    BY DEF FinalityLag
  <2>2. MaxUint \div spe \in Int
    BY <1>2, BeaconAssumption
  <2> QED
    BY <2>1, <2>2, BeaconAssumption
<1>5. (epoch * spe) % (MaxUint + 1) = epoch * spe
  <2>1. epoch \in Nat /\ MaxUint \in Nat
    BY BeaconAssumption
  <2> HIDE DEF spe
  <2> QED
    BY <1>2, <1>4, <2>1, StartOfEpochFits, Zenon
<1>6. FinalityLag(slot, epoch) = slot - (epoch * spe)
  <2>1. (epoch * reference.slotsPerEpoch) % (MaxUint + 1) = epoch * spe
    BY <1>5
  <2> HIDE DEF slot
  <2> QED
    BY <2>1 DEF FinalityLag, slot
<1>7. epoch * spe \in Int
  BY <1>2, BeaconAssumption
<1> HIDE DEF spe, slot
<1>8. epoch * spe + FinalityLag(slot, epoch) = slot
  BY <1>3, <1>6, <1>7
<1> QED
  BY <1>8 DEF spe, slot

LEMMA InitObserved == Init => ObservedInv
<1> SUFFICES ASSUME Init PROVE ObservedInv
  OBVIOUS
<1>1. loop \in [Targets -> Places]
  BY DEF Init, BeaconInit, Idle, Places
<1> QED
  BY <1>1 DEF Init, BeaconInit, ObservedInv, PollInv, ObservationIsOneState

\* The steps before the loops run.
LEMMA SetupObserved ==
    ASSUME ObservedInv, Compare \/ RecordSpec \/ RecordSpecFails \/ LoopsEnded
    PROVE  ObservedInv'
<1> USE DEF ObservedInv, PollInv, ObservationIsOneState, MetadataAgrees, reference
<1>1. CASE Compare
  BY <1>1, BeaconAssumption DEF Compare, FirstError
<1>2. CASE RecordSpec
  <2>1. loop' \in [Targets -> Places]
    BY <1>2 DEF RecordSpec, Places
  <2> QED
    BY <1>2, <2>1 DEF RecordSpec
<1>3. CASE RecordSpecFails \/ LoopsEnded
  BY <1>3 DEF RecordSpecFails, LoopsEnded
<1> QED
  BY <1>1, <1>2, <1>3

\* The steps of one target.
LEMMA TargetObserved ==
    ASSUME ObservedInv, NEW t \in Targets, TargetStep(t) \/ NextPoll(t) \/ LoopReturns(t)
    PROVE  ObservedInv'
<1> USE DEF ObservedInv, PollInv, ObservationIsOneState, MetadataAgrees, reference
<1>1. CASE FetchAnswered(t) \/ FetchFails(t)
  BY <1>1 DEF FetchAnswered, FetchFails
<1>2. CASE FetchHead(t)
  <2>1. loop' \in [Targets -> Places]
    BY <1>2 DEF FetchHead, Goto, Places
  <2>2. loop[t] # Idle
    BY <1>2 DEF FetchHead, Idle
  <2> QED
    BY <1>2, <2>1, <2>2 DEF FetchHead, Goto
<1>3. CASE FetchFinality(t)
  <2>1. loop[t].state \in ChainStates
    BY <1>3 DEF FetchFinality, Places
  <2>2. loop' \in [Targets -> Places]
    BY <1>3, <2>1, BeaconAssumption DEF FetchFinality, Goto, Places
  <2>3. loop[t] # Idle
    BY <1>3 DEF FetchFinality, Idle
  <2> QED
    BY <1>3, <2>2, <2>3 DEF FetchFinality, Goto
<1>4. CASE RecordBeacon(t)
  <2>1. loop' \in [Targets -> Places]
    BY <1>4 DEF RecordBeacon, Goto, Places
  <2>2. loop[t] # Idle /\ recorded = Targets /\ MetadataAgrees
    BY <1>4 DEF RecordBeacon, Idle
  <2>3. PollInv'
    BY <1>4, <2>1, <2>2 DEF RecordBeacon, Goto
  <2>4. /\ loop[t].epoch \in 0 .. MaxUint /\ loop[t].observedAt \in 0 .. MaxNow
        /\ loop[t].epoch = loop[t].state.epoch
    BY <1>4 DEF RecordBeacon, Places
  <2>5. ObservationIsOneState'
    <3> DEFINE slot == CurrentSlotAt(loop[t].observedAt)
               lag  == FinalityLag(slot, loop[t].epoch)
    <3>1. CASE slot = None \/ lag = None
      BY <1>4, <3>1 DEF RecordBeacon
    <3>2. CASE slot # None /\ lag # None
      <4>1. observation' = [state |-> loop[t].state, epoch |-> loop[t].epoch,
                            currentSlot |-> slot, lag |-> lag]
        BY <1>4, <3>2 DEF RecordBeacon
      <4>2. loop[t].epoch * reference.slotsPerEpoch + lag = slot
        BY <2>4, <3>2, LagIsExact
      <4>3. network' = network
        BY <1>4 DEF RecordBeacon
      <4> HIDE DEF slot, lag
      <4> QED
        BY <4>1, <4>2, <4>3, <2>4
    <3> QED
      BY <3>1, <3>2
  <2> QED
    BY <2>3, <2>5
<1>5. CASE RequestFails(t) \/ RecordHeadComparison(t) \/ RecordPollFailure(t) \/ RecordFails(t)
  <2>1. loop' \in [Targets -> Places]
    BY <1>5 DEF RequestFails, RecordHeadComparison, RecordPollFailure, RecordFails, Goto,
                Places, Idle
  <2>2. loop[t] # Idle
    BY <1>5 DEF RequestFails, RecordHeadComparison, RecordPollFailure, RecordFails, Idle
  <2> QED
    BY <1>5, <2>1, <2>2 DEF RequestFails, RecordHeadComparison, RecordPollFailure,
                            RecordFails, Goto
<1>6. CASE NextPoll(t) \/ LoopReturns(t)
  <2>1. loop' \in [Targets -> Places]
    BY <1>6 DEF NextPoll, LoopReturns, Goto, Places
  <2> QED
    BY <1>6, <2>1 DEF NextPoll, LoopReturns, Goto
<1> QED
  BY <1>1, <1>2, <1>3, <1>4, <1>5, <1>6 DEF TargetStep

LEMMA StepObserved == ObservedInv /\ [Next]_vars => ObservedInv'
<1> SUFFICES ASSUME ObservedInv, [Next]_vars PROVE ObservedInv'
  OBVIOUS
<1>1. CASE Observe
  BY <1>1, SetupObserved, TargetObserved DEF Observe, ObserverStep
<1>2. CASE ObserverReturns
  BY <1>2 DEF ObserverReturns, ObservedInv, PollInv, ObservationIsOneState, MetadataAgrees,
              reference
<1>3. CASE ~Observe /\ ~ObserverReturns
  <2>1. UNCHANGED <<network, run, recorded, loop, observation>>
    BY <1>3 DEF Next, Start, Interrupt, Wait, CloseOutput, Serve, ServeFails, Shutdown,
                ShutdownEnds, ServerReturns, ExecSubscriptionEnds, ExecRecordsGap,
                ExecReturns, Over, vars, beaconVars, UnchangedBeacon
  <2> QED
    BY <2>1 DEF ObservedInv, PollInv, ObservationIsOneState, MetadataAgrees, reference
<1> QED
  BY <1>1, <1>2, <1>3

LEMMA AlwaysObserved == Spec => []ObservedInv
BY InitObserved, StepObserved, PTL DEF Spec

\* An observation joins the head, the finality and the lag of one Beacon state,
\* whatever the node answers to the requests of other polls in between; and no
\* epoch makes the unsigned arithmetic of the lag wrap around.
THEOREM ObservationsAreOfOneState == Spec => []ObservationIsOneState
<1>1. ObservedInv => ObservationIsOneState
  BY DEF ObservedInv
<1> QED
  BY <1>1, AlwaysObserved, PTL

\* Nothing is observed before all targets are known to be of one network.
THEOREM ObservationsAreOfOneNetwork == Spec => []ObservedNetworkIsOne
<1>1. ObservedInv => ObservedNetworkIsOne
  BY DEF ObservedInv, PollInv, MetadataAgrees, Compatible, ObservedNetworkIsOne
<1> QED
  BY <1>1, AlwaysObserved, PTL
=============================================================================
