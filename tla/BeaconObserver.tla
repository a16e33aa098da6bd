--------------------------- MODULE BeaconObserver ---------------------------
(***************************************************************************)
(* Observer.Run (internal/observer/observer.go) and the Beacon API client  *)
(* it polls with (internal/beacon/client.go): the parallel fetch of every  *)
(* target's metadata, the comparison with the first target, then one loop  *)
(* per target.  A poll is two requests, the head and the finality of that  *)
(* head's state, while the node goes on to other heads; an answer that     *)
(* does not arrive in time, is not 200, is too long or does not parse is a *)
(* failed request.                                                         *)
(***************************************************************************)
EXTENDS Integers, FiniteSets

CONSTANTS
    NumTargets,   \* the targets in the order of their names, which New sorts
    ChainStates,  \* [slot, epoch]: Beacon states, with their finalized epoch
    Metadata,     \* what a node may answer to Spec and Genesis
    MaxUint,      \* math.MaxUint64
    MaxNow,       \* bound on the time a node is polled at
    None

Targets == 1 .. NumTargets

ASSUME BeaconAssumption ==
    /\ NumTargets \in Nat \ {0}
    /\ \A s \in ChainStates : s.slot \in 0 .. MaxUint /\ s.epoch \in 0 .. MaxUint
    /\ \A m \in Metadata : /\ m.secondsPerSlot \in Nat \ {0}
                           /\ m.slotsPerEpoch \in Nat \ {0}
                           /\ m.genesis.time \in Nat
                           /\ m.genesis.slot \in 0 .. MaxUint
    /\ MaxUint \in Nat /\ MaxNow \in Nat
    /\ None \notin {"canceled", "failure", "nil", "timeout"}

VARIABLES
    network,     \* the metadata of each node
    done,        \* the context of Run is done
    run,         \* "init", "specs", "polling", "ending", "returned"
    runErr,      \* the first error of Run's groups: None, "canceled", "failure"
    fetch,       \* the metadata fetch of each target
    recorded,    \* the targets whose metadata is recorded
    loop,        \* the poll loop of each target
    observation  \* the last recorded observation

beaconVars == <<network, done, run, runErr, fetch, recorded, loop, observation>>

Idle == [at |-> "idle"]

-----------------------------------------------------------------------------
(* Metadata and arithmetic *)

\* Fork epochs are compared where both sides name the fork.
Compatible(m, other) ==
    /\ m.secondsPerSlot = other.secondsPerSlot
    /\ m.slotsPerEpoch = other.slotsPerEpoch
    /\ \A fork \in DOMAIN m.forkEpochs \cap DOMAIN other.forkEpochs :
          m.forkEpochs[fork] = other.forkEpochs[fork]

\* Mutant of MetadataAgrees: only the Genesis of the targets is compared.
MetadataAgrees_GenesisOnly == \A t \in Targets : network[t].genesis = network[1].genesis

\* Every target is compared with the first one, and with no other.
MetadataAgrees ==
    \A t \in Targets : /\ Compatible(network[t], network[1])
                       /\ network[t].genesis = network[1].genesis

\* o.spec and o.genesis.
reference == network[1]

CurrentSlotAt(at) ==
    IF at < reference.genesis.time THEN None
    ELSE LET slots == (at - reference.genesis.time) \div reference.secondsPerSlot
         IN  IF slots > MaxUint - reference.genesis.slot THEN None
             ELSE reference.genesis.slot + slots

FinalityLag(slot, epoch) ==
    IF epoch > MaxUint \div reference.slotsPerEpoch THEN None
    ELSE LET finalizedSlot == (epoch * reference.slotsPerEpoch) % (MaxUint + 1)
         IN  IF slot < finalizedSlot THEN None ELSE slot - finalizedSlot

-----------------------------------------------------------------------------

BeaconInit ==
    /\ network \in [Targets -> Metadata]
    /\ done = FALSE
    /\ run = "init"
    /\ runErr = None
    /\ fetch = [t \in Targets |-> "spec"]
    /\ recorded = {}
    /\ loop = [t \in Targets |-> Idle]
    /\ observation = None

\* Mutant of FirstError: a later error replaces the first.
FirstError_Last(error, new) == IF new = None THEN error ELSE new

\* errgroup keeps the first error.
FirstError(error, new) == IF error = None THEN new ELSE error

-----------------------------------------------------------------------------
(* initialize *)

\* The context of the fetches, and later of the loops: an error of one of them ends
\* the others.
GroupDone == done \/ runErr # None

FetchAnswered(t) ==
    /\ run = "init"
    /\ fetch[t] \in {"spec", "genesis"}
    /\ fetch' = [fetch EXCEPT ![t] = IF @ = "spec" THEN "genesis" ELSE "ended"]
    /\ UNCHANGED <<network, done, run, runErr, recorded, loop, observation>>

\* A request fails; there is no second try.
FetchFails(t) ==
    /\ run = "init"
    /\ fetch[t] \in {"spec", "genesis"}
    /\ fetch' = [fetch EXCEPT ![t] = "ended"]
    /\ \/ runErr' = FirstError(runErr, "failure")
       \/ GroupDone /\ runErr' = FirstError(runErr, "canceled")
    /\ UNCHANGED <<network, done, run, recorded, loop, observation>>

\* All fetches have ended: the metadata is recorded, or Run returns the error.
Compare ==
    /\ run = "init"
    /\ \A t \in Targets : fetch[t] = "ended"
    /\ runErr' = IF MetadataAgrees THEN runErr ELSE FirstError(runErr, "failure")
    /\ run' = IF runErr' = None THEN "specs" ELSE "ending"
    /\ UNCHANGED <<network, done, fetch, recorded, loop, observation>>

\* RecordSpec, target by target; the loops start after the last one.
RecordSpec ==
    /\ run = "specs"
    /\ recorded' = 1 .. Cardinality(recorded) + 1
    /\ IF recorded' = Targets
       THEN run' = "polling" /\ loop' = [t \in Targets |-> [at |-> "poll"]]
       ELSE UNCHANGED <<run, loop>>
    /\ UNCHANGED <<network, done, runErr, fetch, observation>>

RecordSpecFails ==
    /\ run = "specs"
    /\ runErr' = "failure"
    /\ run' = "ending"
    /\ UNCHANGED <<network, done, fetch, recorded, loop, observation>>

-----------------------------------------------------------------------------
(* runTarget and pollAndRecord *)

Goto(t, place) == loop' = [loop EXCEPT ![t] = place]

\* Head: whatever head the node has by then, with its state root.
FetchHead(t) ==
    /\ loop[t].at = "poll"
    /\ \E head \in ChainStates : Goto(t, [at |-> "finality", state |-> head])
    /\ UNCHANGED <<network, done, run, runErr, fetch, recorded, observation>>

\* Mutant of FetchFinality: asked for the head instead of for the state root.
FetchFinality_OfHead(t) ==
    /\ loop[t].at = "finality"
    /\ \E head \in ChainStates, now \in 0 .. MaxNow :
          Goto(t, [at |-> "record", state |-> loop[t].state, epoch |-> head.epoch,
                   observedAt |-> now])
    /\ UNCHANGED <<network, done, run, runErr, fetch, recorded, observation>>

\* Finality of the state the head named; then the timestamp is taken.
FetchFinality(t) ==
    /\ loop[t].at = "finality"
    /\ \E now \in 0 .. MaxNow :
          Goto(t, [at |-> "record", state |-> loop[t].state, epoch |-> loop[t].state.epoch,
                   observedAt |-> now])
    /\ UNCHANGED <<network, done, run, runErr, fetch, recorded, observation>>

\* A request fails: the failure is recorded, or the context was canceled.
RequestFails(t) ==
    /\ loop[t].at \in {"poll", "finality"}
    /\ \/ Goto(t, [at |-> "gap"])
       \/ GroupDone /\ Goto(t, Idle)
    /\ UNCHANGED <<network, done, run, runErr, fetch, recorded, observation>>

\* RecordBeacon, or the failure of a calculation is to be recorded.
RecordBeacon(t) ==
    /\ loop[t].at = "record"
    /\ LET slot == CurrentSlotAt(loop[t].observedAt)
           lag  == IF slot = None THEN None ELSE FinalityLag(slot, loop[t].epoch)
       IN  IF lag = None
           THEN Goto(t, [at |-> "gap"]) /\ UNCHANGED observation
           ELSE /\ Goto(t, [at |-> "compare"])
                /\ observation' = [state |-> loop[t].state, epoch |-> loop[t].epoch,
                                   currentSlot |-> slot, lag |-> lag]
    /\ UNCHANGED <<network, done, run, runErr, fetch, recorded>>

\* The head is compared with the others' (module HeadTelemetry); a comparison is
\* recorded.
RecordHeadComparison(t) ==
    /\ loop[t].at = "compare"
    /\ Goto(t, Idle)
    /\ UNCHANGED <<network, done, run, runErr, fetch, recorded, observation>>

RecordPollFailure(t) ==
    /\ loop[t].at = "gap"
    /\ Goto(t, Idle)
    /\ UNCHANGED <<network, done, run, runErr, fetch, recorded, observation>>

\* A write of the recorder fails; the loop returns the error and ends the others.
RecordFails(t) ==
    /\ loop[t].at \in {"record", "compare", "gap"}
    /\ Goto(t, [at |-> "returned"])
    /\ runErr' = FirstError(runErr, "failure")
    /\ UNCHANGED <<network, done, run, fetch, recorded, observation>>

\* The ticker; select may still choose it when the context is done.
NextPoll(t) ==
    /\ run = "polling"
    /\ loop[t] = Idle
    /\ Goto(t, [at |-> "poll"])
    /\ UNCHANGED <<network, done, run, runErr, fetch, recorded, observation>>

LoopReturns(t) ==
    /\ run = "polling"
    /\ loop[t] = Idle
    /\ GroupDone
    /\ Goto(t, [at |-> "returned"])
    /\ UNCHANGED <<network, done, run, runErr, fetch, recorded, observation>>

\* Run's group.Wait.
LoopsEnded ==
    /\ run = "polling"
    /\ \A t \in Targets : loop[t].at = "returned"
    /\ run' = "ending"
    /\ UNCHANGED <<network, done, runErr, fetch, recorded, loop, observation>>

\* The steps that take the loops and the initialization forward.
TargetStep(t) ==
    \/ FetchAnswered(t) \/ FetchFails(t)
    \/ FetchHead(t) \/ FetchFinality(t) \/ RequestFails(t)
    \/ RecordBeacon(t) \/ RecordHeadComparison(t) \/ RecordPollFailure(t) \/ RecordFails(t)

ObserverStep ==
    \/ Compare \/ RecordSpec \/ RecordSpecFails \/ LoopsEnded
    \/ \E t \in Targets : TargetStep(t) \/ NextPoll(t) \/ LoopReturns(t)
=============================================================================
