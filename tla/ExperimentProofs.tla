-------------------------- MODULE ExperimentProofs --------------------------
(***************************************************************************)
(* Proofs about the capture of an experiment.  ExperimentRun is type       *)
(* correct, seals only complete evidence, returns nil only when it leaves  *)
(* nothing behind, reverts on every way out, never touches what it does    *)
(* not own, and implements FaultContract.  CaptureCommand, which comes     *)
(* before it, gets that far only with a controlled runtime and a real      *)
(* split that the analysis will accept.                                    *)
(***************************************************************************)
EXTENDS ExperimentRun, CaptureCommand, FiniteSetTheorems, TLAPS

-----------------------------------------------------------------------------
(* The inductive invariant *)

Deferred == {"defer_revert", "reverting", "defer_stop", "defer_close"}

Ended == Deferred \cup {"returned", "killed"}

\* The stages after a fault run has removed its partition (and the stages of a
\* control run that follow its window).
Removed == {"recovery", "stop", "close", "manifest", "metadata", "checksums"}

Stages == {"preflight", "scenario", "split", "raw", "observer", "specs",
           "boundary", "apply", "injected", "window", "revert"}
              \cup Removed \cup Ended

Sealed == "checksums.json" \in files

\* Calls run only where the orchestrator waits for one, and the step a call is
\* at belongs to that call.
CallsInv ==
    /\ pc \in Stages
    /\ step # "idle" => result = "none" /\ pc \in {"apply", "revert", "reverting"}
    /\ pc = "apply" => op = "apply"
    /\ pc \in {"revert", "reverting"} => op = "revert" /\ ~undo
    /\ step \in {"create", "wait"} => op = "apply" /\ ~undo
    /\ step \in {"create", "wait", "get", "delete"} => namespace = "owned"
    /\ step = "delete" => resource # "foreign"
    /\ pc \in {"apply", "injected", "revert", "recovery"} => condition = "fault"

\* Which artifacts exist at each stage.
FilesInv ==
    /\ pc \notin {"preflight", "scenario"} \cup Ended => "scenario.yaml" \in files
    /\ pc \notin {"preflight", "scenario", "split"} \cup Ended
          => "realized-split.json" \in files
    /\ pc \in {"manifest", "metadata", "checksums"} => "raw-timeseries.jsonl" \in files
    /\ pc \in {"metadata", "checksums"} => "manifest.json" \in files
    /\ pc = "checksums" => "metadata.json" \in files
    /\ pc \in {"close", "manifest", "metadata", "checksums"} => ~obsRunning
    /\ pc \in {"manifest", "metadata", "checksums"} => ~rawOpen

\* The partition is gone when Revert has said so, and stays away.
RemovedInv ==
    /\ condition = "control" => resource \in {"absent", "foreign"} /\ ~faultApplied
    /\ step = "idle" /\ pc = "revert" /\ result = "ok" => ~Owned
    /\ pc \in Removed => ~Owned /\ ~faultApplied

\* What checksums.json stands for.
SealedInv ==
    Sealed =>
        /\ pc \in Ended
        /\ pc # "reverting"
        /\ Evidence \subseteq files
        /\ ~obsRunning /\ ~rawOpen /\ ~faultApplied
        /\ ~Owned

\* How Run gets out: nil only over sealed evidence, and past an injected partition
\* only through a Revert with a context of its own.
ExitInv ==
    /\ pc \in Deferred \cup {"returned"} /\ outcome = "nil" => Sealed
    /\ pc = "reverting" => fresh
    /\ pc \in {"defer_stop", "defer_close", "returned"} /\ faultApplied
          => op = "revert" /\ fresh

IInv == TypeOK /\ CallsInv /\ FilesInv /\ RemovedInv /\ SealedInv /\ ExitInv
-----------------------------------------------------------------------------
(* One lemma per group of actions *)

\* A step of Apply or Revert.
LEMMA BackendPreserves == IInv /\ BackendRuns => IInv'
<1> SUFFICES ASSUME IInv, BackendRuns PROVE IInv'
  OBVIOUS
<1> USE DEF IInv, BackendRuns, runVars, Return, Continue, Owned
<1>1. CASE VerifyNamespace
  <2>1. TypeOK'
    <3>1. step' \in {"idle", "create", "get"} /\ result' \in {"none", "ok", "error"}
      BY <1>1 DEF VerifyNamespace, TypeOK, BackendTypeOK
    <3>2. undo' \in BOOLEAN
      BY <1>1, Zenon DEF VerifyNamespace, TypeOK, BackendTypeOK
    <3>3. op' = op /\ UNCHANGED <<resource, namespace, fresh, ctxDone, pc>>
      BY <1>1 DEF VerifyNamespace
    <3>4. pc \in {"apply", "revert", "reverting"}
      BY <1>1 DEF VerifyNamespace, TypeOK
    <3> QED
      BY <3>1, <3>2, <3>3, <3>4 DEF TypeOK, BackendTypeOK
  <2>4. CallsInv'
    BY <1>1 DEF VerifyNamespace, TypeOK, BackendTypeOK, CallsInv
  <2>2. FilesInv'
    BY <1>1 DEF FilesInv
  <2>3. RemovedInv' /\ SealedInv'
    BY <1>1 DEF VerifyNamespace, CallsInv, RemovedInv, SealedInv, Sealed, Ended, Removed,
                Deferred, TypeOK, BackendTypeOK
  <2>5. ExitInv'
    BY <1>1 DEF VerifyNamespace, CallsInv, ExitInv, Sealed, Deferred, TypeOK
  <2> QED  BY <2>1, <2>2, <2>3, <2>4, <2>5
<1>2. CASE CreateResource
  <2>1. TypeOK'
    BY <1>2 DEF CreateResource, TypeOK, BackendTypeOK, Resources, CallsInv
  <2>4. CallsInv'
    BY <1>2 DEF CreateResource, TypeOK, BackendTypeOK, CallsInv
  <2>2. FilesInv'
    BY <1>2 DEF FilesInv
  <2>3. RemovedInv' /\ SealedInv'
    BY <1>2 DEF CreateResource, CallsInv, RemovedInv, SealedInv, Sealed, Ended, Removed,
                Deferred, TypeOK, BackendTypeOK
  <2>5. ExitInv'
    BY <1>2 DEF CreateResource, CallsInv, ExitInv, Sealed, Deferred, TypeOK
  <2> QED  BY <2>1, <2>2, <2>3, <2>4, <2>5
<1>3. CASE AwaitInjected
  <2>1. TypeOK' /\ CallsInv'
    BY <1>3 DEF AwaitInjected, TypeOK, BackendTypeOK, CallsInv
  <2>2. FilesInv'
    BY <1>3 DEF FilesInv
  <2>3. RemovedInv' /\ SealedInv'
    BY <1>3 DEF AwaitInjected, CallsInv, RemovedInv, SealedInv, Sealed, Ended, Removed,
                Deferred, TypeOK, BackendTypeOK
  <2>5. ExitInv'
    BY <1>3 DEF AwaitInjected, CallsInv, ExitInv, Sealed, Deferred, TypeOK
  <2> QED  BY <2>1, <2>2, <2>3, <2>5
<1>4. CASE GetOwnedResource
  <2>1. TypeOK' /\ CallsInv'
    BY <1>4 DEF GetOwnedResource, TypeOK, BackendTypeOK, CallsInv
  <2>2. FilesInv'
    BY <1>4 DEF FilesInv
  <2>3. RemovedInv' /\ SealedInv'
    BY <1>4 DEF GetOwnedResource, CallsInv, RemovedInv, SealedInv, Sealed, Ended, Removed,
                Deferred, TypeOK, BackendTypeOK
  <2>5. ExitInv'
    BY <1>4 DEF GetOwnedResource, CallsInv, ExitInv, Sealed, Deferred, TypeOK
  <2> QED  BY <2>1, <2>2, <2>3, <2>5
<1>5. CASE DeleteResource
  <2>1. TypeOK'
    <3>1. resource' \in Resources
      BY <1>5 DEF DeleteResource, Deleted, TypeOK, BackendTypeOK, Resources
    <3>2. step' = "idle" /\ result' \in {"none", "ok", "error"} /\ undo' \in BOOLEAN
      BY <1>5 DEF DeleteResource, TypeOK, BackendTypeOK
    <3>3. op' = op /\ UNCHANGED <<namespace, fresh, ctxDone>>
      BY <1>5 DEF DeleteResource
    <3> QED
      BY <3>1, <3>2, <3>3 DEF TypeOK, BackendTypeOK
  <2>4. CallsInv'
    BY <1>5 DEF DeleteResource, Deleted, TypeOK, BackendTypeOK, CallsInv
  <2>2. FilesInv'
    BY <1>5 DEF FilesInv
  <2>3. RemovedInv' /\ SealedInv'
    BY <1>5 DEF DeleteResource, Deleted, CallsInv, RemovedInv, SealedInv, Sealed, Ended,
                Removed, Deferred, TypeOK, BackendTypeOK
  <2>5. ExitInv'
    BY <1>5 DEF DeleteResource, CallsInv, ExitInv, Sealed, Deferred, TypeOK
  <2> QED  BY <2>1, <2>2, <2>3, <2>4, <2>5
<1> QED
  BY <1>1, <1>2, <1>3, <1>4, <1>5 DEF BackendStep

\* The Chaos Mesh controller, a cancellation and the end of the process.
LEMMA EnvironmentPreserves ==
    IInv /\ (ControllerRuns \/ CancelRun \/ Kill \/ Over \/ UNCHANGED vars) => IInv'
<1> SUFFICES ASSUME IInv, ControllerRuns \/ CancelRun \/ Kill \/ UNCHANGED vars
             PROVE  IInv'
  BY DEF Over
<1> USE DEF IInv, runVars, Owned
<1>1. CASE ControllerRuns
  <2>1. TypeOK' /\ CallsInv' /\ FilesInv'
    BY <1>1 DEF ControllerRuns, Controller, Inject, Expire, FinishDeletion, TypeOK,
                BackendTypeOK, CallsInv, FilesInv, Resources
  <2>2. RemovedInv' /\ SealedInv'
    BY <1>1 DEF ControllerRuns, Controller, Inject, Expire, FinishDeletion, RemovedInv,
                SealedInv, Sealed
  <2>3. ExitInv'
    BY <1>1 DEF ControllerRuns, Controller, ExitInv, Sealed
  <2> QED  BY <2>1, <2>2, <2>3
<1>2. CASE CancelRun
  BY <1>2 DEF CancelRun, TypeOK, BackendTypeOK, CallsInv, FilesInv, RemovedInv, SealedInv,
              ExitInv, Sealed
<1>3. CASE Kill
  BY <1>3 DEF Kill, TypeOK, BackendTypeOK, CallsInv, FilesInv, RemovedInv, SealedInv,
              ExitInv, Sealed, Stages, Ended, Deferred, Removed
<1>4. CASE UNCHANGED vars
  BY <1>4 DEF vars, backendVars, TypeOK, BackendTypeOK, CallsInv, FilesInv, RemovedInv,
              SealedInv, ExitInv, Sealed
<1> QED
  BY <1>1, <1>2, <1>3, <1>4

\* The steps of Run that make no call and write no artifact.
LEMMA WaitsPreserve ==
    IInv /\ (Preflight \/ CreateRaw \/ StartObserver \/ WaitForSpecs \/ ApplyReturns
               \/ WaitForInjectedBoundary \/ RevertReturns \/ WaitForRecovery
               \/ StopObserver) => IInv'
<1> SUFFICES ASSUME IInv,
                    Preflight \/ CreateRaw \/ StartObserver \/ WaitForSpecs \/ ApplyReturns
                      \/ WaitForInjectedBoundary \/ RevertReturns \/ WaitForRecovery
                      \/ StopObserver
             PROVE  IInv'
  OBVIOUS
<1> USE DEF IInv, backendVars, Attempt, Await, Fail, Proceed, Preflight, CreateRaw, StartObserver,
            WaitForSpecs, ApplyReturns, WaitForInjectedBoundary, RevertReturns,
            WaitForRecovery, StopObserver
<1>1. TypeOK'
  <2>1. BackendTypeOK'
    BY DEF TypeOK, BackendTypeOK
  <2>2. condition' \in {"control", "fault"}
    BY DEF TypeOK
  <2>3. faultApplied' \in BOOLEAN /\ obsRunning' \in BOOLEAN /\ rawOpen' \in BOOLEAN
    BY Zenon DEF TypeOK
  <2>4. files' \subseteq Evidence \cup {"checksums.json"}
    BY DEF TypeOK, Evidence
  <2>5. outcome' \in {"nil", "error"}
    BY DEF TypeOK
  <2>6. step' # "idle" => pc' \in {"apply", "revert", "reverting"}
    BY DEF TypeOK, CallsInv
  <2> QED  BY <2>1, <2>2, <2>3, <2>4, <2>5, <2>6 DEF TypeOK
<1>2. CallsInv'
  BY DEF CallsInv, Stages, Ended, Deferred, Removed
<1>3. FilesInv'
  BY DEF FilesInv, Ended, Deferred
<1>4. RemovedInv'
  BY DEF RemovedInv, Removed, Owned, CallsInv
<1>5. SealedInv'
  BY DEF SealedInv, Sealed, Ended, Deferred, Owned
<1>6. ExitInv'
  BY DEF ExitInv, Sealed, Deferred, Ended, CallsInv, SealedInv, RemovedInv, Removed, TypeOK
<1> QED
  BY <1>1, <1>2, <1>3, <1>4, <1>5, <1>6

\* The steps of Run that start a call of the backend.
LEMMA CallsPreserve ==
    IInv /\ (WaitForBoundary \/ WaitForWindow \/ DeferredRevert) => IInv'
<1> SUFFICES ASSUME IInv, WaitForBoundary \/ WaitForWindow \/ DeferredRevert
             PROVE  IInv'
  OBVIOUS
<1> USE DEF IInv, backendVars, Attempt, Await, Fail, Proceed, Begin, WaitForBoundary,
            WaitForWindow, DeferredRevert
<1>1. TypeOK'
  <2>1. BackendTypeOK'
    BY DEF TypeOK, BackendTypeOK
  <2>2. condition' \in {"control", "fault"}
    BY DEF TypeOK
  <2>3. faultApplied' \in BOOLEAN /\ obsRunning' \in BOOLEAN /\ rawOpen' \in BOOLEAN
    BY Zenon DEF TypeOK
  <2>4. files' \subseteq Evidence \cup {"checksums.json"}
    BY DEF TypeOK, Evidence
  <2>5. outcome' \in {"nil", "error"}
    BY DEF TypeOK
  <2>6. step' # "idle" => pc' \in {"apply", "revert", "reverting"}
    BY DEF TypeOK, CallsInv
  <2> QED  BY <2>1, <2>2, <2>3, <2>4, <2>5, <2>6 DEF TypeOK
<1>2. CallsInv'
  BY DEF CallsInv, Stages, Ended, Deferred, Removed, TypeOK
<1>3. FilesInv'
  BY DEF FilesInv, Ended, Deferred
<1>4. RemovedInv'
  BY DEF RemovedInv, Removed, Owned, TypeOK, CallsInv
<1>5. SealedInv'
  BY DEF SealedInv, Sealed, Ended, Deferred, Owned
<1>6. ExitInv'
  BY DEF ExitInv, Sealed, Deferred, Ended, CallsInv, SealedInv, RemovedInv, Removed, TypeOK
<1> QED
  BY <1>1, <1>2, <1>3, <1>4, <1>5, <1>6

\* The steps of Run that write an artifact.
LEMMA WritesPreserve ==
    IInv /\ (WriteScenario \/ WriteRealizedSplit \/ CloseRaw \/ WriteManifest
               \/ WriteMetadata \/ WriteChecksums) => IInv'
<1> SUFFICES ASSUME IInv,
                    WriteScenario \/ WriteRealizedSplit \/ CloseRaw \/ WriteManifest
                      \/ WriteMetadata \/ WriteChecksums
             PROVE  IInv'
  OBVIOUS
<1> USE DEF IInv, backendVars, WriteArtifact, Fail, Proceed, WriteScenario,
            WriteRealizedSplit, CloseRaw, WriteManifest, WriteMetadata, WriteChecksums
<1>1. TypeOK'
  <2>1. BackendTypeOK'
    BY DEF TypeOK, BackendTypeOK
  <2>2. condition' \in {"control", "fault"}
    BY DEF TypeOK
  <2>3. faultApplied' \in BOOLEAN /\ obsRunning' \in BOOLEAN /\ rawOpen' \in BOOLEAN
    BY Zenon DEF TypeOK
  <2>4. files' \subseteq Evidence \cup {"checksums.json"}
    BY DEF TypeOK, Evidence
  <2>5. outcome' \in {"nil", "error"}
    BY DEF TypeOK
  <2>6. step' # "idle" => pc' \in {"apply", "revert", "reverting"}
    BY DEF TypeOK, CallsInv
  <2> QED  BY <2>1, <2>2, <2>3, <2>4, <2>5, <2>6 DEF TypeOK
<1>2. CallsInv'
  BY DEF CallsInv, Stages, Ended, Deferred, Removed
<1>3. FilesInv'
  BY DEF FilesInv, Ended, Deferred
<1>4. RemovedInv'
  BY DEF RemovedInv, Removed, Owned
<1>5. SealedInv'
  BY DEF SealedInv, Sealed, Evidence, FilesInv, RemovedInv, Removed, Ended, Deferred, Owned
<1>6. ExitInv'
  BY DEF ExitInv, Sealed, Deferred, Ended, CallsInv, SealedInv, RemovedInv, Removed, TypeOK
<1> QED
  BY <1>1, <1>2, <1>3, <1>4, <1>5, <1>6

\* The deferred functions that follow the Revert.
LEMMA DeferredPreserve ==
    IInv /\ (DeferredRevertReturns \/ DeferredStop \/ DeferredClose) => IInv'
<1> SUFFICES ASSUME IInv, DeferredRevertReturns \/ DeferredStop \/ DeferredClose
             PROVE  IInv'
  OBVIOUS
<1> USE DEF IInv, backendVars, DeferredRevertReturns, DeferredStop, DeferredClose
<1>1. TypeOK'
  <2>1. BackendTypeOK'
    BY DEF TypeOK, BackendTypeOK
  <2>2. condition' \in {"control", "fault"}
    BY DEF TypeOK
  <2>3. faultApplied' \in BOOLEAN /\ obsRunning' \in BOOLEAN /\ rawOpen' \in BOOLEAN
    BY Zenon DEF TypeOK
  <2>4. files' \subseteq Evidence \cup {"checksums.json"}
    BY DEF TypeOK, Evidence
  <2>5. outcome' \in {"nil", "error"}
    BY DEF TypeOK
  <2>6. step' # "idle" => pc' \in {"apply", "revert", "reverting"}
    BY DEF TypeOK, CallsInv
  <2> QED  BY <2>1, <2>2, <2>3, <2>4, <2>5, <2>6 DEF TypeOK
<1>2. CallsInv'
  BY DEF CallsInv, Stages, Ended, Deferred, Removed
<1>3. FilesInv'
  BY DEF FilesInv, Ended, Deferred
<1>4. RemovedInv'
  BY DEF RemovedInv, Removed, Owned
<1>5. SealedInv'
  BY DEF SealedInv, Sealed, Ended, Deferred, Owned
<1>6. ExitInv'
  BY DEF ExitInv, Sealed, Deferred, Ended, CallsInv, SealedInv, RemovedInv, Removed, TypeOK
<1> QED
  BY <1>1, <1>2, <1>3, <1>4, <1>5, <1>6

LEMMA Inductive == IInv /\ [Next]_vars => IInv'
BY BackendPreserves, EnvironmentPreserves, WaitsPreserve, CallsPreserve, WritesPreserve,
   DeferredPreserve DEF Next, RunStep

LEMMA InitiallyIInv == Init => IInv
BY DEF Init, BackendInit, IInv, TypeOK, BackendTypeOK, Resources, CallsInv, Stages, FilesInv,
       RemovedInv, Removed, Owned, SealedInv, Sealed, ExitInv, Deferred

LEMMA AlwaysIInv == Spec => []IInv
BY InitiallyIInv, Inductive, PTL DEF Spec

-----------------------------------------------------------------------------
(* The theorems *)

\* Run and the backend stay in their types, and the backend works only where Run
\* waits for it.
THEOREM TypeCorrect == Spec => []TypeOK
<1>1. IInv => TypeOK
  BY DEF IInv
<1> QED
  BY <1>1, AlwaysIInv, PTL

\* Whatever fails and whenever the run is cancelled or killed: the checksums are
\* written only over complete and final evidence of a network that is whole.
THEOREM SealedEvidenceIsComplete == Spec => []ChecksumsSealEvidence
<1>1. IInv => ChecksumsSealEvidence
  BY DEF IInv, SealedInv, Sealed, ChecksumsSealEvidence
<1> QED
  BY <1>1, AlwaysIInv, PTL

\* A run that returns nil leaves the network whole, nothing running or open, and
\* all of its artifacts, whichever errors its deferred functions join.
THEOREM NilIsClean == Spec => []NilMeansClean
<1>1. IInv => NilMeansClean
  BY DEF IInv, TypeOK, ExitInv, SealedInv, Sealed, NilMeansClean
<1> QED
  BY <1>1, AlwaysIInv, PTL

\* Once Apply has reported a partition, no way out of Run skips the Revert that
\* has a context of its own, unless Run has removed the partition before.
THEOREM NoExitSkipsRevert == Spec => []RevertOnEveryExit
<1>1. IInv => RevertOnEveryExit
  BY DEF IInv, ExitInv, RevertOnEveryExit
<1> QED
  BY <1>1, AlwaysIInv, PTL

\* Apply and Revert change nothing that has not the labels of this run.
THEOREM ForeignObjectsSurvive == Spec => ForeignIsUntouched
<1> DEFINE Untouched == /\ resource = "foreign" => resource' = "foreign"
                        /\ namespace = "foreign" /\ resource' # resource => ControllerRuns
<1>1. IInv /\ [Next]_vars => [Untouched]_vars
  <2> SUFFICES ASSUME IInv, Next PROVE Untouched
    OBVIOUS
  <2>1. CASE BackendRuns
    BY <2>1 DEF IInv, CallsInv, BackendRuns, BackendStep, VerifyNamespace, CreateResource,
                AwaitInjected, GetOwnedResource, DeleteResource, Deleted
  <2>2. CASE ControllerRuns
    BY <2>2 DEF ControllerRuns, Controller, Inject, Expire, FinishDeletion
  <2>3. CASE CancelRun \/ Kill \/ Over
    BY <2>3 DEF CancelRun, Kill, Over, vars, backendVars
  <2>4. CASE RunStep /\ ~BackendRuns
    <3>1. UNCHANGED resource
      BY <2>4 DEF RunStep, Preflight, WriteScenario, WriteRealizedSplit, CreateRaw,
                  StartObserver, WaitForSpecs, WaitForBoundary, ApplyReturns,
                  WaitForInjectedBoundary, WaitForWindow, RevertReturns, WaitForRecovery,
                  StopObserver, CloseRaw, WriteManifest, WriteMetadata, WriteChecksums,
                  DeferredRevert, DeferredRevertReturns, DeferredStop, DeferredClose,
                  Begin, backendVars
    <3> QED  BY <3>1
  <2> QED
    BY <2>1, <2>2, <2>3, <2>4 DEF Next
<1>2. Spec => [][Untouched]_vars
  BY <1>1, AlwaysIInv, PTL DEF Spec
<1> QED
  BY <1>2 DEF ForeignIsUntouched

\* The safety part of the contract: a run cuts the network only before it seals
\* its evidence, and seals it only while the network is whole.
THEOREM RunImplementsContract == Spec => Contract!Spec
<1>1. Init => Contract!Init
  BY DEF Init, BackendInit, Contract!Init, Cut
<1>2. IInv /\ [Next]_vars => [Contract!Next]_(Contract!vars)
  <2> SUFFICES ASSUME IInv, [Next]_vars
               PROVE  Contract!Next \/ (Cut' = Cut /\ Sealed' = Sealed)
    BY DEF Contract!vars, Sealed
  <2>0. Cut \in BOOLEAN /\ Cut' \in BOOLEAN /\ Sealed \in BOOLEAN
    BY DEF Cut, Sealed
  <2>1. CASE BackendRuns
    <3>1. Sealed' = Sealed /\ ~Sealed
      BY <2>1 DEF BackendRuns, runVars, BackendStep, VerifyNamespace, CreateResource,
                  AwaitInjected, GetOwnedResource, DeleteResource, IInv, CallsInv,
                  SealedInv, Sealed, Ended, Deferred
    <3>2. CASE Cut' = Cut
      BY <3>1, <3>2
    <3>3. CASE Cut /\ ~Cut'
      <4>1. Cut' = FALSE
        BY <2>0, <3>3
      <4> QED  BY <3>1, <3>3, <4>1 DEF Contract!Next, Contract!Heal, Sealed
    <3>4. CASE ~Cut /\ Cut'
      BY <3>1, <3>4 DEF Contract!Next, Contract!Partition, Sealed
    <3> QED  BY <2>0, <3>2, <3>3, <3>4
  <2>2. CASE ControllerRuns
    <3>1. Sealed' = Sealed
      BY <2>2 DEF ControllerRuns, runVars, Sealed
    <3>2. CASE Cut' = Cut
      BY <3>1, <3>2
    <3>3. CASE Cut /\ ~Cut'
      <4>1. Cut' = FALSE
        BY <2>0, <3>3
      <4> QED  BY <3>1, <3>3, <4>1 DEF Contract!Next, Contract!Heal, Sealed
    <3>4. CASE ~Cut /\ Cut'
      <4>1. ~Sealed
        BY <2>2, <3>4 DEF ControllerRuns, Controller, Inject, Expire, FinishDeletion, IInv,
                          SealedInv, Owned, Cut
      <4> QED  BY <3>1, <3>4, <4>1 DEF Contract!Next, Contract!Partition, Sealed
    <3> QED  BY <2>0, <3>2, <3>3, <3>4
  <2>3. CASE WriteChecksums
    <3>1. ~Sealed /\ ~Cut /\ Cut' = Cut
      BY <2>3 DEF WriteChecksums, backendVars, IInv, SealedInv, RemovedInv, Removed, Owned,
                  Cut, Ended, Deferred
    <3>2. CASE Sealed'
      BY <3>1, <3>2 DEF Contract!Next, Contract!Seal, Sealed
    <3>3. CASE ~Sealed'
      BY <3>1, <3>3, <2>0 DEF Sealed
    <3> QED  BY <3>2, <3>3
  <2>4. CASE CancelRun \/ Kill \/ Over \/ UNCHANGED vars
    BY <2>4 DEF CancelRun, Kill, Over, vars, backendVars, runVars, Cut, Sealed
  <2>5. CASE RunStep /\ ~BackendRuns /\ ~WriteChecksums
    <3>1. UNCHANGED resource
      BY <2>5 DEF RunStep, Preflight, WriteScenario, WriteRealizedSplit, CreateRaw,
                  StartObserver, WaitForSpecs, WaitForBoundary, ApplyReturns,
                  WaitForInjectedBoundary, WaitForWindow, RevertReturns, WaitForRecovery,
                  StopObserver, CloseRaw, WriteManifest, WriteMetadata,
                  DeferredRevert, DeferredRevertReturns, DeferredStop, DeferredClose,
                  Begin, backendVars
    <3>2. Sealed' <=> Sealed
      BY <2>5 DEF RunStep, Preflight, WriteScenario, WriteRealizedSplit, CreateRaw,
                  StartObserver, WaitForSpecs, WaitForBoundary, ApplyReturns,
                  WaitForInjectedBoundary, WaitForWindow, RevertReturns, WaitForRecovery,
                  StopObserver, CloseRaw, WriteManifest, WriteMetadata,
                  DeferredRevert, DeferredRevertReturns, DeferredStop, DeferredClose,
                  WriteArtifact, Sealed
    <3>3. Sealed' = Sealed
      BY <3>2 DEF Sealed
    <3> QED  BY <3>1, <3>3 DEF Cut
  <2> QED
    BY <2>1, <2>2, <2>3, <2>4, <2>5 DEF Next
<1> QED
  BY <1>1, <1>2, AlwaysIInv, PTL DEF Spec, Contract!Spec

-----------------------------------------------------------------------------
(* Induction over finite sets *)

\* Every collection of subsets of a finite set has a smallest member: the form in
\* which these proofs use induction over finite sets.
LEMMA SmallestMember ==
    ASSUME NEW S, IsFiniteSet(S), NEW B, B \subseteq SUBSET S, B # {}
    PROVE  \E T \in B : \A U \in B : U \subseteq T => U = T
<1>1. FiniteSubsetsOf(S) = SUBSET S
  BY FS_FiniteSubsetsOfFinite
<1>2. IsWellFoundedOn(StrictSubsetOrdering(S), SUBSET S)
  BY <1>1, FS_StrictSubsetOrderingWellFounded
<1>3. PICK T \in B : \A U \in B : ~(<<U, T>> \in StrictSubsetOrdering(S))
  BY <1>2, WFMin, Zenon
<1>4. ASSUME NEW U \in B, U \subseteq T PROVE U = T
  BY <1>3, <1>4 DEF StrictSubsetOrdering
<1> QED BY <1>4

-----------------------------------------------------------------------------
(* Sums over finite sets *)

\* The element that a sum takes first, and what is left.
First(s) == CHOOSE x \in s : TRUE

Rest(s) == s \ {First(s)}

\* f gives the sums of w over the subsets of S: the recursion behind SumFunction.
IsSum(f, w, S) ==
    f = [s \in SUBSET S |-> IF s = {} THEN 0 ELSE w[First(s)] + f[Rest(s)]]

SumsOf(w, S) == CHOOSE f : IsSum(f, w, S)

\* The community module's sum, in that form.
LEMMA SumIsSumsOf ==
    ASSUME NEW w, NEW S PROVE SumFunctionOnSet(w, S) = SumsOf(w, S)[S]
BY DEF SumFunctionOnSet, FoldFunctionOnSet, MapThenFoldSet, SumsOf, IsSum, First, Rest

LEMMA FirstIsIn == ASSUME NEW s, s # {} PROVE First(s) \in s
BY DEF First

LEMMA IsSumAt ==
    ASSUME NEW f, NEW w, NEW S, IsSum(f, w, S), NEW s \in SUBSET S
    PROVE  f[s] = IF s = {} THEN 0 ELSE w[First(s)] + f[Rest(s)]
<1>1. f = [t \in SUBSET S |-> IF t = {} THEN 0 ELSE w[First(t)] + f[Rest(t)]]
  BY DEF IsSum
<1> HIDE DEF First, Rest
<1> QED BY <1>1, Zenon

\* Two such functions agree where both are defined, and there is one.
LEMMA SumsAreUnique ==
    ASSUME NEW w, NEW S, NEW T, IsFiniteSet(S), NEW f, NEW h,
           IsSum(f, w, S), IsSum(h, w, T), NEW s, s \subseteq S, s \subseteq T
    PROVE  f[s] = h[s]
<1> DEFINE Bad == {t \in SUBSET S : t \subseteq T /\ f[t] # h[t]}
<1> SUFFICES ASSUME Bad # {} PROVE FALSE
  OBVIOUS
<1>1. PICK t \in Bad : \A u \in Bad : u \subseteq t => u = t
  <2>1. Bad \subseteq SUBSET S
    OBVIOUS
  <2> HIDE DEF Bad
  <2> QED BY <2>1, SmallestMember
<1>2. /\ f[t] = IF t = {} THEN 0 ELSE w[First(t)] + f[Rest(t)]
      /\ h[t] = IF t = {} THEN 0 ELSE w[First(t)] + h[Rest(t)]
  BY IsSumAt
<1>3. t # {}
  BY <1>2
<1>4. Rest(t) \subseteq t /\ Rest(t) # t
  BY <1>3, FirstIsIn DEF Rest
<1>5. f[Rest(t)] = h[Rest(t)]
  BY <1>1, <1>4
<1> QED BY <1>2, <1>5

LEMMA SumsExist ==
    ASSUME NEW w, NEW S, IsFiniteSet(S)
    PROVE  IsSum(SumsOf(w, S), w, S)
<1> DEFINE Bad == {t \in SUBSET S : ~IsSum(SumsOf(w, t), w, t)}
<1> SUFFICES ASSUME Bad # {} PROVE FALSE
  OBVIOUS
<1>1. PICK t \in Bad : \A u \in Bad : u \subseteq t => u = t
  <2>1. Bad \subseteq SUBSET S
    OBVIOUS
  <2> HIDE DEF Bad
  <2> QED BY <2>1, SmallestMember
<1>2. \A u \in SUBSET t : u # t => IsSum(SumsOf(w, u), w, u)
  BY <1>1
<1>3. \A u \in SUBSET t : IsFiniteSet(u)
  BY FS_Subset
<1> DEFINE F == [s \in SUBSET t |->
                    IF s = {} THEN 0 ELSE w[First(s)] + SumsOf(w, Rest(s))[Rest(s)]]
<1>4. ASSUME NEW s \in SUBSET t, s # {}
      PROVE  F[Rest(s)] = SumsOf(w, Rest(s))[Rest(s)]
  <2> DEFINE u == Rest(s)
             v == Rest(u)
  <2>1. u \in SUBSET t /\ u # t
    BY <1>4, FirstIsIn DEF Rest
  <2>2. IsSum(SumsOf(w, u), w, u)
    BY <1>2, <2>1
  <2>3. SumsOf(w, u)[u] = IF u = {} THEN 0 ELSE w[First(u)] + SumsOf(w, u)[v]
    BY <2>2, IsSumAt
  <2>4. F[u] = IF u = {} THEN 0 ELSE w[First(u)] + SumsOf(w, v)[v]
    BY <2>1
  <2>5. CASE u # {}
    <3>1. v \subseteq u /\ v \in SUBSET t /\ v # t
      BY <2>1, <2>5, FirstIsIn DEF Rest
    <3>2. IsSum(SumsOf(w, v), w, v) /\ IsFiniteSet(u)
      BY <1>2, <1>3, <2>1, <3>1
    <3>3. SumsOf(w, u)[v] = SumsOf(w, v)[v]
      BY <2>2, <3>1, <3>2, SumsAreUnique
    <3> QED BY <2>3, <2>4, <3>3
  <2> QED BY <2>3, <2>4, <2>5
<1>5. IsSum(F, w, t)
  <2>1. \A s \in SUBSET t : (IF s = {} THEN 0 ELSE w[First(s)] + SumsOf(w, Rest(s))[Rest(s)])
                            = (IF s = {} THEN 0 ELSE w[First(s)] + F[Rest(s)])
    BY <1>4
  <2> QED BY <2>1 DEF IsSum
<1>6. IsSum(SumsOf(w, t), w, t)
  <2> HIDE DEF F
  <2> QED BY <1>5, Zenon DEF SumsOf
<1> QED BY <1>1, <1>6

\* The equation of a sum.
LEMMA SumEquation ==
    ASSUME NEW w, NEW S, IsFiniteSet(S)
    PROVE  SumFunctionOnSet(w, S) =
               IF S = {} THEN 0 ELSE w[First(S)] + SumFunctionOnSet(w, Rest(S))
<1>1. IsSum(SumsOf(w, S), w, S)
  BY SumsExist
<1>2. SumsOf(w, S)[S] = IF S = {} THEN 0 ELSE w[First(S)] + SumsOf(w, S)[Rest(S)]
  BY <1>1, IsSumAt
<1>3. Rest(S) \subseteq S /\ IsFiniteSet(Rest(S))
  BY FS_Subset DEF Rest
<1>4. SumsOf(w, S)[Rest(S)] = SumsOf(w, Rest(S))[Rest(S)]
  BY <1>1, <1>3, SumsExist, SumsAreUnique
<1> QED BY <1>2, <1>4, SumIsSumsOf

\* Natural numbers add up to one.
LEMMA SumIsNat ==
    ASSUME NEW w, NEW S, IsFiniteSet(S), \A x \in S : w[x] \in Nat
    PROVE  SumFunctionOnSet(w, S) \in Nat
<1> DEFINE Bad == {T \in SUBSET S : SumFunctionOnSet(w, T) \notin Nat}
<1> SUFFICES ASSUME Bad # {} PROVE FALSE
  OBVIOUS
<1>1. PICK T \in Bad : \A U \in Bad : U \subseteq T => U = T
  <2>1. Bad \subseteq SUBSET S
    OBVIOUS
  <2> HIDE DEF Bad
  <2> QED BY <2>1, SmallestMember
<1>2. SumFunctionOnSet(w, T) =
          IF T = {} THEN 0 ELSE w[First(T)] + SumFunctionOnSet(w, Rest(T))
  BY FS_Subset, SumEquation
<1>3. T # {}
  BY <1>2
<1>4. Rest(T) \subseteq T /\ Rest(T) # T /\ First(T) \in S
  BY <1>3, FirstIsIn DEF Rest
<1>5. SumFunctionOnSet(w, Rest(T)) \in Nat
  BY <1>1, <1>4
<1> QED BY <1>2, <1>3, <1>4, <1>5

\* A sum does not depend on the order in which it is made.
LEMMA SumRemove ==
    ASSUME NEW w, NEW S, IsFiniteSet(S), \A y \in S : w[y] \in Nat, NEW x \in S
    PROVE  SumFunctionOnSet(w, S) = w[x] + SumFunctionOnSet(w, S \ {x})
<1> DEFINE Bad == {T \in SUBSET S : \E y \in T :
                      SumFunctionOnSet(w, T) # w[y] + SumFunctionOnSet(w, T \ {y})}
<1> SUFFICES ASSUME Bad # {} PROVE FALSE
  OBVIOUS
<1>1. PICK T \in Bad : \A U \in Bad : U \subseteq T => U = T
  <2>1. Bad \subseteq SUBSET S
    OBVIOUS
  <2> HIDE DEF Bad
  <2> QED BY <2>1, SmallestMember
<1>2. PICK y \in T : SumFunctionOnSet(w, T) # w[y] + SumFunctionOnSet(w, T \ {y})
  OBVIOUS
<1> DEFINE z == First(T)
<1>3. SumFunctionOnSet(w, T) = w[z] + SumFunctionOnSet(w, T \ {z})
  BY FS_Subset, SumEquation DEF Rest
<1>4. z \in T
  BY FirstIsIn
<1> HIDE DEF z
<1>5. z # y
  BY <1>2, <1>3
<1>6. \A U \in SUBSET T : U # T =>
          \A v \in U : SumFunctionOnSet(w, U) = w[v] + SumFunctionOnSet(w, U \ {v})
  BY <1>1
<1>7. SumFunctionOnSet(w, T \ {z}) = w[y] + SumFunctionOnSet(w, (T \ {z}) \ {y})
  BY <1>4, <1>5, <1>6
<1>8. SumFunctionOnSet(w, T \ {y}) = w[z] + SumFunctionOnSet(w, (T \ {y}) \ {z})
  BY <1>4, <1>5, <1>6
<1>9. (T \ {y}) \ {z} = (T \ {z}) \ {y}
  OBVIOUS
<1>10. /\ w[y] \in Nat /\ w[z] \in Nat
       /\ SumFunctionOnSet(w, (T \ {z}) \ {y}) \in Nat
  <2>1. IsFiniteSet((T \ {z}) \ {y})
    BY FS_Subset
  <2> QED BY <1>4, <2>1, SumIsNat
<1> QED BY <1>2, <1>3, <1>7, <1>8, <1>9, <1>10

LEMMA SumOfNone == ASSUME NEW w PROVE SumFunctionOnSet(w, {}) = 0
BY FS_EmptySet, SumEquation

\* A sum depends on the values in its set only.
LEMMA SumAgrees ==
    ASSUME NEW v, NEW w, NEW S, IsFiniteSet(S), \A x \in S : v[x] = w[x]
    PROVE  SumFunctionOnSet(v, S) = SumFunctionOnSet(w, S)
<1> DEFINE Bad == {T \in SUBSET S : SumFunctionOnSet(v, T) # SumFunctionOnSet(w, T)}
<1> SUFFICES ASSUME Bad # {} PROVE FALSE
  OBVIOUS
<1>1. PICK T \in Bad : \A U \in Bad : U \subseteq T => U = T
  <2>1. Bad \subseteq SUBSET S
    OBVIOUS
  <2> HIDE DEF Bad
  <2> QED BY <2>1, SmallestMember
<1>2. /\ SumFunctionOnSet(v, T) =
             IF T = {} THEN 0 ELSE v[First(T)] + SumFunctionOnSet(v, Rest(T))
      /\ SumFunctionOnSet(w, T) =
             IF T = {} THEN 0 ELSE w[First(T)] + SumFunctionOnSet(w, Rest(T))
  BY FS_Subset, SumEquation
<1>3. T # {}
  BY <1>2
<1>4. Rest(T) \subseteq T /\ Rest(T) # T /\ First(T) \in S
  BY <1>3, FirstIsIn DEF Rest
<1>5. SumFunctionOnSet(v, Rest(T)) = SumFunctionOnSet(w, Rest(T))
  BY <1>1, <1>4
<1> QED BY <1>2, <1>3, <1>4, <1>5

\* The sum over two sets that have nothing in common.
LEMMA SumUnion ==
    ASSUME NEW w, NEW S, NEW T, IsFiniteSet(S), IsFiniteSet(T), S \cap T = {},
           \A x \in S \cup T : w[x] \in Nat
    PROVE  SumFunctionOnSet(w, S \cup T) = SumFunctionOnSet(w, S) + SumFunctionOnSet(w, T)
<1> DEFINE Bad == {U \in SUBSET S : SumFunctionOnSet(w, U \cup T) #
                                       SumFunctionOnSet(w, U) + SumFunctionOnSet(w, T)}
<1> SUFFICES ASSUME Bad # {} PROVE FALSE
  OBVIOUS
<1>1. PICK U \in Bad : \A V \in Bad : V \subseteq U => V = U
  <2>1. Bad \subseteq SUBSET S
    OBVIOUS
  <2> HIDE DEF Bad
  <2> QED BY <2>1, SmallestMember
<1>2. SumFunctionOnSet(w, T) \in Nat
  BY SumIsNat
<1>3. U # {}
  <2>1. {} \cup T = T
    OBVIOUS
  <2> QED BY <1>2, <2>1, SumOfNone
<1>4. PICK x \in U : TRUE
  BY <1>3
<1>5. IsFiniteSet(U) /\ IsFiniteSet(U \cup T) /\ IsFiniteSet(U \ {x})
  <2>1. IsFiniteSet(U) /\ IsFiniteSet(U \ {x})
    BY FS_Subset
  <2> QED BY <2>1, FS_Union
<1>6. SumFunctionOnSet(w, U \cup T) = w[x] + SumFunctionOnSet(w, (U \cup T) \ {x})
  BY <1>5, SumRemove
<1>7. SumFunctionOnSet(w, U) = w[x] + SumFunctionOnSet(w, U \ {x})
  BY <1>5, SumRemove
<1>8. (U \cup T) \ {x} = (U \ {x}) \cup T
  OBVIOUS
<1>9. SumFunctionOnSet(w, (U \ {x}) \cup T) =
          SumFunctionOnSet(w, U \ {x}) + SumFunctionOnSet(w, T)
  BY <1>1, <1>4
<1>10. w[x] \in Nat /\ SumFunctionOnSet(w, U \ {x}) \in Nat
  BY <1>5, SumIsNat
<1> QED BY <1>2, <1>6, <1>7, <1>8, <1>9, <1>10

\* The sum of the sums over the parts of a set.
LEMMA SumOfSums ==
    ASSUME NEW w, NEW I, IsFiniteSet(I), NEW part, NEW sum,
           \A i \in I : IsFiniteSet(part[i]) /\ sum[i] = SumFunctionOnSet(w, part[i]),
           \A i, j \in I : i # j => part[i] \cap part[j] = {},
           \A i \in I : \A x \in part[i] : w[x] \in Nat
    PROVE  SumFunctionOnSet(sum, I) = SumFunctionOnSet(w, UNION {part[i] : i \in I})
<1> DEFINE All(J) == UNION {part[i] : i \in J}
           Bad == {J \in SUBSET I : SumFunctionOnSet(sum, J) # SumFunctionOnSet(w, All(J))}
<1> SUFFICES ASSUME Bad # {} PROVE FALSE
  OBVIOUS
<1>1. PICK J \in Bad : \A K \in Bad : K \subseteq J => K = J
  <2>1. Bad \subseteq SUBSET I
    OBVIOUS
  <2> HIDE DEF Bad
  <2> QED BY <2>1, SmallestMember
<1>2. J # {}
  <2>1. All({}) = {}
    OBVIOUS
  <2> HIDE DEF All
  <2> QED BY <2>1, SumOfNone
<1>3. PICK i \in J : TRUE
  BY <1>2
<1> DEFINE K == J \ {i}
<1>4. SumFunctionOnSet(sum, K) = SumFunctionOnSet(w, All(K))
  <2> HIDE DEF All
  <2> QED BY <1>1, <1>3
<1>5. \A j \in I : sum[j] \in Nat
  BY SumIsNat
<1>6. SumFunctionOnSet(sum, J) = sum[i] + SumFunctionOnSet(sum, K)
  <2>1. IsFiniteSet(J)
    BY FS_Subset
  <2> QED BY <1>3, <1>5, <2>1, SumRemove
<1>7. All(J) = part[i] \cup All(K) /\ part[i] \cap All(K) = {}
  BY <1>3
<1>8. IsFiniteSet(All(K))
  <2> DEFINE f == [j \in K |-> part[j]]
  <2>1. f \in Surjection(K, {part[j] : j \in K})
    BY DEF Surjection
  <2>2. IsFiniteSet(K)
    BY FS_Subset
  <2>3. IsFiniteSet({part[j] : j \in K})
    <3> HIDE DEF f, K
    <3> QED BY <2>1, <2>2, FS_Surjection
  <2>4. \A T \in {part[j] : j \in K} : IsFiniteSet(T)
    OBVIOUS
  <2> QED BY <2>3, <2>4, FS_UNION, Zenon
<1>9. \A x \in part[i] \cup All(K) : w[x] \in Nat
  BY <1>3
<1>10. SumFunctionOnSet(w, All(J)) =
           SumFunctionOnSet(w, part[i]) + SumFunctionOnSet(w, All(K))
  <2>1. IsFiniteSet(part[i])
    BY <1>3
  <2> DEFINE A == part[i]
             B == All(K)
  <2>2. IsFiniteSet(A) /\ IsFiniteSet(B) /\ A \cap B = {} /\ \A x \in A \cup B : w[x] \in Nat
    BY <1>7, <1>8, <1>9, <2>1
  <2>3. All(J) = A \cup B
    BY <1>7
  <2> HIDE DEF A, B, All
  <2>4. SumFunctionOnSet(w, A \cup B) = SumFunctionOnSet(w, A) + SumFunctionOnSet(w, B)
    BY <2>2, SumUnion
  <2> QED BY <2>3, <2>4 DEF A, B
<1> HIDE DEF All
<1> QED BY <1>1, <1>3, <1>4, <1>6, <1>10

\* A set has as many elements as ones, and its sum is no less when nothing counts
\* for less than one.
LEMMA SumIsAtLeastCardinality ==
    ASSUME NEW w, NEW S, IsFiniteSet(S), \A x \in S : w[x] \in Nat /\ w[x] >= 1
    PROVE  Cardinality(S) <= SumFunctionOnSet(w, S)
<1> DEFINE Bad == {T \in SUBSET S : ~(Cardinality(T) <= SumFunctionOnSet(w, T))}
<1> SUFFICES ASSUME Bad # {} PROVE FALSE
  OBVIOUS
<1>1. PICK T \in Bad : \A U \in Bad : U \subseteq T => U = T
  <2>1. Bad \subseteq SUBSET S
    OBVIOUS
  <2> HIDE DEF Bad
  <2> QED BY <2>1, SmallestMember
<1>2. T # {}
  BY FS_EmptySet, SumOfNone
<1>3. PICK x \in T : TRUE
  BY <1>2
<1>4. IsFiniteSet(T) /\ IsFiniteSet(T \ {x})
  BY FS_Subset
<1>5. Cardinality(T \ {x}) <= SumFunctionOnSet(w, T \ {x})
  BY <1>1, <1>3
<1>6. Cardinality(T \ {x}) = Cardinality(T) - 1
  BY <1>3, <1>4, FS_RemoveElement
<1>7. SumFunctionOnSet(w, T) = w[x] + SumFunctionOnSet(w, T \ {x})
  BY <1>4, SumRemove
<1>8. SumFunctionOnSet(w, T \ {x}) \in Nat /\ Cardinality(T) \in Nat
  BY <1>4, SumIsNat, FS_CardinalityType
<1> QED BY <1>5, <1>6, <1>7, <1>8

LEMMA SumOfOnes ==
    ASSUME NEW w, NEW S, IsFiniteSet(S), \A x \in S : w[x] = 1
    PROVE  SumFunctionOnSet(w, S) = Cardinality(S)
<1> DEFINE Bad == {T \in SUBSET S : SumFunctionOnSet(w, T) # Cardinality(T)}
<1> SUFFICES ASSUME Bad # {} PROVE FALSE
  OBVIOUS
<1>1. PICK T \in Bad : \A U \in Bad : U \subseteq T => U = T
  <2>1. Bad \subseteq SUBSET S
    OBVIOUS
  <2> HIDE DEF Bad
  <2> QED BY <2>1, SmallestMember
<1>2. T # {}
  BY FS_EmptySet, SumOfNone
<1>3. PICK x \in T : TRUE
  BY <1>2
<1>4. IsFiniteSet(T) /\ IsFiniteSet(T \ {x})
  BY FS_Subset
<1>5. SumFunctionOnSet(w, T \ {x}) = Cardinality(T \ {x})
  BY <1>1, <1>3
<1>6. Cardinality(T \ {x}) = Cardinality(T) - 1 /\ Cardinality(T) \in Nat
  BY <1>3, <1>4, FS_RemoveElement, FS_CardinalityType
<1>7. SumFunctionOnSet(w, T) = w[x] + SumFunctionOnSet(w, T \ {x})
  BY <1>3, <1>4, SumRemove
<1> QED BY <1>3, <1>5, <1>6, <1>7

-----------------------------------------------------------------------------
(* The capture: what every stage has accepted *)

AfterMeasure == {"measured", "captured"}

AfterCheck == {"checked"} \cup AfterMeasure

AfterRanges == {"ranged", "created"} \cup AfterCheck

AfterClosure == {"closed"} \cup AfterRanges

AfterDiscovery == {"discovered"} \cup AfterClosure

AfterLoad == {"loaded"} \cup AfterDiscovery

LoadedInv ==
    stage \in AfterLoad =>
        /\ scenario \in ScenarioFiles /\ Validate(scenario)
        /\ lock \in LockFiles

DiscoveredInv ==
    stage \in AfterDiscovery => cluster \in Clusters /\ Discoverable(scenario, cluster)

ClosureInv == stage \in AfterClosure => Closed(lock, RuntimeImages(cluster))

RangesInv ==
    stage \in AfterRanges => raw \in RangeFiles /\ ParseValidatorRanges(raw) # <<>>

CheckedInv ==
    stage \in AfterCheck =>
        /\ ValidatePlacements(scenario, PlacementsOf(scenario, cluster))
        /\ ValidateDependencyMetadata(RecordedImages(lock, RuntimeImages(cluster)))

MeasuredInv ==
    stage \in AfterMeasure =>
        /\ validators \in ValidatorResponses /\ ResponseValid(validators)
        /\ Calculable(scenario, ParseValidatorRanges(raw), validators)
        /\ split = CalculateRealizedSplit(scenario, ParseValidatorRanges(raw), validators)
        /\ split.within

DirectoryInv == directory = "evidence" => stage = "captured"

\* The inductive invariant: a stage keeps what the stages before it have accepted,
\* because nothing that was read is read again.
CaptureInv ==
    /\ LoadedInv /\ DiscoveredInv /\ ClosureInv /\ RangesInv
    /\ CheckedInv /\ MeasuredInv /\ DirectoryInv

\* An error forgets everything but the directory.
LEMMA RefuseKeeps ==
    ASSUME CaptureInv, Refuse, stage # "captured" PROVE CaptureInv'
<1>1. stage' = "refused" /\ directory' = directory /\ directory # "evidence"
  BY DEF CaptureInv, DirectoryInv, Refuse
<1> QED
  BY <1>1 DEF CaptureInv, LoadedInv, DiscoveredInv, ClosureInv, RangesInv, CheckedInv,
              MeasuredInv, DirectoryInv, AfterMeasure, AfterCheck, AfterRanges,
              AfterClosure, AfterDiscovery, AfterLoad

\* Every step of the command keeps the invariant.
LEMMA CaptureStep ==
    CaptureInv /\ [CaptureNext]_captureVars => CaptureInv'
<1> SUFFICES ASSUME CaptureInv, [CaptureNext]_captureVars PROVE CaptureInv'
  OBVIOUS
<1> USE DEF CaptureInv, LoadedInv, DiscoveredInv, ClosureInv, RangesInv, CheckedInv,
            MeasuredInv, DirectoryInv, AfterMeasure, AfterCheck, AfterRanges,
            AfterClosure, AfterDiscovery, AfterLoad
<1>1. ASSUME NEW f \in FlagSets, NEW s \in ScenarioFiles, NEW l \in LockFiles, Load(f, s, l)
      PROVE  CaptureInv'
  <2>1. CASE Refuse
    BY <1>1, <2>1, RefuseKeeps DEF Load
  <2>2. CASE ~Refuse
    BY <1>1, <2>2 DEF Load
  <2> QED BY <2>1, <2>2
<1>2. ASSUME NEW c \in Clusters, Discover(c) PROVE CaptureInv'
  <2>1. CASE Refuse
    BY <1>2, <2>1, RefuseKeeps DEF Discover
  <2>2. CASE ~Refuse
    BY <1>2, <2>2 DEF Discover
  <2> QED BY <2>1, <2>2
<1>3. CASE VerifyClosure
  <2>1. CASE Refuse
    BY <1>3, <2>1, RefuseKeeps DEF VerifyClosure
  <2>2. CASE ~Refuse
    BY <1>3, <2>2 DEF VerifyClosure, inputs
  <2> QED BY <2>1, <2>2
<1>4. ASSUME NEW file \in RangeFiles, ReadRanges(file) PROVE CaptureInv'
  <2>1. CASE Refuse
    BY <1>4, <2>1, RefuseKeeps DEF ReadRanges
  <2>2. CASE ~Refuse
    BY <1>4, <2>2 DEF ReadRanges
  <2> QED BY <2>1, <2>2
<1>5. CASE CreateDirectory
  <2>1. CASE Refuse
    BY <1>5, <2>1, RefuseKeeps DEF CreateDirectory
  <2>2. CASE ~Refuse
    BY <1>5, <2>2 DEF CreateDirectory, inputs
  <2> QED BY <2>1, <2>2
<1>6. ASSUME NEW chainMatches \in BOOLEAN, CheckRun(chainMatches) PROVE CaptureInv'
  <2>1. CASE Refuse
    BY <1>6, <2>1, RefuseKeeps DEF CheckRun
  <2>2. CASE ~Refuse
    BY <1>6, <2>2 DEF CheckRun, inputs
  <2> QED BY <2>1, <2>2
<1>7. ASSUME NEW response \in ValidatorResponses, Measure(response) PROVE CaptureInv'
  <2>1. CASE Refuse
    BY <1>7, <2>1, RefuseKeeps DEF Measure
  <2>2. CASE ~Refuse
    BY <1>7, <2>2 DEF Measure
  <2> QED BY <2>1, <2>2
<1>8. CASE WriteSplit
  BY <1>8 DEF WriteSplit, inputs
<1>9. CASE CallFails
  BY <1>9, RefuseKeeps DEF CallFails
<1>10. CASE RunAgain
  BY <1>10 DEF RunAgain, inputs
<1>11. CASE UNCHANGED captureVars
  BY <1>11 DEF captureVars, inputs
<1> QED
  BY <1>1, <1>2, <1>3, <1>4, <1>5, <1>6, <1>7, <1>8, <1>9, <1>10, <1>11
  DEF CaptureNext, Captured

\* The invariant holds from the first stage to the last, however often the command
\* is run again.
LEMMA CaptureInvariance == CaptureSpec => []CaptureInv
<1>1. CaptureInit => CaptureInv
  BY DEF CaptureInit, CaptureInv, LoadedInv, DiscoveredInv, ClosureInv, RangesInv,
         CheckedInv, MeasuredInv, DirectoryInv, AfterMeasure, AfterCheck, AfterRanges,
         AfterClosure, AfterDiscovery, AfterLoad
<1> QED BY <1>1, CaptureStep, PTL DEF CaptureSpec

-----------------------------------------------------------------------------
(* The runtime *)

\* Two participants of a valid topology have different names, and every participant
\* is found under its own.
LEMMA ParticipantIsNamed ==
    ASSUME NEW s, TopologyValid(s), NEW p \in Participants(s)
    PROVE  /\ \A q \in Participants(s) : p.id = q.id => p = q
           /\ \A q \in Participants(s) : p.range = q.range => p = q
           /\ ParticipantWithID(s, p.id) = p
<1>1. PICK i \in DOMAIN s.participants : p = s.participants[i]
  BY DEF Participants, Range
<1>2. ASSUME NEW q \in Participants(s), p.id = q.id \/ p.range = q.range PROVE p = q
  <2>1. PICK j \in DOMAIN s.participants : q = s.participants[j]
    BY DEF Participants, Range
  <2>2. i = j
    BY <1>1, <1>2, <2>1 DEF TopologyValid
  <2> QED BY <1>1, <2>1, <2>2
<1> QED BY <1>2 DEF ParticipantWithID

\* The Pod of a service is the only one, and on the node of its participant.
LEMMA PodIsPlaced ==
    ASSUME NEW s, NEW c, IsFiniteSet(c.pods), Discoverable(s, c),
           NEW p \in Participants(s), NEW role \in Roles,
           NEW x \in c.pods, x.service = p.services[role]
    PROVE  x = PodOf(c, p, role) /\ x.node = PodOf(c, p, "beacon").node
<1>1. ServicesPlaced(c, p)
  BY DEF Discoverable
<1>2. Cardinality(PodsOf(c, p.services[role])) = 1 /\ IsFiniteSet(PodsOf(c, p.services[role]))
  BY <1>1, FS_Subset DEF ServicesPlaced, PodsOf
<1>3. PICK pod : PodsOf(c, p.services[role]) = {pod}
  BY <1>2, FS_Singleton
<1>4. x = pod /\ PodOf(c, p, role) = pod
  BY <1>3 DEF PodsOf, PodOf
<1>5. PodOf(c, p, role).node = PodOf(c, p, "beacon").node
  BY <1>1 DEF ServicesPlaced, Roles
<1> QED BY <1>4, <1>5

\* A Pod is where the placement of its participant says.
LEMMA PlacementOfPod ==
    ASSUME NEW s, NEW c, IsFiniteSet(c.pods), Discoverable(s, c), TopologyValid(s),
           NEW x \in c.pods
    PROVE  \E p \in Participants(s) :
              /\ \E role \in Roles : x.service = p.services[role]
              /\ p.id \in DOMAIN PlacementsOf(s, c)
              /\ PlacementsOf(s, c)[p.id].node = x.node
              /\ PlacementsOf(s, c)[p.id].machine = c.nodes[x.node].machine
<1>1. PICK p \in Participants(s), role \in Roles : x.service = p.services[role]
  BY DEF Discoverable
<1>2. x.node = PodOf(c, p, "beacon").node
  BY <1>1, PodIsPlaced
<1>3. ParticipantWithID(s, p.id) = p
  BY ParticipantIsNamed
<1> QED BY <1>1, <1>2, <1>3 DEF PlacementsOf

\* Two Pods are on one node exactly when they serve one participant.
LEMMA NodesAreParticipants ==
    ASSUME NEW s \in ScenarioFiles, NEW c \in Clusters, TopologyValid(s), Discoverable(s, c),
           ValidatePlacements(s, PlacementsOf(s, c)), NEW x \in c.pods, NEW y \in c.pods
    PROVE  /\ x.node = y.node <=> \E p \in Participants(s) :
                                     {x.service, y.service} \subseteq Range(p.services)
           /\ c.nodes[x.node].machine = c.nodes[y.node].machine
<1>0. IsFiniteSet(c.pods) /\ \A p \in Participants(s) : DOMAIN p.services = Roles
  BY CaptureAssumption
<1> DEFINE P == PlacementsOf(s, c)
<1>1. PICK p \in Participants(s) : /\ \E role \in Roles : x.service = p.services[role]
                                   /\ p.id \in DOMAIN P
                                   /\ P[p.id].node = x.node
                                   /\ P[p.id].machine = c.nodes[x.node].machine
  BY <1>0, PlacementOfPod
<1>2. PICK q \in Participants(s) : /\ \E role \in Roles : y.service = q.services[role]
                                   /\ q.id \in DOMAIN P
                                   /\ P[q.id].node = y.node
                                   /\ P[q.id].machine = c.nodes[y.node].machine
  BY <1>0, PlacementOfPod
<1> HIDE DEF P
<1>3. c.nodes[x.node].machine = c.nodes[y.node].machine
  BY <1>1, <1>2 DEF ValidatePlacements, P
<1>4. x.node = y.node => p.id = q.id
  <2>1. \A i, j \in DOMAIN P : P[i].node = P[j].node => i = j
    BY DEF ValidatePlacements, P
  <2> QED BY <1>1, <1>2, <2>1
<1>5. ASSUME x.node = y.node
      PROVE  \E o \in Participants(s) : {x.service, y.service} \subseteq Range(o.services)
  <2>1. p = q
    BY <1>4, <1>5, ParticipantIsNamed
  <2>2. {x.service, y.service} \subseteq Range(p.services)
    BY <1>0, <1>1, <1>2, <2>1 DEF Range
  <2> QED BY <2>2
<1>6. ASSUME NEW o \in Participants(s), {x.service, y.service} \subseteq Range(o.services)
      PROVE  x.node = y.node
  <2>1. PICK r \in Roles, t \in Roles : x.service = o.services[r] /\ y.service = o.services[t]
    BY <1>0, <1>6 DEF Range
  <2> QED BY <1>0, <2>1, PodIsPlaced
<1> QED BY <1>3, <1>5, <1>6

\* A role has one policy, whoever it serves.
LEMMA PolicyOfRole ==
    ASSUME NEW s, NEW c, TopologyValid(s), ValidatePlacements(s, PlacementsOf(s, c)),
           NEW p \in Participants(s), NEW q \in Participants(s), NEW role \in Roles
    PROVE  PodOf(c, p, role).policy = PodOf(c, q, role).policy
<1>1. ASSUME NEW o \in Participants(s)
      PROVE  /\ o.id \in DOMAIN PlacementsOf(s, c)
             /\ PlacementsOf(s, c)[o.id].policy = [r \in Roles |-> PodOf(c, o, r).policy]
  BY ParticipantIsNamed DEF PlacementsOf
<1>2. PlacementsOf(s, c)[p.id].policy = PlacementsOf(s, c)[q.id].policy
  BY <1>1 DEF ValidatePlacements
<1>3. [r \in Roles |-> PodOf(c, p, r).policy] = [r \in Roles |-> PodOf(c, q, r).policy]
  BY <1>1, <1>2
<1> QED BY <1>3

\* Nothing that runs is outside a lock that is closed.
LEMMA ClosedCoversPods ==
    ASSUME NEW l, NEW c, Closed(l, RuntimeImages(c)),
           NEW pod \in c.pods \cup c.chaos, NEW k \in AllContainers(pod)
    PROVE  k.image \in LockedImages(l)
<1>1. \E x \in RuntimeImages(c) : x.image = k.image
  <2>1. CASE pod \in c.pods
    <3> DEFINE x == [key |-> <<"experiment", pod.service, k.name>>, image |-> k.image]
    <3>1. x \in {[key |-> <<"experiment", pod.service, j.name>>, image |-> j.image] :
                     j \in AllContainers(pod)}
      BY Zenon
    <3>2. x \in RuntimeImages(c)
      BY <2>1, <3>1, Zenon DEF RuntimeImages
    <3> QED BY <3>2
  <2>2. CASE pod \in c.chaos
    <3> DEFINE x == [key |-> <<"chaos-mesh", "runtime", k.name>>, image |-> k.image]
    <3>1. k \in UNION {AllContainers(o) : o \in c.chaos}
      BY <2>2
    <3>2. x \in RuntimeImages(c)
      BY <3>1, Zenon DEF RuntimeImages
    <3> QED BY <3>2
  <2> QED BY <2>1, <2>2
<1> QED BY <1>1 DEF Closed

\* A capture gets past `Discover`, the closure and the
\* placements only in a cluster where two Pods share a node exactly when they serve
\* one participant, and where machines, resources and images are the controlled ones.
THEOREM ControlledRuntime == CaptureSpec => []RuntimeIsControlled
<1>1. ASSUME CaptureInv PROVE RuntimeIsControlled
  <2> SUFFICES ASSUME stage = "captured"
               PROVE  /\ \A x, y \in cluster.pods :
                            /\ x.node = y.node <=> \E p \in Participants(scenario) :
                                  {x.service, y.service} \subseteq Range(p.services)
                            /\ cluster.nodes[x.node].machine = cluster.nodes[y.node].machine
                      /\ \A p, q \in Participants(scenario), role \in Roles :
                            PodOf(cluster, p, role).policy = PodOf(cluster, q, role).policy
                      /\ \A pod \in cluster.pods \cup cluster.chaos :
                            \A k \in AllContainers(pod) : k.image \in LockedImages(lock)
    BY DEF RuntimeIsControlled
  <2>1. /\ scenario \in ScenarioFiles /\ Validate(scenario)
        /\ cluster \in Clusters /\ Discoverable(scenario, cluster)
        /\ Closed(lock, RuntimeImages(cluster))
        /\ ValidatePlacements(scenario, PlacementsOf(scenario, cluster))
    BY <1>1 DEF CaptureInv, LoadedInv, DiscoveredInv, ClosureInv, CheckedInv, AfterMeasure,
                AfterCheck, AfterRanges, AfterClosure, AfterDiscovery, AfterLoad
  <2>2. TopologyValid(scenario)
    BY <2>1 DEF Validate
  <2>3. \A x, y \in cluster.pods :
            /\ x.node = y.node <=> \E p \in Participants(scenario) :
                                      {x.service, y.service} \subseteq Range(p.services)
            /\ cluster.nodes[x.node].machine = cluster.nodes[y.node].machine
    BY <2>1, <2>2, NodesAreParticipants
  <2>4. \A p, q \in Participants(scenario), role \in Roles :
            PodOf(cluster, p, role).policy = PodOf(cluster, q, role).policy
    BY <2>1, <2>2, PolicyOfRole
  <2>5. \A pod \in cluster.pods \cup cluster.chaos :
            \A k \in AllContainers(pod) : k.image \in LockedImages(lock)
    BY <2>1, ClosedCoversPods
  <2> QED BY <2>3, <2>4, <2>5
<1> QED BY <1>1, CaptureInvariance, PTL

-----------------------------------------------------------------------------
(* The ranges *)

\* The number of entries that are sorted in front of one.
Rank(file, r) == Cardinality({q \in file : Before(q, r)})

\* A file that ParseValidatorRanges accepts.
LEMMA AcceptedFile ==
    ASSUME NEW file \in RangeFiles, ParseValidatorRanges(file) # <<>>
    PROVE  /\ ParseValidatorRanges(file) = Sorted(file)
           /\ IsFiniteSet(file) /\ Cardinality(file) \in Nat
           /\ \A r \in file : r.start \in Nat /\ r.end \in Nat /\ r.start <= r.end
           /\ \A q, r \in file : q.start = r.start /\ q.end = r.end => q = r
           /\ \A k \in 2 .. Len(Sorted(file)) : ~Overlap(Sorted(file), k)
<1>1. IsFiniteSet(file) /\ \A r \in file : r.start \in Nat /\ r.end \in Nat
  BY CaptureAssumption
<1>2. Cardinality(file) \in Nat
  BY <1>1, FS_CardinalityType
<1> QED BY <1>1, <1>2 DEF ParseValidatorRanges

\* An entry in front of another one has a smaller rank.
LEMMA RankAscends ==
    ASSUME NEW file, IsFiniteSet(file),
           \A r \in file : r.start \in Nat /\ r.end \in Nat,
           NEW q \in file, NEW r \in file, Before(q, r)
    PROVE  Rank(file, q) < Rank(file, r)
<1> DEFINE A == {x \in file : Before(x, q)}
           B == {x \in file : Before(x, r)}
<1>1. A \subseteq B /\ q \in B /\ q \notin A
  BY DEF Before
<1>2. IsFiniteSet(A) /\ IsFiniteSet(B)
  BY FS_Subset
<1>3. Cardinality(A) \in Nat /\ Cardinality(B) \in Nat
  BY <1>2, FS_CardinalityType
<1>4. Cardinality(A) <= Cardinality(B) /\ Cardinality(A) # Cardinality(B)
  <2> HIDE DEF A, B
  <2> QED BY <1>1, <1>2, FS_Subset
<1> QED BY <1>3, <1>4 DEF Rank

\* The ranks number the entries, so the sorted ranges are the entries, in order.
LEMMA SortedIsOrdered ==
    ASSUME NEW file, IsFiniteSet(file), NEW n \in Nat, n = Cardinality(file),
           \A r \in file : r.start \in Nat /\ r.end \in Nat,
           \A q, r \in file : q.start = r.start /\ q.end = r.end => q = r
    PROVE  /\ DOMAIN Sorted(file) = 1 .. n /\ Len(Sorted(file)) = n
           /\ \A k \in 1 .. n : /\ Sorted(file)[k] \in file
                                /\ Rank(file, Sorted(file)[k]) = k - 1
           /\ \A r \in file : \E k \in 1 .. n : Sorted(file)[k] = r
<1>1. \A q, r \in file : q = r \/ Before(q, r) \/ Before(r, q)
  BY DEF Before
<1>2. \A r \in file : Rank(file, r) \in 0 .. n - 1
  <2> TAKE r \in file
  <2> DEFINE A == {q \in file : Before(q, r)}
  <2>1. r \notin A /\ A \subseteq file
    BY DEF Before
  <2>2. IsFiniteSet(A) /\ Cardinality(A) <= n /\ Cardinality(A) # n
    <3> HIDE DEF A
    <3> QED BY <2>1, FS_Subset
  <2>3. Cardinality(A) \in Nat
    BY <2>2, FS_CardinalityType
  <2> QED BY <2>2, <2>3 DEF Rank
<1>3. \A q, r \in file : Rank(file, q) = Rank(file, r) => q = r
  <2> TAKE q \in file, r \in file
  <2>1. Before(q, r) => Rank(file, q) < Rank(file, r)
    BY RankAscends
  <2>2. Before(r, q) => Rank(file, r) < Rank(file, q)
    BY RankAscends
  <2> QED BY <1>1, <1>2, <2>1, <2>2
<1> DEFINE f == [r \in file |-> Rank(file, r) + 1]
<1>4. f \in Injection(file, 1 .. n)
  BY <1>2, <1>3 DEF Injection, IsInjective
<1>5. f \in Surjection(file, 1 .. n)
  <2>1. IsFiniteSet(1 .. n) /\ Cardinality(1 .. n) = n
    BY FS_Interval
  <2> HIDE DEF f
  <2> QED BY <1>4, <2>1, FS_Injection
<1>6. \A k \in 1 .. n : \E r \in file : Rank(file, r) = k - 1
  <2> TAKE k \in 1 .. n
  <2>1. PICK r \in file : f[r] = k
    BY <1>5 DEF Surjection
  <2> QED BY <1>2, <2>1
<1>7. \A k \in 1 .. n : Sorted(file)[k] = CHOOSE r \in file : Rank(file, r) = k - 1
  BY DEF Sorted, Rank
<1>8. \A k \in 1 .. n : Sorted(file)[k] \in file /\ Rank(file, Sorted(file)[k]) = k - 1
  BY <1>6, <1>7
<1>9. ASSUME NEW r \in file PROVE \E k \in 1 .. n : Sorted(file)[k] = r
  <2> DEFINE k == Rank(file, r) + 1
  <2>1. k \in 1 .. n /\ k - 1 = Rank(file, r)
    BY <1>2
  <2>2. Sorted(file)[k] = r
    <3> HIDE DEF k
    <3> QED BY <1>3, <1>8, <2>1
  <2> QED BY <2>1, <2>2
<1>10. DOMAIN Sorted(file) = 1 .. n /\ Len(Sorted(file)) = n
  BY DEF Sorted
<1> QED BY <1>8, <1>9, <1>10

\* Neighbours do not overlap, hence no two ranges do: the next one begins no later
\* than all that follow it.
LEMMA RangesAreApart ==
    ASSUME NEW file \in RangeFiles, ParseValidatorRanges(file) # <<>>,
           NEW i \in DOMAIN Sorted(file), NEW j \in DOMAIN Sorted(file), i < j
    PROVE  Sorted(file)[i].end < Sorted(file)[j].start
<1> DEFINE ranges == Sorted(file)
           n == Cardinality(file)
<1>1. /\ IsFiniteSet(file) /\ n \in Nat
      /\ \A r \in file : r.start \in Nat /\ r.end \in Nat /\ r.start <= r.end
      /\ \A q, r \in file : q.start = r.start /\ q.end = r.end => q = r
      /\ \A k \in 2 .. Len(ranges) : ~Overlap(ranges, k)
  BY AcceptedFile
<1>2. /\ DOMAIN ranges = 1 .. n /\ Len(ranges) = n
      /\ \A k \in 1 .. n : ranges[k] \in file /\ Rank(file, ranges[k]) = k - 1
  BY <1>1, SortedIsOrdered
<1> DEFINE m == i + 1
<1>3. m \in 2 .. n /\ m - 1 = i /\ j \in 1 .. n /\ i \in 1 .. n /\ m <= j
  BY <1>2
<1> HIDE DEF ranges, m, n
<1>4. ranges[i].end < ranges[m].start
  BY <1>1, <1>2, <1>3 DEF Overlap
<1>5. ~Before(ranges[j], ranges[m])
  <2>1. ~(Rank(file, ranges[j]) < Rank(file, ranges[m]))
    BY <1>2, <1>3
  <2> QED BY <1>1, <1>2, <1>3, <2>1, RankAscends
<1>6. ranges[m].start <= ranges[j].start
  BY <1>1, <1>2, <1>3, <1>5 DEF Before
<1> QED BY <1>1, <1>2, <1>3, <1>4, <1>6 DEF ranges

\* The least of a set of natural numbers.
LEMMA MinIsLeast ==
    ASSUME NEW S \in SUBSET Nat, S # {}
    PROVE  Min(S) \in S /\ \A y \in S : Min(S) <= y
<1>1. PICK x \in S : \A y \in S : ~(<<y, x>> \in OpToRel(<, Nat))
  BY NatLessThanWellFounded, WFMin, Zenon
<1>2. \A y \in S : ~(y < x)
  BY <1>1 DEF OpToRel
<1>3. \A y \in S : x <= y
  BY <1>2
<1> QED BY <1>3 DEF Min

\* The binary search finds the one range that holds the validator.
LEMMA OwnerIsUnique ==
    ASSUME NEW file \in RangeFiles, ParseValidatorRanges(file) # <<>>,
           NEW v, v.index \in Nat, HasOwner(Sorted(file), v)
    PROVE  LET r == Sorted(file)[Position(Sorted(file), v.index)]
           IN  /\ r \in file /\ v.index \in r.start .. r.end
               /\ \A q \in file : v.index \in q.start .. q.end => q = r
<1> DEFINE ranges == Sorted(file)
           n == Cardinality(file)
           S == {k \in DOMAIN ranges : ranges[k].end >= v.index}
           p == Position(ranges, v.index)
<1>1. /\ IsFiniteSet(file) /\ n \in Nat
      /\ \A r \in file : r.start \in Nat /\ r.end \in Nat /\ r.start <= r.end
      /\ \A q, r \in file : q.start = r.start /\ q.end = r.end => q = r
  BY AcceptedFile
<1>2. /\ DOMAIN ranges = 1 .. n
      /\ \A k \in 1 .. n : ranges[k] \in file
      /\ \A r \in file : \E k \in 1 .. n : ranges[k] = r
  BY <1>1, SortedIsOrdered
<1>3. p \in S
  <2>1. S \in SUBSET Nat /\ S # {}
    BY <1>2 DEF HasOwner
  <2> HIDE DEF S
  <2>2. Min(S) \in S
    BY <2>1, MinIsLeast
  <2> QED BY <2>2 DEF Position, S
<1>4. ranges[p].start <= v.index
  BY DEF HasOwner
<1> HIDE DEF p
<1>5. p \in 1 .. n /\ ranges[p] \in file /\ v.index <= ranges[p].end
  BY <1>1, <1>2, <1>3
<1>6. ASSUME NEW q \in file, v.index \in q.start .. q.end PROVE q = ranges[p]
  <2>1. PICK k \in 1 .. n : ranges[k] = q
    BY <1>2
  <2>2. ~(k < p)
    <3>1. k < p => ranges[k].end < ranges[p].start
      BY <1>2, <1>5, RangesAreApart
    <3> QED BY <1>1, <1>4, <1>5, <1>6, <2>1, <3>1
  <2>3. ~(p < k)
    <3>1. p < k => ranges[p].end < ranges[k].start
      BY <1>2, <1>5, RangesAreApart
    <3> QED BY <1>1, <1>4, <1>5, <1>6, <2>1, <3>1
  <2> QED BY <1>1, <1>5, <2>1, <2>2, <2>3
<1>7. v.index \in ranges[p].start .. ranges[p].end
  BY <1>1, <1>4, <1>5
<1> QED BY <1>5, <1>6, <1>7 DEF p

-----------------------------------------------------------------------------
(* The parts of the split *)

\* What has been accepted before a split is calculated.
Accepted(s, file, vs) ==
    /\ s \in ScenarioFiles /\ Validate(s)
    /\ file \in RangeFiles /\ ParseValidatorRanges(file) # <<>>
    /\ vs \in ValidatorResponses /\ ResponseValid(vs)
    /\ Calculable(s, ParseValidatorRanges(file), vs)

Ids(s) == {p.id : p \in Participants(s)}

\* The validators of each participant, by its name.
Parts(s, file, vs) ==
    [id \in Ids(s) |-> OwnedBy(ParticipantWithID(s, id), ParseValidatorRanges(file), vs)]

\* The range of a validator, and its owner.
LEMMA RangeOfValidator ==
    ASSUME NEW s, NEW file, NEW vs, Accepted(s, file, vs), NEW v \in vs
    PROVE  LET r == ParseValidatorRanges(file)[Position(ParseValidatorRanges(file), v.index)]
           IN  /\ r \in file /\ v.index \in r.start .. r.end
               /\ \A q \in file : v.index \in q.start .. q.end => q = r
               /\ \E p \in Participants(s) : p.range = r.owner
<1>1. ParseValidatorRanges(file) = Sorted(file) /\ v.index \in Nat
  BY AcceptedFile, CaptureAssumption DEF Accepted
<1> DEFINE r == Sorted(file)[Position(Sorted(file), v.index)]
<1>2. /\ r \in file /\ v.index \in r.start .. r.end
      /\ \A q \in file : v.index \in q.start .. q.end => q = r
  BY <1>1, OwnerIsUnique DEF Accepted, Calculable
<1>3. r \in Range(Sorted(file))
  <2>1. /\ IsFiniteSet(file) /\ Cardinality(file) \in Nat
        /\ \A q \in file : q.start \in Nat /\ q.end \in Nat
        /\ \A q, t \in file : q.start = t.start /\ q.end = t.end => q = t
    BY AcceptedFile DEF Accepted
  <2>2. \E k \in DOMAIN Sorted(file) : Sorted(file)[k] = r
    BY <1>2, <2>1, SortedIsOrdered
  <2> QED BY <2>2 DEF Range
<1>4. \E p \in Participants(s) : p.range = r.owner
  BY <1>1, <1>3 DEF Accepted, Calculable
<1> QED BY <1>1, <1>2, <1>4

\* The validators that are counted for a participant are those its ranges hold.
LEMMA OwnedIsClaimed ==
    ASSUME NEW s, NEW file, NEW vs, Accepted(s, file, vs), NEW p
    PROVE  OwnedBy(p, ParseValidatorRanges(file), vs) =
               {v \in vs : \E r \in file : r.owner = p.range /\ v.index \in r.start .. r.end}
<1> SUFFICES ASSUME NEW v \in vs
             PROVE  ParseValidatorRanges(file)[Position(ParseValidatorRanges(file), v.index)].owner
                        = p.range
                    <=> \E r \in file : r.owner = p.range /\ v.index \in r.start .. r.end
  BY DEF OwnedBy
<1> QED BY RangeOfValidator

\* The participants part the validators between them.
LEMMA PartsArePartition ==
    ASSUME NEW s, NEW file, NEW vs, Accepted(s, file, vs)
    PROVE  /\ \A id \in Ids(s) : /\ Parts(s, file, vs)[id] \subseteq vs
                                 /\ IsFiniteSet(Parts(s, file, vs)[id])
           /\ \A i, j \in Ids(s) : i # j =>
                  Parts(s, file, vs)[i] \cap Parts(s, file, vs)[j] = {}
           /\ UNION {Parts(s, file, vs)[id] : id \in Ids(s)} = vs
<1> DEFINE ranges == ParseValidatorRanges(file)
           part == Parts(s, file, vs)
<1>0. TopologyValid(s) /\ IsFiniteSet(vs)
  BY CaptureAssumption DEF Accepted, Validate
<1>1. \A id \in Ids(s) : ParticipantWithID(s, id) \in Participants(s)
                         /\ ParticipantWithID(s, id).id = id
  BY <1>0, ParticipantIsNamed DEF Ids
<1>2. \A id \in Ids(s) : part[id] = {v \in vs :
          ranges[Position(ranges, v.index)].owner = ParticipantWithID(s, id).range}
  BY DEF Parts, OwnedBy
<1>3. \A id \in Ids(s) : part[id] \subseteq vs /\ IsFiniteSet(part[id])
  BY <1>0, <1>2, FS_Subset
<1>4. ASSUME NEW i \in Ids(s), NEW j \in Ids(s), i # j PROVE part[i] \cap part[j] = {}
  <2>1. ParticipantWithID(s, i).range # ParticipantWithID(s, j).range
    BY <1>0, <1>1, <1>4, ParticipantIsNamed
  <2> QED BY <1>2, <2>1
<1>5. ASSUME NEW v \in vs PROVE \E id \in Ids(s) : v \in part[id]
  <2>1. PICK p \in Participants(s) : p.range = ranges[Position(ranges, v.index)].owner
    BY RangeOfValidator
  <2>2. p.id \in Ids(s) /\ ParticipantWithID(s, p.id) = p
    BY <1>0, ParticipantIsNamed DEF Ids
  <2> QED BY <1>2, <2>1, <2>2
<1> HIDE DEF part, ranges
<1>6. UNION {part[id] : id \in Ids(s)} = vs
  BY <1>3, <1>5
<1> QED BY <1>3, <1>4, <1>6 DEF part

\* A set of numbers adds up to no less than a part of it.
LEMMA SumOfSubset ==
    ASSUME NEW w, NEW S, IsFiniteSet(S), \A x \in S : w[x] \in Nat, NEW T \in SUBSET S
    PROVE  /\ SumFunctionOnSet(w, T) \in Nat /\ SumFunctionOnSet(w, S) \in Nat
           /\ SumFunctionOnSet(w, T) <= SumFunctionOnSet(w, S)
<1>1. IsFiniteSet(T) /\ IsFiniteSet(S \ T)
  BY FS_Subset
<1>2. SumFunctionOnSet(w, T \cup (S \ T)) =
          SumFunctionOnSet(w, T) + SumFunctionOnSet(w, S \ T)
  BY <1>1, SumUnion
<1>3. T \cup (S \ T) = S
  OBVIOUS
<1>4. SumFunctionOnSet(w, S) = SumFunctionOnSet(w, T) + SumFunctionOnSet(w, S \ T)
  BY <1>2, <1>3, Zenon
<1>5. /\ SumFunctionOnSet(w, T) \in Nat /\ SumFunctionOnSet(w, S \ T) \in Nat
      /\ SumFunctionOnSet(w, S) \in Nat
  BY <1>1, SumIsNat
<1> QED BY <1>4, <1>5

\* A scenario has four participants, hence finitely many names.
LEMMA IdsAreFinite ==
    ASSUME NEW s \in ScenarioFiles, TopologyValid(s) PROVE IsFiniteSet(Ids(s))
<1> DEFINE f == [k \in 1 .. 4 |-> s.participants[k].id]
<1>1. DOMAIN s.participants = 1 .. 4
  BY CaptureAssumption DEF TopologyValid
<1>2. f \in Surjection(1 .. 4, Ids(s))
  BY <1>1 DEF Surjection, Ids, Participants, Range
<1>3. IsFiniteSet(1 .. 4)
  <2>1. 1 \in Int /\ 4 \in Int
    OBVIOUS
  <2> QED BY <2>1, FS_Interval, Zenon
<1> HIDE DEF f
<1> QED BY <1>2, <1>3, FS_Surjection

\* Whatever is summed over the validators of some participants is no more than the
\* sum over all of them.
LEMMA SumOverParts ==
    ASSUME NEW s, NEW file, NEW vs, Accepted(s, file, vs),
           NEW w, \A v \in vs : w[v] \in Nat, NEW J \in SUBSET Ids(s), NEW sum,
           \A id \in J : sum[id] = SumFunctionOnSet(w, Parts(s, file, vs)[id])
    PROVE  /\ SumFunctionOnSet(sum, J) \in Nat /\ SumFunctionOnSet(w, vs) \in Nat
           /\ SumFunctionOnSet(sum, J) <= SumFunctionOnSet(w, vs)
           /\ J = Ids(s) => SumFunctionOnSet(sum, J) = SumFunctionOnSet(w, vs)
<1> DEFINE part == Parts(s, file, vs)
           all == UNION {part[id] : id \in J}
<1>1. IsFiniteSet(vs) /\ IsFiniteSet(J)
  <2>1. IsFiniteSet(Ids(s))
    BY IdsAreFinite DEF Accepted, Validate
  <2> QED BY <2>1, CaptureAssumption, FS_Subset DEF Accepted
<1>2. /\ \A id \in Ids(s) : part[id] \subseteq vs /\ IsFiniteSet(part[id])
      /\ \A i, j \in Ids(s) : i # j => part[i] \cap part[j] = {}
      /\ UNION {part[id] : id \in Ids(s)} = vs
  BY PartsArePartition
<1> HIDE DEF part
<1>3. SumFunctionOnSet(sum, J) = SumFunctionOnSet(w, all)
  <2>1. /\ \A i \in J : IsFiniteSet(part[i]) /\ sum[i] = SumFunctionOnSet(w, part[i])
        /\ \A i, j \in J : i # j => part[i] \cap part[j] = {}
        /\ \A i \in J : \A x \in part[i] : w[x] \in Nat
    BY <1>2 DEF part
  <2> QED BY <1>1, <2>1, SumOfSums
<1>4. all \subseteq vs /\ (J = Ids(s) => all = vs)
  BY <1>2
<1> HIDE DEF all
<1> QED BY <1>1, <1>3, <1>4, SumOfSubset

-----------------------------------------------------------------------------
(* Widths *)

\* What fits into a uint64 does not wrap.
LEMMA WrapOfSmall == ASSUME NEW n \in 0 .. MaxUint PROVE Wrap(n) = n
BY SplitAssumption DEF Wrap

\* The powers of two: they count the subsets of 1 .. k.
LEMMA PowerOfTwo ==
    ASSUME NEW k \in Nat
    PROVE  /\ 2 ^ k = Cardinality(SUBSET (1 .. k))
           /\ IsFiniteSet(SUBSET (1 .. k)) /\ 2 ^ k \in Nat
<1>1. IsFiniteSet(1 .. k) /\ Cardinality(1 .. k) = k
  BY FS_Interval
<1>2. IsFiniteSet(SUBSET (1 .. k)) /\ Cardinality(SUBSET (1 .. k)) = 2 ^ k
  BY <1>1, FS_SUBSET
<1> QED BY <1>2, FS_CardinalityType

LEMMA SmallPowers == 2 ^ 0 = 1 /\ 2 ^ 1 = 2
OBVIOUS

\* A larger exponent gives no smaller power, and the next one twice as much.
LEMMA PowerAscends ==
    ASSUME NEW k \in Nat, NEW m \in Nat, k <= m PROVE 2 ^ k <= 2 ^ m
<1>1. SUBSET (1 .. k) \subseteq SUBSET (1 .. m)
  OBVIOUS
<1>2. Cardinality(SUBSET (1 .. k)) <= Cardinality(SUBSET (1 .. m))
  BY <1>1, PowerOfTwo, FS_Subset
<1> QED BY <1>2, PowerOfTwo

LEMMA PowerDoubles == ASSUME NEW k \in Nat PROVE 2 ^ (k + 1) = 2 * 2 ^ k
<1> DEFINE m == k + 1
           A == SUBSET (1 .. k)
           B == {T \in SUBSET (1 .. m) : m \in T}
           f == [T \in A |-> T \cup {m}]
<1>0. m \in Nat /\ 1 .. m = (1 .. k) \cup {m} /\ m \notin 1 .. k
  OBVIOUS
<1>1. /\ 2 ^ k = Cardinality(A) /\ IsFiniteSet(A) /\ 2 ^ k \in Nat
      /\ 2 ^ m = Cardinality(SUBSET (1 .. m))
  BY PowerOfTwo
<1> HIDE DEF m
<1>2. SUBSET (1 .. m) = A \cup B /\ A \cap B = {}
  BY <1>0
<1>3. f \in Bijection(A, B)
  <2>1. \A T \in A : T \cup {m} \in B
    BY <1>0
  <2>2. \A T, U \in A : T \cup {m} = U \cup {m} => T = U
    BY <1>0
  <2>3. \A U \in B : \E T \in A : T \cup {m} = U
    <3> TAKE U \in B
    <3>1. U \ {m} \in A /\ (U \ {m}) \cup {m} = U
      BY <1>0
    <3> QED BY <3>1
  <2> HIDE DEF A, B
  <2> QED BY <2>1, <2>2, <2>3 DEF Bijection, Injection, Surjection, IsInjective
<1>4. IsFiniteSet(B) /\ Cardinality(B) = Cardinality(A)
  <2>1. ExistsBijection(A, B)
    <3> HIDE DEF f, A, B
    <3> QED BY <1>3 DEF ExistsBijection
  <2> HIDE DEF A, B
  <2> QED BY <1>1, <2>1, FS_Bijection
<1>5. Cardinality(A \cup B) = Cardinality(A) + Cardinality(B)
  <2> HIDE DEF A, B
  <2>1. Cardinality(A \cup B) = Cardinality(A) + Cardinality(B) - Cardinality({})
    BY <1>1, <1>2, <1>4, FS_Union
  <2>2. Cardinality({}) = 0
    BY FS_EmptySet
  <2> QED BY <1>1, <1>4, <2>1, <2>2
<1>6. 2 ^ m = 2 ^ k + 2 ^ k
  <2> HIDE DEF A, B
  <2>1. Cardinality(SUBSET (1 .. m)) = Cardinality(A) + Cardinality(B)
    BY <1>2, <1>5
  <2> QED BY <1>1, <1>4, <2>1
<1> QED BY <1>1, <1>6 DEF m

\* float64 is exact up to two to the power of its mantissa.
LEMMA FloatIsExact ==
    ASSUME NEW n \in Nat, n <= 2 ^ Mantissa PROVE Float(n) = n
<1> DEFINE Exponent(k) == n < 2 ^ (Mantissa + k) /\ (k > 0 => n >= 2 ^ (Mantissa + k - 1))
           e == CHOOSE k \in 0 .. n : Exponent(k)
<1>1. Mantissa \in Nat /\ Mantissa - 1 \in Nat /\ 2 ^ Mantissa \in Nat
  BY SplitAssumption, PowerOfTwo
<1>2. CASE n < 2 ^ Mantissa
  <2>1. Exponent(0) /\ 0 \in 0 .. n
    <3>1. Mantissa + 0 = Mantissa
      BY <1>1
    <3> QED BY <1>2, <3>1
  <2>2. ASSUME NEW k \in 0 .. n, Exponent(k) PROVE k = 0
    <3>1. CASE k > 0
      <4>1. Mantissa + k - 1 \in Nat /\ Mantissa <= Mantissa + k - 1
        BY <1>1, <3>1
      <4>2. 2 ^ Mantissa <= 2 ^ (Mantissa + k - 1) /\ 2 ^ (Mantissa + k - 1) \in Nat
        BY <1>1, <4>1, PowerAscends, PowerOfTwo
      <4> QED BY <1>1, <1>2, <2>2, <3>1, <4>2
    <3> QED BY <3>1
  <2>3. e = 0
    <3> HIDE DEF Exponent
    <3> QED BY <2>1, <2>2
  <2> HIDE DEF e
  <2>4. 2 ^ e = 1
    BY <2>3, SmallPowers, Zenon
  <2> QED BY <2>4 DEF Float, e
<1>3. CASE n = 2 ^ Mantissa
  <2>1. 2 ^ (Mantissa + 1) = 2 * n /\ n = 2 * 2 ^ (Mantissa - 1) /\ 2 ^ (Mantissa - 1) \in Nat
    <3>1. (Mantissa - 1) + 1 = Mantissa
      BY <1>1
    <3>2. 2 ^ ((Mantissa - 1) + 1) = 2 * 2 ^ (Mantissa - 1)
      BY <1>1, PowerDoubles
    <3>3. 2 ^ (Mantissa + 1) = 2 * 2 ^ Mantissa
      BY <1>1, PowerDoubles
    <3>4. 2 ^ Mantissa = 2 * 2 ^ (Mantissa - 1)
      BY <3>1, <3>2, Zenon
    <3> QED BY <1>1, <1>3, <3>3, <3>4, PowerOfTwo
  <2>2. n >= 1
    <3>1. 0 \in Nat /\ 0 <= Mantissa
      BY <1>1
    <3>2. 2 ^ 0 <= 2 ^ Mantissa
      BY <1>1, <3>1, PowerAscends, Zenon
    <3>3. 1 <= 2 ^ Mantissa
      BY <3>2, SmallPowers, Zenon
    <3> QED BY <1>1, <1>3, <3>3
  <2>3. Exponent(1) /\ 1 \in 0 .. n
    <3>1. Mantissa + 1 - 1 = Mantissa
      BY <1>1
    <3> QED BY <1>1, <1>3, <2>1, <2>2, <3>1
  <2>4. ASSUME NEW k \in 0 .. n, Exponent(k) PROVE k = 1
    <3>1. CASE k = 0
      <4>1. Mantissa + 0 = Mantissa
        BY <1>1
      <4> QED BY <1>1, <1>3, <2>4, <3>1, <4>1
    <3>2. CASE k > 1
      <4>1. Mantissa + k - 1 \in Nat /\ Mantissa + 1 <= Mantissa + k - 1
        BY <1>1, <3>2
      <4>2. 2 ^ (Mantissa + 1) <= 2 ^ (Mantissa + k - 1) /\ 2 ^ (Mantissa + k - 1) \in Nat
        BY <1>1, <4>1, PowerAscends, PowerOfTwo
      <4> QED BY <1>1, <2>1, <2>2, <2>4, <3>2, <4>2
    <3> QED BY <3>1, <3>2
  <2>5. e = 1
    <3> HIDE DEF Exponent
    <3> QED BY <2>3, <2>4
  <2> HIDE DEF e
  <2>6. 2 ^ e = 2
    BY <2>5, SmallPowers, Zenon
  <2>7. n \div 2 = 2 ^ (Mantissa - 1) /\ n % 2 = 0
    BY <2>1
  <2> QED BY <1>1, <2>1, <2>6, <2>7 DEF Float, e
<1> QED BY <1>1, <1>2, <1>3

-----------------------------------------------------------------------------
(* The split *)

\* The two sides hold every participant, and none of them twice.
LEMMA SidesArePartition ==
    ASSUME NEW s \in ScenarioFiles, Validate(s)
    PROVE  /\ FaultGroups(s) = {s.groups[1], s.groups[2]}
           /\ Members(s.groups[1]) \cup Members(s.groups[2]) = Ids(s)
           /\ Members(s.groups[1]) \cap Members(s.groups[2]) = {}
<1> DEFINE g == s.groups[1]
           h == s.groups[2]
<1>1. DOMAIN s.groups = 1 .. 2
  BY CaptureAssumption DEF Validate, FaultValid
<1>2. FaultGroups(s) = {g, h}
  BY <1>1 DEF FaultGroups, Range
<1>3. Members(g) \cup Members(h) = Ids(s)
  <2>1. UNION {Members(x) : x \in FaultGroups(s)} = Ids(s)
    BY DEF Validate, FaultValid, Ids
  <2> HIDE DEF g, h
  <2> QED BY <1>2, <2>1
<1>4. Members(g) \cap Members(h) = {}
  <2> DEFINE a == g.members
             b == h.members
  <2>1. a \in Seq(Members(g)) /\ b \in Seq(Members(h))
    BY <1>2, CaptureAssumption
  <2>2. IsInjective(a \o b)
    BY DEF Validate, FaultValid
  <2> SUFFICES ASSUME NEW x \in Members(g), x \in Members(h) PROVE FALSE
    OBVIOUS
  <2>3. PICK i \in DOMAIN a, j \in DOMAIN b : a[i] = x /\ b[j] = x
    BY DEF Members, Range
  <2> HIDE DEF a, b, g, h
  <2>4. /\ i \in 1 .. Len(a) /\ j \in 1 .. Len(b) /\ Len(a) \in Nat /\ Len(b) \in Nat
        /\ DOMAIN (a \o b) = 1 .. Len(a) + Len(b)
        /\ (a \o b)[i] = a[i] /\ (a \o b)[Len(a) + j] = b[j]
    BY <2>1, <2>3
  <2>5. i = Len(a) + j
    BY <2>2, <2>3, <2>4 DEF IsInjective
  <2> QED BY <2>4, <2>5
<1> QED BY <1>2, <1>3, <1>4

\* The balance of a set of validators, as a sum over all of them.
LEMMA BalanceIsSum ==
    ASSUME NEW vs, IsFiniteSet(vs), NEW own \in SUBSET vs
    PROVE  Balance(own) = SumFunctionOnSet([v \in vs |-> v.balance], own)
<1>1. IsFiniteSet(own)
  BY FS_Subset
<1>2. SumFunctionOnSet([v \in own |-> v.balance], own) =
          SumFunctionOnSet([v \in vs |-> v.balance], own)
  BY <1>1, SumAgrees
<1> QED BY <1>2 DEF Balance, SumFunction

\* What each participant holds.
Weights(s, file, vs) ==
    [id \in Ids(s) |-> [count   |-> Cardinality(Parts(s, file, vs)[id]),
                        balance |-> Balance(Parts(s, file, vs)[id])]]

LEMMA WeightsOf ==
    ASSUME NEW s, NEW file, NEW vs
    PROVE  /\ DOMAIN Weights(s, file, vs) = Ids(s)
           /\ \A id \in Ids(s) :
                  /\ Weights(s, file, vs)[id].count = Cardinality(Parts(s, file, vs)[id])
                  /\ Weights(s, file, vs)[id].balance = Balance(Parts(s, file, vs)[id])
BY DEF Weights

\* The fields of a split.
LEMMA SplitFields ==
    ASSUME NEW s, NEW file, NEW vs, NEW z,
           z = CalculateRealizedSplit(s, ParseValidatorRanges(file), vs)
    PROVE  /\ z.total = Balance(vs)
           /\ z.participants = Weights(s, file, vs)
           /\ DOMAIN z.groups = FaultGroups(s)
           /\ \A g \in FaultGroups(s) :
                  /\ z.groups[g].balance = GroupBalance(z.participants, g)
                  /\ z.groups[g].share = RealizedShare(z.groups[g].balance, z.total)
           /\ z.within <=> \A g \in FaultGroups(s) :
                  ShareIsHalf(RealizedShare(z.groups[g].balance, z.total))
<1> DEFINE weights == Weights(s, file, vs)
           total == Balance(vs)
           groups == [g \in FaultGroups(s) |->
                  [balance |-> GroupBalance(weights, g),
                   share   |-> RealizedShare(GroupBalance(weights, g), total)]]
           within == \A g \in FaultGroups(s) : ShareIsHalf(groups[g].share)
<1>1. z = [total |-> total, participants |-> weights, groups |-> groups, within |-> within]
  BY DEF CalculateRealizedSplit, Parts, Ids, Weights
<1>2. \A g \in FaultGroups(s) :
          /\ groups[g].balance = GroupBalance(weights, g)
          /\ groups[g].share = RealizedShare(GroupBalance(weights, g), total)
  OBVIOUS
<1>3. DOMAIN groups = FaultGroups(s)
  OBVIOUS
<1>4. within <=> \A g \in FaultGroups(s) : ShareIsHalf(RealizedShare(groups[g].balance, total))
  BY <1>2
<1> HIDE DEF weights, total, groups, within
<1>5. z.total = total /\ z.participants = weights /\ z.groups = groups /\ z.within = within
  BY <1>1
<1> QED BY <1>2, <1>3, <1>4, <1>5 DEF weights, total

\* No sum of balances wraps, and the sides add up to the total.
LEMMA SidesAddUp ==
    ASSUME NEW s, NEW file, NEW vs, Accepted(s, file, vs), NEW z,
           z = CalculateRealizedSplit(s, ParseValidatorRanges(file), vs)
    PROVE  /\ z.total \in 1 .. MaxUint
           /\ SumFunction([id \in Ids(s) |-> z.participants[id].balance]) = z.total
           /\ \A n \in 1 .. 2 : z.groups[s.groups[n]].balance \in 0 .. z.total
           /\ z.groups[s.groups[1]].balance + z.groups[s.groups[2]].balance = z.total
<1> DEFINE w == [v \in vs |-> v.balance]
           part == Parts(s, file, vs)
           sum == [id \in Ids(s) |-> z.participants[id].balance]
           g == s.groups[1]
           h == s.groups[2]
<1>1. IsFiniteSet(vs) /\ (\A v \in vs : w[v] \in Nat) /\ s \in ScenarioFiles /\ Validate(s)
  BY CaptureAssumption DEF Accepted
<1>2. /\ z.total = Balance(vs)
      /\ \A id \in Ids(s) : z.participants[id].balance = Balance(part[id])
      /\ \A x \in FaultGroups(s) : z.groups[x].balance = GroupBalance(z.participants, x)
  BY SplitFields, WeightsOf
<1>3. \A id \in Ids(s) : sum[id] = SumFunctionOnSet(w, part[id])
  <2>1. \A id \in Ids(s) : part[id] \in SUBSET vs
    BY PartsArePartition
  <2> HIDE DEF w, part
  <2> QED BY <1>1, <1>2, <2>1, BalanceIsSum DEF w
<1>4. z.total = SumFunctionOnSet(w, vs) /\ z.total \in 1 .. MaxUint
  <2>1. Balance(vs) \in 1 .. MaxUint
    BY DEF Accepted, Calculable
  <2>2. Balance(vs) = SumFunctionOnSet(w, vs)
    BY <1>1, BalanceIsSum
  <2> QED BY <1>2, <2>1, <2>2
<1>5. /\ FaultGroups(s) = {g, h}
      /\ Members(g) \cup Members(h) = Ids(s) /\ Members(g) \cap Members(h) = {}
  BY <1>1, SidesArePartition
<1>6. \A J \in SUBSET Ids(s) :
          /\ SumFunctionOnSet(sum, J) \in 0 .. z.total
          /\ J = Ids(s) => SumFunctionOnSet(sum, J) = z.total
  <2> HIDE DEF w, sum, part
  <2> TAKE J \in SUBSET Ids(s)
  <2>1. \A id \in J : sum[id] = SumFunctionOnSet(w, Parts(s, file, vs)[id])
    BY <1>3 DEF part
  <2>2. /\ SumFunctionOnSet(sum, J) \in Nat
        /\ SumFunctionOnSet(sum, J) <= SumFunctionOnSet(w, vs)
        /\ J = Ids(s) => SumFunctionOnSet(sum, J) = SumFunctionOnSet(w, vs)
    BY <1>1, <2>1, SumOverParts
  <2> QED BY <1>4, <2>2
<1>7. ASSUME NEW x \in {g, h}
      PROVE  z.groups[x].balance = SumFunctionOnSet(sum, Members(x))
  <2>1. Members(x) \in SUBSET Ids(s)
    BY <1>5
  <2>2. IsFiniteSet(Members(x))
    <3>1. IsFiniteSet(Ids(s))
      BY <1>1, IdsAreFinite DEF Validate
    <3> QED BY <2>1, <3>1, FS_Subset
  <2> DEFINE own == [id \in Members(x) |-> z.participants[id].balance]
  <2>3. SumFunctionOnSet(own, Members(x)) = SumFunctionOnSet(sum, Members(x))
    <3>1. \A id \in Members(x) : own[id] = sum[id]
      BY <2>1
    <3> HIDE DEF own, sum
    <3> QED BY <2>2, <3>1, SumAgrees
  <2>4. SumFunction(own) = SumFunctionOnSet(own, Members(x))
    BY DEF SumFunction
  <2>5. SumFunctionOnSet(sum, Members(x)) \in 0 .. MaxUint
    <3> HIDE DEF sum
    <3>1. SumFunctionOnSet(sum, Members(x)) \in 0 .. z.total
      BY <1>6, <2>1
    <3> QED BY <1>4, <3>1, SplitAssumption
  <2>6. GroupBalance(z.participants, x) = Wrap(SumFunction(own))
    BY DEF GroupBalance
  <2> HIDE DEF own, sum
  <2> QED BY <1>2, <1>5, <2>3, <2>4, <2>5, <2>6, WrapOfSmall
<1>8. SumFunctionOnSet(sum, Ids(s)) =
          SumFunctionOnSet(sum, Members(g)) + SumFunctionOnSet(sum, Members(h))
  <2>1. \A x \in Ids(s) : sum[x] \in Nat
    <3>1. \A id \in Ids(s) : IsFiniteSet(part[id]) /\ \A v \in part[id] : w[v] \in Nat
      BY <1>1, PartsArePartition
    <3> HIDE DEF sum, part, w
    <3> QED BY <1>3, <3>1, SumIsNat
  <2>2. IsFiniteSet(Ids(s))
    BY <1>1, IdsAreFinite DEF Validate
  <2>3. IsFiniteSet(Members(g)) /\ IsFiniteSet(Members(h))
    <3> HIDE DEF g, h
    <3> QED BY <1>5, <2>2, FS_Subset
  <2> HIDE DEF sum, g, h
  <2>4. SumFunctionOnSet(sum, Members(g) \cup Members(h)) =
            SumFunctionOnSet(sum, Members(g)) + SumFunctionOnSet(sum, Members(h))
    BY <1>5, <2>1, <2>3, SumUnion
  <2> QED BY <1>5, <2>4, Zenon
<1>9. SumFunction(sum) = SumFunctionOnSet(sum, Ids(s))
  BY DEF SumFunction
<1>10. \A x \in {g, h} : SumFunctionOnSet(sum, Members(x)) \in 0 .. z.total
  <2> HIDE DEF sum, g, h
  <2> QED BY <1>5, <1>6
<1>11. SumFunctionOnSet(sum, Ids(s)) = z.total
  <2> HIDE DEF sum
  <2> QED BY <1>6
<1>12. \A x \in {g, h} : z.groups[x].balance \in 0 .. z.total
  <2> HIDE DEF sum, g, h
  <2> QED BY <1>7, <1>10
<1>13. \A n \in 1 .. 2 : s.groups[n] \in {g, h}
  OBVIOUS
<1>14. z.groups[g].balance + z.groups[h].balance = z.total
  <2> HIDE DEF sum, g, h
  <2> QED BY <1>7, <1>8, <1>11
<1> QED
  <2>1. SumFunction(sum) = z.total
    <3> HIDE DEF sum
    <3> QED BY <1>9, <1>11
  <2>2. \A n \in 1 .. 2 : z.groups[s.groups[n]].balance \in 0 .. z.total
    <3> HIDE DEF g, h
    <3> QED BY <1>12, <1>13
  <2> QED BY <1>4, <1>14, <2>1, <2>2

\* A participant's count is the number of its validators, all of which have a
\* balance, so the sums of counts do not wrap either.
LEMMA CountsAddUp ==
    ASSUME NEW s, NEW file, NEW vs, Accepted(s, file, vs), NEW g \in FaultGroups(s)
    PROVE  RequestedWeight(s, g) =
               SumFunction([id \in Members(g) |-> ParticipantWithID(s, id).count])
<1> DEFINE one == [v \in vs |-> 1]
           w == [v \in vs |-> v.balance]
           count == [id \in Members(g) |-> ParticipantWithID(s, id).count]
           part == Parts(s, file, vs)
<1>1. /\ IsFiniteSet(vs) /\ s \in ScenarioFiles /\ Validate(s)
      /\ \A v \in vs : w[v] \in Nat /\ w[v] >= 1
  BY CaptureAssumption DEF Accepted, ResponseValid
<1>2. Members(g) \in SUBSET Ids(s)
  BY <1>1, SidesArePartition
<1>3. \A id \in Members(g) : count[id] = SumFunctionOnSet(one, part[id])
  <2> TAKE id \in Members(g)
  <2>1. id \in Ids(s) /\ ParticipantWithID(s, id) \in Participants(s)
    BY <1>1, <1>2, ParticipantIsNamed DEF Ids, Validate
  <2>2. Cardinality(part[id]) = count[id]
    BY <2>1 DEF Accepted, Calculable, CountsMatch, Parts
  <2>3. IsFiniteSet(part[id]) /\ \A v \in part[id] : one[v] = 1
    BY <2>1, PartsArePartition
  <2> HIDE DEF one, part, count
  <2> QED BY <2>2, <2>3, SumOfOnes
<1>4. /\ SumFunctionOnSet(count, Members(g)) \in Nat
      /\ SumFunctionOnSet(count, Members(g)) <= SumFunctionOnSet(one, vs)
  <2>1. \A v \in vs : one[v] \in Nat
    OBVIOUS
  <2>2. \A id \in Members(g) : count[id] = SumFunctionOnSet(one, Parts(s, file, vs)[id])
    BY <1>3
  <2> HIDE DEF one, count, part
  <2> QED BY <1>2, <2>1, <2>2, SumOverParts
<1>5. SumFunctionOnSet(one, vs) = Cardinality(vs)
  <2>1. \A v \in vs : one[v] = 1
    OBVIOUS
  <2> HIDE DEF one
  <2> QED BY <1>1, <2>1, SumOfOnes
<1>6. Cardinality(vs) <= SumFunctionOnSet(w, vs) /\ SumFunctionOnSet(w, vs) \in 1 .. MaxUint
  <2>1. Balance(vs) = SumFunctionOnSet(w, vs) /\ Balance(vs) \in 1 .. MaxUint
    BY <1>1, BalanceIsSum DEF Accepted, Calculable
  <2> HIDE DEF w
  <2> QED BY <1>1, <2>1, SumIsAtLeastCardinality
<1>7. SumFunctionOnSet(count, Members(g)) \in 0 .. MaxUint
  <2>1. Cardinality(vs) \in Nat
    BY <1>1, FS_CardinalityType
  <2> HIDE DEF count, one, w
  <2> QED BY <1>4, <1>5, <1>6, <2>1, SplitAssumption
<1>8. SumFunction(count) = SumFunctionOnSet(count, Members(g))
  BY DEF SumFunction
<1>9. RequestedWeight(s, g) = Wrap(SumFunction(count))
  BY DEF RequestedWeight
<1> HIDE DEF count
<1>10. RequestedWeight(s, g) = SumFunction(count)
  BY <1>7, <1>8, <1>9, WrapOfSmall
<1> QED BY <1>10 DEF count

\* The split of a capture is the one that the ranges and the node
\* describe, in unbounded arithmetic: `CalculateRealizedSplit` counts every active
\* validator once, its sums and those of the configured counts have not wrapped, and
\* while float64 is exact its test for one half is a test for equal sides.
THEOREM RealSplit == CaptureSpec => []SplitIsReal
<1>1. ASSUME CaptureInv, stage = "captured"
      PROVE  LET balance(n) == split.groups[scenario.groups[n]].balance
             IN  /\ \A v \in validators :
                       Cardinality({r \in raw : v.index \in r.start .. r.end}) = 1
                 /\ \A p \in Participants(scenario) :
                       split.participants[p.id] =
                           [count |-> Cardinality(Claimed(p)), balance |-> Balance(Claimed(p))]
                 /\ balance(1) + balance(2) = split.total
                 /\ split.total = Balance(validators)
                 /\ Configured(scenario.groups[1]) = Configured(scenario.groups[2])
                 /\ split.total <= 2 ^ Mantissa => balance(1) = balance(2)
  <2> DEFINE ranges == ParseValidatorRanges(raw)
             balance(n) == split.groups[scenario.groups[n]].balance
  <2>1. /\ Accepted(scenario, raw, validators)
        /\ split = CalculateRealizedSplit(scenario, ParseValidatorRanges(raw), validators)
        /\ split.within
    BY <1>1 DEF CaptureInv, LoadedInv, RangesInv, MeasuredInv, Accepted, AfterMeasure,
                AfterCheck, AfterRanges, AfterClosure, AfterDiscovery, AfterLoad
  <2>2. scenario \in ScenarioFiles /\ Validate(scenario) /\ TopologyValid(scenario)
    BY <2>1 DEF Accepted, Validate
  <2>3. ASSUME NEW v \in validators
        PROVE  Cardinality({r \in raw : v.index \in r.start .. r.end}) = 1
    <3> DEFINE r == ranges[Position(ranges, v.index)]
    <3>1. /\ r \in raw /\ v.index \in r.start .. r.end
          /\ \A q \in raw : v.index \in q.start .. q.end => q = r
      BY <2>1, RangeOfValidator
    <3> HIDE DEF r
    <3>2. {q \in raw : v.index \in q.start .. q.end} = {r}
      BY <3>1
    <3> QED BY <3>2, FS_Singleton
  <2>4. ASSUME NEW p \in Participants(scenario)
        PROVE  split.participants[p.id] =
                   [count |-> Cardinality(Claimed(p)), balance |-> Balance(Claimed(p))]
    <3> DEFINE part == Parts(scenario, raw, validators)
    <3>1. p.id \in Ids(scenario) /\ ParticipantWithID(scenario, p.id) = p
      BY <2>2, ParticipantIsNamed DEF Ids
    <3>2. part[p.id] = Claimed(p)
      BY <2>1, <3>1, OwnedIsClaimed DEF Parts, Claimed
    <3>3. split.participants = Weights(scenario, raw, validators)
      BY <2>1, SplitFields
    <3> QED BY <3>1, <3>2, <3>3 DEF Weights
  <2>5. /\ split.total \in 1 .. MaxUint
        /\ balance(1) \in 0 .. split.total /\ balance(2) \in 0 .. split.total
        /\ balance(1) + balance(2) = split.total
    <3>1. 1 \in 1 .. 2 /\ 2 \in 1 .. 2
      OBVIOUS
    <3>2. /\ split.total \in 1 .. MaxUint
          /\ \A n \in 1 .. 2 : balance(n) \in 0 .. split.total
          /\ balance(1) + balance(2) = split.total
      BY <2>1, SidesAddUp
    <3> QED BY <3>1, <3>2
  <2>6. split.total = Balance(validators)
    BY <2>1, SplitFields
  <2>7. scenario.groups[1] \in FaultGroups(scenario) /\ scenario.groups[2] \in FaultGroups(scenario)
    BY <2>2, SidesArePartition
  <2>8. Configured(scenario.groups[1]) = Configured(scenario.groups[2])
    <3>1. RequestedWeight(scenario, scenario.groups[1]) = RequestedWeight(scenario, scenario.groups[2])
      BY <2>2 DEF Validate, FaultValid
    <3>2. \A g \in FaultGroups(scenario) : Configured(g) = RequestedWeight(scenario, g)
      BY <2>1, CountsAddUp DEF Configured
    <3> QED BY <2>7, <3>1, <3>2
  <2>9. ASSUME split.total <= 2 ^ Mantissa PROVE balance(1) = balance(2)
    <3>1. \A g \in FaultGroups(scenario) :
              ShareIsHalf(RealizedShare(split.groups[g].balance, split.total))
      BY <2>1, SplitFields
    <3>2. /\ Float(split.total) = 2 * Float(balance(1))
          /\ Float(split.total) = 2 * Float(balance(2))
      BY <2>7, <3>1 DEF ShareIsHalf, RealizedShare
    <3>3. 2 ^ Mantissa \in Nat
      BY PowerOfTwo, SplitAssumption
    <3>4. /\ Float(split.total) = split.total /\ Float(balance(1)) = balance(1)
          /\ Float(balance(2)) = balance(2)
      <4> HIDE DEF balance
      <4> QED BY <2>5, <2>9, <3>3, FloatIsExact
    <3> HIDE DEF balance
    <3> QED BY <2>5, <3>2, <3>4
  <2> QED BY <2>3, <2>4, <2>5, <2>6, <2>8, <2>9
<1>2. CaptureInv => SplitIsReal
  BY <1>1 DEF SplitIsReal
<1> QED BY <1>2, CaptureInvariance, PTL

\* A set of validators with a balance has one.
LEMMA BalanceIsPositive ==
    ASSUME NEW own, IsFiniteSet(own), Cardinality(own) > 0,
           \A v \in own : v.balance \in Nat /\ v.balance > 0
    PROVE  Balance(own) > 0
<1> DEFINE w == [v \in own |-> v.balance]
<1>1. \A v \in own : w[v] \in Nat /\ w[v] >= 1
  OBVIOUS
<1>2. Balance(own) = SumFunctionOnSet(w, own)
  BY BalanceIsSum
<1>3. Cardinality(own) \in Nat
  BY FS_CardinalityType
<1> HIDE DEF w
<1>4. Cardinality(own) <= SumFunctionOnSet(w, own) /\ SumFunctionOnSet(w, own) \in Nat
  BY <1>1, SumIsAtLeastCardinality, SumIsNat
<1> QED BY <1>2, <1>3, <1>4

\* What `capture` writes passes ValidateRealizedSplit,
\* ValidatePlacements and ValidateDependencyMetadata, with which the analysis begins.
THEOREM AnalysableCapture == CaptureSpec => []CaptureIsAnalysable
<1>1. ASSUME CaptureInv, directory = "evidence"
      PROVE  /\ ValidateRealizedSplit(scenario, split)
             /\ ValidatePlacements(scenario, PlacementsOf(scenario, cluster))
             /\ ValidateDependencyMetadata(RecordedImages(lock, RuntimeImages(cluster)))
  <2> DEFINE part == Parts(scenario, raw, validators)
             sum == SumFunction([id \in Ids(scenario) |-> split.participants[id].balance])
  <2>1. /\ Accepted(scenario, raw, validators)
        /\ split = CalculateRealizedSplit(scenario, ParseValidatorRanges(raw), validators)
        /\ ValidatePlacements(scenario, PlacementsOf(scenario, cluster))
        /\ ValidateDependencyMetadata(RecordedImages(lock, RuntimeImages(cluster)))
    BY <1>1 DEF CaptureInv, LoadedInv, RangesInv, CheckedInv, MeasuredInv, DirectoryInv,
                Accepted, AfterMeasure, AfterCheck, AfterRanges, AfterClosure,
                AfterDiscovery, AfterLoad
  <2>2. split.total \in 1 .. MaxUint /\ sum = split.total
    BY <2>1, SidesAddUp
  <2>3. /\ DOMAIN split.participants = Ids(scenario)
        /\ \A id \in Ids(scenario) : /\ split.participants[id].count = Cardinality(part[id])
                                     /\ split.participants[id].balance = Balance(part[id])
    BY <2>1, SplitFields, WeightsOf
  <2>4. /\ DOMAIN split.groups = FaultGroups(scenario)
        /\ \A g \in FaultGroups(scenario) :
              /\ split.groups[g].balance = GroupBalance(split.participants, g)
              /\ split.groups[g].share = RealizedShare(split.groups[g].balance, split.total)
        /\ split.within <=> \A g \in FaultGroups(scenario) :
              ShareIsHalf(RealizedShare(split.groups[g].balance, split.total))
    BY <2>1, SplitFields
  <2>5. ASSUME NEW id \in Ids(scenario)
        PROVE  /\ split.participants[id].count = ParticipantWithID(scenario, id).count
               /\ split.participants[id].balance > 0
    <3>1. ParticipantWithID(scenario, id) \in Participants(scenario)
      BY <2>1, ParticipantIsNamed DEF Accepted, Validate, Ids
    <3>2. Cardinality(part[id]) = ParticipantWithID(scenario, id).count
      BY <2>1, <3>1 DEF Accepted, Calculable, CountsMatch, Parts
    <3>3. ParticipantWithID(scenario, id).count > 0
      BY <2>1, <3>1 DEF Accepted, Validate, TopologyValid
    <3>4. part[id] \subseteq validators /\ IsFiniteSet(part[id])
      BY <2>1, PartsArePartition
    <3>5. \A v \in validators : v.balance \in Nat /\ v.balance > 0
      BY <2>1, CaptureAssumption DEF Accepted, ResponseValid
    <3>6. Balance(part[id]) > 0
      <4> HIDE DEF part
      <4> QED BY <3>2, <3>3, <3>4, <3>5, BalanceIsPositive
    <3> HIDE DEF part
    <3> QED BY <2>3, <3>2, <3>6
  <2>6. ValidateRealizedSplit(scenario, split)
    BY <2>2, <2>3, <2>4, <2>5 DEF ValidateRealizedSplit, Ids
  <2> QED BY <2>1, <2>6
<1>2. CaptureInv => CaptureIsAnalysable
  BY <1>1 DEF CaptureIsAnalysable
<1> QED BY <1>2, CaptureInvariance, PTL
=============================================================================
