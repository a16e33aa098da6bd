---------------------------- MODULE ExperimentRun ---------------------------
(***************************************************************************)
(* orchestrator.Run as a lifecycle: what it owns at every point (the       *)
(* partition, the Observer, the open time-series file, the artifacts) and  *)
(* what it gives back on each of its ways out.  Every call can fail, the   *)
(* context can be cancelled and the process killed at any step.  When the  *)
(* waits are satisfied is the subject of MeasurementWindow; here a wait    *)
(* returns or fails.                                                       *)
(***************************************************************************)
EXTENDS ChaosMesh

VARIABLES
    pc,            \* where Run is
    condition,     \* "control" or "fault"
    faultApplied,  \* the flag the deferred Revert looks at
    obsRunning,    \* observerRunning
    rawOpen,       \* rawOpen
    files,         \* artifacts written to the end, without an error
    outcome        \* what Run returns: "nil" or "error"

runVars == <<pc, condition, faultApplied, obsRunning, rawOpen, files, outcome>>

vars == <<backendVars, runVars>>

\* The artifacts that checksums.json covers.
Evidence == {"scenario.yaml", "realized-split.json", "raw-timeseries.jsonl",
             "manifest.json", "metadata.json"}

Init ==
    /\ BackendInit
    /\ pc = "preflight"
    /\ condition \in {"control", "fault"}
    /\ condition = "control" => resource # "injected"
    /\ faultApplied = FALSE
    /\ obsRunning = FALSE
    /\ rawOpen = FALSE
    /\ files = {}
    /\ outcome = "nil"

-----------------------------------------------------------------------------
(* Ways to go on *)

Fail == pc' = "defer_revert" /\ outcome' = "error"

Proceed(stage) == pc' = stage /\ UNCHANGED outcome

\* Calls that take the context of the run cannot succeed once it is done.
Attempt(stage) == (~ctxDone /\ Proceed(stage)) \/ Fail

\* waitFor looks at its predicate before it looks at its contexts: it may return nil
\* although the context of the run is done.
Await(stage) == Proceed(stage) \/ Fail

\* An artifact is created with O_EXCL, written and synced, or the run fails.
WriteArtifact(name, stage) ==
    \/ Proceed(stage) /\ files' = files \cup {name}
    \/ Fail /\ UNCHANGED files

-----------------------------------------------------------------------------
(* The run up to the measurement *)

\* validateConfig, the chain ID, the validators and the realized split.
Preflight ==
    /\ pc = "preflight"
    /\ Attempt("scenario")
    /\ UNCHANGED <<backendVars, condition, faultApplied, obsRunning, rawOpen, files>>

WriteScenario ==
    /\ pc = "scenario"
    /\ WriteArtifact("scenario.yaml", "split")
    /\ UNCHANGED <<backendVars, condition, faultApplied, obsRunning, rawOpen>>

WriteRealizedSplit ==
    /\ pc = "split"
    /\ WriteArtifact("realized-split.json", "raw")
    /\ UNCHANGED <<backendVars, condition, faultApplied, obsRunning, rawOpen>>

CreateRaw ==
    /\ pc = "raw"
    /\ \/ Proceed("observer") /\ rawOpen' = TRUE
       \/ Fail /\ UNCHANGED rawOpen
    /\ UNCHANGED <<backendVars, condition, faultApplied, obsRunning, files>>

StartObserver ==
    /\ pc = "observer"
    /\ \/ Proceed("specs") /\ obsRunning' = TRUE
       \/ Fail /\ UNCHANGED obsRunning
    /\ UNCHANGED <<backendVars, condition, faultApplied, rawOpen, files>>

WaitForSpecs ==
    /\ pc = "specs"
    /\ Await("boundary")
    /\ UNCHANGED <<backendVars, condition, faultApplied, obsRunning, rawOpen, files>>

\* waitForCommonSlot: the boundary itself in a control run; the slot before it
\* in a fault run, which then calls Apply.
WaitForBoundary ==
    /\ pc = "boundary"
    /\ IF condition = "fault"
       THEN \/ Proceed("apply") /\ Begin("apply", FALSE)
            \/ Fail /\ UNCHANGED backendVars
       ELSE Await("window") /\ UNCHANGED backendVars
    /\ UNCHANGED <<condition, faultApplied, obsRunning, rawOpen, files>>

\* Mutant of ApplyReturns: Run does not wait for Apply.
ApplyReturns_Early ==
    /\ pc = "apply"
    /\ Proceed("injected")
    /\ faultApplied' = TRUE
    /\ UNCHANGED <<backendVars, condition, obsRunning, rawOpen, files>>

\* Apply returns: its error ends the run; nobody calls Revert, as the deferred
\* Revert is registered only after a successful Apply.
ApplyReturns ==
    /\ pc = "apply"
    /\ step = "idle"
    /\ IF result = "ok"
       THEN Proceed("injected") /\ faultApplied' = TRUE
       ELSE Fail /\ UNCHANGED faultApplied
    /\ UNCHANGED <<backendVars, condition, obsRunning, rawOpen, files>>

\* The check that injection was in time, and the wait for the boundary.
WaitForInjectedBoundary ==
    /\ pc = "injected"
    /\ Await("window")
    /\ UNCHANGED <<backendVars, condition, faultApplied, obsRunning, rawOpen, files>>

-----------------------------------------------------------------------------
(* The measurement and the end of the fault *)

WaitForWindow ==
    /\ pc = "window"
    /\ IF condition = "fault"
       THEN \/ Proceed("revert") /\ Begin("revert", FALSE)
            \/ Fail /\ UNCHANGED backendVars
       ELSE Await("stop") /\ UNCHANGED backendVars
    /\ UNCHANGED <<condition, faultApplied, obsRunning, rawOpen, files>>

\* Mutant of RevertReturns: its error is not looked at.
RevertReturns_IgnoresError ==
    /\ pc = "revert"
    /\ step = "idle"
    /\ faultApplied' = FALSE
    /\ Proceed("recovery")
    /\ UNCHANGED <<backendVars, condition, obsRunning, rawOpen, files>>

RevertReturns ==
    /\ pc = "revert"
    /\ step = "idle"
    /\ IF result = "ok"
       THEN Proceed("recovery") /\ faultApplied' = FALSE
       ELSE Fail /\ UNCHANGED faultApplied
    /\ UNCHANGED <<backendVars, condition, obsRunning, rawOpen, files>>

\* The recovery window is observed, or its own deadline passes, which only marks
\* the recovery measurement as incomplete, or the run fails.
WaitForRecovery ==
    /\ pc = "recovery"
    /\ Await("stop")
    /\ UNCHANGED <<backendVars, condition, faultApplied, obsRunning, rawOpen, files>>

-----------------------------------------------------------------------------
(* The evidence *)

\* stopObserver joins the Observer whether or not it returned an error.
StopObserver ==
    /\ pc = "stop"
    /\ obsRunning' = FALSE
    /\ Proceed("close") \/ Fail
    /\ UNCHANGED <<backendVars, condition, faultApplied, rawOpen, files>>

CloseRaw ==
    /\ pc = "close"
    /\ rawOpen' = FALSE
    /\ WriteArtifact("raw-timeseries.jsonl", "manifest")
    /\ UNCHANGED <<backendVars, condition, faultApplied, obsRunning>>

WriteManifest ==
    /\ pc = "manifest"
    /\ WriteArtifact("manifest.json", "metadata")
    /\ UNCHANGED <<backendVars, condition, faultApplied, obsRunning, rawOpen>>

\* Mutant of WriteMetadata: a failed write is not looked at.
WriteMetadata_IgnoresError ==
    /\ pc = "metadata"
    /\ Proceed("checksums")
    /\ files' \in {files, files \cup {"metadata.json"}}
    /\ UNCHANGED <<backendVars, condition, faultApplied, obsRunning, rawOpen>>

WriteMetadata ==
    /\ pc = "metadata"
    /\ WriteArtifact("metadata.json", "checksums")
    /\ UNCHANGED <<backendVars, condition, faultApplied, obsRunning, rawOpen>>

\* artifactChecksums reads the five files back; checksums.json is the last file.
WriteChecksums ==
    /\ pc = "checksums"
    /\ WriteArtifact("checksums.json", "defer_revert")
    /\ UNCHANGED <<backendVars, condition, faultApplied, obsRunning, rawOpen>>

-----------------------------------------------------------------------------
(* The deferred functions, last registered first.  They run on every return   *)
(* and join their errors to the one that is returned.                         *)

\* Mutant of DeferredRevert: the cleanup uses the context of the run.
DeferredRevert_RunContext ==
    /\ pc = "defer_revert"
    /\ IF faultApplied
       THEN /\ pc' = "reverting"
            /\ Begin("revert", FALSE)
       ELSE pc' = "defer_stop" /\ UNCHANGED backendVars
    /\ UNCHANGED <<condition, faultApplied, obsRunning, rawOpen, files, outcome>>

\* The deferred Revert has a context of its own.
DeferredRevert ==
    /\ pc = "defer_revert"
    /\ IF faultApplied
       THEN /\ pc' = "reverting"
            /\ Begin("revert", TRUE)
       ELSE pc' = "defer_stop" /\ UNCHANGED backendVars
    /\ UNCHANGED <<condition, faultApplied, obsRunning, rawOpen, files, outcome>>

DeferredRevertReturns ==
    /\ pc = "reverting"
    /\ step = "idle"
    /\ pc' = "defer_stop"
    /\ outcome' = IF result = "ok" THEN outcome ELSE "error"
    /\ UNCHANGED <<backendVars, condition, faultApplied, obsRunning, rawOpen, files>>

DeferredStop ==
    /\ pc = "defer_stop"
    /\ obsRunning' = FALSE
    /\ pc' = "defer_close"
    /\ outcome' \in {outcome, IF obsRunning THEN "error" ELSE outcome}
    /\ UNCHANGED <<backendVars, condition, faultApplied, rawOpen, files>>

DeferredClose ==
    /\ pc = "defer_close"
    /\ rawOpen' = FALSE
    /\ pc' = "returned"
    /\ outcome' \in {outcome, IF rawOpen THEN "error" ELSE outcome}
    /\ UNCHANGED <<backendVars, condition, faultApplied, obsRunning, files>>

-----------------------------------------------------------------------------
(* The environment *)

\* SIGINT or SIGTERM, or the caller's deadline.
CancelRun ==
    /\ ~ctxDone
    /\ pc \notin {"returned", "killed"}
    /\ ctxDone' = TRUE
    /\ UNCHANGED <<resource, namespace, step, op, undo, result, fresh, runVars>>

\* The process is killed: no deferred function runs.  A kubectl command it has
\* started may or may not have acted, which the failing commands cover.
Kill ==
    /\ pc \notin {"returned", "killed"}
    /\ pc' = "killed"
    /\ step' = "idle"
    /\ UNCHANGED <<resource, namespace, op, undo, result, fresh, ctxDone, condition,
                   faultApplied, obsRunning, rawOpen, files, outcome>>

BackendRuns ==
    /\ BackendStep
    /\ UNCHANGED runVars

ControllerRuns == Controller /\ UNCHANGED runVars

Over ==
    /\ pc \in {"returned", "killed"}
    /\ UNCHANGED vars

RunStep ==
    \/ Preflight \/ WriteScenario \/ WriteRealizedSplit \/ CreateRaw
    \/ StartObserver \/ WaitForSpecs \/ WaitForBoundary \/ ApplyReturns
    \/ WaitForInjectedBoundary \/ WaitForWindow \/ RevertReturns
    \/ WaitForRecovery \/ StopObserver \/ CloseRaw \/ WriteManifest
    \/ WriteMetadata \/ WriteChecksums \/ DeferredRevert
    \/ DeferredRevertReturns \/ DeferredStop \/ DeferredClose
    \/ BackendRuns

Next == RunStep \/ ControllerRuns \/ CancelRun \/ Kill \/ Over

Spec == Init /\ [][Next]_vars

\* Every wait and every kubectl command has a deadline, so the run goes on; the
\* controller acts on its objects.  Nothing forces a kill or a cancellation.
FairSpec ==
    /\ Spec
    /\ WF_vars(RunStep)
    /\ WF_vars(ControllerRuns)

-----------------------------------------------------------------------------
(* Properties *)

\* Every variable has its type.
TypeOK ==
    /\ BackendTypeOK
    /\ condition \in {"control", "fault"}
    /\ faultApplied \in BOOLEAN
    /\ obsRunning \in BOOLEAN
    /\ rawOpen \in BOOLEAN
    /\ files \subseteq Evidence \cup {"checksums.json"}
    /\ outcome \in {"nil", "error"}
    /\ step # "idle" => pc \in {"apply", "revert", "reverting"}

\* A run that returns nil has left nothing behind: no object of its own in the
\* cluster (so the network is whole), no running Observer, no open file, and all
\* six artifacts.
NilMeansClean ==
    pc = "returned" /\ outcome = "nil" =>
        /\ ~Owned
        /\ ~obsRunning /\ ~rawOpen
        /\ files = Evidence \cup {"checksums.json"}

\* A partition that Apply has reported as injected is reverted on every way out,
\* and not with a context that may be done: when Run returns and the partition
\* has not been removed in the normal course, its last call to the backend was a
\* Revert with a context of its own.
RevertOnEveryExit ==
    pc = "returned" /\ faultApplied => op = "revert" /\ fresh

\* checksums.json is written only over complete evidence: with it in place each
\* of the five artifacts is there, the Observer has stopped, the time series is
\* closed, and the partition is gone.
ChecksumsSealEvidence ==
    "checksums.json" \in files =>
        /\ Evidence \subseteq files
        /\ ~obsRunning /\ ~rawOpen
        /\ condition = "fault" => ~Owned

\* Neither Apply nor Revert ever touches an object or a namespace that does not
\* have the labels of this run.
ForeignIsUntouched ==
    [][/\ resource = "foreign" => resource' = "foreign"
       /\ namespace = "foreign" /\ resource' # resource => ControllerRuns]_vars

\* The deadman: the network is healed in the end, whether the run returns, is
\* cancelled or is killed at any step, and whichever kubectl command failed.
FaultIsRemoved == Cut ~> ~Cut

\* The contract of a run with the network it disturbs.
Contract == INSTANCE FaultContract WITH
                cut <- Cut,
                sealed <- "checksums.json" \in files

\* A run implements it: the network is cut only before the evidence is sealed,
\* is whole when it is sealed and from then on, and is always healed.
ImplementsContract == Contract!FairSpec
=============================================================================
