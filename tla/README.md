# ethquake: a verification project

ethquake runs partition experiments against a private Ethereum devnet: it observes
Beacon and execution nodes, cuts the network with Chaos Mesh for a whole number of
epochs that start at an epoch boundary, observes recovery, seals the evidence, and
judges a series of control and fault runs by three gates. `scripts/experiment/phase3.sh`
does all of that in a billed cloud session which it must tear down again.

The modules here model the parts of it that keep state and that meet concurrency,
failure or time. TLC checks them on small instances; TLAPS proves
the safety properties of most of them for every value of their constants. `PROJECT.json` maps
each definition to the lines it stands for.

## Inventory

| Component | State | Operations | Talks to | Module |
|---|---|---|---|---|
| `orchestrator.Run` | stage, `faultApplied`, `observerRunning`, `rawOpen`, artifacts | preflight, artifacts, waits, Apply, Revert, deferred cleanup | all below | ExperimentRun, MeasurementWindow |
| `fault.ChaosMesh` | the NetworkChaos object, the namespace labels | Apply, Revert (kubectl commands) | API server, Chaos Mesh controller | ChaosMesh |
| `observer.Observer`, `beacon.Client` | metadata of the targets, one goroutine per Beacon target | initialize, poll, record, compare | recorders, metrics, orchestrator | BeaconObserver, ObserverPipeline, HeadTelemetry |
| `ethquake observe` | an errgroup of server and observers, the output file | start, serve, shut down, wait, close | signals, Prometheus | ObserveCommand |
| `ethquake experiment capture` | what has been read so far, the run directory | load, discover, close, parse, create, check, measure | kubectl, a Beacon node, `orchestrator.Run` | CaptureCommand |
| `scenario`, `topology`, `dependency` | stateless | validation, discovery, realized split | capture, analysis | RealizedSplit, CaptureCommand |
| `DatasetRecorder`, `MultiRecorder`, `JSONLRecorder` | dataset, one-element `changed` channel, open file | Record*, Snapshot, notify | Observer, `waitFor` | ObserverPipeline |
| `HeadComparator`, `Metrics` | bounded history of roots, optional gauges | Observe, RecordHeadComparison, RecordPollFailure | target loops, Prometheus | HeadTelemetry |
| `ReorgTracker` | bounded canonical history | Observe | ExecutionObserver | ReorgTracker |
| `ExecutionObserver` | tracker, delay, recorded events | subscribe, receive, back off | execution client, recorder | ExecutionObserver |
| `experiment.Analyze` | the loops over pairs, fault runs, sides | gates A, B, C | evidence | GateAnalysis |
| `phase3.sh` | `*_created` flags, current enclave, traps, watchdog | create, run, cleanup | gcloud, kurtosis, kubectl | CloudSession |
| `artifact.Directory`, `experiment/io.go` | run directories | create, write, hash, read again, cross-check | orchestrator, analysis | EvidenceStore |
| `access.sh` | PID files of gateway and forwards | start, status, stop | kurtosis, kubectl | not modelled |
| `assertion`, `report` | stateless | checks over a dataset, formatting | | not modelled |

What is hard here:

* **Concurrency.** A goroutine per target writes to a file, to a dataset and to
  gauges under separate locks; the orchestrator is woken through a channel that drops
  what does not fit; the controller of Chaos Mesh and the cloud act on their own time.
* **Failure.** Every kubectl or gcloud command can fail before or after it has acted;
  the context can be cancelled and the process killed between any two steps; a
  recorder can fail in the middle of a callback.
* **Time.** The window is tied to an epoch boundary that is recognised from polled
  observations; the partition carries a deadman TTL counted from its creation; the
  recovery window is counted from the removal. Polls are late or fail.
* **Bounds.** Histories are trimmed, delays double up to a maximum; block numbers,
  epochs, counts and balances are 64 bits wide, and shares are floats.
* **Agreement of checks.** A cluster, a scenario and a validator set are judged by several
  functions, one after the other and some of them again in the analysis; what one lets
  pass on behalf of another has to be caught there.

What makes each component correct is listed with its module below. `PROJECT.json`
lists under `hazards` the places where it could go wrong, with the properties that
would show it.

## Modules

### ObserverPipeline

The way of a record from a target's goroutine through `MultiRecorder` (first the JSONL
file, then the dataset) to a predicate of `waitFor`, and the teardown of that way.
`poller[t]` is the program counter of the goroutine of `t`: between `WriteRaw`, `Store`
and `Notify` other goroutines run, as the dataset's mutex is released before the
notification. A record is a count. A predicate is the set of snapshots that satisfy
it, and is chosen anew for every wait, so that conditions that hold only for a while
(`waitForCommonSlot`) are covered. `token` is the one-element channel.

* `NoLostWakeup`: a waiter asleep on an old snapshot has a token or a pending `notify`.
* `RawCoversData`: the file is ahead of the dataset by the record in flight and by
  nothing else; no decision rests on an observation that is not in the evidence.
* `NoWriteAfterClose`: the file is closed after the last writer has gone, and holds
  exactly what the summary is made of.
* `WaitsReturn` (liveness): a wait whose condition stays satisfied returns, and so does one
  whose context, or whose Observer, has ended.

### BeaconObserver, ObserveCommand

BeaconObserver is `Observer.Run`: the fetch of spec and genesis from all targets at once
(one try each), the comparison with the first target, and the loops. A poll is a request
for the head and one for the finality of that head's state, between which the node goes
on; `CurrentSlotAt` and `FinalityLag` keep the width of `uint64`, with `MaxUint` in place
of 2^64 - 1. `runErr` is the errgroup's first error. ObserveCommand composes it with the
rest of `ethquake observe`: metrics server and its shutdown goroutine, execution observer
(seen from its end and its writes), interrupt, output file. `broken` records that
something has failed, and exists only for the properties.

* `ObservationIsOneState`: epoch and head of an observation belong to one Beacon state,
  and the lag is the exact distance from its finalized epoch to the current slot of the
  clock. ADR-0003 and the repository's README define the lag so; a help text does not (see
  Findings).
* `ObservedNetworkIsOne`: nothing is observed before the metadata of all targets was
  compared with the first one's and recorded.
* `ResultIsFaithful`: status 0 only after an interrupt, another only after a failure; the
  cancellation that follows the first error never hides it.
* `StopsAsOne` (liveness): an interrupt or the first failure ends every member, also when
  Shutdown comes before Serve or Serve fails before Shutdown.

### RealizedSplit, CaptureCommand

RealizedSplit has the pure part as operators: the rules of a scenario's topology and
groups, `ParseValidatorRanges` with its sort and overlap check, the ownership search and
the sums of `CalculateRealizedSplit`, and `ValidateRealizedSplit` of the analysis.
Unguarded sums wrap (`Wrap`), and a share is the quotient of two rounded values
(`Float`, with `Mantissa` bits in place of 53). CaptureCommand is the command that uses
them: scenario and lock, `Discover`, the closure of the images under the lock, ranges and
endpoints, `artifact.Create`, `validateConfig` and the chain ID, the validators, the first
writes. What is read is chosen at the step that reads it; any call may fail; a refused
command may be run again and finds its directory.

The configured share is 0.5 exactly (the code allows 1e-12), a range file is the set of its
entries (one range spelt by two keys for the same owner is left out; for two owners it is
refused, as in the code), the order of validators does not matter, and fields that must
equal one committed constant (fault type, durations, gate rules, run order) are left out.
A resource policy is one value per role; names are not empty. `CaptureAssumption` has the
Go types of what the decoders return: sequences, finite maps, unsigned integers.

* `RuntimeIsControlled`: of what was captured, two Pods share a node exactly when they
  serve one participant, machine types and resources are equal, and every image is in
  the lock. `Discover` sees one participant at a time and `ValidatePlacements` one Pod of
  each; the property is about all Pods.
* `SplitIsReal`: the stored split is that of the file and the node in unbounded arithmetic:
  each validator in one range, no sum wrapped, the configured counts really equal, and,
  as long as `float64` is exact, equal sides.
* `CaptureIsAnalysable`: the analysis' checks of split, placements and images accept it.
* `ExpanderIsExempt` is what a comment says; see the findings.

### ReorgTracker

`ReorgTracker.Observe` with each of its cases. The model's `Succ` wraps the way
`uint64` does, at `MaxNumber` in place of 2^64 - 1. Any head may follow any other.

* `CanonicalIsChain`: whatever is observed, the history is one chain without holes.
* `KnownDepthIsExact`: a depth that is reported as known is the number of blocks given
  up, and what lies below is kept.

### ExecutionObserver (extends ReorgTracker)

The loop of one execution target: subscribe with a new tracker, call back per head,
record a gap at the end of a subscription, back off, and return on cancellation. A
recorder may fail after any prefix of the events of a head. The other targets share
only the recorder and the cancellation.

* `NoSilentDiscontinuity`: two consecutive recorded heads that are not parent and
  child have a gap, a reorg or a cleared continuity flag between or beside them. When the
  recorder fails in the callback, the gap of the subscription still follows. The stated
  exception (`LoopIsOver`) is the last head of a loop that ends there, because its context
  ended or the gap was refused too: it may be a reorg that nobody recorded.
* `ReorgWithinSubscription`: a reorg is reported against a head of its subscription.
* `CancelledLoopReturns` (liveness); `LoopTypeOK` bounds the reconnect delay by its two
  options and the history by its limit.

### ChaosMesh, ExperimentRun, FaultContract

ChaosMesh has `Apply` and `Revert` as sequences of kubectl commands. A command can
fail before the API server has seen it or after it has acted. The controller injects,
lets the TTL expire and finishes deletions. ExperimentRun extends it with `Run`: one
action per stage, `Fail` for every error return, the deferred functions in reverse
order, cancellation and `Kill` at any step. FaultContract is what a run promises about
the network and the evidence: it seals once, with the network whole, and never cuts
it again; what is cut is healed. ExperimentRun implements it with
`cut <- Cut, sealed <- "checksums.json" \in files`.

* `NilMeansClean`, `RevertOnEveryExit`, `ChecksumsSealEvidence`.
* `ForeignIsUntouched`: an object or namespace without this run's labels is never changed.
* `FaultIsRemoved`, `ImplementsContract` (liveness and refinement).

### MeasurementWindow

When `Run` acts. A clock in ticks, polls that fetch and record at different times, node
finality, and the waits of `Run` with their deadlines and predicates; `slack` bounds how
often something is late or fails. `RecoverySlots`, `RecoveryMeasurementComplete`,
`PrimaryMeasurementComplete` and `DivergenceExceeded` are `summarizeRun`. While the
partition is in force each of the two targets, which stand for the two sides, reports a
head of its own (`HeadOf`); that the heads differ from the very moment of the injection,
and not from the next block on, is an idealised environment.

* `EndpointsAreObserved`: a summary compares epochs that were seen, not the zero value
  that `observationsAtSlotMap` gives for a missing target.
* `PartitionSpansWindow`: between the first slot and the end of the window the partition
  was in force; the TTL does not end it early. It speaks of the slots after the first:
  an Apply that completes inside the first slot, before a poll of that slot has been
  recorded, is accepted.
* `RecoveryIsFromFault`: nothing that was observed before the partition was healed counts
  as recovery, although finality may move on in the slot of the removal while Revert is
  still at work, and every later finality observed since the removal was noted counts,
  although time and slot of the removal come from different places. It sets no upper
  bound: see the notes under Findings.
* `DivergenceShowsPartition`: a complete fault run reports head divergence, although
  `summarizeRun` reads the final dataset, in which the first slot may have been observed
  before the injection and the last one again after the removal.

### EvidenceStore

The run directories: a run makes one exclusively, writes six artifacts, each visible
before it is whole, and may be killed at any write; `LoadRunSummaries` hashes the five
artifacts one by one and then reads them again for its cross-checks. Meanwhile files
are damaged, files or directories are overwritten by those of another run, directories
are removed and runs repeated. A file is the attempt that wrote it and whether it is
whole; SHA-256 is injective.

* `AnalysedIsSealed`: the summary that is analysed is whole and of the run it is analysed
  for, even if files change between the hashing and the second reading; if the directory
  was not touched since the loader began with it, that run has sealed it.
* `AnalysedIsIntact`: a directory that was accepted, and not touched since the loader
  began with it, holds the artifacts of one attempt with the scenario of the analysis.

### HeadTelemetry

The target loops of `observe` around the shared comparator and the optional gauges,
with a step for each locked call.

* `HistoryKeepsNewest`: within its limit, the history gives up old slots before newer ones.
* `CompleteIsCompared`: a slot that every target has reported was compared with the
  roots they report now.
* `OutageShowsNoComparison`: whenever no target is exported as up, no comparison is
  exported. The gauges are written one after the other with nothing that covers them, and
  a comparison may still be on its way when the failure of another target clears it; what
  makes it hold is that each loop clears both gauges before it sets its target down
  (`ClearAgreement`, `ClearComparisonSlot`, `SetDown`).

### CloudSession

`phase3.sh`: creation in order with the flags set before the commands, experiments in
enclaves, the EXIT trap with its teardown steps and final inventory, the watchdog, and
signals, which wait for the foreground command. A command can fail, be abandoned by a
signal with its effect still to come, or hang.

* `CreatedIsTornDown`: when the cleanup comes to its end, the teardown of everything the
  session has asked for was tried, however far the creation had got.
* `CleanExitMeansEmpty`: status 0 means that nothing billable is there or on its way.
* `ForeignSurvives`: a resource of the same name that belongs to somebody else is kept.
  Only what a flag stands for (cluster, router, network) may be foreign; subnets and disks
  have ownership checks of their own, which are not in the model.

That the cloud refuses to delete a network that is in use stands for the refusal of gcloud.
`attempted` is the call of a delete function, which may stop at the first of its two
resources.

### GateAnalysis

`Analyze` and `evaluateGateC`: their loops are steps, loops over Go maps (and the sides,
which the code visits in scenario order) go in any order, and the fields of a summary
are chosen when they are first read. `ValidityIsExact`, `PredictionIsExact` and
`DifferentiationIsExact` compare the outcomes with definitions of the gates by
quantifiers, without the early returns and carried variables of the code.

## Runs

| Run | Instance and why it is enough |
|---|---|
| `observer_pipeline` | 2 targets, 2 records each, 2 waits, predicates that stay true, that pass, that never hold. Two goroutines and a full channel are what a dropped notification needs; a second wait begins with a stale token. |
| `execution_loop` | 8 heads of a block tree: a fork, skips, a number that wraps, a parent that fell out of the history; 6 events, history of 3, delays 2 and 7 (doubling meets the maximum between two powers). |
| `run_lifecycle` | No bound: the lifecycle is finite. Both conditions, foreign objects, a partition left by an earlier attempt. |
| `measurement_window` | 2 targets, 1 tick per slot, 2 slots per epoch, windows of one epoch, one slot of tolerated divergence, calls of up to 2 ticks (so that the TTL can expire), one late or failed event. Targets are symmetric. A last slot that is observed again after the removal needs two ticks in a slot: with that, calls of one tick and no tolerated slot (8 million states, too long for a regular run) the four invariants hold as well. |
| `window_censoring` | The same instance; see the findings. |
| `evidence_store` | 2 runs, 2 attempts in all, 2 scenarios, 2 splits, files touched once: a run that is repeated, and two whose files are mixed up. With 3 attempts and files touched twice (one plan, one split, one run in the order; 10 million states) the invariants hold as well, and the proofs cover any number. |
| `head_comparator` | 2 targets, 2 roots, 3 slots, history of 2, 6 polls: the history overflows, old heads return, and a failure meets a comparison that is being published. |
| `cloud_teardown` | 2 runs in a session: a disk of the first is there while the second runs. |
| `gate_analysis` | 2 repetitions, 2 sides with both families, progress {1, 2} against {0, 1}, recovery slots {0, 1} or censored, threshold 1: equality, skew, and directions that differ over sides and over repetitions. Sides are symmetric. |
| `observe_command` | 2 targets with equal or conflicting forks, 2 heads, 64-bit values 0..3: an epoch that overflows, a time before genesis and a slot before the finalized one happen. With and without an execution observer. |
| `capture_topology` | The four participants of the committed scenario; 12 scenarios, 6 sets of flags, 2 locks, 22 clusters, about 100 range files and 150 validator sets, good or wrong in one respect; values 0..10 and 3 bits of mantissa, so that counts wrap and balances round. |
| `capture_expander` | The same instance; see the findings. |

Every property of a passing run has a mutant in `PROJECT.json`: a plausible slip in one
mapped definition under which TLC finds that property violated.

Deadlock is checked in every run; a system that is over has an explicit stuttering
action (`Finished`, `Over`).

### Fairness

* ObserverPipeline: the goroutines and the waiter are scheduled; a poll ends, as the HTTP
  client has a timeout. Nothing forces a tick, a deadline, a failure or a cancellation.
* ExecutionObserver: the loop takes its steps; a subscription ends if its context is
  done (the reader closes the connection). Nothing forces a live one to end.
* ObserveCommand: goroutines run, requests end by the client's timeout, Shutdown by its
  five seconds, and a subscription ends when its context is done. A loop that finds both
  its ticker and its ended context ready may take the ticker; strong fairness says that
  it does not do so for ever, as Go's select chooses at random.
* ExperimentRun: each wait has a deadline and each kubectl command a timeout, so the run
  goes on; the controller acts on its objects. Nothing forces a kill or a cancellation.

## Findings

* `window_censoring`: `waitForRecoveryOrCensor` accepts a later finalized epoch in an
  observation made before the removal was noted, which `summarizeRun` does not count.
  The target is then reported as censored in a complete measurement although it was
  not observed to the censor slot.
* `capture_expander`: `buildDiscovery` exempts the init container that Kurtosis adds from the
  digest requirement, as its comment says, but hands its image on; the closure check
  refuses every image outside the lock, and the lock can hold none without a digest.

Noted while modelling, without a run: a failed poll clears the comparison gauges, but the
comparator keeps the root of the target, so the next poll of another one can set them
again while it is still down; the help text of `finality_lag_slots`
(`internal/telemetry/metrics.go:55`) says "Head slot minus the first slot of the finalized
epoch", while the code, ADR-0003 ("Finality lag uses that current slot") and the README use
the slot of the clock, which is ahead of the head whenever slots are empty or the node lags;
 `cleanup` of `phase3.sh` resets its traps first, so a second
signal ends the teardown; fork schedules are compared with the first target's only, and
two later targets may differ in a fork that it does not name; a capture that is refused
after `artifact.Create` leaves a directory that blocks its run ID; a write that fails as
the context ends does not show in the exit status of `observe`; `loadRunEvidence` reads
the files that `verifyRunChecksums` has hashed a second time, so a manifest of a killed
attempt that is put back in between (two exchanges of files are needed) is analysed
although no run has sealed it; `summarizeRun` has no upper bound on recovery, so
while a slow target keeps the wait open a recovery of another one beyond the window is
reported as one, where the publication (`docs/publication/phase3-writeup.md:80`) treats it
as right-censored; an Apply that
completes in the boundary slot is accepted when no poll of that slot has been recorded
yet; the agreement gauge and the slot gauge are set
one after the other by loops that interleave, so that values of two comparisons may stand
side by side until the next one, where the help text speaks of "the latest compared slot"; the watchdog's TERM waits for the foreground command of the shell, so a
command that hangs outlives it; `evaluateGateC` answers "no" to a skewed control run,
where ADR-0004 calls unresolved confounding inconclusive.

## Proofs

Each proof module extends the modules it is about. Safety is proved for all constants
under the assumption named there: every invariant and every action property of a passing
run, and the safety part of the refinement.

**ObserverPipelineProofs** (from `PipelineAssumption`). `IInv` is `TypeOK`,
`NoLostWakeup`, `RawCoversData` and `JoinBeforeClose`. The last is needed because
`NoWriteAfterClose` is not inductive: closing preserves it only if every goroutine has
exited since the join, so the invariant speaks of the stages from the join on.
`WakeupsAreNotLost`, `DecisionsAreInEvidence`, and `ClosedEvidenceIsFinal`
for `NoWriteAfterClose`, whose second half (the file is what the summary is made of)
follows from `RawCoversData` when no goroutine is between its two writes.

**ExecutionObserverProofs** (from `ReorgAssumption` and `ExecutionAssumption`, any set of
hashes, any limit, any delays). About the tracker: `TrackerTypeCorrect`, `HistoryIsChain`,
and the action property `DepthIsExact`. Lemmas say that dropping from the front, cutting
at the parent and appending a child keep a chain a chain, and that numbers in a chain are
the first number plus the index; with that the subtraction in `Observe` is the distance
in the history. About the loop around it: `LoopTypeCorrect`, `LoopKeepsChain`,
`ReorgsStayInSubscription`, `DiscontinuitiesAreRecorded`. The last two speak of the log;
what the loop carries from one head to the next is `AnchorInv` (the tracker's tip is a
head that this subscription has recorded) and `LinkInv` (the last head recorded is the
tracker's tip, or a gap has been recorded since). `DiscontinuitiesAreRecorded` has the
hypothesis `HashesIdentifyHeads`: the tracker compares hashes only, and TLC shows that
two heads with one hash and different numbers make a discontinuity that is not recorded.
That the exception of the property is only about loops that are over rests on `ReturnInv`: without
an error a loop returns only when its context is done.

**ExperimentProofs**, about ExperimentRun and CaptureCommand. Of the run: `IInv` adds to `TypeOK` what each stage has: which calls may be
running (`CallsInv`), which artifacts exist (`FilesInv`), that after Revert has
returned there is no object of the run (`RemovedInv`), what holds once
`checksums.json` exists (`SealedInv`), and how Run gets out (`ExitInv`: nil only over
sealed evidence, past an injected partition only through a Revert with a context of its
own). `TypeCorrect`, `SealedEvidenceIsComplete`, `NilIsClean`, `NoExitSkipsRevert`,
`ForeignObjectsSurvive`, and `RunImplementsContract`: a run implements the safety part
of FaultContract.

Of the capture before it (from `SplitAssumption` and `CaptureAssumption`; any scenarios,
locks, clusters, range files and validators, any width of the integers and any mantissa):
`ControlledRuntime`, `RealSplit`, `AnalysableCapture`. `CaptureInv` has one part for each
stage, what that stage has accepted, and says that evidence is only in the directory of a
command that has captured; the properties follow from what has been accepted.

* Runtime: the Pod of a service is the only one (`PodIsPlaced`), so that the placement made
  from the Beacon Pod speaks for all Pods of its participant.
* Ranges: the number of entries in front of one numbers the entries, hence the sort loses
  none (`SortedIsOrdered`); neighbours that do not overlap suffice, because the next range
  begins no later than all that follow it (`RangesAreApart`); so the binary search finds
  the one range that holds a validator (`OwnerIsUnique`).
* Sums: the participants part the validators between them (`PartsArePartition`), a sum of
  sums over the parts is the sum over the whole (`SumOfSums`), hence no partial sum
  exceeds the total, which was checked, and `Wrap` does nothing. The configured counts are
  not checked by the code when they are added; they do not wrap because a count is a number
  of validators, each with a balance of one at least (`CountsAddUp`).
* Floats: up to two to the mantissa the rounding is the identity (`FloatIsExact`). The
  provers know no powers; the lemmas about them count the subsets of `1 .. k`.

**MeasurementWindowProofs** (from `WindowAssumption`: any number of targets, ticks, slots
and epochs, any delays). `EndpointsAreReal`, `WindowIsPartitioned`, `RecoveriesAreReal`,
`PartitionIsReported`. The orchestrator sees observations late, so what it concludes
from one has to be carried back to when it was made. `OrderInv` says that a target's
observations are recorded in the order they are made; `BoundaryInv` uses it: an
observation behind the first slot that escaped the partition can only be recorded for a
target that has missed the first slot, and then `waitForExactSlot` fails. `ApplyInv` and
`HealInv` bound the life of the object: created at the earliest in the slot before the
window, healed by its deadman or, after the last observation of the window, by Revert;
`WindowIsWithinDeadman` is the arithmetic that the two spare epochs of the TTL suffice.
`RecoveryInv` relates the removal to the clock: the partition is healed by then, and the
removal slot, though taken from the dataset, is not later than the slot of the removal
time (`RemovalSlotIsPast`); hence the two conditions of `summarizeRun` agree on what is
since the removal. `PartitionIsReported` has the hypothesis
`WindowOutlastsTolerance` (two targets, and at least two slots more than the tolerance):
the first and the last slot of a window may hold observations outside the partition, so
only the slots between them count. `scenario.go` fixes three epochs and a
tolerance of one slot, which satisfies it for any epoch length.

**HeadTelemetryProofs** (from `HeadAssumption`). `IInv` is `Shape`, `NewestInv` (the newest
slot is in the history and bounds it), `HistoryInv`, `CompleteIsCompared` and `OutageInv`
(a gauge that is present has a loop to answer for it: one whose target is up and that has
not cleared the gauge since). `HistoryIsBounded`, `NoDisagreementIsOverlooked`,
`OutageIsNotBridged`. The comparator stores a slot and trims only on one of its paths; the
bound holds on the other because a new slot is never complete after one report
(`ReportedState`: there are at least two targets).

**AnalysisProofs**, about EvidenceStore and GateAnalysis. Of the loader (from
`EvidenceAssumption`, any number of attempts and of exchanged or damaged files): `StoreInv`: a directory that is being written holds what its
attempt has written and no complete checksums, and complete checksums anywhere are
those of an attempt that has returned from its last write.
`LoaderInv`: at each stage of the loader, what it has hashed or read of a
directory that was not touched is what the checksum file names. `OnlySealedRunsAreAnalysed`,
`DamageIsRefused`. The proof showed that an earlier form of `AnalysedIsSealed`, which
claimed the sealing of touched directories too, is false beyond the bounds of the run;
see the notes above.

Of the gates (from `AnalysisAssumption`: any number of repetitions and of sides, any
progress, recovery slots and threshold): `GateAIsExact`, `GateBIsExact`, `GateCIsExact`.
`GateInv` says what the loops know half-way. `PairsInv`: `gateAValid` is the verdict on the
repetitions compared so far. `VisitedInv`: `gateBMatched` and the complete recoveries are
about exactly the fault runs visited, in whatever order. `DirectionInv`: on every side
compared so far one family was later by the threshold, the one that `direction` names. The
exactness at the end is a part of the invariant because a verdict outlives the loops it came
from. Gate A compares the maximum of one run with the minimum of another; that these exist
needs finitely many targets.

Both modules above need induction over finite sets, which the library offers only with an
operator as a parameter. `SmallestMember` is the same in first-order form: every collection of
subsets of a finite set that is not empty has a smallest member. Applied to the sets for
which a claim fails, it gives the minimum of a set, and the equation, the commutation and the
partition of the sums (`SumFunction` of the community modules, which is a recursive function).

**CloudSessionProofs** (from `SessionAssumption`, any number of runs). `IInv` is `Shape`,
`FlagsInv` (what is there or on its way has its flag, or that of the resource it is
created after and deleted with), `AttemptInv` (what has a flag has been tried once the
cleanup is past its deletion) and `SuccessInv` (status 0 means that no command was
abandoned and no check missed). `NothingIsForgotten`, `SuccessLeavesNothing`, and the
action property `ForeignIsNeverDeleted`.

**ObserveCommandProofs** (from `BeaconAssumption`, any targets, any chain, any width of the
integers). `StatusIsFaithful` rests on `CauseInv`, which traces every error and
cancellation to an interrupt or a failure. `ObservationsAreOfOneState` and
`ObservationsAreOfOneNetwork` rest on `PollInv`: between its requests a loop
holds one state and the finality of that state, and no loop works before the metadata of all
targets is compared and recorded.

Only model-checked: all liveness (`WaitsReturn`, `CancelledLoopReturns`, `StopsAsOne`,
`FaultIsRemoved`, and the fairness in `ImplementsContract`), which TLAPS does not prove.
The two expected violations are counterexamples, found by TLC.

## Not modelled

* Formatting and parsing: `report`, CSV, JSON and YAML layouts, HTTP, flags. An answer
  that does not parse is a failed call.
* Comparisons with one constant: the fixed fields of a scenario, the run order derived
  with SHA-256, repository and revisions of the lock, the path checks of
  `artifact.Create`.
* `assertion/engine.go`, a pure check over a recorded dataset that decides nothing in an
  experiment, and the `analyze` subcommand around EvidenceStore and GateAnalysis.
* The 64-bit guards of slot sums in the orchestrator: slot numbers of that size are not
  reached.
* `access.sh` (PID files of the gateway), the local devnet scripts and the account
  preflights: sequential shell programs around tools whose state is not in the
  repository; CloudSession has their effect on a session as steps that succeed or fail.
* The replacement of a Kubernetes object between the `get` and the `delete` of Revert
  (names contain the run ID), and a Pod that moves between discovery and Apply.

## Plan

Modelled, in this order: ObserverPipeline, ReorgTracker, ExecutionObserver, ChaosMesh with
ExperimentRun and FaultContract, MeasurementWindow, HeadTelemetry, CloudSession,
GateAnalysis, EvidenceStore; then the rest of `summarizeRun`, BeaconObserver with
ObserveCommand, and RealizedSplit with CaptureCommand.

Proved, in this order: the observer pipeline, the tracker and its loop, the run and its
contract, the window, the comparator, the session, evidence and observe command; then the
gates and the capture. Left is liveness, which stays with TLC.
