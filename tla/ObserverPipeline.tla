-------------------------- MODULE ObserverPipeline --------------------------
(***************************************************************************)
(* The path of one observation from a target's goroutine to the decision   *)
(* of the orchestrator (internal/observer, internal/timeseries,            *)
(* internal/orchestrator):                                                 *)
(*                                                                         *)
(*   runTarget -> pollAndRecord -> MultiRecorder -> JSONLRecorder          *)
(*                                              \-> DatasetRecorder        *)
(*                                                     | changed (cap 1)   *)
(*   Run -> waitFor(predicate) <-----------------------'                   *)
(*                                                                         *)
(* and the teardown of that path (stopObserver, closeRaw).  A record is    *)
(* abstracted to a per-target count; a predicate over the dataset is the   *)
(* set of snapshots that satisfy it, chosen anew for every wait, so that   *)
(* transient predicates (a slot that is common to all targets for a while) *)
(* are covered and not only monotone ones.                                 *)
(***************************************************************************)
EXTENDS Naturals

CONSTANTS Targets,     \* the Beacon targets, one polling goroutine each
          MaxRecords,  \* bound: records one target makes in a behaviour
          NumWaits,    \* the calls of waitFor a run makes one after another
          Predicates   \* the predicates a wait may have

\* What DatasetRecorder.Snapshot returns, as a count per target.
Snapshots == [Targets -> 0..MaxRecords]

ASSUME PipelineAssumption ==
    /\ MaxRecords \in Nat \ {0}
    /\ NumWaits \in Nat \ {0}
    /\ Predicates \subseteq SUBSET Snapshots

VARIABLES
    poller,     \* poller[t]: where target t's goroutine is
    raw,        \* raw[t]: t's records in raw-timeseries.jsonl
    rawOpen,    \* raw-timeseries.jsonl is open
    data,       \* data[t]: t's records in the DatasetRecorder
    token,      \* the cap-1 channel DatasetRecorder.changed holds an element
    obsDone,    \* the Observer's group context is done
    ctxDone,    \* the context of the running wait is done
    pc,         \* where the orchestrator is
    wait,       \* number of the running wait
    pred,       \* the snapshots that satisfy the running wait's predicate
    seen        \* the snapshot waitFor evaluated last

vars == <<poller, raw, rawOpen, data, token, obsDone, ctxDone, pc, wait,
          pred, seen>>

Init ==
    /\ poller = [t \in Targets |-> "polling"]
    /\ raw = [t \in Targets |-> 0]
    /\ rawOpen = TRUE
    /\ data = [t \in Targets |-> 0]
    /\ token = FALSE
    /\ obsDone = FALSE
    /\ ctxDone = FALSE
    /\ pc = "check"
    /\ wait = 1
    /\ pred \in Predicates
    /\ seen = data

-----------------------------------------------------------------------------
(* A target's goroutine *)

\* The ticker fires and the next poll starts.  With the context already done
\* the poll returns Canceled and the goroutine is back in its select: a stutter.
Tick(t) ==
    /\ poller[t] = "idle"
    /\ ~obsDone
    /\ raw[t] < MaxRecords
    /\ poller' = [poller EXCEPT ![t] = "polling"]
    /\ UNCHANGED <<raw, rawOpen, data, token, obsDone, ctxDone, pc, wait, pred, seen>>

\* The poll returns context.Canceled: nothing is recorded.
PollCanceled(t) ==
    /\ poller[t] = "polling"
    /\ obsDone
    /\ poller' = [poller EXCEPT ![t] = "idle"]
    /\ UNCHANGED <<raw, rawOpen, data, token, obsDone, ctxDone, pc, wait, pred, seen>>

\* The poll returned an observation or a failure: MultiRecorder hands it to the
\* JSONL recorder first.
WriteRaw(t) ==
    /\ poller[t] = "polling"
    /\ raw[t] < MaxRecords
    /\ raw' = [raw EXCEPT ![t] = @ + 1]
    /\ poller' = [poller EXCEPT ![t] = "written"]
    /\ UNCHANGED <<rawOpen, data, token, obsDone, ctxDone, pc, wait, pred, seen>>

\* Mutant of WriteRawFails: the failure of one recorder does not stop the next.
WriteRawFails_Continues(t) ==
    /\ poller[t] = "polling"
    /\ poller' = [poller EXCEPT ![t] = "written"]
    /\ raw[t] < MaxRecords
    /\ UNCHANGED <<raw, rawOpen, data, token, obsDone, ctxDone, pc, wait, pred, seen>>

\* The write fails: the later recorders are skipped, the goroutine returns the
\* error and its errgroup cancels the Observer's context.
WriteRawFails(t) ==
    /\ poller[t] = "polling"
    /\ poller' = [poller EXCEPT ![t] = "exited"]
    /\ obsDone' = TRUE
    /\ UNCHANGED <<raw, rawOpen, data, token, ctxDone, pc, wait, pred, seen>>

\* Mutant of Store: a Record* method that forgets to notify.
Store_Silent(t) ==
    /\ poller[t] = "written"
    /\ data' = [data EXCEPT ![t] = @ + 1]
    /\ poller' = [poller EXCEPT ![t] = "idle"]
    /\ UNCHANGED <<raw, rawOpen, token, obsDone, ctxDone, pc, wait, pred, seen>>

\* DatasetRecorder.Record*: append under the mutex.  The head comparison that a
\* poll may record after its observation (observer.go:310-317) is the target's
\* next record; with the context done in between, the model leaves it out.
Store(t) ==
    /\ poller[t] = "written"
    /\ data' = [data EXCEPT ![t] = @ + 1]
    /\ poller' = [poller EXCEPT ![t] = "stored"]
    /\ UNCHANGED <<raw, rawOpen, token, obsDone, ctxDone, pc, wait, pred, seen>>

\* DatasetRecorder.notify, after the unlock: a send that never blocks.
Notify(t) ==
    /\ poller[t] = "stored"
    /\ token' = TRUE
    /\ poller' = [poller EXCEPT ![t] = "idle"]
    /\ UNCHANGED <<raw, rawOpen, data, obsDone, ctxDone, pc, wait, pred, seen>>

\* The select of runTarget takes ctx.Done.
Exit(t) ==
    /\ poller[t] = "idle"
    /\ obsDone
    /\ poller' = [poller EXCEPT ![t] = "exited"]
    /\ UNCHANGED <<raw, rawOpen, data, token, obsDone, ctxDone, pc, wait, pred, seen>>

-----------------------------------------------------------------------------
(* The orchestrator: waitFor, called NumWaits times *)

\* The predicate holds of the snapshot: the wait returns nil.  The next wait has
\* a context and a predicate of its own; the channel keeps what it holds.
Satisfied ==
    /\ pc = "check"
    /\ data \in pred
    /\ seen' = data
    /\ IF wait < NumWaits
       THEN /\ wait' = wait + 1
            /\ pred' \in Predicates
            /\ ctxDone' = FALSE
            /\ UNCHANGED pc
       ELSE /\ pc' = "stop"
            /\ UNCHANGED <<wait, pred, ctxDone>>
    /\ UNCHANGED <<poller, raw, rawOpen, data, token, obsDone>>

\* It does not: waitFor blocks in its select.
Block ==
    /\ pc = "check"
    /\ data \notin pred
    /\ seen' = data
    /\ pc' = "select"
    /\ UNCHANGED <<poller, raw, rawOpen, data, token, obsDone, ctxDone, wait, pred>>

\* case <-recorder.Changed()
Wake ==
    /\ pc = "select"
    /\ token
    /\ token' = FALSE
    /\ pc' = "check"
    /\ UNCHANGED <<poller, raw, rawOpen, data, obsDone, ctxDone, wait, pred, seen>>

\* Mutant of WaitFails: waitFor does not watch the Observer's context.
WaitFails_IgnoresObserver ==
    /\ pc = "select"
    /\ ctxDone
    /\ pc' = "stop"
    /\ UNCHANGED <<poller, raw, rawOpen, data, token, obsDone, ctxDone, wait, pred, seen>>

\* case <-ctx.Done() and case <-observerContext.Done(): the wait fails.
WaitFails ==
    /\ pc = "select"
    /\ ctxDone \/ obsDone
    /\ pc' = "stop"
    /\ UNCHANGED <<poller, raw, rawOpen, data, token, obsDone, ctxDone, wait, pred, seen>>

\* The deadline of the running wait passes.
Deadline ==
    /\ pc \in {"check", "select"}
    /\ ctxDone' = TRUE
    /\ UNCHANGED <<poller, raw, rawOpen, data, token, obsDone, pc, wait, pred, seen>>

\* The context of the run itself is cancelled: both derived contexts are done.
CancelRun ==
    /\ pc # "closed"
    /\ ctxDone' = TRUE
    /\ obsDone' = TRUE
    /\ UNCHANGED <<poller, raw, rawOpen, data, token, pc, wait, pred, seen>>

-----------------------------------------------------------------------------
(* The teardown, on success and on every error path *)

\* Mutant of CancelObserver: stopObserver cancels and does not wait.
CancelObserver_NoWait ==
    /\ pc = "stop"
    /\ obsDone' = TRUE
    /\ pc' = "close"
    /\ UNCHANGED <<poller, raw, rawOpen, data, token, ctxDone, wait, pred, seen>>

\* stopObserver: cancel ...
CancelObserver ==
    /\ pc = "stop"
    /\ obsDone' = TRUE
    /\ pc' = "join"
    /\ UNCHANGED <<poller, raw, rawOpen, data, token, ctxDone, wait, pred, seen>>

\* ... and group.Wait().
JoinObserver ==
    /\ pc = "join"
    /\ \A t \in Targets : poller[t] = "exited"
    /\ pc' = "close"
    /\ UNCHANGED <<poller, raw, rawOpen, data, token, obsDone, ctxDone, wait, pred, seen>>

\* closeRaw; the dataset snapshot the summary is built from is taken after it.
CloseRaw ==
    /\ pc = "close"
    /\ rawOpen' = FALSE
    /\ pc' = "closed"
    /\ UNCHANGED <<poller, raw, data, token, obsDone, ctxDone, wait, pred, seen>>

\* The run is over.
Finished ==
    /\ pc = "closed"
    /\ UNCHANGED vars

-----------------------------------------------------------------------------

TargetStep(t) ==
    \/ Tick(t)
    \/ PollCanceled(t)
    \/ WriteRaw(t)
    \/ WriteRawFails(t)
    \/ Store(t)
    \/ Notify(t)
    \/ Exit(t)

WaiterStep == Satisfied \/ Block \/ Wake \/ WaitFails

Teardown == CancelObserver \/ JoinObserver \/ CloseRaw

Next ==
    \/ \E t \in Targets : TargetStep(t)
    \/ WaiterStep
    \/ Deadline
    \/ CancelRun
    \/ Teardown
    \/ Finished

\* Goroutines are scheduled fairly and a poll ends (the HTTP client has a
\* timeout); nothing forces a deadline, a failing write or a cancellation.
Fairness ==
    /\ \A t \in Targets :
         /\ WF_vars(PollCanceled(t) \/ WriteRaw(t) \/ WriteRawFails(t))
         /\ WF_vars(Store(t))
         /\ WF_vars(Notify(t))
         /\ WF_vars(Exit(t))
    /\ WF_vars(WaiterStep)
    /\ WF_vars(Teardown)

Spec == Init /\ [][Next]_vars

FairSpec == Spec /\ Fairness

-----------------------------------------------------------------------------
(* Properties *)

\* Every variable has its type: a part of the inductive invariant of the proofs.
TypeOK ==
    /\ poller \in [Targets -> {"idle", "polling", "written", "stored", "exited"}]
    /\ raw \in Snapshots
    /\ rawOpen \in BOOLEAN
    /\ data \in Snapshots
    /\ token \in BOOLEAN
    /\ obsDone \in BOOLEAN
    /\ ctxDone \in BOOLEAN
    /\ pc \in {"check", "select", "stop", "join", "close", "closed"}
    /\ wait \in 1..NumWaits
    /\ pred \in Predicates
    /\ seen \in Snapshots

\* No wakeup is lost: when waitFor is blocked on a snapshot that is no longer the
\* dataset, the changed channel holds a token or some recorder has appended and
\* has yet to notify.  The channel has one slot and notify drops what does not
\* fit, so this is what makes dropping sound.
NoLostWakeup ==
    (pc = "select" /\ seen # data) =>
        token \/ \E t \in Targets : poller[t] = "stored"

\* The time-series file is ahead of the dataset by exactly the record in flight:
\* no decision rests on an observation that is not in the evidence.
RawCoversData ==
    \A t \in Targets :
        raw[t] = data[t] + (IF poller[t] = "written" THEN 1 ELSE 0)

\* group.Wait comes before the close: no goroutine can still write to
\* raw-timeseries.jsonl when it is closed, and from then on it holds exactly the
\* records the summary is built from.
NoWriteAfterClose ==
    ~rawOpen => raw = data /\ \A t \in Targets : poller[t] = "exited"

\* No wait is for ever: one whose predicate holds and goes on holding returns,
\* and so does one whose context is done; when the Observer has stopped (cancelled,
\* or a recorder failed) the run does: the Observer is joined and the time-series
\* file closed, whatever the goroutines are doing.
WaitsReturn ==
    /\ ~ <>[](pc \in {"check", "select"} /\ data \in pred)
    /\ ctxDone ~> (~ctxDone \/ pc = "closed")
    /\ obsDone ~> (pc = "closed")
=============================================================================
