--------------------------- MODULE ObserveCommand ---------------------------
(***************************************************************************)
(* `ethquake observe` (runObserve and serveMetrics in internal/cli/cli.go):*)
(* one errgroup of the metrics server, the execution observer and the      *)
(* Beacon observer, which share the time-series output; the first error of *)
(* any of them, or an interrupt, is to end them all.  The execution        *)
(* observer is the component of module ExecutionObserver, seen from its    *)
(* writes.                                                                 *)
(***************************************************************************)
EXTENDS BeaconObserver

VARIABLES
    pc,          \* of runObserve
    interrupted, \* SIGINT or SIGTERM (signal.NotifyContext)
    groupErr,    \* the first error of the group
    server,      \* serveMetrics around Serve
    helper,      \* the goroutine of serveMetrics that calls Shutdown
    shutdownResult,
    exec,        \* the execution observer
    output,      \* the time-series file
    broken,      \* something has failed (history variable)
    result       \* what the command returns

commandVars == <<pc, interrupted, groupErr, server, helper, shutdownResult, exec, output,
                 broken, result>>

vars == <<beaconVars, commandVars>>

Init ==
    /\ BeaconInit
    /\ pc = "listen"
    /\ interrupted = FALSE
    /\ groupErr = None
    /\ server = "starting"
    /\ helper = "waiting"
    /\ shutdownResult = None
    /\ exec \in {"subscribed", "returned"}   \* returned: no --execution flag
    /\ output = "none"
    /\ broken = FALSE
    /\ result = None

UnchangedBeacon ==
    UNCHANGED <<network, run, runErr, fetch, recorded, loop, observation>>

\* A member of the group returns; an error cancels the context of the others.
MemberReturns(error) ==
    /\ groupErr' = FirstError(groupErr, error)
    /\ done' = (done \/ error # None)

-----------------------------------------------------------------------------
(* Start and end of the command *)

\* net.Listen, then openOutput: O_EXCL refuses a file that exists.
Start ==
    /\ pc = "listen"
    /\ \/ pc' = "running" /\ output' = "open" /\ UNCHANGED <<result, broken>>
       \/ pc' = "returned" /\ result' = "failure" /\ broken' = TRUE /\ UNCHANGED output
    /\ UNCHANGED <<beaconVars, interrupted, groupErr, server, helper, shutdownResult, exec>>

Interrupt ==
    /\ pc \in {"listen", "running"}
    /\ ~interrupted
    /\ interrupted' = TRUE
    /\ done' = TRUE
    /\ UnchangedBeacon
    /\ UNCHANGED <<pc, groupErr, server, helper, shutdownResult, exec, output, broken, result>>

\* group.Wait: a canceled context is not an error of the command.
Wait ==
    /\ pc = "running"
    /\ server = "returned" /\ exec = "returned" /\ run = "returned"
    /\ pc' = "closing"
    /\ result' = IF groupErr = "failure" THEN "failure" ELSE "nil"
    /\ UNCHANGED <<beaconVars, interrupted, groupErr, server, helper, shutdownResult, exec,
                   output, broken>>

\* The deferred closeOutput: its error is joined to the one returned.
CloseOutput ==
    /\ pc = "closing"
    /\ pc' = "returned"
    /\ output' = "closed"
    /\ \/ UNCHANGED <<result, broken>>
       \/ result' = "failure" /\ broken' = TRUE
    /\ UNCHANGED <<beaconVars, interrupted, groupErr, server, helper, shutdownResult, exec>>

-----------------------------------------------------------------------------
(* serveMetrics *)

\* Serve refuses when Shutdown has been called, and accepts otherwise.
Serve ==
    /\ pc = "running"
    /\ server = "starting"
    /\ server' = IF helper = "waiting" THEN "serving" ELSE "closed"
    /\ UNCHANGED <<beaconVars, pc, interrupted, groupErr, helper, shutdownResult, exec,
                   output, broken, result>>

\* Accept fails: Serve returns the error.
ServeFails ==
    /\ server = "serving"
    /\ server' = "returned"
    /\ broken' = TRUE
    /\ MemberReturns("failure")
    /\ UnchangedBeacon
    /\ UNCHANGED <<pc, interrupted, helper, shutdownResult, exec, output, result>>

\* The goroutine calls Shutdown, which makes Serve return ErrServerClosed.
Shutdown ==
    /\ output # "none"
    /\ helper = "waiting"
    /\ done
    /\ helper' = "shutting"
    /\ server' = IF server = "serving" THEN "closed" ELSE server
    /\ UNCHANGED <<beaconVars, pc, interrupted, groupErr, shutdownResult, exec, output,
                   broken, result>>

\* Mutant of ShutdownEnds: an unbuffered channel, sent to only while it is read.
ShutdownEnds_Unbuffered ==
    /\ helper = "shutting"
    /\ server = "closed"
    /\ helper' = "ended"
    /\ \/ shutdownResult' = "nil" /\ UNCHANGED broken
       \/ shutdownResult' = "timeout" /\ broken' = TRUE
    /\ UNCHANGED <<beaconVars, pc, interrupted, groupErr, server, exec, output, result>>

\* Requests that are being answered end, or five seconds pass; the result goes
\* into a channel with room for it, read or not.
ShutdownEnds ==
    /\ helper = "shutting"
    /\ helper' = "ended"
    /\ \/ shutdownResult' = "nil" /\ UNCHANGED broken
       \/ shutdownResult' = "timeout" /\ broken' = TRUE
    /\ UNCHANGED <<beaconVars, pc, interrupted, groupErr, server, exec, output, result>>

ServerReturns ==
    /\ server = "closed"
    /\ shutdownResult # None
    /\ server' = "returned"
    /\ MemberReturns(IF shutdownResult = "nil" THEN None ELSE "failure")
    /\ UnchangedBeacon
    /\ UNCHANGED <<pc, interrupted, helper, shutdownResult, exec, output, broken, result>>

-----------------------------------------------------------------------------
(* The observers *)

\* The subscription ends, on its own, by a write that failed or by the context.
ExecSubscriptionEnds ==
    /\ pc = "running"
    /\ exec = "subscribed"
    /\ exec' = "ended"
    /\ broken' \in {broken, TRUE}
    /\ UNCHANGED <<beaconVars, pc, interrupted, groupErr, server, helper, shutdownResult,
                   output, result>>

\* A gap is recorded and the loop subscribes again.
ExecRecordsGap ==
    /\ exec = "ended"
    /\ ~done
    /\ exec' = "subscribed"
    /\ UNCHANGED <<beaconVars, pc, interrupted, groupErr, server, helper, shutdownResult,
                   output, broken, result>>

ExecReturns ==
    /\ exec = "ended"
    /\ exec' = "returned"
    /\ \/ done /\ MemberReturns(None) /\ UNCHANGED broken
       \/ ~done /\ MemberReturns("failure") /\ broken' = TRUE
    /\ UnchangedBeacon
    /\ UNCHANGED <<pc, interrupted, server, helper, shutdownResult, output, result>>

\* A step of the Beacon observer that is not its return.
Observe ==
    /\ pc = "running"
    /\ ObserverStep
    /\ broken' = (broken \/ runErr' = "failure")
    /\ UNCHANGED <<pc, interrupted, groupErr, server, helper, shutdownResult, exec, output,
                   result>>

ObserverReturns ==
    /\ run = "ending"
    /\ run' = "returned"
    /\ MemberReturns(runErr)
    /\ UNCHANGED <<network, runErr, fetch, recorded, loop, observation>>
    /\ UNCHANGED <<pc, interrupted, server, helper, shutdownResult, exec, output, broken,
                   result>>

\* The command has returned.
Over == pc = "returned" /\ UNCHANGED vars

Next ==
    \/ Start \/ Interrupt \/ Wait \/ CloseOutput
    \/ Serve \/ ServeFails \/ Shutdown \/ ShutdownEnds \/ ServerReturns
    \/ ExecSubscriptionEnds \/ ExecRecordsGap \/ ExecReturns
    \/ Observe \/ ObserverReturns
    \/ Over

Spec == Init /\ [][Next]_vars

\* Goroutines run.  Requests end, because the client has a timeout, and so does a
\* subscription whose context is done.  A select that finds the context done and
\* its ticker ready, again and again, is not always answered by the ticker.
Fairness ==
    /\ WF_vars(Start) /\ WF_vars(Wait) /\ WF_vars(CloseOutput)
    /\ WF_vars(Serve) /\ WF_vars(Shutdown) /\ WF_vars(ShutdownEnds) /\ WF_vars(ServerReturns)
    /\ WF_vars(done /\ ExecSubscriptionEnds) /\ WF_vars(ExecReturns)
    /\ WF_vars(Observe /\ (Compare \/ RecordSpec \/ RecordSpecFails \/ LoopsEnded))
    /\ WF_vars(ObserverReturns)
    /\ \A t \in Targets : /\ WF_vars(Observe /\ TargetStep(t))
                          /\ SF_vars(Observe /\ LoopReturns(t))

FairSpec == Spec /\ Fairness

-----------------------------------------------------------------------------
(* Properties *)

\* An observation is of one Beacon state, although two requests made it and the
\* node may have switched heads between them, or between them and the write: the
\* finalized epoch is the one of the head's own state, and its lag is the exact
\* distance from that epoch's first slot to the current slot of the clock.  That is
\* the lag of ADR-0003:27 ("Finality lag uses that current slot") and README.md:43;
\* the help text of the exported gauge (metrics.go:55) says "Head slot minus the
\* first slot of the finalized epoch", which is less whenever the head is behind.
ObservationIsOneState ==
    observation # None =>
        /\ observation.epoch = observation.state.epoch
        /\ observation.epoch * reference.slotsPerEpoch + observation.lag
             = observation.currentSlot

\* What is observed is one network: before the first observation of any target the
\* metadata of every target is recorded, it has the genesis of the first target,
\* and no fork that the first target names at another epoch.
ObservedNetworkIsOne ==
    observation # None =>
        /\ recorded = Targets
        /\ \A t \in Targets :
              /\ network[t].genesis = network[1].genesis
              /\ network[t].slotsPerEpoch = network[1].slotsPerEpoch
              /\ \A fork \in DOMAIN network[t].forkEpochs \cap DOMAIN network[1].forkEpochs :
                    network[t].forkEpochs[fork] = network[1].forkEpochs[fork]

\* The exit status is faithful: the command succeeds only when it was interrupted,
\* never because the cancellation that follows a failure is mistaken for one; and
\* it fails only when something failed, never for the interrupt itself.
ResultIsFaithful ==
    /\ result = "nil" => interrupted
    /\ result = "failure" => broken

\* An interrupt, or the first failure of any member, ends the command and the
\* server's goroutine, whatever the members are doing: fetching metadata, writing,
\* waiting for a subscription or about to serve.
StopsAsOne ==
    (pc = "running" /\ done) ~> (pc = "returned" /\ helper = "ended")
=============================================================================
