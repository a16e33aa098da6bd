-------------------------- MODULE ExecutionObserver -------------------------
(***************************************************************************)
(* internal/observer/execution_observer.go: the loop that keeps one        *)
(* execution target subscribed, with the tracker of ReorgTracker inside    *)
(* its callback, and what it leaves in the recorder.  Targets share only   *)
(* the recorder and the cancellation of their errgroup, so the loop of one *)
(* target is modelled and the others are the environment that may cancel.  *)
(*                                                                         *)
(* The log is what the recorders accepted, in order.                       *)
(***************************************************************************)
EXTENDS ReorgTracker

CONSTANTS NodeHeads,          \* the heads the execution node may report
          ReconnectInitial,   \* the reconnect delays, in units of time
          ReconnectMaximum,
          MaxEvents           \* bound: events one behaviour may record

ASSUME ExecutionAssumption ==
    /\ NodeHeads \subseteq Heads
    /\ ReconnectInitial \in Nat \ {0}
    /\ ReconnectMaximum \in Nat
    /\ ReconnectInitial <= ReconnectMaximum
    /\ MaxEvents \in Nat

VARIABLES
    pc,            \* where runTarget is
    receivedHead,  \* this subscription has delivered a head
    delay,         \* reconnectDelay
    log,           \* the events recorded so far
    cancelled      \* the context is done

loopVars == <<pc, receivedHead, delay, log, cancelled>>

vars == <<trackerVars, loopVars>>

\* What the three methods of ExecutionRecorder record.
HeadEvent(h, continuity) == [type |-> "head", head |-> h, continuity |-> continuity]
GapEvent(operation)      == [type |-> "gap", operation |-> operation]
ReorgEvent(prev, new)    == [type |-> "reorg", prev |-> prev, new |-> new]

\* Mutant of EventsFor: a reorg of known depth is not recorded.
EventsFor_UnknownReorgOnly(c, h) ==
    <<HeadEvent(h, Continuity(c, h))>>
    \o (IF Classify(c, h) \in {"malformed", "skipped"}
        THEN <<GapEvent("execution_continuity")>> ELSE <<>>)
    \o (IF Classify(c, h) = "unknown"
        THEN <<ReorgEvent(Tip(c), h)>> ELSE <<>>)

\* The records the callback makes for a head: the head, then a continuity gap,
\* then a reorg, as the class of the head calls for.
EventsFor(c, h) ==
    <<HeadEvent(h, Continuity(c, h))>>
    \o (IF Classify(c, h) \in {"malformed", "skipped"}
        THEN <<GapEvent("execution_continuity")>> ELSE <<>>)
    \o (IF Classify(c, h) \in {"reorg", "unknown"}
        THEN <<ReorgEvent(Tip(c), h)>> ELSE <<>>)

Init ==
    /\ TrackerInit
    /\ pc = "connect"
    /\ receivedHead = FALSE
    /\ delay = ReconnectInitial
    /\ log = <<>>
    /\ cancelled = FALSE

-----------------------------------------------------------------------------

\* Mutant of Subscribe: the tracker outlives the subscription.
Subscribe_KeepsTracker ==
    /\ pc = "connect"
    /\ receivedHead' = FALSE
    /\ pc' \in {"subscribed", "ended"}
    /\ UNCHANGED <<canonical, report, delay, log, cancelled>>

\* A new tracker for a new subscription; the handshake succeeds or fails.
Subscribe ==
    /\ pc = "connect"
    /\ canonical' = <<>>
    /\ report' = NoReport
    /\ receivedHead' = FALSE
    /\ pc' \in {"subscribed", "ended"}
    /\ UNCHANGED <<delay, log, cancelled>>

\* The callback: classify the head and record.  A recorder may fail at any of
\* the records; the error ends the subscription and the rest is not recorded.
ReceiveHead(h) ==
    LET events == EventsFor(canonical, h)
    IN  /\ pc = "subscribed"
        /\ Len(log) + Len(events) <= MaxEvents
        /\ ObserveHead(h)
        /\ receivedHead' = TRUE
        /\ \E n \in 0..Len(events) :
             /\ log' = log \o SubSeq(events, 1, n)
             /\ pc' = IF n = Len(events) THEN "subscribed" ELSE "ended"
        /\ UNCHANGED <<delay, cancelled>>

\* The connection drops, a message does not parse or belongs to another
\* subscription, or the context is done.
SubscriptionEnds ==
    /\ pc = "subscribed"
    /\ pc' = "ended"
    /\ UNCHANGED <<trackerVars, receivedHead, delay, log, cancelled>>

\* Mutant of ReturnCanceled: the context is looked at only while backing off.
ReturnCanceled_OnlyInBackoff ==
    /\ pc = "backoff"
    /\ cancelled
    /\ pc' = "returned"
    /\ UNCHANGED <<trackerVars, receivedHead, delay, log, cancelled>>

\* The loop returns nil when its context is done: no gap is recorded.
ReturnCanceled ==
    /\ pc \in {"ended", "backoff"}
    /\ cancelled
    /\ pc' = "returned"
    /\ UNCHANGED <<trackerVars, receivedHead, delay, log, cancelled>>

\* The end of a subscription is a measurement gap.  The timer is set to the
\* initial delay when this subscription delivered a head.
RecordGap ==
    /\ pc = "ended"
    /\ ~cancelled
    /\ Len(log) < MaxEvents
    /\ log' = Append(log, GapEvent("execution_subscription"))
    /\ delay' = IF receivedHead THEN ReconnectInitial ELSE delay
    /\ pc' = "backoff"
    /\ UNCHANGED <<trackerVars, receivedHead, cancelled>>

\* Recording the gap fails: the loop returns the error, the errgroup cancels.
RecordGapFails ==
    /\ pc = "ended"
    /\ ~cancelled
    /\ pc' = "failed"
    /\ UNCHANGED <<trackerVars, receivedHead, delay, log, cancelled>>

\* Mutant of NextDelay: doubled without the look at half the maximum.
NextDelay_Doubles(d) == IF d < ReconnectMaximum THEN 2 * d ELSE d

\* The delay doubles up to its maximum; beyond half of it the doubling, which
\* could overflow time.Duration, is not computed.
NextDelay(d) ==
    IF d < ReconnectMaximum
    THEN IF d > ReconnectMaximum \div 2 THEN ReconnectMaximum ELSE 2 * d
    ELSE d

\* The timer fires.
Reconnect ==
    /\ pc = "backoff"
    /\ delay' = NextDelay(delay)
    /\ pc' = "connect"
    /\ UNCHANGED <<trackerVars, receivedHead, log, cancelled>>

\* The command is interrupted or another target's loop has failed.
Cancel ==
    /\ ~cancelled
    /\ cancelled' = TRUE
    /\ UNCHANGED <<trackerVars, pc, receivedHead, delay, log>>

\* The loop has returned.
Stopped ==
    /\ pc \in {"returned", "failed"}
    /\ UNCHANGED vars

LoopStep ==
    \/ Subscribe
    \/ SubscriptionEnds
    \/ ReturnCanceled
    \/ RecordGap
    \/ RecordGapFails
    \/ Reconnect

Next ==
    \/ LoopStep
    \/ \E h \in NodeHeads : ReceiveHead(h)
    \/ Cancel
    \/ Stopped

Spec == Init /\ [][Next]_vars

\* The loop is scheduled, its timer fires, and a read from a connection whose
\* context is done returns.  Nothing forces a live subscription to end.
Fairness ==
    /\ WF_vars(Subscribe)
    /\ WF_vars(cancelled /\ SubscriptionEnds)
    /\ WF_vars(ReturnCanceled)
    /\ WF_vars(RecordGap \/ RecordGapFails)
    /\ WF_vars(Reconnect)

FairSpec == Spec /\ Fairness

-----------------------------------------------------------------------------
(* Properties *)

\* Every variable has its type, the tracker included, and the reconnect delay stays
\* between its two options.
LoopTypeOK ==
    /\ TrackerTypeOK
    /\ pc \in {"connect", "subscribed", "ended", "backoff", "returned", "failed"}
    /\ receivedHead \in BOOLEAN
    /\ delay \in ReconnectInitial .. ReconnectMaximum
    /\ Len(log) <= MaxEvents
    /\ cancelled \in BOOLEAN

HeadsAt == {i \in 1..Len(log) : log[i].type = "head"}

\* The recorded heads at i and j have no recorded head between them.
Consecutive(i, j) ==
    i < j /\ \A k \in (i + 1)..(j - 1) : log[k].type # "head"

\* The new head is the old one or its child.
Continues(old, new) ==
    \/ new.hash = old.hash
    \/ new.parent = old.hash /\ new.number = old.number + 1

\* The loop has come to its end, with an error of the recorder or by its context.
LoopIsOver == pc = "failed" \/ (pc = "returned" /\ cancelled)

\* No silent discontinuity: when two consecutive recorded heads are not parent
\* and child, the record says so, by a gap or a reorg event next to the second
\* or by its continuity flag, across reconnects and failing recorders too.  A
\* callback that has failed between its records is covered by the gap of the
\* subscription, which is still to come while the loop is at "ended".
\*
\* Exception: the gap never comes when the context ends first (runTarget returns nil)
\* or when the recorder refuses the gap as well (runTarget returns that error).  The
\* very last head of a loop that is over may therefore be a reorg nobody recorded;
\* no earlier head can.
NoSilentDiscontinuity ==
    \A i, j \in HeadsAt :
        Consecutive(i, j) /\ ~Continues(log[i].head, log[j].head) =>
            \/ ~log[j].continuity
            \/ \E k \in (i + 1)..(j - 1) : log[k].type = "gap"
            \/ j < Len(log) /\ log[j + 1].type \in {"reorg", "gap"}
            \/ j = Len(log) /\ pc = "ended"
            \/ j = Len(log) /\ LoopIsOver

\* A reorg is only ever reported against the head recorded just before, in the
\* same subscription: a reconnect never turns blocks missed while disconnected
\* into a reorg.
ReorgWithinSubscription ==
    \A j \in 3..Len(log) :
        log[j].type = "reorg" =>
            /\ log[j - 1].type = "head" /\ log[j - 1].head = log[j].new
            /\ \E i \in HeadsAt :
                 /\ i < j - 1
                 /\ log[i].head.hash = log[j].prev.hash
                 /\ \A k \in i..(j - 1) :
                      log[k].type = "gap" => log[k].operation # "execution_subscription"

\* A cancelled loop comes to an end, from wherever the cancellation meets it.
CancelledLoopReturns == cancelled ~> (pc \in {"returned", "failed"})
=============================================================================
