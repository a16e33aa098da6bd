---------------------------- MODULE HeadTelemetry ---------------------------
(***************************************************************************)
(* The head comparison of `ethquake observe`: the HeadComparator that all  *)
(* target loops share (head_comparator.go), and the metrics they write     *)
(* (telemetry/metrics.go, optional_gauge.go).  The comparator and each     *)
(* gauge have a mutex of their own and nothing covers them together, so    *)
(* the loops interleave between one locked call and the next.              *)
(***************************************************************************)
EXTENDS Naturals, FiniteSets

CONSTANTS
    Targets,
    Roots,
    MaxSlot,        \* bound on head slots
    HistoryLimit,
    MaxPolls,       \* bound on polls
    None

ASSUME HeadAssumption ==
    /\ IsFiniteSet(Targets) /\ Cardinality(Targets) >= 2
    /\ MaxSlot \in Nat
    /\ HistoryLimit \in Nat /\ HistoryLimit >= 2
    /\ MaxPolls \in Nat
    /\ None \notin Roots

VARIABLES
    slots,       \* the history of the comparator: slot -> headSlotState
    newest,      \* the highest slot a head was observed at (history variable)
    loop,        \* where each target loop is, and with what
    up,          \* targetUp{protocol="beacon"}
    agreement,   \* beaconHeadAgreement, None when absent
    comparisonSlot,   \* beaconComparisonSlot, None when absent
    polls

vars == <<slots, newest, loop, up, agreement, comparisonSlot, polls>>

Slots == 0 .. MaxSlot

NoRoots == [t \in Targets |-> None]

Complete(roots) == \A t \in Targets : roots[t] # None

\* HeadComparison.Agreement
Agree(roots) == \A t, u \in Targets : roots[t] = roots[u]

Idle == [at |-> "idle"]

Init ==
    /\ slots = [s \in {} |-> None]
    /\ newest = 0
    /\ loop = [t \in Targets |-> Idle]
    /\ up = [t \in Targets |-> None]
    /\ agreement = None
    /\ comparisonSlot = None
    /\ polls = 0

-----------------------------------------------------------------------------
(* HeadComparator *)

\* Mutant of trim: the slots that came last are dropped.
trim_DropsNewest(history) ==
    [s \in {s \in DOMAIN history :
               Cardinality({other \in DOMAIN history : other < s}) < HistoryLimit}
        |-> history[s]]

\* Keeps the highest HistoryLimit slots.
trim(history) ==
    [s \in {s \in DOMAIN history :
               Cardinality({other \in DOMAIN history : other > s}) < HistoryLimit}
        |-> history[s]]

\* The state of the slot of a head, with the root the target now reports.
Reported(t, head) ==
    LET state == IF head.slot \in DOMAIN slots THEN slots[head.slot]
                 ELSE [roots |-> NoRoots, last |-> None]
    IN  [state EXCEPT !.roots[t] = head.root]

\* The history with one slot put in.
Put(slot, state) ==
    [s \in DOMAIN slots \cup {slot} |-> IF s = slot THEN state ELSE slots[s]]

\* Mutant of Compare: only the first comparison of a slot is made.
Compare_Once(t, head) ==
    LET state == Reported(t, head)
    IN  IF Complete(state.roots) /\ state.last = None
        THEN /\ slots' = trim(Put(head.slot, [state EXCEPT !.last = state.roots]))
             /\ loop' = [loop EXCEPT ![t] = [at |-> "agreement", slot |-> head.slot,
                                             roots |-> state.roots]]
        ELSE /\ slots' = trim(Put(head.slot, state))
             /\ loop' = [loop EXCEPT ![t] = Idle]

\* What Observe does to the history and hands to the loop: a comparison when every
\* target has reported a root at the slot, and not the same roots as last time.
Compare(t, head) ==
    LET state == Reported(t, head)
    IN  IF Complete(state.roots) /\ state.roots # state.last
        THEN /\ slots' = trim(Put(head.slot, [state EXCEPT !.last = state.roots]))
             /\ loop' = [loop EXCEPT ![t] = [at |-> "agreement", slot |-> head.slot,
                                             roots |-> state.roots]]
        ELSE /\ slots' = IF Complete(state.roots) THEN Put(head.slot, state)
                         ELSE trim(Put(head.slot, state))
             /\ loop' = [loop EXCEPT ![t] = Idle]

-----------------------------------------------------------------------------
(* A target loop *)

\* A poll has succeeded; RecordBeacon sets the gauges of the target.
RecordBeacon(t) ==
    /\ loop[t] = Idle
    /\ polls < MaxPolls
    /\ polls' = polls + 1
    /\ up' = [up EXCEPT ![t] = 1]
    /\ \E slot \in Slots, root \in Roots :
          loop' = [loop EXCEPT ![t] = [at |-> "observe", slot |-> slot, root |-> root]]
    /\ UNCHANGED <<slots, newest, agreement, comparisonSlot>>

\* HeadComparator.Observe, under its mutex.
Observe(t) ==
    /\ loop[t].at = "observe"
    /\ Compare(t, [slot |-> loop[t].slot, root |-> loop[t].root])
    /\ newest' = IF loop[t].slot > newest THEN loop[t].slot ELSE newest
    /\ UNCHANGED <<up, agreement, comparisonSlot, polls>>

\* RecordHeadComparison: two gauges, one after the other.
SetAgreement(t) ==
    /\ loop[t].at = "agreement"
    /\ agreement' = IF Agree(loop[t].roots) THEN 1 ELSE 0
    /\ loop' = [loop EXCEPT ![t] = [at |-> "slot", slot |-> loop[t].slot]]
    /\ UNCHANGED <<slots, newest, up, comparisonSlot, polls>>

SetComparisonSlot(t) ==
    /\ loop[t].at = "slot"
    /\ comparisonSlot' = loop[t].slot
    /\ loop' = [loop EXCEPT ![t] = Idle]
    /\ UNCHANGED <<slots, newest, up, agreement, polls>>

\* Mutant of ClearAgreement: the target is marked as down first.
ClearAgreement_DownFirst(t) ==
    /\ loop[t] = Idle
    /\ polls < MaxPolls
    /\ polls' = polls + 1
    /\ up' = [up EXCEPT ![t] = 0]
    /\ agreement' = None
    /\ loop' = [loop EXCEPT ![t] = [at |-> "clear"]]
    /\ UNCHANGED <<slots, newest, comparisonSlot>>

\* RecordPollFailure: it clears one gauge, then the other, and then marks the target
\* as down.
ClearAgreement(t) ==
    /\ loop[t] = Idle
    /\ polls < MaxPolls
    /\ polls' = polls + 1
    /\ agreement' = None
    /\ loop' = [loop EXCEPT ![t] = [at |-> "clear"]]
    /\ UNCHANGED <<slots, newest, up, comparisonSlot>>

ClearComparisonSlot(t) ==
    /\ loop[t].at = "clear"
    /\ comparisonSlot' = None
    /\ loop' = [loop EXCEPT ![t] = [at |-> "down"]]
    /\ UNCHANGED <<slots, newest, up, agreement, polls>>

SetDown(t) ==
    /\ loop[t].at = "down"
    /\ up' = [up EXCEPT ![t] = 0]
    /\ loop' = [loop EXCEPT ![t] = Idle]
    /\ UNCHANGED <<slots, newest, agreement, comparisonSlot, polls>>

TargetLoop(t) ==
    \/ RecordBeacon(t) \/ Observe(t) \/ SetAgreement(t) \/ SetComparisonSlot(t)
    \/ ClearAgreement(t) \/ ClearComparisonSlot(t) \/ SetDown(t)

\* The bound on polls is reached.
Over ==
    /\ polls = MaxPolls
    /\ \A t \in Targets : loop[t] = Idle
    /\ UNCHANGED vars

Next == Over \/ \E t \in Targets : TargetLoop(t)

Spec == Init /\ [][Next]_vars

-----------------------------------------------------------------------------
(* Properties *)

\* However old the heads that lagging or reorganised targets report, the history
\* never holds more slots than its limit and never gives up the newest for them.
HistoryKeepsNewest ==
    /\ Cardinality(DOMAIN slots) <= HistoryLimit
    /\ DOMAIN slots # {} => newest \in DOMAIN slots

\* No disagreement is overlooked: a slot of the history that every target has
\* reported was compared with the roots they now report.
CompleteIsCompared ==
    \A s \in DOMAIN slots : Complete(slots[s].roots) => slots[s].last = slots[s].roots

\* An outage of all targets shows no comparison: whenever no target is exported as
\* up, both gauges of the comparison are absent, although the loops write the three
\* gauges one after the other with nothing that covers them, and a comparison that
\* is still being published may arrive after the failure of another target has
\* cleared it.  While one target is up a comparison may be exported, also one with
\* the root that the comparator keeps of a target that is down.
OutageShowsNoComparison ==
    (\A t \in Targets : up[t] # 1) => agreement = None /\ comparisonSlot = None
=============================================================================
