------------------------- MODULE HeadTelemetryProofs ------------------------
(***************************************************************************)
(* The head comparison of `ethquake observe`, proved for any targets, any  *)
(* roots and any limit on the history: the properties of HeadTelemetry,    *)
(* each from an inductive invariant of its own over the shape of the       *)
(* history and of the loops.                                               *)
(***************************************************************************)
EXTENDS HeadTelemetry, FiniteSetTheorems, WellFoundedInduction, TLAPS

\* The values of a headSlotState and of a loop between two locked calls.
SlotState ==
    [roots : [Targets -> Roots \cup {None}], last : [Targets -> Roots] \cup {None}]

Places ==
    {Idle} \cup [at : {"observe"}, slot : Slots, root : Roots]
    \cup [at : {"agreement"}, slot : Slots, roots : [Targets -> Roots]]
    \cup [at : {"slot"}, slot : Slots] \cup [at : {"clear", "down"}]

Shape ==
    /\ slots \in [DOMAIN slots -> SlotState]
    /\ DOMAIN slots \subseteq Slots
    /\ newest \in Slots
    /\ loop \in [Targets -> Places]
    /\ up \in [Targets -> {None, 0, 1}]

\* The newest slot bounds the history and is in it.
NewestInv ==
    /\ DOMAIN slots # {} => newest \in DOMAIN slots
    /\ DOMAIN slots = {} => newest = 0
    /\ \A s \in DOMAIN slots : s <= newest

HistoryInv == Cardinality(DOMAIN slots) <= HistoryLimit

\* A loop that has a head to compare or to publish has set its target up.
\* A present gauge has a loop to answer for it: one whose target is up, and that has
\* not cleared the gauge since it last set it.
OutageInv ==
    /\ \A t \in Targets : loop[t].at \in {"observe", "agreement", "slot"} => up[t] = 1
    /\ agreement # None =>
          \E t \in Targets : up[t] = 1 /\ loop[t].at \notin {"clear", "down"}
    /\ comparisonSlot # None => \E t \in Targets : up[t] = 1 /\ loop[t].at # "down"

IInv == Shape /\ NewestInv /\ HistoryInv /\ CompleteIsCompared /\ OutageInv

-----------------------------------------------------------------------------
(* The history and its limit *)

\* A set of slots is finite.
LEMMA SlotsAreFinite ==
    ASSUME NEW D, D \subseteq Slots
    PROVE  IsFiniteSet(D) /\ Cardinality(D) \in Nat
<1>1. IsFiniteSet(Slots)
  BY HeadAssumption, FS_Interval DEF Slots
<1>2. IsFiniteSet(D)
  BY <1>1, FS_Subset
<1> QED BY <1>2, FS_CardinalityType

\* A set of slots that is not empty has a lowest one.
LEMMA LowestSlot ==
    ASSUME NEW D, D \subseteq Slots, D # {}
    PROVE  \E low \in D : \A s \in D : low <= s
<1>1. D \subseteq Nat
  BY HeadAssumption DEF Slots
<1>2. PICK low \in D : \A s \in D : ~(<<s, low>> \in OpToRel(<, Nat))
  BY <1>1, NatLessThanWellFounded, WFMin, Zenon
<1>3. \A s \in D : ~(s < low)
  BY <1>1, <1>2 DEF OpToRel
<1>4. \A s \in D : low <= s
  BY <1>1, <1>3
<1> QED BY <1>4

\* The comparator's trim keeps a part of the history of at most HistoryLimit
\* slots: above the lowest slot that is kept there are fewer than that.
LEMMA TrimIsWithinLimit ==
    ASSUME NEW history, DOMAIN history \subseteq Slots
    PROVE  /\ DOMAIN trim(history) \subseteq DOMAIN history
           /\ Cardinality(DOMAIN trim(history)) <= HistoryLimit
<1> DEFINE D == DOMAIN history
<1> DEFINE Above(s) == {other \in D : other > s}
<1> DEFINE T == DOMAIN trim(history)
<1>1. T = {s \in D : Cardinality(Above(s)) < HistoryLimit}
  BY DEF trim
<1>2. T \subseteq D
  BY <1>1
<1>3. CASE T = {}
  BY <1>2, <1>3, FS_EmptySet, HeadAssumption
<1>4. CASE T # {}
  <2>1. PICK low \in T : \A s \in T : low <= s
    BY <1>2, <1>4, LowestSlot
  <2>2. T \ {low} \subseteq Above(low)
    BY <1>2, <2>1, HeadAssumption DEF Slots
  <2>3. IsFiniteSet(T) /\ Cardinality(T) \in Nat
    BY <1>2, SlotsAreFinite
  <2>4. IsFiniteSet(Above(low)) /\ Cardinality(Above(low)) \in Nat
    BY SlotsAreFinite
  <2>5. Cardinality(T \ {low}) <= Cardinality(Above(low))
    BY <2>2, <2>4, FS_Subset
  <2>6. Cardinality(T \ {low}) = Cardinality(T) - 1
    BY <2>1, <2>3, FS_RemoveElement
  <2>7. Cardinality(Above(low)) < HistoryLimit
    BY <1>1, <2>1
  <2>8. Cardinality(T) <= HistoryLimit
    <3> HIDE DEF T, D, Above
    <3> QED BY <2>3, <2>4, <2>5, <2>6, <2>7, HeadAssumption
  <2> QED BY <1>2, <2>8
<1> QED BY <1>3, <1>4

\* trim never gives up the highest slot.
LEMMA TrimKeepsHighest ==
    ASSUME NEW history, DOMAIN history \subseteq Slots,
           NEW top \in DOMAIN history, \A s \in DOMAIN history : s <= top
    PROVE  top \in DOMAIN trim(history)
<1>1. {other \in DOMAIN history : other > top} = {}
  BY HeadAssumption DEF Slots
<1>2. Cardinality({other \in DOMAIN history : other > top}) < HistoryLimit
  BY <1>1, FS_EmptySet, HeadAssumption
<1> QED BY <1>2 DEF trim

\* A comparison takes two targets.
LEMMA AnotherTarget ==
    ASSUME NEW t \in Targets
    PROVE  \E u \in Targets : u # t
<1>1. SUFFICES ASSUME \A u \in Targets : u = t PROVE FALSE
  OBVIOUS
<1>2. Targets = {t}
  BY <1>1
<1>3. Cardinality(Targets) = 1
  BY <1>2, FS_Singleton
<1> QED BY <1>3, HeadAssumption

-----------------------------------------------------------------------------
(* Compare *)

\* The slot's state with a head reported in it.  A slot that is not in the history
\* is not complete after one report, whichever target made it.
LEMMA ReportedState ==
    ASSUME Shape, NEW t \in Targets, NEW head \in [slot : Slots, root : Roots]
    PROVE  /\ Reported(t, head) \in SlotState
           /\ Complete(Reported(t, head).roots) => head.slot \in DOMAIN slots
<1> DEFINE state == IF head.slot \in DOMAIN slots THEN slots[head.slot]
                    ELSE [roots |-> NoRoots, last |-> None]
<1>1. state \in SlotState
  BY DEF Shape, SlotState, NoRoots
<1>2. Reported(t, head) = [state EXCEPT !.roots[t] = head.root]
  BY DEF Reported
<1>3. Reported(t, head) \in SlotState
  <2> HIDE DEF state
  <2> QED BY <1>1, <1>2 DEF SlotState
<1>4. ASSUME head.slot \notin DOMAIN slots
      PROVE  ~Complete(Reported(t, head).roots)
  <2>1. PICK u \in Targets : u # t
    BY AnotherTarget
  <2>2. Reported(t, head).roots[u] = None
    BY <1>2, <1>4, <2>1 DEF NoRoots
  <2> QED BY <2>2 DEF Complete
<1> QED BY <1>3, <1>4

\* A complete state holds a root of every target.
LEMMA CompleteRoots ==
    ASSUME NEW state \in SlotState, Complete(state.roots)
    PROVE  state.roots \in [Targets -> Roots]
BY DEF SlotState, Complete

\* Put and trim keep the shape of the history, and trim takes away only.
LEMMA PutState ==
    ASSUME Shape, NEW slot \in Slots, NEW state \in SlotState
    PROVE  /\ DOMAIN Put(slot, state) = DOMAIN slots \cup {slot}
           /\ DOMAIN Put(slot, state) \subseteq Slots
           /\ \A s \in DOMAIN Put(slot, state) :
                 Put(slot, state)[s] = IF s = slot THEN state ELSE slots[s]
           /\ Put(slot, state) \in [DOMAIN Put(slot, state) -> SlotState]
BY DEF Put, Shape

LEMMA TrimState ==
    ASSUME NEW history, history \in [DOMAIN history -> SlotState]
    PROVE  /\ trim(history) \in [DOMAIN trim(history) -> SlotState]
           /\ \A s \in DOMAIN trim(history) :
                 s \in DOMAIN history /\ trim(history)[s] = history[s]
BY DEF trim

\* What one Compare does to the history: it puts in a state that has been compared
\* if it is complete, and trims unless the slot was in the history already.
LEMMA CompareStep ==
    ASSUME Shape, NEW t \in Targets, NEW head \in [slot : Slots, root : Roots],
           Compare(t, head)
    PROVE  \E state \in SlotState :
              /\ Complete(state.roots) => state.last = state.roots
              /\ \/ slots' = trim(Put(head.slot, state))
                 \/ slots' = Put(head.slot, state) /\ head.slot \in DOMAIN slots
<1> DEFINE state == Reported(t, head)
<1> DEFINE compared == [state EXCEPT !.last = state.roots]
<1>1. state \in SlotState /\ (Complete(state.roots) => head.slot \in DOMAIN slots)
  BY ReportedState
<1>2. CASE Complete(state.roots) /\ state.roots # state.last
  <2>1. slots' = trim(Put(head.slot, compared))
    BY <1>2 DEF Compare
  <2>2. compared \in SlotState /\ compared.last = compared.roots
    <3> HIDE DEF state
    <3>1. state.roots \in [Targets -> Roots]
      BY <1>1, <1>2, CompleteRoots
    <3> QED BY <1>1, <3>1 DEF SlotState
  <2> QED BY <2>1, <2>2
<1>3. CASE Complete(state.roots) /\ state.roots = state.last
  <2>1. slots' = Put(head.slot, state)
    BY <1>3 DEF Compare
  <2> QED BY <1>1, <1>3, <2>1
<1>4. CASE ~Complete(state.roots)
  <2>1. slots' = trim(Put(head.slot, state))
    BY <1>4 DEF Compare
  <2> QED BY <1>1, <1>4, <2>1
<1> QED BY <1>2, <1>3, <1>4

\* And what it hands to the loop: nothing, or the complete roots of the slot.
LEMMA CompareHandsOver ==
    ASSUME Shape, NEW t \in Targets, NEW head \in [slot : Slots, root : Roots],
           Compare(t, head)
    PROVE  loop' \in [Targets -> Places]
<1> DEFINE state == Reported(t, head)
<1>1. state \in SlotState
  BY ReportedState
<1>2. CASE Complete(state.roots) /\ state.roots # state.last
  <2>1. loop' = [loop EXCEPT ![t] = [at |-> "agreement", slot |-> head.slot,
                                     roots |-> state.roots]]
    BY <1>2 DEF Compare
  <2>2. state.roots \in [Targets -> Roots]
    BY <1>1, <1>2, CompleteRoots
  <2> HIDE DEF state
  <2>3. [at |-> "agreement", slot |-> head.slot, roots |-> state.roots] \in Places
    BY <2>2 DEF Places
  <2> QED BY <2>1, <2>3 DEF Shape
<1>3. CASE ~(Complete(state.roots) /\ state.roots # state.last)
  <2>1. loop' = [loop EXCEPT ![t] = Idle]
    BY <1>3 DEF Compare
  <2> QED BY <2>1 DEF Shape, Places
<1> QED BY <1>2, <1>3

-----------------------------------------------------------------------------
(* The invariant *)

\* Observe keeps what is said of the history and of the newest slot.
LEMMA ObserveKeepsHistory ==
    ASSUME Shape, NewestInv, HistoryInv, CompleteIsCompared,
           NEW t \in Targets, Observe(t)
    PROVE  (Shape /\ NewestInv /\ HistoryInv /\ CompleteIsCompared)'
<1> DEFINE head == [slot |-> loop[t].slot, root |-> loop[t].root]
<1>1. head \in [slot : Slots, root : Roots]
  BY DEF Observe, Shape, Places, Idle
<1>2. Compare(t, head) /\ newest' = IF head.slot > newest THEN head.slot ELSE newest
  BY DEF Observe
<1> HIDE DEF head
<1>3. PICK state \in SlotState :
         /\ Complete(state.roots) => state.last = state.roots
         /\ \/ slots' = trim(Put(head.slot, state))
            \/ slots' = Put(head.slot, state) /\ head.slot \in DOMAIN slots
  BY <1>1, <1>2, CompareStep
<1> DEFINE put == Put(head.slot, state)
<1>4. /\ head.slot \in Slots
      /\ DOMAIN put = DOMAIN slots \cup {head.slot}
      /\ DOMAIN put \subseteq Slots
      /\ \A s \in DOMAIN put : put[s] = IF s = head.slot THEN state ELSE slots[s]
      /\ put \in [DOMAIN put -> SlotState]
  BY <1>1, PutState
<1>5. \A s \in DOMAIN put : Complete(put[s].roots) => put[s].last = put[s].roots
  BY <1>3, <1>4 DEF CompleteIsCompared
<1>6. newest' \in Slots /\ newest' \in DOMAIN put /\ \A s \in DOMAIN put : s <= newest'
  <2> DEFINE D == DOMAIN slots
  <2>1. /\ D \subseteq Nat /\ newest \in Nat /\ head.slot \in Nat
        /\ \A s \in D : s <= newest
        /\ D = {} => newest = 0
        /\ D # {} => newest \in D
    BY <1>4, HeadAssumption DEF Shape, NewestInv, Slots
  <2>2. DOMAIN put = D \cup {head.slot}
    BY <1>4
  <2>3. newest' \in Slots
    BY <1>2, <1>4 DEF Shape
  <2> HIDE DEF D, put
  <2>4. newest' \in D \cup {head.slot}
    BY <1>2, <2>1
  <2>5. \A s \in D \cup {head.slot} : s <= newest'
    BY <1>2, <2>1
  <2> QED BY <2>2, <2>3, <2>4, <2>5
<1>7. loop' \in [Targets -> Places] /\ up' \in [Targets -> {None, 0, 1}]
  BY <1>1, <1>2, CompareHandsOver DEF Observe, Shape
<1>8. CASE slots' = trim(put)
  <2> HIDE DEF put
  <2>1. /\ slots' \in [DOMAIN slots' -> SlotState]
        /\ \A s \in DOMAIN slots' : s \in DOMAIN put /\ slots'[s] = put[s]
    BY <1>4, <1>8, TrimState
  <2>2. Cardinality(DOMAIN slots') <= HistoryLimit
    BY <1>4, <1>8, TrimIsWithinLimit
  <2>3. newest' \in DOMAIN slots'
    BY <1>4, <1>6, <1>8, TrimKeepsHighest
  <2>4. Shape'
    BY <1>4, <1>6, <1>7, <2>1 DEF Shape
  <2>5. NewestInv'
    BY <1>6, <2>1, <2>3 DEF NewestInv
  <2>6. CompleteIsCompared'
    BY <1>5, <2>1, Zenon DEF CompleteIsCompared, Complete
  <2> QED BY <2>2, <2>4, <2>5, <2>6 DEF HistoryInv
<1>9. CASE slots' = put /\ head.slot \in DOMAIN slots
  <2> HIDE DEF put
  <2>1. DOMAIN slots' = DOMAIN slots
    BY <1>4, <1>9
  <2>2. Shape'
    BY <1>4, <1>6, <1>7, <1>9 DEF Shape
  <2>3. NewestInv'
    BY <1>6, <1>9 DEF NewestInv
  <2>4. CompleteIsCompared'
    BY <1>5, <1>9, Zenon DEF CompleteIsCompared, Complete
  <2> QED BY <2>1, <2>2, <2>3, <2>4 DEF HistoryInv
<1> QED BY <1>3, <1>8, <1>9

\* Every other step leaves the history alone and moves one loop to a place that
\* fits what it has read.
LEMMA OthersKeepHistory ==
    ASSUME Shape, NewestInv, HistoryInv, CompleteIsCompared,
           UNCHANGED <<slots, newest>>, loop' \in [Targets -> Places],
           up' \in [Targets -> {None, 0, 1}]
    PROVE  (Shape /\ NewestInv /\ HistoryInv /\ CompleteIsCompared)'
<1>1. slots' = slots /\ newest' = newest
  OBVIOUS
<1>2. Shape' /\ NewestInv' /\ HistoryInv'
  BY <1>1 DEF Shape, NewestInv, HistoryInv
<1>3. CompleteIsCompared'
  BY <1>1 DEF CompleteIsCompared, Complete
<1> QED BY <1>2, <1>3

LEMMA LoopStaysInPlaces ==
    ASSUME Shape, NEW t \in Targets,
           RecordBeacon(t) \/ SetAgreement(t) \/ SetComparisonSlot(t)
              \/ ClearAgreement(t) \/ ClearComparisonSlot(t) \/ SetDown(t)
    PROVE  /\ UNCHANGED <<slots, newest>> /\ loop' \in [Targets -> Places]
           /\ up' \in [Targets -> {None, 0, 1}]
<1>1. CASE RecordBeacon(t)
  <2>1. PICK slot \in Slots, root \in Roots :
           loop' = [loop EXCEPT ![t] = [at |-> "observe", slot |-> slot, root |-> root]]
    BY <1>1 DEF RecordBeacon
  <2>2. [at |-> "observe", slot |-> slot, root |-> root] \in Places
    BY DEF Places
  <2> QED BY <1>1, <2>1, <2>2 DEF RecordBeacon, Shape
<1>2. CASE SetAgreement(t)
  <2>1. [at |-> "slot", slot |-> loop[t].slot] \in Places
    BY <1>2 DEF SetAgreement, Shape, Places, Idle
  <2> QED BY <1>2, <2>1 DEF SetAgreement, Shape
<1>3. CASE SetComparisonSlot(t) \/ SetDown(t)
  <2>1. Idle \in Places
    BY DEF Places
  <2> QED BY <1>3, <2>1 DEF SetComparisonSlot, SetDown, Shape
<1>4. CASE ClearAgreement(t) \/ ClearComparisonSlot(t)
  <2>1. [at |-> "clear"] \in Places /\ [at |-> "down"] \in Places
    BY DEF Places
  <2> QED BY <1>4, <2>1 DEF ClearAgreement, ClearComparisonSlot, Shape
<1> QED BY <1>1, <1>2, <1>3, <1>4

\* A loop that moves on without clearing a gauge or marking its target as down keeps
\* whatever it answers for.
LEMMA MovingOnKeepsOutage ==
    ASSUME OutageInv, NEW t \in Targets, up[t] = 1, UNCHANGED up,
           \A u \in Targets : u # t => loop'[u] = loop[u],
           loop'[t].at \notin {"clear", "down"}
    PROVE  OutageInv'
<1>1. \A u \in Targets : loop'[u].at \in {"observe", "agreement", "slot"} => up'[u] = 1
  BY Zenon DEF OutageInv
<1>2. up'[t] = 1 /\ loop'[t].at \notin {"clear", "down"} /\ loop'[t].at # "down"
  OBVIOUS
<1> QED BY <1>1, <1>2, Zenon DEF OutageInv

\* What one step of a loop does to the gauges and to the loops that answer for them.
LEMMA LoopKeepsOutage ==
    ASSUME Shape, OutageInv, NEW t \in Targets, TargetLoop(t)
    PROVE  OutageInv'
<1>0. loop \in [Targets -> Places] /\ up \in [Targets -> {None, 0, 1}]
  BY DEF Shape
<1>1. CASE RecordBeacon(t)
  <2>1. /\ loop'[t].at = "observe" /\ up'[t] = 1
        /\ \A u \in Targets : u # t => loop'[u] = loop[u] /\ up'[u] = up[u]
    BY <1>0, <1>1 DEF RecordBeacon
  <2>2. loop'[t].at \notin {"clear", "down"}
    BY <2>1
  <2>3. agreement' = agreement /\ comparisonSlot' = comparisonSlot
    BY <1>1 DEF RecordBeacon
  <2> QED BY <2>1, <2>2, <2>3, Zenon DEF OutageInv
<1>2. CASE Observe(t) \/ SetAgreement(t) \/ SetComparisonSlot(t)
  <2>1. loop[t].at \in {"observe", "agreement", "slot"}
    BY <1>2 DEF Observe, SetAgreement, SetComparisonSlot
  <2>2. up[t] = 1 /\ up' = up
    BY <1>2, <2>1 DEF OutageInv, Observe, SetAgreement, SetComparisonSlot
  <2>3. /\ loop'[t].at \in {"idle", "agreement", "slot"}
        /\ \A u \in Targets : u # t => loop'[u] = loop[u]
    <3>1. CASE Observe(t)
      BY <1>0, <3>1 DEF Observe, Compare, Idle
    <3>2. CASE SetAgreement(t) \/ SetComparisonSlot(t)
      BY <1>0, <3>2 DEF SetAgreement, SetComparisonSlot, Idle
    <3> QED BY <1>2, <3>1, <3>2
  <2>4. loop'[t].at \notin {"clear", "down"}
    BY <2>3
  <2> QED BY <2>2, <2>3, <2>4, MovingOnKeepsOutage
<1>3. CASE ClearAgreement(t)
  <2>1. agreement' = None /\ comparisonSlot' = comparisonSlot /\ up' = up
    BY <1>3 DEF ClearAgreement
  <2>2. /\ loop'[t].at = "clear" /\ loop[t].at = "idle"
        /\ \A u \in Targets : u # t => loop'[u] = loop[u]
    BY <1>0, <1>3 DEF ClearAgreement, Idle
  <2>3. loop'[t].at # "down" /\ loop'[t].at \notin {"observe", "agreement", "slot"}
    BY <2>2
  <2> QED BY <2>1, <2>2, <2>3, Zenon DEF OutageInv
<1>4. CASE ClearComparisonSlot(t)
  <2>1. comparisonSlot' = None /\ agreement' = agreement /\ up' = up
    BY <1>4 DEF ClearComparisonSlot
  <2>2. /\ loop'[t].at = "down" /\ loop[t].at = "clear"
        /\ \A u \in Targets : u # t => loop'[u] = loop[u]
    BY <1>0, <1>4 DEF ClearComparisonSlot
  <2>3. loop[t].at \in {"clear", "down"} /\ loop'[t].at \notin {"observe", "agreement", "slot"}
    BY <2>2
  <2> QED BY <2>1, <2>2, <2>3, Zenon DEF OutageInv
<1>5. CASE SetDown(t)
  <2>1. comparisonSlot' = comparisonSlot /\ agreement' = agreement
    BY <1>5 DEF SetDown
  <2>2. /\ loop'[t].at = "idle" /\ loop[t].at = "down"
        /\ \A u \in Targets : u # t => loop'[u] = loop[u] /\ up'[u] = up[u]
    BY <1>0, <1>5 DEF SetDown, Idle
  <2>3. loop[t].at \in {"clear", "down"} /\ loop'[t].at \notin {"observe", "agreement", "slot"}
    BY <2>2
  <2> QED BY <2>1, <2>2, <2>3, Zenon DEF OutageInv
<1> QED BY <1>1, <1>2, <1>3, <1>4, <1>5 DEF TargetLoop

LEMMA InitInv == Init => IInv
<1> SUFFICES ASSUME Init PROVE IInv
  OBVIOUS
<1>1. DOMAIN slots = {} /\ newest = 0 /\ loop = [t \in Targets |-> Idle]
  BY DEF Init
<1>2. slots \in [DOMAIN slots -> SlotState]
  BY DEF Init
<1>3. Shape
  BY <1>1, <1>2, HeadAssumption DEF Init, Shape, Slots, Places
<1>4. NewestInv /\ CompleteIsCompared
  BY <1>1 DEF NewestInv, CompleteIsCompared
<1>5. HistoryInv
  BY <1>1, FS_EmptySet, HeadAssumption DEF HistoryInv
<1>6. OutageInv
  <2>1. agreement = None /\ comparisonSlot = None
    BY DEF Init
  <2>2. \A t \in Targets : loop[t].at \notin {"observe", "agreement", "slot"}
    BY <1>1 DEF Idle
  <2> QED BY <2>1, <2>2, Zenon DEF OutageInv
<1> QED BY <1>3, <1>4, <1>5, <1>6 DEF IInv

LEMMA NextInv == IInv /\ [Next]_vars => IInv'
<1> SUFFICES ASSUME IInv, [Next]_vars PROVE IInv'
  OBVIOUS
<1> USE DEF IInv
<1>1. CASE UNCHANGED vars
  <2>1. (Shape /\ NewestInv /\ HistoryInv /\ CompleteIsCompared)'
    BY <1>1, OthersKeepHistory DEF vars, Shape
  <2>2. OutageInv'
    BY <1>1, Zenon DEF vars, OutageInv
  <2> QED BY <2>1, <2>2
<1>2. ASSUME NEW t \in Targets, TargetLoop(t) PROVE IInv'
  <2>1. (Shape /\ NewestInv /\ HistoryInv /\ CompleteIsCompared)'
    <3>1. CASE Observe(t)
      BY <3>1, ObserveKeepsHistory
    <3>2. CASE ~Observe(t)
      BY <1>2, <3>2, LoopStaysInPlaces, OthersKeepHistory DEF TargetLoop
    <3> QED BY <3>1, <3>2
  <2>2. OutageInv'
    BY <1>2, LoopKeepsOutage
  <2> QED BY <2>1, <2>2
<1> QED BY <1>1, <1>2 DEF Next, Over

\* The inductive invariant holds of every state of the loops and the comparator.
THEOREM InvHolds == Spec => []IInv
BY InitInv, NextInv, PTL DEF Spec

\* HeadComparator's history is bounded and keeps the newest slot, for any limit of
\* at least 2 and whatever old heads lagging targets report.
THEOREM HistoryIsBounded == Spec => []HistoryKeepsNewest
<1>1. IInv => HistoryKeepsNewest
  BY DEF IInv, HistoryInv, NewestInv, HistoryKeepsNewest
<1> QED BY <1>1, InvHolds, PTL

\* Observe overlooks no disagreement: a slot that every target has reported was
\* compared with the roots they now report, for any number of targets.
THEOREM NoDisagreementIsOverlooked == Spec => []CompleteIsCompared
<1>1. IInv => CompleteIsCompared
  BY DEF IInv
<1> QED BY <1>1, InvHolds, PTL

\* A scrape of the metrics that shows no target up shows no comparison either, for
\* any number of targets and however their publications and failures overlap:
\* RecordPollFailure marks a target as down only after it has cleared both gauges.
THEOREM OutageIsNotBridged == Spec => []OutageShowsNoComparison
<1>1. IInv => OutageShowsNoComparison
  BY Zenon DEF IInv, OutageInv, OutageShowsNoComparison
<1> QED BY <1>1, InvHolds, PTL
=============================================================================
