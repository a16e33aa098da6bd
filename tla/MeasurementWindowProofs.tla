---------------------- MODULE MeasurementWindowProofs -----------------------
(***************************************************************************)
(* When Run acts, proved for any targets, lengths of slots and epochs,     *)
(* durations and delays: the four properties of MeasurementWindow.  The    *)
(* first three need no assumption on the timing beyond the module's; the   *)
(* last one needs a window that is longer than the tolerance.              *)
(***************************************************************************)
EXTENDS MeasurementWindow, WellFoundedInduction, TLAPS

Obs == [at : Nat, epoch : Nat, head : Targets \cup {"common"}]

\* The stages after Apply has returned, after the first observation of the window,
\* and after its last one.
WindowOver == {"revert", "recovery", "stop", "done"}

WindowOpen == {"window"} \cup WindowOver

Applied == {"injected"} \cup WindowOpen

Shape ==
    /\ now \in Nat
    /\ finalized \in [Targets -> Nat]
    /\ inflight \in [Targets -> Obs \cup {NoObservation}]
    /\ beacon \in [Targets -> SUBSET Obs]
    /\ condition \in {"control", "fault"}
    /\ startSlot \in Nat
    /\ pc \in {"apply", "injected", "revert", "recovery"} => condition = "fault"

\* The observations of a target are recorded in the order in which they are made.
OrderInv ==
    \A t \in Targets :
        /\ \A o \in beacon[t] : o.at <= now
        /\ inflight[t] # NoObservation =>
              inflight[t].at <= now /\ \A o \in beacon[t] : o.at <= inflight[t].at

\* The ends of the window are recorded observations of its first and last slot.
EndsInv ==
    /\ pc \in WindowOpen => \A t \in Targets :
          initial[t] \in beacon[t] /\ SlotOf(initial[t].at) = startSlot
    /\ pc \in WindowOver => \A t \in Targets :
          ending[t] \in beacon[t] /\ SlotOf(ending[t].at) = endSlot

\* There is no partition before Apply is called; the object is created no earlier
\* than in the slot before the window, and is injected when Apply returns.
ApplyInv ==
    /\ pc \in {"specs", "boundary"} => injectedAt = Never /\ healedAt = Never
    /\ injectedAt = Never \/ injectedAt \in 0 .. now
    /\ condition = "fault" /\ pc \in {"apply"} \cup Applied =>
          createdAt \in Nat /\ (startSlot - 1) * TicksPerSlot <= createdAt
    /\ condition = "fault" /\ pc \in Applied => injectedAt # Never

\* It is healed by its deadman or, once the window is over, by Revert.
HealInv ==
    /\ healedAt = Never \/ healedAt \in 0 .. now
    /\ condition = "fault" /\ pc \in {"apply"} \cup Applied /\ healedAt # Never =>
          \/ createdAt + deadmanTTL <= healedAt
          \/ pc \in WindowOver /\ \A t \in Targets : ending[t].at <= healedAt

\* An observation that was made before the injection, or shows no partition
\* although there was one.
Unaffected(t, o) ==
    \/ o.at < injectedAt
    \/ o.head # t /\ (healedAt = Never \/ o.at < healedAt)

\* Such an observation of a slot behind the first one can only be recorded for a
\* target that has missed the first slot.
BoundaryInv ==
    condition = "fault" /\ pc \in Applied =>
        \A t \in Targets :
            \A o \in beacon[t] \cup ({inflight[t]} \ {NoObservation}) :
                SlotOf(o.at) > startSlot /\ Unaffected(t, o) => ~observedAt(t, startSlot)

\* When the removal is noted the partition has been healed, and no slot after that
\* moment has been recorded.
RecoveryInv ==
    condition = "fault" /\ pc \in {"recovery", "stop", "done"} =>
        /\ removedAt \in Nat
        /\ healedAt # Never /\ healedAt <= removedAt
        /\ removalSlot \in Int /\ removalSlot <= SlotOf(removedAt)

IInv == Shape /\ OrderInv /\ EndsInv /\ ApplyInv /\ HealInv /\ BoundaryInv /\ RecoveryInv

-----------------------------------------------------------------------------
(* Ticks and slots *)

LEMMA SlotBounds ==
    ASSUME NEW x \in Int
    PROVE  /\ SlotOf(x) \in Int
           /\ SlotOf(x) * TicksPerSlot <= x
           /\ x < SlotOf(x) * TicksPerSlot + TicksPerSlot
BY WindowAssumption DEF SlotOf

LEMMA QuotientMonotone ==
    ASSUME NEW k \in Nat \ {0}, NEW x \in Int, NEW y \in Int, x <= y,
           NEW a \in Int, a * k <= x, x < a * k + k,
           NEW b \in Int, b * k <= y, y < b * k + k
    PROVE  a <= b
BY Z3

\* A later tick is in the same slot or in a later one.
LEMMA SlotMonotone ==
    ASSUME NEW x \in Int, NEW y \in Int, x <= y
    PROVE  SlotOf(x) <= SlotOf(y)
<1> DEFINE a == SlotOf(x)
<1> DEFINE b == SlotOf(y)
<1>1. /\ a \in Int /\ a * TicksPerSlot <= x /\ x < a * TicksPerSlot + TicksPerSlot
      /\ b \in Int /\ b * TicksPerSlot <= y /\ y < b * TicksPerSlot + TicksPerSlot
  BY SlotBounds
<1> HIDE DEF a, b
<1>2. a <= b
  BY <1>1, WindowAssumption, QuotientMonotone
<1> QED BY <1>2 DEF a, b

LEMMA SlotOfNat ==
    ASSUME NEW x \in Nat
    PROVE  SlotOf(x) \in Nat
<1>1. SlotOf(0) = 0
  BY WindowAssumption DEF SlotOf
<1> QED BY <1>1, SlotMonotone, SlotBounds

\* The deadman of an object that was created no earlier than in slot s - 1 does
\* not expire before the end of slot s + window.
LEMMA DeadmanOutlasts ==
    ASSUME NEW k \in Nat \ {0}, NEW spe \in Nat \ {0}, NEW dur \in Nat,
           NEW s \in Int, NEW created \in Int, (s - 1) * k <= created
    PROVE  (s + dur * spe) * k + k <= created + (dur + 2) * spe * k
<1>1. (s + dur * spe) * k + k = (s - 1) * k + dur * spe * k + 2 * k
  BY Z3
<1>2. (dur + 2) * spe * k = dur * spe * k + 2 * spe * k
  BY Z3
<1>3. spe * k >= k
  BY Z3
<1> QED BY <1>1, <1>2, <1>3, Z3

LEMMA WindowIsWithinDeadman ==
    ASSUME Shape, NEW created \in Nat, (startSlot - 1) * TicksPerSlot <= created,
           NEW x \in Int, SlotOf(x) <= endSlot
    PROVE  x < created + deadmanTTL
<1> DEFINE e == startSlot + DurationEpochs * SlotsPerEpoch
<1> DEFINE a == SlotOf(x)
<1>1. e \in Int /\ a \in Int /\ a <= e
  BY SlotBounds, WindowAssumption DEF Shape, endSlot
<1>2. x < a * TicksPerSlot + TicksPerSlot
  BY SlotBounds
<1>3. e * TicksPerSlot + TicksPerSlot
         <= created + (DurationEpochs + 2) * SlotsPerEpoch * TicksPerSlot
  BY WindowAssumption, DeadmanOutlasts DEF Shape
<1>4. deadmanTTL = (DurationEpochs + 2) * SlotsPerEpoch * TicksPerSlot
  BY DEF deadmanTTL, Ticks
<1>5. deadmanTTL \in Int
  BY WindowAssumption DEF deadmanTTL, Ticks
<1> HIDE DEF a, e
<1>6. a * TicksPerSlot <= e * TicksPerSlot
  BY <1>1, WindowAssumption, Z3
<1>7. a * TicksPerSlot \in Int /\ e * TicksPerSlot \in Int
  BY <1>1, WindowAssumption
<1> DEFINE p == a * TicksPerSlot
<1> DEFINE q == e * TicksPerSlot
<1>8. /\ p \in Int /\ q \in Int /\ p <= q /\ x < p + TicksPerSlot
      /\ q + TicksPerSlot <= created + deadmanTTL
  BY <1>2, <1>3, <1>4, <1>6, <1>7
<1> HIDE DEF p, q
<1> QED BY <1>5, <1>8, WindowAssumption

-----------------------------------------------------------------------------
(* The newest observation *)

\* A set of integers that is not empty and bounded has a greatest element.
LEMMA Greatest ==
    ASSUME NEW S \in SUBSET Int, S # {}, NEW b \in Int, \A x \in S : x <= b
    PROVE  \E x \in S : \A y \in S : y <= x
<1> DEFINE T == {b - x : x \in S}
<1>0. \A x \in S : x \in Int /\ b - x \in Nat
  OBVIOUS
<1>1. T \subseteq Nat /\ T # {}
  BY <1>0
<1>2. PICK d \in T : \A e \in T : ~(<<e, d>> \in OpToRel(<, Nat))
  BY <1>1, NatLessThanWellFounded, WFMin, Zenon
<1>3. \A e \in T : ~(e < d)
  BY <1>1, <1>2 DEF OpToRel
<1>4. PICK x \in S : d = b - x
  OBVIOUS
<1>5. ASSUME NEW y \in S PROVE y <= x
  <2>1. b - y \in T
    OBVIOUS
  <2>2. ~(b - y < d)
    BY <1>3, <2>1
  <2> HIDE DEF T
  <2>3. x \in Int /\ y \in Int /\ ~(b - y < b - x)
    BY <1>4, <2>2
  <2> QED BY <2>3
<1> QED BY <1>5

\* Newest is an observation of the set and none is later.
LEMMA NewestObservation ==
    ASSUME NEW S \in SUBSET Obs, S # {}, NEW b \in Int, \A o \in S : o.at <= b
    PROVE  Newest(S) \in S /\ \A o \in S : o.at <= Newest(S).at
<1> DEFINE A == {o.at : o \in S}
<1>1. A \in SUBSET Int /\ A # {} /\ \A x \in A : x <= b
  BY DEF Obs
<1> HIDE DEF A
<1>2. PICK x \in A : \A y \in A : y <= x
  BY <1>1, Greatest
<1> USE DEF A
<1>3. PICK o \in S : o.at = x
  BY <1>2
<1>4. \A other \in S : other.at <= o.at
  BY <1>2, <1>3
<1>5. \E n \in S : \A other \in S : other.at <= n.at
  BY <1>4
<1> QED BY <1>5 DEF Newest

\* The latest observation of a target, and the one observationsAtSlotMap takes.
LEMMA LatestObservation ==
    ASSUME Shape, OrderInv, NEW t \in Targets, beacon[t] # {}
    PROVE  latest(t) \in beacon[t] /\ \A o \in beacon[t] : o.at <= latest(t).at
<1>1. beacon[t] \in SUBSET Obs /\ now \in Int /\ \A o \in beacon[t] : o.at <= now
  BY DEF Shape, OrderInv
<1> QED BY <1>1, NewestObservation DEF latest

LEMMA ObservationAtSlot ==
    ASSUME Shape, OrderInv, NEW t \in Targets, NEW slot, observedAt(t, slot)
    PROVE  /\ observationAtSlot(t, slot) \in beacon[t]
           /\ SlotOf(observationAtSlot(t, slot).at) = slot
<1> DEFINE S == {o \in beacon[t] : SlotOf(o.at) = slot}
<1>1. S \in SUBSET Obs /\ S # {} /\ now \in Int /\ \A o \in S : o.at <= now
  BY DEF Shape, OrderInv, observedAt
<1>2. Newest(S) \in S
  BY <1>1, NewestObservation
<1> QED BY <1>2 DEF observationAtSlot

-----------------------------------------------------------------------------
(* Steps of the environment *)

\* Time passes, nodes finalize, polls fail: nothing is recorded.
LEMMA TimeKeepsInv ==
    ASSUME IInv, UNCHANGED <<inflight, beacon, pc, condition, partition, window>>,
           now' \in Nat, now <= now', finalized' \in [Targets -> Nat]
    PROVE  IInv'
<1> USE DEF IInv
<1>1. /\ inflight' = inflight /\ beacon' = beacon /\ pc' = pc /\ condition' = condition
      /\ createdAt' = createdAt /\ injectedAt' = injectedAt /\ healedAt' = healedAt
      /\ startSlot' = startSlot /\ initial' = initial /\ ending' = ending
      /\ removedAt' = removedAt /\ removalSlot' = removalSlot
  BY DEF partition, window
<1>2. endSlot' = endSlot
  BY <1>1 DEF endSlot
<1>3. Shape'
  BY <1>1 DEF Shape
<1>4. OrderInv'
  <2> SUFFICES ASSUME NEW t \in Targets
               PROVE  /\ \A o \in beacon[t] : o.at <= now'
                      /\ inflight[t] # NoObservation =>
                            inflight[t].at <= now' /\ \A o \in beacon[t] : o.at <= inflight[t].at
    BY <1>1 DEF OrderInv
  <2>1. \A o \in beacon[t] : o.at \in Nat /\ o.at <= now
    BY DEF Shape, OrderInv, Obs
  <2>2. inflight[t] # NoObservation => inflight[t].at \in Nat /\ inflight[t].at <= now
    BY DEF Shape, OrderInv, Obs
  <2> QED BY <2>1, <2>2 DEF OrderInv, Shape
<1>5. EndsInv'
  BY <1>1, <1>2 DEF EndsInv
<1>6. ApplyInv'
  BY <1>1 DEF ApplyInv, Shape
<1>7. HealInv'
  BY <1>1 DEF HealInv, Shape
<1>8. BoundaryInv'
  BY <1>1 DEF BoundaryInv, Unaffected, observedAt
<1>9. RecoveryInv'
  BY <1>1, <1>2 DEF RecoveryInv
<1> QED BY <1>3, <1>4, <1>5, <1>6, <1>7, <1>8, <1>9

\* A poll that is made while the partition is in force shows it.
LEMMA FetchKeepsInv ==
    ASSUME IInv, NEW t \in Targets, Fetch(t)
    PROVE  IInv'
<1> USE DEF IInv
<1> DEFINE new == [at |-> now, epoch |-> finalized[t], head |-> HeadOf(t)]
<1>1. /\ now' = now /\ finalized' = finalized /\ beacon' = beacon /\ pc' = pc
      /\ condition' = condition
      /\ createdAt' = createdAt /\ injectedAt' = injectedAt /\ healedAt' = healedAt
      /\ startSlot' = startSlot /\ initial' = initial /\ ending' = ending
      /\ removedAt' = removedAt /\ removalSlot' = removalSlot
      /\ inflight' = [inflight EXCEPT ![t] = new]
  BY DEF Fetch, partition, window
<1>2. endSlot' = endSlot
  BY <1>1 DEF endSlot
<1>3. new \in Obs /\ new.at = now /\ new.head = HeadOf(t)
  BY DEF Shape, Obs, HeadOf
<1> HIDE DEF new
<1>4. /\ inflight' \in [Targets -> Obs \cup {NoObservation}] /\ inflight'[t] = new
      /\ \A u \in Targets \ {t} : inflight'[u] = inflight[u]
  BY <1>1, <1>3 DEF Shape
<1>5. Shape'
  BY <1>1, <1>4 DEF Shape
<1>6. OrderInv'
  BY <1>1, <1>3, <1>4 DEF Shape, OrderInv
<1>7. EndsInv'
  BY <1>1, <1>2 DEF EndsInv
<1>8. ApplyInv'
  BY <1>1 DEF ApplyInv
<1>9. HealInv'
  BY <1>1 DEF HealInv
<1>10. BoundaryInv'
  <2> SUFFICES ASSUME condition = "fault", pc \in Applied
               PROVE  \A u \in Targets :
                         \A o \in beacon[u] \cup ({inflight'[u]} \ {NoObservation}) :
                            SlotOf(o.at) > startSlot /\ Unaffected(u, o) =>
                                ~observedAt(u, startSlot)
    BY <1>1 DEF BoundaryInv, Unaffected, observedAt
  <2>1. ~Unaffected(t, new)
    <3>1. injectedAt \in 0 .. now /\ (healedAt = Never \/ healedAt \in 0 .. now)
          /\ injectedAt # Never
      BY DEF ApplyInv, HealInv
    <3>2. healedAt = Never => new.head = t
      BY <1>3, <3>1 DEF HeadOf
    <3>3. healedAt # Never => ~(new.at < healedAt)
      BY <1>3, <3>1 DEF Shape
    <3>4. ~(new.at < injectedAt)
      BY <1>3, <3>1 DEF Shape
    <3> QED BY <3>2, <3>3, <3>4 DEF Unaffected
  <2> QED BY <1>4, <2>1 DEF BoundaryInv
<1>11. RecoveryInv'
  BY <1>1, <1>2 DEF RecoveryInv
<1> QED BY <1>5, <1>6, <1>7, <1>8, <1>9, <1>10, <1>11

\* An observation of the first slot is recorded before any of a later slot is made.
LEMMA RecordKeepsInv ==
    ASSUME IInv, NEW t \in Targets, Record(t)
    PROVE  IInv'
<1> USE DEF IInv
<1> DEFINE new == inflight[t]
<1>1. /\ now' = now /\ finalized' = finalized /\ pc' = pc /\ condition' = condition
      /\ createdAt' = createdAt /\ injectedAt' = injectedAt /\ healedAt' = healedAt
      /\ startSlot' = startSlot /\ initial' = initial /\ ending' = ending
      /\ removedAt' = removedAt /\ removalSlot' = removalSlot
      /\ new # NoObservation
      /\ beacon' = [beacon EXCEPT ![t] = @ \cup {new}]
      /\ inflight' = [inflight EXCEPT ![t] = NoObservation]
  BY DEF Record, partition, window
<1>2. endSlot' = endSlot
  BY <1>1 DEF endSlot
<1>3. new \in Obs /\ new.at <= now /\ \A o \in beacon[t] : o.at <= new.at
  BY <1>1 DEF Shape, OrderInv
<1>4. /\ inflight' \in [Targets -> Obs \cup {NoObservation}]
      /\ inflight'[t] = NoObservation
      /\ \A u \in Targets \ {t} : inflight'[u] = inflight[u]
  BY <1>1 DEF Shape
<1>5. /\ beacon' \in [Targets -> SUBSET Obs]
      /\ beacon'[t] = beacon[t] \cup {new}
      /\ \A u \in Targets \ {t} : beacon'[u] = beacon[u]
  BY <1>1, <1>3 DEF Shape
<1>6. \A u \in Targets : beacon[u] \subseteq beacon'[u]
  BY <1>5
<1>7. Shape'
  BY <1>1, <1>4, <1>5 DEF Shape
<1>8. OrderInv'
  BY <1>1, <1>3, <1>4, <1>5 DEF OrderInv
<1>9. EndsInv'
  BY <1>1, <1>2, <1>6 DEF EndsInv
<1>10. ApplyInv'
  BY <1>1 DEF ApplyInv
<1>11. HealInv'
  BY <1>1 DEF HealInv
<1>12. BoundaryInv'
  <2> SUFFICES ASSUME condition = "fault", pc \in Applied, NEW u \in Targets,
                      NEW o \in beacon'[u] \cup ({inflight'[u]} \ {NoObservation}),
                      SlotOf(o.at) > startSlot, Unaffected(u, o)
               PROVE  ~\E s \in beacon'[u] : SlotOf(s.at) = startSlot
    BY <1>1 DEF BoundaryInv, Unaffected, observedAt
  <2>1. CASE u # t
    BY <1>4, <1>5, <2>1 DEF BoundaryInv, observedAt
  <2>2. CASE u = t
    <3>1. o \in beacon[t] \cup {new}
      BY <1>4, <1>5, <2>2
    <3>2. ~observedAt(t, startSlot)
      BY <1>1, <2>2, <3>1 DEF BoundaryInv
    <3>3. o.at \in Int /\ new.at \in Int /\ o.at <= new.at
      BY <1>3, <3>1 DEF Shape, Obs
    <3>4. SlotOf(o.at) <= SlotOf(new.at) /\ SlotOf(o.at) \in Int /\ SlotOf(new.at) \in Int
      BY <3>3, SlotMonotone, SlotBounds
    <3>5. SlotOf(new.at) # startSlot
      BY <3>4 DEF Shape
    <3> QED BY <1>5, <2>2, <3>2, <3>5 DEF observedAt
  <2> QED BY <2>1, <2>2
<1>13. RecoveryInv'
  BY <1>1, <1>2, <1>6 DEF RecoveryInv
<1> QED BY <1>7, <1>8, <1>9, <1>10, <1>11, <1>12, <1>13

\* The controller injects during Apply.
LEMMA InjectKeepsInv ==
    ASSUME IInv, Inject
    PROVE  IInv'
<1> USE DEF IInv
<1>1. /\ now' = now /\ finalized' = finalized /\ inflight' = inflight /\ beacon' = beacon
      /\ pc' = "apply" /\ pc = "apply" /\ condition' = condition
      /\ createdAt' = createdAt /\ injectedAt' = now /\ healedAt' = healedAt
      /\ startSlot' = startSlot
  BY DEF Inject, environment, window
<1>2. pc' \notin Applied /\ pc' \notin WindowOpen /\ pc' \notin WindowOver
  BY <1>1 DEF Applied, WindowOpen, WindowOver
<1>3. Shape' /\ OrderInv' /\ EndsInv'
  BY <1>1, <1>2 DEF Shape, OrderInv, EndsInv
<1>4. ApplyInv'
  BY <1>1, <1>2 DEF ApplyInv, Shape
<1>5. HealInv'
  BY <1>1, <1>2 DEF HealInv, Applied, WindowOpen, WindowOver
<1>6. BoundaryInv' /\ RecoveryInv'
  BY <1>1, <1>2 DEF BoundaryInv, RecoveryInv
<1> QED BY <1>3, <1>4, <1>5, <1>6

\* The deadman or Revert heals; what was unaffected before it stays the same set.
LEMMA HealKeepsInv ==
    ASSUME IInv, Expire \/ Heal
    PROVE  IInv'
<1> USE DEF IInv
<1>1. /\ now' = now /\ finalized' = finalized /\ inflight' = inflight /\ beacon' = beacon
      /\ pc' = pc /\ condition' = condition
      /\ createdAt' = createdAt /\ injectedAt' = injectedAt
      /\ healedAt = Never /\ healedAt' = now
      /\ startSlot' = startSlot /\ initial' = initial /\ ending' = ending
      /\ removedAt' = removedAt /\ removalSlot' = removalSlot
  BY DEF Expire, Heal, environment, window
<1>2. endSlot' = endSlot
  BY <1>1 DEF endSlot
<1>3. Shape' /\ OrderInv'
  BY <1>1 DEF Shape, OrderInv
<1>4. EndsInv'
  BY <1>1, <1>2 DEF EndsInv
<1>5. ApplyInv'
  <2>1. pc \notin {"specs", "boundary"}
    BY DEF ApplyInv, Expire, Heal
  <2> QED BY <1>1, <2>1 DEF ApplyInv
<1>6. HealInv'
  <2>1. healedAt' \in 0 .. now
    BY <1>1 DEF Shape
  <2>2. CASE Expire
    <3>1. createdAt + deadmanTTL <= now \/ createdAt \notin Nat
      BY <2>2, WindowAssumption DEF Expire, Shape, deadmanTTL, Ticks
    <3> QED BY <1>1, <2>1, <3>1 DEF HealInv, ApplyInv
  <2>3. CASE Heal
    <3>1. pc \in WindowOver
      BY <2>3 DEF Heal, WindowOver
    <3>2. \A t \in Targets : ending[t].at <= now
      BY <3>1 DEF EndsInv, OrderInv
    <3> QED BY <1>1, <2>1, <3>1, <3>2 DEF HealInv
  <2> QED BY <2>2, <2>3
<1>7. BoundaryInv'
  <2> SUFFICES ASSUME condition = "fault", pc \in Applied, NEW t \in Targets,
                      NEW o \in beacon[t] \cup ({inflight[t]} \ {NoObservation}),
                      SlotOf(o.at) > startSlot, Unaffected(t, o)'
               PROVE  ~observedAt(t, startSlot)
    BY <1>1 DEF BoundaryInv, Unaffected, observedAt
  <2>1. Unaffected(t, o)
    BY <1>1 DEF Unaffected
  <2> QED BY <2>1 DEF BoundaryInv
<1>8. RecoveryInv'
  BY <1>1, <1>2 DEF RecoveryInv
<1> QED BY <1>3, <1>4, <1>5, <1>6, <1>7, <1>8

-----------------------------------------------------------------------------
(* Steps of Run *)

\* Run has no influence on what was observed.
LEMMA RunOnlyReads ==
    ASSUME IInv, UNCHANGED <<now, environment, condition>>, startSlot' \in Nat,
           pc' \in {"apply", "injected", "revert", "recovery"} => condition = "fault"
    PROVE  Shape' /\ OrderInv'
BY DEF IInv, Shape, OrderInv, environment

\* A run that is given up claims nothing.
LEMMA FailureKeepsInv ==
    ASSUME IInv, UNCHANGED <<now, environment, condition, partition, startSlot>>,
           pc' \in {"failed", "boundary"}, pc' = "boundary" => pc = "specs"
    PROVE  IInv'
<1> USE DEF IInv
<1>1. /\ now' = now /\ condition' = condition /\ startSlot' = startSlot
      /\ createdAt' = createdAt /\ injectedAt' = injectedAt /\ healedAt' = healedAt
  BY DEF partition
<1>2. pc' \notin {"apply"} \cup Applied /\ pc' \notin WindowOpen /\ pc' \notin WindowOver
  BY DEF Applied, WindowOpen, WindowOver
<1>3. Shape' /\ OrderInv'
  BY <1>1, RunOnlyReads DEF Shape
<1>4. EndsInv' /\ BoundaryInv'
  BY <1>2 DEF EndsInv, BoundaryInv
<1>5. ApplyInv' /\ HealInv'
  BY <1>1, <1>2 DEF ApplyInv, HealInv
<1>6. RecoveryInv'
  BY DEF RecoveryInv
<1> QED BY <1>3, <1>4, <1>5, <1>6

\* The slot before the window has begun when the object is created.
LEMMA CallApplyKeepsInv ==
    ASSUME IInv, CallApply
    PROVE  IInv'
<1> USE DEF IInv
<1>1. PICK preBoundary \in 0 .. SlotOf(now) : startSlot' = preBoundary + 1
  BY DEF CallApply
<1>2. /\ UNCHANGED <<now, environment, condition>> /\ condition = "fault"
      /\ pc = "boundary" /\ pc' = "apply" /\ createdAt' = now
      /\ injectedAt' = injectedAt /\ healedAt' = healedAt
  BY DEF CallApply
<1>3. now \in Nat /\ SlotOf(now) \in Nat
  BY SlotOfNat DEF Shape
<1>4. startSlot' \in Nat /\ startSlot' - 1 = preBoundary /\ preBoundary \in Nat
      /\ preBoundary <= SlotOf(now)
  BY <1>1, <1>3
<1>5. pc' \notin Applied /\ pc' \notin WindowOpen /\ pc' \notin WindowOver
  BY <1>2 DEF Applied, WindowOpen, WindowOver
<1>6. Shape' /\ OrderInv'
  BY <1>2, <1>4, RunOnlyReads
<1>7. EndsInv' /\ BoundaryInv'
  BY <1>5 DEF EndsInv, BoundaryInv
<1>8. preBoundary * TicksPerSlot <= now
  <2> DEFINE s == SlotOf(now)
  <2>1. s * TicksPerSlot <= now /\ s \in Nat /\ preBoundary <= s
    BY <1>3, <1>4, SlotBounds
  <2> HIDE DEF s
  <2>2. preBoundary * TicksPerSlot <= s * TicksPerSlot
    BY <1>4, <2>1, WindowAssumption, Z3
  <2>3. preBoundary * TicksPerSlot \in Int /\ s * TicksPerSlot \in Int
    BY <1>4, <2>1, WindowAssumption
  <2> QED BY <1>3, <2>1, <2>2, <2>3
<1>9. injectedAt = Never /\ healedAt = Never
  BY <1>2 DEF ApplyInv
<1>10. ApplyInv'
  BY <1>2, <1>3, <1>4, <1>5, <1>8, <1>9 DEF ApplyInv
<1>11. HealInv'
  BY <1>2, <1>9 DEF HealInv
<1>12. RecoveryInv'
  BY <1>2 DEF RecoveryInv
<1> QED BY <1>6, <1>7, <1>10, <1>11, <1>12

\* When Apply returns in time, no target has been observed in the first slot yet.
LEMMA ApplyReturnsKeepsInv ==
    ASSUME IInv, ApplyReturns
    PROVE  IInv'
<1> USE DEF IInv
<1>1. /\ UNCHANGED <<now, environment, condition>> /\ UNCHANGED <<partition, window>>
      /\ pc = "apply" /\ injectedAt # Never
      /\ pc' = IF latestSlotExceeds(startSlot - 1) THEN "failed" ELSE "injected"
  BY DEF ApplyReturns
<1>2. /\ beacon' = beacon /\ inflight' = inflight /\ startSlot' = startSlot /\ now' = now
      /\ createdAt' = createdAt /\ injectedAt' = injectedAt /\ healedAt' = healedAt
      /\ condition' = condition /\ condition = "fault" /\ startSlot \in Nat
  BY <1>1 DEF environment, partition, window, Shape
<1>3. CASE pc' = "failed"
  BY <1>1, <1>2, <1>3, FailureKeepsInv
<1>4. CASE pc' = "injected" /\ ~latestSlotExceeds(startSlot - 1)
  <2>1. pc' \in Applied /\ pc' \notin WindowOpen /\ pc' \notin WindowOver
        /\ pc \notin WindowOver
    BY <1>1, <1>4 DEF Applied, WindowOpen, WindowOver
  <2>2. Shape' /\ OrderInv'
    BY <1>1, <1>2, RunOnlyReads
  <2>3. EndsInv' /\ RecoveryInv'
    BY <1>4, <2>1 DEF EndsInv, RecoveryInv
  <2>4. ApplyInv' /\ HealInv'
    BY <1>1, <1>2, <1>4, <2>1 DEF ApplyInv, HealInv
  <2>5. ASSUME NEW t \in Targets PROVE ~observedAt(t, startSlot)
    <3> SUFFICES ASSUME NEW o \in beacon[t], SlotOf(o.at) = startSlot PROVE FALSE
      BY DEF observedAt
    <3>1. latest(t) \in beacon[t] /\ o.at <= latest(t).at
      BY LatestObservation
    <3>2. o.at \in Int /\ latest(t).at \in Int
      BY <3>1 DEF Shape, Obs
    <3>3. SlotOf(o.at) <= SlotOf(latest(t).at) /\ SlotOf(latest(t).at) \in Int
      BY <3>1, <3>2, SlotMonotone, SlotBounds
    <3>4. ~(SlotOf(latest(t).at) > startSlot - 1)
      BY <1>4 DEF latestSlotExceeds
    <3> QED BY <1>2, <3>3, <3>4
  <2>6. BoundaryInv'
    BY <1>2, <2>5 DEF BoundaryInv, observedAt
  <2> QED BY <2>2, <2>3, <2>4, <2>6
<1> QED BY <1>1, <1>3, <1>4

\* From one stage to the next, behind Apply, with the partition and the boundary as
\* they are.
LEMMA StageKeepsPartition ==
    ASSUME IInv, UNCHANGED <<now, environment, condition, partition, startSlot>>,
           pc \in Applied, pc' \in Applied
    PROVE  ApplyInv' /\ BoundaryInv'
<1> USE DEF IInv
<1>1. /\ beacon' = beacon /\ inflight' = inflight /\ startSlot' = startSlot /\ now' = now
      /\ createdAt' = createdAt /\ injectedAt' = injectedAt /\ healedAt' = healedAt
      /\ condition' = condition
  BY DEF environment, partition
<1>2. pc' \notin {"specs", "boundary"}
  BY DEF Applied, WindowOpen, WindowOver
<1>3. ApplyInv'
  BY <1>1, <1>2 DEF ApplyInv
<1>4. BoundaryInv'
  BY <1>1 DEF BoundaryInv, Unaffected, observedAt
<1> QED BY <1>3, <1>4

LEMMA BoundaryObservedKeepsInv ==
    ASSUME IInv, BoundaryObserved
    PROVE  IInv'
<1> USE DEF IInv
<1>1. /\ UNCHANGED <<now, environment, condition, partition, startSlot>>
      /\ pc = "injected" /\ pc' = "window"
      /\ \A t \in Targets : observedAt(t, startSlot)
      /\ initial' = [t \in Targets |-> observationAtSlot(t, startSlot)]
  BY DEF BoundaryObserved, WaitSatisfied
<1>2. /\ beacon' = beacon /\ startSlot' = startSlot /\ now' = now
      /\ createdAt' = createdAt /\ healedAt' = healedAt /\ condition' = condition
  BY <1>1 DEF environment, partition
<1>3. /\ pc \in Applied /\ pc \notin WindowOver
      /\ pc' \in Applied /\ pc' \in WindowOpen /\ pc' \notin WindowOver
  BY <1>1 DEF Applied, WindowOpen, WindowOver
<1>4. Shape' /\ OrderInv'
  BY <1>1, RunOnlyReads DEF Shape
<1>5. ApplyInv' /\ BoundaryInv'
  BY <1>1, <1>3, StageKeepsPartition
<1>6. \A t \in Targets : initial'[t] \in beacon[t] /\ SlotOf(initial'[t].at) = startSlot
  BY <1>1, ObservationAtSlot
<1>7. EndsInv'
  BY <1>2, <1>3, <1>6 DEF EndsInv
<1>8. HealInv'
  BY <1>2, <1>3 DEF HealInv
<1>9. RecoveryInv'
  BY <1>1 DEF RecoveryInv
<1> QED BY <1>4, <1>5, <1>7, <1>8, <1>9

LEMMA ControlBoundaryKeepsInv ==
    ASSUME IInv, ControlBoundary
    PROVE  IInv'
<1> USE DEF IInv
<1>1. PICK slot \in 0 .. SlotOf(now) :
         /\ commonLatestSlot(slot) /\ startSlot' = slot
         /\ initial' = [t \in Targets |-> observationAtSlot(t, slot)]
  BY DEF ControlBoundary
<1>2. /\ UNCHANGED <<now, environment, condition, partition>>
      /\ condition = "control" /\ pc' = "window"
  BY DEF ControlBoundary
<1>3. /\ beacon' = beacon /\ now' = now /\ condition' = "control"
      /\ injectedAt' = injectedAt /\ healedAt' = healedAt
  BY <1>2 DEF environment, partition
<1>4. startSlot' \in Nat
  <2>1. SlotOf(now) \in Nat
    BY SlotOfNat DEF Shape
  <2> QED BY <1>1, <2>1
<1>5. pc' \notin WindowOver
  BY <1>2 DEF WindowOver
<1>6. Shape' /\ OrderInv'
  BY <1>2, <1>4, RunOnlyReads
<1>7. ASSUME NEW t \in Targets
      PROVE  initial'[t] \in beacon[t] /\ SlotOf(initial'[t].at) = slot
  <2>1. latest(t) \in beacon[t] /\ SlotOf(latest(t).at) = slot
    BY <1>1, LatestObservation DEF commonLatestSlot
  <2>2. observedAt(t, slot)
    BY <2>1 DEF observedAt
  <2> QED BY <1>1, <2>2, ObservationAtSlot
<1>8. EndsInv'
  BY <1>1, <1>3, <1>5, <1>7 DEF EndsInv
<1>9. ApplyInv' /\ HealInv'
  BY <1>2, <1>3 DEF ApplyInv, HealInv
<1>10. BoundaryInv' /\ RecoveryInv'
  BY <1>3 DEF BoundaryInv, RecoveryInv
<1> QED BY <1>6, <1>8, <1>9, <1>10

LEMMA WindowObservedKeepsInv ==
    ASSUME IInv, WindowObserved
    PROVE  IInv'
<1> USE DEF IInv
<1>1. /\ UNCHANGED <<now, environment, condition, partition, startSlot>>
      /\ initial' = initial /\ pc = "window"
      /\ pc' \in {"revert", "stop"} /\ (condition = "fault" <=> pc' = "revert")
      /\ \A t \in Targets : observedAt(t, endSlot)
      /\ ending' = [t \in Targets |-> observationAtSlot(t, endSlot)]
  BY DEF WindowObserved, WaitSatisfied
<1>2. /\ beacon' = beacon /\ startSlot' = startSlot /\ now' = now /\ endSlot' = endSlot
      /\ createdAt' = createdAt /\ healedAt' = healedAt /\ condition' = condition
  BY <1>1 DEF environment, partition, endSlot
<1>3. /\ pc \in Applied /\ pc \in WindowOpen /\ pc \notin WindowOver
      /\ pc' \in Applied /\ pc' \in WindowOpen
  BY <1>1 DEF Applied, WindowOpen, WindowOver
<1>4. Shape' /\ OrderInv'
  BY <1>1, RunOnlyReads DEF Shape
<1>5. ApplyInv' /\ BoundaryInv'
  BY <1>1, <1>3, StageKeepsPartition
<1>6. \A t \in Targets : ending'[t] \in beacon[t] /\ SlotOf(ending'[t].at) = endSlot
  BY <1>1, ObservationAtSlot
<1>7. EndsInv'
  BY <1>1, <1>2, <1>3, <1>6 DEF EndsInv
<1>8. HealInv'
  BY <1>2, <1>3 DEF HealInv
<1>9. RecoveryInv'
  BY <1>1, <1>2 DEF RecoveryInv
<1> QED BY <1>4, <1>5, <1>7, <1>8, <1>9

\* The removal is tied to a slot: the maximum over the targets exists, because no
\* observation is from the future.
\* No slot has been recorded that is still to come, the last one of the window
\* included.
LEMMA RemovalSlotIsPast ==
    ASSUME IInv, pc \in WindowOver
    PROVE  LET slot == Max({endSlot} \cup {SlotOf(latest(t).at) : t \in Targets})
           IN  slot \in Int /\ slot <= SlotOf(now)
<1> USE DEF IInv
<1> DEFINE S == {endSlot} \cup {SlotOf(latest(t).at) : t \in Targets}
<1> DEFINE b == SlotOf(now)
<1>1. endSlot \in Int /\ now \in Int /\ SlotOf(now) \in Int
  BY WindowAssumption, SlotBounds DEF Shape, endSlot
<1>2. ASSUME NEW t \in Targets
      PROVE  SlotOf(latest(t).at) \in Int /\ SlotOf(latest(t).at) <= SlotOf(now)
  <2>1. latest(t) \in beacon[t]
    BY LatestObservation DEF EndsInv
  <2>2. latest(t).at \in Int /\ latest(t).at <= now
    BY <2>1 DEF Shape, Obs, OrderInv
  <2> QED BY <1>1, <2>2, SlotMonotone, SlotBounds
<1>3. endSlot <= SlotOf(now)
  <2>1. PICK t \in Targets : TRUE
    BY WindowAssumption
  <2>2. ending[t] \in beacon[t] /\ SlotOf(ending[t].at) = endSlot
    BY DEF EndsInv
  <2>3. ending[t].at \in Int /\ ending[t].at <= now
    BY <2>2 DEF Shape, Obs, OrderInv
  <2> QED BY <1>1, <2>2, <2>3, SlotMonotone
<1>4. S \in SUBSET Int /\ S # {} /\ b \in Int
  BY <1>1, <1>2
<1>5. \A x \in S : x <= b
  BY <1>1, <1>2, <1>3
<1> HIDE DEF S, b
<1>6. \E x \in S : \A y \in S : y <= x
  BY <1>4, <1>5, Greatest
<1>7. \E x \in S : \A y \in S : x >= y
  BY <1>4, <1>6
<1>8. Max(S) \in S
  BY <1>7 DEF Max
<1>9. Max(S) \in Int /\ Max(S) <= b
  BY <1>4, <1>5, <1>8
<1> QED BY <1>9 DEF S, b

LEMMA RevertReturnsKeepsInv ==
    ASSUME IInv, RevertReturns
    PROVE  IInv'
<1> USE DEF IInv
<1>1. /\ UNCHANGED <<now, environment, condition, partition, startSlot>>
      /\ initial' = initial /\ ending' = ending /\ pc = "revert" /\ pc' = "recovery"
      /\ removedAt' = now
      /\ removalSlot' = Max({endSlot} \cup {SlotOf(latest(t).at) : t \in Targets})
  BY DEF RevertReturns
<1>2. /\ beacon' = beacon /\ startSlot' = startSlot /\ now' = now /\ endSlot' = endSlot
      /\ createdAt' = createdAt /\ healedAt' = healedAt /\ condition' = condition
  BY <1>1 DEF environment, partition, endSlot
<1>3. /\ pc \in Applied /\ pc \in WindowOpen /\ pc \in WindowOver
      /\ pc' \in Applied /\ pc' \in WindowOpen /\ pc' \in WindowOver
  BY <1>1 DEF Applied, WindowOpen, WindowOver
<1>4. Shape' /\ OrderInv'
  BY <1>1, RunOnlyReads DEF Shape
<1>5. ApplyInv' /\ BoundaryInv'
  BY <1>1, <1>3, StageKeepsPartition
<1>6. EndsInv'
  BY <1>1, <1>2, <1>3 DEF EndsInv
<1>7. HealInv'
  BY <1>1, <1>2, <1>3 DEF HealInv
<1>8. RecoveryInv'
  <2>1. /\ removalSlot' \in Int /\ removalSlot' <= SlotOf(now)
        /\ removedAt' = now /\ now \in Nat
    BY <1>1, <1>3, RemovalSlotIsPast DEF Shape
  <2>2. healedAt' # Never /\ healedAt' <= now
    BY <1>2 DEF RevertReturns, HealInv, Shape
  <2>3. SlotOf(removedAt') = SlotOf(now)
    BY <2>1
  <2>4. (SlotOf(removedAt))' = SlotOf(now)
    BY <2>3 DEF SlotOf
  <2> QED BY <2>1, <2>2, <2>4 DEF RecoveryInv
<1> QED BY <1>4, <1>5, <1>6, <1>7, <1>8

\* The recovery window ends, and the observer is stopped.
LEMMA RecoveryKeepsInv ==
    ASSUME IInv,
           RecoveryObserved \/ (WaitTimesOut /\ pc = "recovery") \/ StopObserver
    PROVE  IInv'
<1> USE DEF IInv
<1>1. /\ UNCHANGED <<now, environment, condition, partition, startSlot>>
      /\ initial' = initial /\ ending' = ending
      /\ removedAt' = removedAt /\ removalSlot' = removalSlot
      /\ pc \in {"recovery", "stop"} /\ pc' \in {"stop", "done"}
  BY DEF RecoveryObserved, WaitTimesOut, StopObserver, window
<1>2. /\ beacon' = beacon /\ startSlot' = startSlot /\ now' = now /\ endSlot' = endSlot
      /\ createdAt' = createdAt /\ healedAt' = healedAt /\ condition' = condition
  BY <1>1 DEF environment, partition, endSlot
<1>3. /\ pc \in Applied /\ pc \in WindowOpen /\ pc \in WindowOver
      /\ pc' \in Applied /\ pc' \in WindowOpen /\ pc' \in WindowOver
  BY <1>1 DEF Applied, WindowOpen, WindowOver
<1>4. Shape' /\ OrderInv'
  BY <1>1, RunOnlyReads DEF Shape
<1>5. ApplyInv' /\ BoundaryInv'
  BY <1>1, <1>3, StageKeepsPartition
<1>6. EndsInv'
  BY <1>1, <1>2, <1>3 DEF EndsInv
<1>7. HealInv'
  BY <1>1, <1>2, <1>3 DEF HealInv
<1>8. RecoveryInv'
  BY <1>1, <1>2 DEF RecoveryInv, SlotOf
<1> QED BY <1>4, <1>5, <1>6, <1>7, <1>8

-----------------------------------------------------------------------------
(* The theorems *)

LEMMA InitInv == Init => IInv
<1> SUFFICES ASSUME Init PROVE IInv
  OBVIOUS
<1>1. now \in Nat
  BY WindowAssumption DEF Init, Ticks
<1>2. /\ finalized = [t \in Targets |-> 0] /\ inflight = [t \in Targets |-> NoObservation]
      /\ beacon = [t \in Targets |-> {}] /\ pc = "specs"
      /\ condition \in {"control", "fault"} /\ injectedAt = Never /\ healedAt = Never
      /\ startSlot = 0
  BY DEF Init
<1>3. pc \notin {"apply"} \cup Applied /\ pc \notin WindowOpen /\ pc \notin WindowOver
  BY <1>2 DEF Applied, WindowOpen, WindowOver
<1>4. Shape /\ OrderInv
  BY <1>1, <1>2 DEF Shape, OrderInv
<1>5. EndsInv /\ BoundaryInv
  BY <1>3 DEF EndsInv, BoundaryInv
<1>6. ApplyInv /\ HealInv
  BY <1>2, <1>3 DEF ApplyInv, HealInv
<1>7. RecoveryInv
  BY <1>2 DEF RecoveryInv
<1> QED BY <1>4, <1>5, <1>6, <1>7 DEF IInv

LEMMA EnvironmentKeepsInv ==
    ASSUME IInv, Environment
    PROVE  IInv'
<1>0. now \in Nat /\ finalized \in [Targets -> Nat]
  BY DEF IInv, Shape
<1>1. CASE Tick
  <2>1. /\ UNCHANGED <<inflight, beacon, pc, condition, partition, window>>
        /\ now' = now + 1 /\ finalized' = finalized
    BY <1>1 DEF Tick
  <2> QED BY <1>0, <2>1, TimeKeepsInv
<1>2. ASSUME NEW t \in Targets, Finalize(t) PROVE IInv'
  <2>1. /\ UNCHANGED <<inflight, beacon, pc, condition, partition, window>>
        /\ now' = now /\ finalized' = [finalized EXCEPT ![t] = @ + 1]
    BY <1>2 DEF Finalize
  <2>2. finalized' \in [Targets -> Nat]
    BY <1>0, <2>1
  <2> QED BY <1>0, <2>1, <2>2, TimeKeepsInv
<1>3. ASSUME NEW t \in Targets, PollFails(t) PROVE IInv'
  <2>1. /\ UNCHANGED <<inflight, beacon, pc, condition, partition, window>>
        /\ now' = now /\ finalized' = finalized
    BY <1>3 DEF PollFails
  <2> QED BY <1>0, <2>1, TimeKeepsInv
<1> QED BY <1>1, <1>2, <1>3, FetchKeepsInv, RecordKeepsInv, InjectKeepsInv, HealKeepsInv
        DEF Environment

LEMMA RunKeepsInv ==
    ASSUME IInv, Run
    PROVE  IInv'
<1>1. CASE SpecsKnown \/ ApplyFails \/ RevertFails \/ Canceled
           \/ (WaitTimesOut /\ pc # "recovery")
  <2>1. /\ UNCHANGED <<now, environment, condition, partition, startSlot>>
        /\ pc' \in {"failed", "boundary"} /\ (pc' = "boundary" => pc = "specs")
    BY <1>1 DEF SpecsKnown, ApplyFails, RevertFails, Canceled, WaitTimesOut, window
  <2> QED BY <2>1, FailureKeepsInv
<1> QED BY <1>1, CallApplyKeepsInv, ApplyReturnsKeepsInv, BoundaryObservedKeepsInv,
           ControlBoundaryKeepsInv, WindowObservedKeepsInv, RevertReturnsKeepsInv,
           RecoveryKeepsInv DEF Run

LEMMA NextInv == IInv /\ [Next]_vars => IInv'
<1> SUFFICES ASSUME IInv, [Next]_vars PROVE IInv'
  OBVIOUS
<1>1. CASE UNCHANGED vars
  <2>1. /\ UNCHANGED <<inflight, beacon, pc, condition, partition, window>>
        /\ now' = now /\ finalized' = finalized
    BY <1>1 DEF vars, environment
  <2>2. now \in Nat /\ finalized \in [Targets -> Nat]
    BY DEF IInv, Shape
  <2> QED BY <2>1, <2>2, TimeKeepsInv
<1> QED BY <1>1, EnvironmentKeepsInv, RunKeepsInv DEF Next, Over

\* The inductive invariant holds at every tick of every run.
THEOREM InvHolds == Spec => []IInv
BY InitInv, NextInv, PTL DEF Spec

\* waitForExactSlot and waitForCommonSlot give summarizeRun an observation of every
\* target in the first and in the last slot of the window, for any timing.
THEOREM EndpointsAreReal == Spec => []EndpointsAreObserved
<1>1. ASSUME IInv PROVE EndpointsAreObserved
  <2>1. pc \in WindowOver =>
           \A t \in Targets : /\ initial[t] \in Obs /\ SlotOf(initial[t].at) = startSlot
                              /\ ending[t] \in Obs /\ SlotOf(ending[t].at) = endSlot
    BY <1>1 DEF IInv, Shape, EndsInv, WindowOpen
  <2> QED BY <2>1 DEF EndpointsAreObserved, WindowOver, Obs, Never
<1> QED BY <1>1, InvHolds, PTL

\* Behind the first slot of the window the observations of a fault run are made
\* under the partition, up to the one that ends the window: Apply has returned
\* before the first slot was observed, and the deadman of Apply's object, counted
\* from its creation, outlasts the window however long Apply took.
THEOREM WindowIsPartitioned == Spec => []PartitionSpansWindow
<1>1. ASSUME IInv PROVE PartitionSpansWindow
  <2> USE <1>1 DEF IInv
  <2> SUFFICES ASSUME condition = "fault", pc \in WindowOver, NEW t \in Targets,
                      NEW o \in beacon[t], SlotOf(o.at) > startSlot, o.at <= ending[t].at
               PROVE  injectedAt <= o.at /\ (healedAt = Never \/ o.at <= healedAt)
    BY DEF PartitionSpansWindow, WindowOver
  <2>1. pc \in WindowOpen /\ pc \in Applied
    BY DEF WindowOpen, Applied
  <2>2. /\ injectedAt \in Nat /\ createdAt \in Nat /\ o.at \in Nat
        /\ (startSlot - 1) * TicksPerSlot <= createdAt
        /\ (healedAt = Never \/ healedAt \in Nat)
    BY <2>1 DEF ApplyInv, HealInv, Shape, Obs
  <2>3. /\ ending[t].at \in Nat /\ SlotOf(ending[t].at) = endSlot
        /\ initial[t] \in beacon[t] /\ SlotOf(initial[t].at) = startSlot
    BY <2>1 DEF EndsInv, Shape, Obs
  <2>4. observedAt(t, startSlot)
    BY <2>3 DEF observedAt
  <2>5. ~Unaffected(t, o)
    BY <2>1, <2>4 DEF BoundaryInv
  <2>6. injectedAt <= o.at
    BY <2>2, <2>5 DEF Unaffected
  <2>7. ending[t].at < createdAt + deadmanTTL
    <3>1. SlotOf(ending[t].at) <= endSlot
      BY <2>3, SlotBounds
    <3> QED BY <2>2, <2>3, <3>1, WindowIsWithinDeadman
  <2>8. deadmanTTL \in Int
    BY WindowAssumption DEF deadmanTTL, Ticks
  <2>9. ASSUME healedAt # Never PROVE o.at <= healedAt
    <3>1. createdAt + deadmanTTL <= healedAt \/ ending[t].at <= healedAt
      BY <2>1, <2>9 DEF HealInv
    <3> QED BY <2>2, <2>3, <2>7, <2>8, <2>9, <3>1
  <2> QED BY <2>6, <2>9
<1> QED BY <1>1, InvHolds, PTL

\* summarizeRun takes for a recovery only what was seen after the partition was
\* healed, and all that was seen after its removal was noted, for any timing: Revert
\* returns after the heal, and the removal slot is never ahead of its time.
THEOREM RecoveriesAreReal == Spec => []RecoveryIsFromFault
<1>1. ASSUME IInv PROVE RecoveryIsFromFault
  <2> USE <1>1 DEF IInv
  <2> SUFFICES ASSUME condition = "fault", pc = "done",
                      NEW t \in Targets, NEW o \in beacon[t]
               PROVE  /\ o \in Recoveries(t) => healedAt # Never /\ healedAt <= o.at
                      /\ removedAt <= o.at /\ ending[t].epoch < o.epoch
                            => o \in Recoveries(t)
    BY DEF RecoveryIsFromFault
  <2>1. /\ removedAt \in Nat /\ healedAt # Never /\ healedAt <= removedAt
        /\ removalSlot \in Int /\ removalSlot <= SlotOf(removedAt)
    BY DEF RecoveryInv
  <2>2. /\ o.at \in Nat /\ o.epoch \in Nat /\ healedAt \in Nat
        /\ SlotOf(o.at) \in Int /\ SlotOf(removedAt) \in Int
    BY <2>1, SlotBounds DEF Shape, Obs, HealInv
  <2>3. o \in Recoveries(t) => healedAt <= o.at
    BY <2>1, <2>2 DEF Recoveries
  <2>4. ASSUME removedAt <= o.at, ending[t].epoch < o.epoch
        PROVE  o \in Recoveries(t)
    <3>1. SlotOf(removedAt) <= SlotOf(o.at)
      BY <2>1, <2>2, <2>4, SlotMonotone
    <3>2. ending[t] \in beacon[t]
      BY DEF EndsInv, WindowOver
    <3>3. ending[t].epoch \in Nat
      BY <3>2 DEF Shape, Obs
    <3> QED BY <2>1, <2>2, <2>4, <3>1, <3>3 DEF Recoveries
  <2> QED BY <2>1, <2>3, <2>4
<1> QED BY <1>1, InvHolds, PTL

-----------------------------------------------------------------------------
(* The partition shows *)

\* There are two sides, and more slots strictly inside the window than the tolerance:
\* scenario.go fixes 3 epochs and a tolerance of 1 slot, which is enough for epochs
\* of any length.
WindowOutlastsTolerance ==
    /\ \E t, u \in Targets : t # u
    /\ Tolerance + 2 <= DurationEpochs * SlotsPerEpoch

\* Strictly inside the window of a fault run every target shows its own side.
LEMMA InsideShowsPartition ==
    ASSUME IInv, condition = "fault", pc \in WindowOver, NEW t \in Targets,
           NEW k \in Int, startSlot < k, k < endSlot, observedAt(t, k)
    PROVE  observationAtSlot(t, k).head = t
<1> USE DEF IInv
<1> DEFINE o == observationAtSlot(t, k)
<1>1. o \in beacon[t] /\ SlotOf(o.at) = k
  BY ObservationAtSlot
<1>2. pc \in WindowOpen /\ pc \in Applied
  BY DEF WindowOpen, Applied
<1>3. /\ createdAt \in Nat /\ o.at \in Nat /\ endSlot \in Int
      /\ (startSlot - 1) * TicksPerSlot <= createdAt
      /\ (healedAt = Never \/ healedAt \in Nat)
  BY <1>1, <1>2, WindowAssumption DEF ApplyInv, HealInv, Shape, Obs, endSlot
<1>4. /\ ending[t].at \in Nat /\ SlotOf(ending[t].at) = endSlot
      /\ initial[t] \in beacon[t] /\ SlotOf(initial[t].at) = startSlot
  BY <1>2 DEF EndsInv, Shape, Obs
<1> HIDE DEF o
<1>5. observedAt(t, startSlot)
  BY <1>4 DEF observedAt
<1>6. ~Unaffected(t, o)
  BY <1>1, <1>2, <1>5 DEF BoundaryInv
<1>7. SlotOf(o.at) <= endSlot
  BY <1>1, <1>3
<1>8. o.at < createdAt + deadmanTTL
  BY <1>3, <1>7, WindowIsWithinDeadman
<1>9. o.at < ending[t].at
  <2>1. SUFFICES ASSUME ending[t].at <= o.at PROVE FALSE
    BY <1>3, <1>4
  <2>2. SlotOf(ending[t].at) <= SlotOf(o.at)
    BY <1>3, <1>4, <2>1, SlotMonotone
  <2> QED BY <1>1, <1>3, <1>4, <2>2
<1>10. deadmanTTL \in Int
  BY WindowAssumption DEF deadmanTTL, Ticks
<1>11. healedAt = Never \/ o.at < healedAt
  <2>1. SUFFICES ASSUME healedAt # Never PROVE o.at < healedAt
    OBVIOUS
  <2>2. createdAt + deadmanTTL <= healedAt \/ ending[t].at <= healedAt
    BY <1>2, <2>1 DEF HealInv
  <2> QED BY <1>3, <1>4, <1>8, <1>9, <1>10, <2>1, <2>2
<1>12. o.head = t
  BY <1>6, <1>11 DEF Unaffected
<1> QED BY <1>12 DEF o

\* headDivergenceExceeded reports the partition of a fault run whose primary
\* measurement is complete, although the first and the last slot of the window may
\* hold observations made outside it.
THEOREM PartitionIsReported ==
    ASSUME WindowOutlastsTolerance
    PROVE  Spec => []DivergenceShowsPartition
<1>1. ASSUME IInv PROVE DivergenceShowsPartition
  <2> SUFFICES ASSUME condition = "fault", pc = "done", PrimaryMeasurementComplete
               PROVE  DivergenceExceeded
    BY DEF DivergenceShowsPartition
  <2>1. pc \in WindowOver /\ startSlot \in Nat /\ endSlot \in Int
        /\ startSlot + Tolerance + 2 <= endSlot /\ Tolerance \in Nat
    BY <1>1, WindowAssumption
       DEF WindowOver, IInv, Shape, endSlot, WindowOutlastsTolerance
  <2>2. PICK t \in Targets, u \in Targets : t # u
    BY DEF WindowOutlastsTolerance
  <2>3. ASSUME NEW k \in startSlot + 1 .. startSlot + 1 + Tolerance
        PROVE  headsDisagreeAtCurrentSlot(k)
    <3>1. k \in Int /\ startSlot < k /\ k < endSlot /\ k \in startSlot .. endSlot
      BY <2>1
    <3>2. \A v \in Targets : observedAt(v, k)
      BY <3>1 DEF PrimaryMeasurementComplete
    <3>3. observationAtSlot(t, k).head = t /\ observationAtSlot(u, k).head = u
      BY <1>1, <2>1, <3>1, <3>2, InsideShowsPartition
    <3> QED BY <2>2, <3>2, <3>3 DEF headsDisagreeAtCurrentSlot
  <2>4. startSlot + 1 \in startSlot .. endSlot - Tolerance
    BY <2>1
  <2> QED BY <2>3, <2>4 DEF DivergenceExceeded
<1> QED BY <1>1, InvHolds, PTL
=============================================================================
