---------------------------- MODULE GateAnalysis ----------------------------
(***************************************************************************)
(* internal/experiment/analysis.go: from the summaries of the control and  *)
(* the fault runs to Gate A (is the experiment valid), Gate B (was the     *)
(* prediction right) and Gate C (do the client families differ).  The      *)
(* loops of Analyze and evaluateGateC are steps; those over Go maps visit  *)
(* the runs in any order.  A field of a summary is chosen when the code    *)
(* first reads it: nothing writes to the summaries in between.             *)
(***************************************************************************)
EXTENDS Integers, Sequences, FiniteSets

CONSTANTS
    NumReps,          \* control_repetitions = fault_repetitions
    Groups,           \* the sides of the partition; each holds both client families
    Threshold,        \* client_recovery_difference_slots
    ControlProgress,  \* bound: finalized-epoch progress of the targets of a control run
    FaultProgress,    \* bound: finalized-epoch progress of the targets of a fault run
    Slots,            \* bound: recovery slots
    Censored          \* no recovery was observed: recovery_slots is null

ASSUME AnalysisAssumption ==
    /\ NumReps \in Nat \ {0}
    /\ IsFiniteSet(Groups) /\ Groups # {}
    /\ Threshold \in Nat \ {0}
    /\ ControlProgress \subseteq Nat /\ FaultProgress \subseteq Nat /\ Slots \subseteq Nat
    /\ Censored \notin Nat

VARIABLES
    pc,            \* the loop of Analyze
    rep,           \* repetition, of the loop of Gate A and of evaluateGateC
    todo,          \* what a loop has still to visit: fault runs, or groups
    control,       \* the control runs read so far, by repetition
    fault,         \* the fault runs read so far
    complete,      \* fault repetitions with a complete recovery measurement
    recovery,      \* recovery slots of the fault runs read so far, by repetition
    gateAValid,
    pairs,         \* len(analysis.Pairs)
    gateBMatched,
    direction,     \* of the difference between the client families, 0 when not yet known
    gate,          \* outcomes of the gates
    conclusion

loops == <<rep, todo>>
summaries == <<control, fault, complete, recovery>>
verdict == <<gate, conclusion>>
gateVars == <<pc, loops, summaries, gateAValid, pairs, gateBMatched, direction, verdict>>

Reps == 1 .. NumReps

\* The client families, in sorted order.
Clients == {1, 2}

\* A participant: validation puts each family once on each side.
Targets == Groups \X Clients

\* "valid" is primaryWindowValid: complete, within the split tolerance, without
\* confounders, every target once, with its family and group and a sound progress.
Runs(progress) == [valid : BOOLEAN, progress : [Targets -> progress]]

Recoveries == [Targets -> Slots \cup {Censored}]

GateInit ==
    /\ pc = "pairs"
    /\ rep = 1 /\ todo = {}
    /\ control = <<>> /\ fault = <<>>
    /\ complete = {} /\ recovery = [r \in {} |-> {}]
    /\ gateAValid = TRUE /\ pairs = 0
    /\ gateBMatched = TRUE
    /\ direction = 0
    /\ gate = [a |-> "none", b |-> "none", c |-> "not_evaluated"]
    /\ conclusion = "none"

-----------------------------------------------------------------------------
(* Gate A *)

maximumProgress(run) ==
    CHOOSE p \in {run.progress[t] : t \in Targets} : \A t \in Targets : run.progress[t] <= p

minimumProgress(run) ==
    CHOOSE p \in {run.progress[t] : t \in Targets} : \A t \in Targets : p <= run.progress[t]

\* Mutant of StrictlyLower: an equal progress is an effect.
StrictlyLower_OrEqual(f, c) == minimumProgress(c) >= maximumProgress(f)

StrictlyLower(f, c) == minimumProgress(c) > maximumProgress(f)

\* One repetition of the first loop; an invalid window ends it early.
ComparePair ==
    /\ pc = "pairs"
    /\ rep <= NumReps
    /\ \E c \in Runs(ControlProgress), f \in Runs(FaultProgress) :
          /\ control' = Append(control, c)
          /\ fault' = Append(fault, f)
          /\ \/ /\ c.valid /\ f.valid
                /\ gateAValid' = (gateAValid /\ StrictlyLower(f, c))
                /\ pairs' = pairs + 1
             \/ /\ ~c.valid \/ ~f.valid
                /\ gateAValid' = FALSE
                /\ UNCHANGED pairs
    /\ rep' = rep + 1
    /\ UNCHANGED <<pc, todo, complete, recovery, gateBMatched, direction, verdict>>

Conclude(outcomes, text) ==
    /\ pc' = "done"
    /\ gate' = outcomes
    /\ conclusion' = text
    /\ UNCHANGED loops

\* After the loop: the experiment is invalid, or Gate B comes next.
JudgePairs ==
    /\ \/ /\ ~gateAValid \/ pairs # NumReps
          /\ Conclude([gate EXCEPT !.a = "no", !.b = "not_evaluated"], "invalid_experiment")
       \/ /\ gateAValid /\ pairs = NumReps
          /\ gate' = [gate EXCEPT !.a = "yes"]
          /\ pc' = "complete"
          /\ todo' = Reps
          /\ UNCHANGED <<rep, conclusion>>
    /\ UNCHANGED <<summaries, gateAValid, pairs, gateBMatched, direction>>

DecideGateA == pc = "pairs" /\ rep > NumReps /\ JudgePairs

-----------------------------------------------------------------------------
(* Gate B *)

\* for _, run := range faults: a run without a complete recovery measurement
\* ends the analysis.
CheckRecoveryMeasurement ==
    /\ pc = "complete"
    /\ \E r \in todo :
          \/ /\ complete' = complete \cup {r}
             /\ todo' = todo \ {r}
             /\ UNCHANGED <<pc, rep, verdict>>
          \/ /\ Conclude([gate EXCEPT !.b = "not_evaluated"], "invalid_experiment")
             /\ UNCHANGED complete
    /\ UNCHANGED <<control, fault, recovery, gateAValid, pairs, gateBMatched, direction>>

RecoveryMeasured ==
    /\ pc = "complete" /\ todo = {}
    /\ pc' = "prediction"
    /\ todo' = Reps
    /\ UNCHANGED <<rep, summaries, gateAValid, pairs, gateBMatched, direction, verdict>>

\* Mutant of Predicted: recovery is not looked at.
Predicted_ProgressOnly(run, slots) == \A t \in Targets : run.progress[t] = 0

Predicted(run, slots) ==
    \A t \in Targets : run.progress[t] = 0 /\ slots[t] # Censored

\* The second loop over the fault runs, which has no early end.
CheckPrediction ==
    /\ pc = "prediction"
    /\ \E r \in todo, slots \in Recoveries :
          /\ recovery' = [q \in DOMAIN recovery \cup {r} |->
                              IF q = r THEN slots ELSE recovery[q]]
          /\ gateBMatched' = (gateBMatched /\ Predicted(fault[r], slots))
          /\ todo' = todo \ {r}
    /\ UNCHANGED <<pc, rep, control, fault, complete, gateAValid, pairs, direction, verdict>>

DecideGateB ==
    /\ pc = "prediction" /\ todo = {}
    /\ \/ /\ ~gateBMatched
          /\ Conclude([gate EXCEPT !.b = "no"], "network_level_finding")
       \/ /\ gateBMatched
          /\ gate' = [gate EXCEPT !.b = "yes"]
          /\ pc' = "skew"
          /\ rep' = 1
          /\ UNCHANGED <<todo, conclusion>>
    /\ UNCHANGED <<summaries, gateAValid, pairs, gateBMatched, direction>>

-----------------------------------------------------------------------------
(* Gate C: evaluateGateC *)

uniformProgress(run) == \A t, u \in Targets : run.progress[t] = run.progress[u]

\* The reasons for "no": a skewed control run, a difference below the threshold,
\* or one in the other direction.
NoDifference ==
    /\ Conclude([gate EXCEPT !.c = "no"], "valid_predicted_uniform_effect")
    /\ UNCHANGED direction

\* A repetition begins: a skew of its control run ends the comparison.
CheckSkew ==
    /\ pc = "skew"
    /\ rep <= NumReps
    /\ \/ ~uniformProgress(control[rep]) /\ NoDifference
       \/ /\ uniformProgress(control[rep])
          /\ pc' = "sides"
          /\ todo' = Groups
          /\ UNCHANGED <<rep, direction, verdict>>
    /\ UNCHANGED <<summaries, gateAValid, pairs, gateBMatched>>

\* differenceDirection: which family is later, and whether by the threshold.
Later(left, right) == IF left >= right THEN 1 ELSE -1

MeetsThreshold(left, right) ==
    IF left >= right THEN left - right >= Threshold ELSE right - left >= Threshold

\* Mutant of SameDirection: the directions of two sides are not compared.
SameDirection_Any(d) == TRUE

SameDirection(d) == direction \in {0, d}

\* One side of the partition; recoveryByGroupAndClient gives both families a value,
\* as Gate B saw every target recover.
CompareSide ==
    /\ pc = "sides"
    /\ \E g \in todo :
          LET left  == recovery[rep][<<g, 1>>]
              right == recovery[rep][<<g, 2>>]
          IN  \/ /\ MeetsThreshold(left, right) /\ SameDirection(Later(left, right))
                 /\ direction' = Later(left, right)
                 /\ todo' = todo \ {g}
                 /\ UNCHANGED <<pc, rep, verdict>>
              \/ /\ ~(MeetsThreshold(left, right) /\ SameDirection(Later(left, right)))
                 /\ NoDifference
    /\ UNCHANGED <<summaries, gateAValid, pairs, gateBMatched>>

NextRepetition ==
    /\ pc = "sides" /\ todo = {}
    /\ pc' = "skew"
    /\ rep' = rep + 1
    /\ UNCHANGED <<todo, summaries, gateAValid, pairs, gateBMatched, direction, verdict>>

DecideGateC ==
    /\ pc = "skew" /\ rep > NumReps
    /\ Conclude([gate EXCEPT !.c = "yes"], "client_specific_differentiation")
    /\ UNCHANGED <<summaries, gateAValid, pairs, gateBMatched, direction>>

GateOver == pc = "done" /\ UNCHANGED gateVars

GateNext ==
    \/ ComparePair \/ DecideGateA
    \/ CheckRecoveryMeasurement \/ RecoveryMeasured \/ CheckPrediction \/ DecideGateB
    \/ CheckSkew \/ CompareSide \/ NextRepetition \/ DecideGateC
    \/ GateOver

GateSpec == GateInit /\ [][GateNext]_gateVars

-----------------------------------------------------------------------------
(* Properties *)

\* What Gate A asks for: in every repetition both windows are valid and every fault
\* target has made less progress than every control target.
Valid ==
    \A r \in Reps :
        /\ control[r].valid /\ fault[r].valid
        /\ \A t, u \in Targets : fault[r].progress[t] < control[r].progress[u]

\* What Gate B asks for.
PredictionHeld ==
    \A r \in Reps : /\ r \in DOMAIN recovery
                    /\ \A t \in Targets : fault[r].progress[t] = 0 /\ recovery[r][t] \in Slots

\* What Gate C asks for: one family is later by the threshold on every side of every
\* repetition, and no control run is skewed.
Differentiated ==
    /\ \A r \in Reps : uniformProgress(control[r])
    /\ \E slower \in Clients : \A r \in Reps, g \in Groups :
          recovery[r][<<g, slower>>] >= recovery[r][<<g, 3 - slower>>] + Threshold

\* Gate A says yes to the valid experiments and to no others (Analyze, the loop
\* over the repetitions with its early continue).
ValidityIsExact == pc = "done" => (gate.a = "yes" <=> Valid)

\* Gate B says yes, and no, only on a valid experiment whose recovery was measured in
\* every repetition; it says yes when the prediction held in all of them, whatever
\* the order in which the maps gave the runs.
PredictionIsExact ==
    pc = "done" =>
        /\ gate.b \in {"yes", "no"} => gate.a = "yes" /\ complete = Reps
        /\ gate.b = "yes" => PredictionHeld
        /\ gate.b = "no" => ~PredictionHeld
        /\ gate.b = "not_evaluated" => conclusion = "invalid_experiment"

\* Gate C is evaluated after Gate B:YES only, and finds a difference between the
\* families exactly when one of them was later everywhere.
DifferentiationIsExact ==
    pc = "done" =>
        /\ gate.c # "not_evaluated" <=> gate.b = "yes"
        /\ gate.b = "yes" => (gate.c = "yes" <=> Differentiated)
=============================================================================
