---------------------------- MODULE FaultContract ---------------------------
(***************************************************************************)
(* What an experiment run promises about the network it partitions and the *)
(* evidence it seals, without saying how: the abstract specification that  *)
(* ExperimentRun implements.                                               *)
(***************************************************************************)
VARIABLES cut,      \* the partition is in force
          sealed    \* the evidence carries its checksums

vars == <<cut, sealed>>

\* An earlier attempt that was killed may have left its partition behind.
Init ==
    /\ cut \in BOOLEAN
    /\ sealed = FALSE

Partition ==
    /\ ~sealed
    /\ ~cut
    /\ cut' = TRUE
    /\ UNCHANGED sealed

Heal ==
    /\ cut
    /\ cut' = FALSE
    /\ UNCHANGED sealed

\* Evidence is sealed once, while the network is whole.
Seal ==
    /\ ~sealed
    /\ ~cut
    /\ sealed' = TRUE
    /\ UNCHANGED cut

Next == Partition \/ Heal \/ Seal

Spec == Init /\ [][Next]_vars

FairSpec == Spec /\ WF_vars(Heal)
=============================================================================
