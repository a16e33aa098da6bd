-------------------------- MODULE MCObserveCommand --------------------------
(* ObserveCommand for TLC: two heads, the epoch of one of which overflows,    *)
(* and two fork schedules that conflict.                                      *)
EXTENDS ObserveCommand

MCChainStates == {[slot |-> 1, epoch |-> 1], [slot |-> 2, epoch |-> 2]}

Network(forks) ==
    [secondsPerSlot |-> 1, slotsPerEpoch |-> 2, forkEpochs |-> forks,
     genesis |-> [time |-> 1, slot |-> 1]]

MCMetadata == {Network([altair |-> 0]), Network([altair |-> 1])}
=============================================================================
