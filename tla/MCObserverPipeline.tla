------------------------- MODULE MCObserverPipeline -------------------------
(* ObserverPipeline for TLC: the predicates of the waits. *)
EXTENDS ObserverPipeline

\* The shapes of the orchestrator's predicates: "every target has got to k", which
\* stays true (waitForExactSlot), "every target is at k", which does not
\* (waitForCommonSlot), and one that never holds.
MCPredicates ==
    {{s \in Snapshots : \A t \in Targets : s[t] >= k} : k \in 0..MaxRecords}
    \cup {{s \in Snapshots : \A t \in Targets : s[t] = k} : k \in 0..MaxRecords}
    \cup {{}}
=============================================================================
