--------------------------- MODULE MCEvidenceStore --------------------------
(* EvidenceStore for TLC: the committed order of two runs. *)
EXTENDS EvidenceStore

MCRunOrder == <<"fault-1", "control-1">>
=============================================================================
