-------------------------- MODULE MCEvidenceStore --------------------------
(* Callers and packets of the evidence-store runs *)
EXTENDS EvidenceStore

CONSTANTS a1, a2, a3, p1, p2

=============================================================================
