---------------------------- MODULE CanonicalHead ----------------------------
(***************************************************************************)
(* What the portfolio ledger promises: one canonical head that only ever   *)
(* moves to a snapshot naming it as anchor, and envelopes that are handed  *)
(* out only for the snapshot that is the head.                             *)
(*                                                                         *)
(* The promise holds until the tab is disturbed. From then on the head may *)
(* be any snapshot whose anchor is attested, and any snapshot of the tab   *)
(* may be published.                                                       *)
(***************************************************************************)
CONSTANTS Artifact, NoArtifact, anchorOf

VARIABLES
    head,       \* the latest canonical snapshot, or NoArtifact
    chain,      \* every snapshot that has been the head
    published,  \* snapshots with an attested envelope
    disturbed   \* a late row or a caller of another process came in between

absVars == <<head, chain, published, disturbed>>

Init == head = NoArtifact /\ chain = {} /\ published = {} /\ disturbed = FALSE

MayFollow(a) == anchorOf[a] \in published \cup {NoArtifact}

Advance(a) ==
    /\ ~disturbed
    /\ a \notin chain
    /\ anchorOf[a] = head
    /\ MayFollow(a)
    /\ head' = a
    /\ chain' = chain \cup {a}
    /\ UNCHANGED <<published, disturbed>>

Publish(a) ==
    /\ a \in chain
    /\ disturbed \/ a = head
    /\ published' = published \cup {a}
    /\ UNCHANGED <<head, chain, disturbed>>

Disturb ==
    /\ disturbed' = TRUE
    /\ UNCHANGED <<head, chain, published>>

(* The row that disturbs, or any row after the disturbance *)
Intrude(a) ==
    /\ MayFollow(a)
    /\ disturbed' = TRUE
    /\ head' = a
    /\ chain' = chain \cup {a}
    /\ UNCHANGED published

Next ==
    \/ Disturb
    \/ \E a \in Artifact : Advance(a) \/ Publish(a) \/ Intrude(a)

Spec == Init /\ [][Next]_absVars
=============================================================================
