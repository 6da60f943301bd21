--------------------------- MODULE MCPortfolioHead ---------------------------
(* A small ledger: g bootstraps it, x and y compete to continue g.  The    *)
(* threads w1 and w2 share a lock, w3 has its own.                         *)
EXTENDS PortfolioHead, TLC

CONSTANTS w1, w2, w3, p1, p2, g, x, y

TwoAndOne == (w1 :> p1 @@ w2 :> p1 @@ w3 :> p2)

(* The threads of one process are alike *)
Alike == Permutations({w1, w2})

OneEach == (w1 :> p1 @@ w3 :> p2)

Anchors3 == (g :> NoArtifact @@ x :> g @@ y :> g)
=============================================================================
