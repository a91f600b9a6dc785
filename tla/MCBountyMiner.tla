--------------------------- MODULE MCBountyMiner ---------------------------
(* Two keys, with two patterns each or one, and a pattern that both have. *)
EXTENDS BountyMiner, TLC

CONSTANTS k1, k2, p, q, r

MCValue == p :> 3 @@ q :> 2 @@ r :> 2

MCOffers == { k1 :> {p, q} @@ k2 :> {q, r}, k1 :> {q} @@ k2 :> {q}, k1 :> {} @@ k2 :> {} }
=============================================================================
