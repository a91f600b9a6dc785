---------------------------- MODULE MCTaprootMine ----------------------------
(* A group of 13 points; the odd ones are chosen so that neighbours differ and agree. *)
EXTENDS TaprootMine

MCOdd == {1, 3, 4, 6, 8, 11}
MCTweak == [x \in 1 .. 6 |-> 1 + ((5 * x * x + 3) % 12)]
=============================================================================
