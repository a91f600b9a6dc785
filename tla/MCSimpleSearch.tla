--------------------------- MODULE MCSimpleSearch ---------------------------
(* Three threads, matches asked for: two. *)
EXTENDS SimpleSearch

MCHalts == BOOLEAN
MCFounds == {0, 1, 2}
=============================================================================
