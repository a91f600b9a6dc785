------------------------------ MODULE MCKeyWalk ------------------------------
(* Instances of KeyWalk for TLC. *)
EXTENDS KeyWalk

AllKeys == 1..Order - 1
===============================================================================
