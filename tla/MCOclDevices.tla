----------------------------- MODULE MCOclDevices -----------------------------
(* Instance of OclSearch for TLC: main opens a device without binaries and one of  *)
(* the kind that another process opens.                                            *)
EXTENDS OclSearch, TLC

CONSTANTS main, other, a, n

CommandLines == main :> <<n, a>> @@ other :> <<a>>
===============================================================================
