------------------------------ MODULE MCFileCopy ------------------------------
(* FileCopy on short files; the cfg files give the constants.               *)
EXTENDS FileCopy

NoFaults == {}
Losses == {"reject", "drop"}
Failures == {"alloc", "reject", "drop"}
=============================================================================
