----------------------------- MODULE MCSftpWrite -----------------------------
(* SftpWrite on a source of a few chunks; the cfg files give the constants. *)
EXTENDS SftpWrite

NoFaults == {}
AllFaults == FaultKinds
=============================================================================
