-------------------------------- MODULE Upload --------------------------------
(***************************************************************************)
(* What a caller of libssh2_sftp_write may rely on, whatever happens        *)
(* between the two ends: the position reported to it only moves forward,    *)
(* and every source byte below it is in the server's file, at its place.    *)
(* The server's file may hold anything above the reported position.         *)
(***************************************************************************)
EXTENDS Integers

CONSTANT Length   \* bytes in the source

VARIABLES stored,   \* offsets at which the server's file holds the source's byte
          reported  \* bytes reported to the caller

vars == <<stored, reported>>

TypeOK ==
    /\ stored \subseteq 0 .. Length - 1
    /\ reported \in 0 .. Length

Init ==
    /\ stored = {}
    /\ reported = 0

\* The server's file changes, but not below the reported position.
Change ==
    /\ stored' \in SUBSET (0 .. Length - 1)
    /\ 0 .. reported - 1 \subseteq stored'
    /\ UNCHANGED reported

\* The call returns a count of bytes that the server has.
Report ==
    /\ reported' \in reported + 1 .. Length
    /\ 0 .. reported' - 1 \subseteq stored
    /\ UNCHANGED stored

Next == Change \/ Report

Spec == Init /\ [][Next]_vars
=============================================================================
