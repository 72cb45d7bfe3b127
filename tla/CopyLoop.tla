------------------------------- MODULE CopyLoop -------------------------------
(***************************************************************************)
(* What the session of a remote may rely on while its commands run: one     *)
(* command after the other, whatever becomes of it; a remote file is open   *)
(* only while a command runs and is closed before the command is over.      *)
(* FileCopy implements it; SshExec uses it in place of FileCopy.            *)
(***************************************************************************)
EXTENDS Naturals

CONSTANT MaxCommands   \* bound: commands in exec.commands

ASSUME LoopAssumption == MaxCommands \in Nat

VARIABLES
    todo,   \* commands not started yet
    phase   \* of the command that runs

loopVars == <<todo, phase>>

\* idle: no command runs; open: sftp_handle is not null
Phases == {"idle", "begun", "open", "released"}

LoopTypeOK == todo \in 0 .. MaxCommands /\ phase \in Phases

LoopInit == todo \in 0 .. MaxCommands /\ phase = "idle"

BeginCommand ==
    /\ phase = "idle"
    /\ todo > 0
    /\ todo' = todo - 1
    /\ phase' = "begun"

OpenHandle ==
    /\ phase = "begun"
    /\ phase' = "open"
    /\ UNCHANGED todo

\* The finally part
Release ==
    /\ phase \in {"begun", "open"}
    /\ phase' = "released"
    /\ UNCHANGED todo

EndCommand ==
    /\ phase = "released"
    /\ phase' = "idle"
    /\ UNCHANGED todo

LoopNext == BeginCommand \/ OpenHandle \/ Release \/ EndCommand

LoopSpec == LoopInit /\ [][LoopNext]_loopVars
=============================================================================
