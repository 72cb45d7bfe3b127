------------------------------- MODULE FileCopy -------------------------------
(***************************************************************************)
(* The copy commands of one remote's session: the loop over exec.commands   *)
(* in main.cpp, on top of the write pipeline of SftpWrite.tla.              *)
(*                                                                         *)
(* A command opens the local file, opens the remote one (which truncates    *)
(* it), then reads blocks and passes each to libssh2_sftp_write once; it    *)
(* gives up when a call reports less than the whole block.  The finally     *)
(* block closes the remote handle and the local file, and the loop goes on  *)
(* with the next command, whatever became of this one.                      *)
(*                                                                         *)
(* Opening and closing a remote file are exchanges with the server: their   *)
(* requests go through the same channel as the writes, so they are answered *)
(* after every write that was sent before.  They use up the window as the   *)
(* writes do, and a window that is too small cuts them: sftp_open keeps the *)
(* rest of its request for the next call, whatever file that call is for;   *)
(* sftp_close_handle gives up.  A remote file is open at most once, so      *)
(* remote and the handle's variables are those of the file opened last.     *)
(***************************************************************************)
EXTENDS SftpWrite

CONSTANTS Commands,    \* commands in exec.commands
          ReadFaults,  \* whether reading the local file may fail
          RequestLen,  \* bytes of a request that opens or closes a file
          OpenFaults   \* whether a wait inside libssh2_sftp_open may fail or time out

\* A failure of the wait inside libssh2_sftp_write and libssh2_sftp_close is left out.
ASSUME CopyAssumption ==
    /\ Commands \in Nat
    /\ ReadFaults \in BOOLEAN
    /\ RequestLen \in Nat \ {0}
    /\ OpenFaults \in BOOLEAN
    /\ "wait" \notin Faults

VARIABLES
    at,           \* where the loop over the commands is
    todo,         \* commands not started yet
    from_len,     \* bytes in the local file
    from_pos,     \* from_file_handle: bytes read so far
    read_bytes,   \* size of the block in the buffer
    read_failed,  \* reading the local file failed
    sftp_handle,  \* sftp_handle is not null
    first_id,     \* first request id handed out after the file was opened
    outcome,      \* what the command came to
    open_state,   \* sftp->open_state
    open_left,    \* open_packet_len - open_packet_sent
    open_for,     \* the command whose file open_packet names, by its todo
    close_sent,   \* handle->close_state is "sent"
    cut,          \* a part of a close request was sent, and the rest never will be
    abandoned     \* commands whose open failed with the request under way

commandVars == <<at, todo, from_len, outcome>>
fromVars    == <<from_pos, read_bytes, read_failed>>
requestVars == <<open_state, open_left, open_for, abandoned>>
closeVars   == <<close_sent, cut>>
openVars    == <<sftp_handle, first_id, requestVars, closeVars>>
copyVars    == <<commandVars, fromVars, openVars>>
allVars     == <<vars, copyVars>>

Places == {"command", "open_local", "open_remote", "read", "write", "close", "stopped"}
Outcomes == {"none", "copied", "incomplete", "no_local", "no_remote"}

CopyTypeOK ==
    /\ TypeOK
    /\ at \in Places /\ todo \in 0 .. Commands
    /\ from_len \in 0 .. SrcLen /\ from_pos \in 0 .. from_len
    /\ read_bytes \in 0 .. AtMost(MaxCount, from_pos)
    /\ read_failed \in BOOLEAN /\ sftp_handle \in BOOLEAN
    /\ first_id \in 0 .. next_id
    /\ outcome \in Outcomes
    /\ open_state \in {"idle", "created", "sent"} /\ open_left \in 0 .. RequestLen
    /\ open_for \in 0 .. Commands /\ abandoned \subseteq 0 .. Commands
    /\ close_sent \in BOOLEAN /\ cut \in BOOLEAN

CopyInit ==
    /\ Init
    /\ at = "command" /\ todo = Commands
    /\ from_len = 0 /\ from_pos = 0 /\ read_bytes = 0 /\ read_failed = FALSE
    /\ sftp_handle = FALSE /\ first_id = 0
    /\ outcome = "none"
    /\ open_state = "idle" /\ open_left = 0 /\ open_for = 0 /\ abandoned = {}
    /\ close_sent = FALSE /\ cut = FALSE

-----------------------------------------------------------------------------
\* Mutant of Exchanged: the answer is not waited for.
NotWaitedFor == up

\* The server answered a request sent now: before it, it worked on all the others.
Exchanged ==
    /\ up /\ in_sync /\ ~cut
    /\ wire = <<>>

\* Mutant of NotExchanged: a lost connection does not end the wait for an answer.
OnlyNeverSent == "alloc" \in Faults

\* A request was not answered: the connection is dead, or it was never sent.
NotExchanged ==
    \/ ~up
    \/ "alloc" \in Faults

StartCommand ==
    /\ at = "command"
    /\ todo > 0
    /\ todo' = todo - 1
    /\ from_len' \in 0 .. SrcLen
    /\ from_pos' = 0
    /\ read_bytes' = 0
    /\ read_failed' = FALSE
    /\ outcome' = "none"
    /\ at' = "open_local"
    /\ UNCHANGED <<vars, openVars>>

OpenLocal ==
    /\ at = "open_local"
    /\ \/ /\ at' = "open_remote"
          /\ UNCHANGED outcome
       \/ /\ outcome' = "no_local"
          /\ at' = "close"
    /\ UNCHANGED <<vars, todo, from_len, fromVars, openVars>>

\* sftp_open makes a packet only when it does not continue with an earlier one.
PacketToSend == at = "open_remote" /\ open_state = "idle"

\* Mutant of OpenGivesUp: open_state is not reset.
OpenGivesUpInPlace ==
    /\ outcome' = "no_remote"
    /\ at' = "close"
    /\ UNCHANGED requestVars

\* sftp_open returns NULL and forgets its request.
OpenGivesUp ==
    /\ outcome' = "no_remote"
    /\ at' = "close"
    /\ open_state' = "idle"
    /\ UNCHANGED <<open_left, open_for, abandoned>>

\* It returns NULL and keeps its request: the next call goes on with it.
OpenLeavesRequest ==
    /\ outcome' = "no_remote"
    /\ at' = "close"
    /\ abandoned' = abandoned \cup {open_for}
    /\ UNCHANGED <<open_state, open_for>>

OpenBegins ==
    /\ PacketToSend
    /\ open_state' = "created" /\ open_left' = RequestLen /\ open_for' = todo
    /\ next_id' = next_id + 1
    /\ UNCHANGED <<handleVars, write_state, zombies, callVars, netVars,
                   commandVars, fromVars, sftp_handle, first_id, abandoned, closeVars>>

\* No memory for the packet
OpenNotBegun ==
    /\ PacketToSend
    /\ "alloc" \in Faults
    /\ OpenGivesUp
    /\ UNCHANGED <<vars, todo, from_len, fromVars, sftp_handle, first_id, closeVars>>

\* The channel takes what its window allows.  After a part sftp_open returns NULL and
\* sets no error code: the call goes on only when an earlier one left EAGAIN there
\* that no wait has cleared since.
OpenSends ==
    /\ at = "open_remote" /\ open_state = "created"
    /\ up /\ window > 0
    /\ open_left' = open_left - AtMost(window, open_left)
    /\ window' = window - AtMost(window, open_left)
    /\ \/ /\ open_left' = 0
          /\ open_state' = "sent"
          /\ UNCHANGED <<at, outcome, open_for, abandoned>>
       \/ /\ open_left' > 0
          /\ OpenLeavesRequest
       \/ /\ open_left' > 0
          /\ UNCHANGED <<at, outcome, open_state, open_for, abandoned>>
    /\ UNCHANGED <<handleVars, sftpVars, callVars, up, wire, in_sync, replies, remote,
                   todo, from_len, fromVars, sftp_handle, first_id, closeVars>>

OpenSendFails ==
    /\ at = "open_remote" /\ open_state = "created"
    /\ ~up
    /\ OpenGivesUp
    /\ UNCHANGED <<vars, todo, from_len, fromVars, sftp_handle, first_id, closeVars>>

\* BLOCK_ADJUST_ERRNO: the wait for room or for the answer fails.
OpenWaitFails ==
    /\ OpenFaults
    /\ at = "open_remote"
    /\ (open_state = "created" /\ window = 0) \/ open_state = "sent"
    /\ OpenLeavesRequest
    /\ UNCHANGED <<vars, todo, from_len, fromVars, open_left, sftp_handle, first_id,
                   closeVars>>

\* LIBSSH2_FXF_WRITE | LIBSSH2_FXF_CREAT | LIBSSH2_FXF_TRUNC: whatever the target
\* was, it is an empty file now.  The handle starts at offset 0.
OpenRemote ==
    /\ at = "open_remote" /\ open_state = "sent"
    /\ Exchanged
    /\ open_state' = "idle"
    /\ first_id' = next_id
    /\ sftp_handle' = TRUE
    /\ offset' = 0 /\ offset_sent' = 0 /\ file_acked' = 0
    /\ packet_list' = <<>>
    /\ pos' = 0
    /\ remote' = [i \in Offsets |-> Missing]
    /\ at' = "read"
    /\ UNCHANGED <<sftpVars, pc, org_count, count, acked, ret,
                   window, up, wire, in_sync, replies,
                   todo, from_len, outcome, fromVars,
                   open_left, open_for, abandoned, closeVars>>

\* The server refuses, no answer can come, or it came too late (packet_read_timeout).
OpenRemoteFails ==
    /\ at = "open_remote" /\ open_state = "sent"
    /\ Exchanged \/ NotExchanged \/ OpenFaults
    /\ OpenGivesUp
    /\ UNCHANGED <<vars, todo, from_len, fromVars, sftp_handle, first_id, closeVars>>

\* Mutant of Fread: the last block is taken for a whole one.
FreadWholeBlock(n) ==
    /\ n \in {0, MaxCount}
    /\ n = MaxCount => from_pos < from_len
    /\ from_pos' = from_pos + n
    /\ read_bytes' = n
    /\ UNCHANGED read_failed

\* fread of n bytes: a whole block or the rest of the file; less when it fails
Fread(n) ==
    LET most == AtMost(MaxCount, from_len - from_pos)
    IN  /\ \/ n = most
           \/ ReadFaults /\ n < most
        /\ from_pos' = from_pos + n
        /\ read_bytes' = n
        /\ read_failed' = (read_failed \/ n < most)

ReadAndWrite ==
    /\ at = "read"
    /\ \E n \in 1 .. MaxCount : Fread(n) /\ Call(n)
    /\ at' = "write"
    /\ UNCHANGED <<todo, from_len, outcome, openVars>>

\* Nothing was read: the end of the file, or an error; the loop does not ask which.
ReadEnds ==
    /\ at = "read"
    /\ Fread(0)
    /\ outcome' = "copied"
    /\ at' = "close"
    /\ UNCHANGED <<vars, todo, from_len, openVars>>

\* Mutant of WroteAll: a short count is taken for success.
WroteSome == ret >= 0

WroteAll == ret = read_bytes

WriteReturned ==
    /\ at = "write"
    /\ pc = "app"
    /\ \/ /\ WroteAll
          /\ at' = "read"
          /\ UNCHANGED outcome
       \/ /\ ~WroteAll
          /\ outcome' = "incomplete"
          /\ at' = "close"
    /\ UNCHANGED <<vars, todo, from_len, fromVars, openVars>>

\* The handle and its chunks are gone, after an answer and after an error.
HandleIsGone ==
    /\ next_id' = next_id + 1
    /\ Flush(replies)
    /\ sftp_handle' = FALSE
    /\ close_sent' = FALSE
    /\ UNCHANGED <<offset, offset_sent, file_acked, write_state, callVars,
                   up, wire, in_sync, remote, commandVars, fromVars, first_id, requestVars>>

\* sftp_close_handle sends its request.  What the window cuts off is never sent.
CloseSends ==
    /\ at = "close" /\ sftp_handle /\ ~close_sent
    /\ up
    /\ window >= RequestLen
    /\ window' = window - RequestLen
    /\ close_sent' = TRUE
    /\ UNCHANGED <<handleVars, sftpVars, callVars, up, wire, in_sync, replies, remote,
                   commandVars, fromVars, sftp_handle, first_id, requestVars, cut>>

CloseIsCut ==
    /\ at = "close" /\ sftp_handle /\ ~close_sent
    /\ up
    /\ window \in 1 .. RequestLen - 1
    /\ window' = 0
    /\ cut' = TRUE
    /\ HandleIsGone

CloseRemote ==
    /\ at = "close" /\ sftp_handle
    /\ (close_sent /\ Exchanged) \/ NotExchanged
    /\ HandleIsGone
    /\ UNCHANGED <<window, cut>>

\* Mutant of CloseLocal: the remote handle is left to the next command.
CloseLocalOnly ==
    /\ at = "close"
    /\ at' = "command"
    /\ UNCHANGED <<vars, todo, from_len, outcome, fromVars, openVars>>

CloseLocal ==
    /\ at = "close"
    /\ ~sftp_handle
    /\ at' = "command"
    /\ UNCHANGED <<vars, todo, from_len, outcome, fromVars, openVars>>

SessionStops ==
    /\ at = "command"
    /\ todo = 0
    /\ at' = "stopped"
    /\ UNCHANGED <<vars, todo, from_len, outcome, fromVars, openVars>>

-----------------------------------------------------------------------------
CommandLoop ==
    \/ StartCommand \/ OpenLocal
    \/ OpenBegins \/ OpenNotBegun \/ OpenSends \/ OpenSendFails \/ OpenWaitFails
    \/ OpenRemote \/ OpenRemoteFails
    \/ ReadAndWrite \/ ReadEnds \/ WriteReturned
    \/ CloseSends \/ CloseIsCut \/ CloseRemote \/ CloseLocal \/ SessionStops

\* The pipeline under the loop
WriteSteps == Library /\ UNCHANGED copyVars
NetworkSteps == Network /\ UNCHANGED copyVars

CopyNext == CommandLoop \/ WriteSteps \/ NetworkSteps

CopySpec == CopyInit /\ [][CopyNext]_allVars

\* The program runs on while it can; the server works on what it gets.  With "alloc"
\* among the faults this would force a failure to happen: the runs that check
\* liveness leave it out.
CopyFairness ==
    /\ WF_allVars(CommandLoop)
    /\ WF_allVars(WriteSteps)
    /\ WF_allVars(ServerWrites /\ UNCHANGED copyVars)
    /\ WF_allVars(WindowOpens /\ UNCHANGED copyVars)

FairCopySpec == CopySpec /\ CopyFairness
-----------------------------------------------------------------------------
(* Properties                                                              *)

\* When a command ends its loop without an error, the file it opened is what was
\* read of the local file: every block is stored at its place, nothing is missing
\* and nothing of an earlier content or of an earlier command is left.  Only when
\* reading failed, which the loop takes for the end of the file (main.cpp, do ...
\* while (read_bytes > 0)), is that not the whole file.
CopiedIsWhole ==
    outcome = "copied" =>
        /\ \A i \in Offsets : remote[i] = IF i < from_pos THEN i ELSE Missing
        /\ from_pos = from_len \/ read_failed

\* While a remote file is open, nothing on its way was sent for an earlier file: no
\* late write request, and no answer that a later write could take for its own.  And
\* it is the file that the running command names, unless an earlier command's open
\* failed with its request under way, which sftp_open keeps: then it is that one's.
OneFileAtATime ==
    sftp_handle =>
        /\ open_for = todo \/ open_for \in abandoned
        /\ \A k \in 1 .. Len(wire) : wire[k].id >= first_id
        /\ \A id \in RepliedIds : id >= first_id

\* The session comes to its end whatever fails on the way: a command that could
\* not open a file, a refused write, a lost connection.
SessionEnds == <>(at = "stopped")

\* Whatever fails, the session sees what CopyLoop says of the commands: each is
\* begun once, and the next only when the remote file of the one before is closed.
LoopPhase ==
    CASE at \in {"command", "stopped"} -> "idle"
      [] sftp_handle -> "open"
      [] at \in {"open_local", "open_remote"} -> "begun"
      [] OTHER -> "released"

Loop == INSTANCE CopyLoop WITH MaxCommands <- Commands, phase <- LoopPhase

ImplementsLoop == Loop!LoopSpec

\* What the callers of libssh2_sftp_write are told: "Note that it may not be
\* possible to write all bytes as requested"; the function "will return a positive
\* number as soon as the first packet is acknowledged".  So a short count is no
\* failure, and without faults no copy fails half way.
ShortCountIsNoFailure == outcome # "incomplete"
=============================================================================
