------------------------------ MODULE SftpWrite ------------------------------
(***************************************************************************)
(* One call of libssh2_sftp_write after another on one open file handle:   *)
(* the call that main.cpp makes to move a file to a remote.                *)
(*                                                                         *)
(* sftp_write (ext/lib/libssh2/src/sftp.c) cuts the caller's buffer into   *)
(* chunks, sends the chunks ahead of their answers, waits for the answers  *)
(* in order and reports to the caller only bytes that were answered.  The  *)
(* caller passes the bytes that were not reported yet once more, so the    *)
(* function has to know which of them are on their way already.            *)
(*                                                                         *)
(* The caller here is the one the manual page of the function describes:   *)
(* it passes some bytes from position pos on, moves pos by what is         *)
(* reported, and calls again, also after an error.  FileCopy.tla replaces  *)
(* it by the loop of main.cpp.                                             *)
(***************************************************************************)
EXTENDS Integers, Sequences, FiniteSets

CONSTANTS SrcLen,      \* bytes in the source that the caller sends
          MaxChunk,    \* MAX_SFTP_OUTGOING_SIZE
          MaxCount,    \* most bytes the caller passes in one call
          Window,      \* most bytes the channel takes before the peer makes room
          InitSize,    \* bytes of the window that libssh2_sftp_init used
          MaxRequests, \* bound: request ids handed out in a run
          Faults       \* what may go wrong: a subset of FaultKinds

FaultKinds == {"alloc", "reject", "drop", "wait"}

ASSUME ConstantsAssumption ==
    /\ SrcLen \in Nat
    /\ MaxChunk \in Nat \ {0}
    /\ MaxCount \in Nat \ {0}
    /\ Window \in Nat \ {0}
    /\ InitSize \in 0 .. Window
    /\ MaxRequests \in Nat
    /\ Faults \subseteq FaultKinds

VARIABLES
    offset,       \* handle->u.file.offset: every byte below was answered
    offset_sent,  \* handle->u.file.offset_sent: every byte below is in a chunk
    file_acked,   \* handle->u.file.acked: answered, not reported yet
    packet_list,  \* handle->packet_list: the chunks without an answer
    write_state,  \* sftp->write_state
    next_id,      \* sftp->request_id
    zombies,      \* sftp->zombie_requests
    pc,           \* where the running call is; "app": no call is running
    org_count,    \* parameter count of the running call
    count,        \* bytes of the buffer not yet in a chunk
    acked,        \* bytes answered in this entry of sftp_write
    ret,          \* value of the last call: bytes reported, or -1
    pos,          \* caller: where the next buffer starts in the source
    window,       \* bytes the channel takes now
    up,           \* the connection is alive
    wire,         \* write requests on their way to the server, in order
    in_sync,      \* the server still finds where a request starts
    replies,      \* answers on their way, or queued in sftp->packets
    remote        \* what the server's file holds at each offset

handleVars == <<offset, offset_sent, file_acked, packet_list>>
sftpVars   == <<write_state, next_id, zombies>>
callVars   == <<pc, org_count, count, acked, ret, pos>>
netVars    == <<window, up, wire, in_sync, replies, remote>>
vars       == <<handleVars, sftpVars, callVars, netVars>>

Missing == -1   \* nothing was written at this offset
Garbage == -2   \* bytes of another packet were written at this offset

Offsets == 0 .. SrcLen - 1

\* src: where the bytes of the chunk come from in the source;
\* left: bytes of the packet not handed to the channel (lefttosend)
Chunk == [id : Nat, off : Nat, src : Nat, len : Nat \ {0}, left : Nat]

Packet == [id : Nat, off : Nat, src : Nat, len : Nat \ {0}, whole : BOOLEAN]

Reply == [id : Nat, ok : BOOLEAN]

PCs == {"app", "enter", "chunk", "send", "ack", "wait"}

TypeOK ==
    /\ offset \in Nat /\ offset_sent \in Nat /\ file_acked \in Nat
    /\ packet_list \in Seq(Chunk)
    /\ write_state \in {"idle", "sent"}
    /\ next_id \in Nat
    /\ zombies \subseteq Nat
    /\ pc \in PCs
    /\ org_count \in Nat /\ count \in Nat /\ acked \in Nat
    /\ ret \in Int /\ pos \in Nat
    /\ window \in Nat
    /\ up \in BOOLEAN /\ in_sync \in BOOLEAN
    /\ wire \in Seq(Packet)
    /\ replies \subseteq Reply
    /\ remote \in [Offsets -> Int]

InitHandle ==
    /\ offset = 0 /\ offset_sent = 0 /\ file_acked = 0
    /\ packet_list = <<>>

Init ==
    /\ InitHandle
    /\ write_state = "idle" /\ next_id = 0 /\ zombies = {}
    /\ pc = "app" /\ org_count = 0 /\ count = 0 /\ acked = 0 /\ ret = 0
    /\ pos = 0
    /\ window = Window - InitSize /\ up = TRUE /\ wire = <<>> /\ in_sync = TRUE
    /\ replies = {}
    /\ remote = [i \in Offsets |-> Missing]

AtMost(a, b) == IF a < b THEN a ELSE b

-----------------------------------------------------------------------------
(* The call and the phases of sftp_write.                                  *)

\* libssh2_sftp_write(hnd, source + pos, n)
Call(n) ==
    /\ pc = "app"
    /\ next_id + n <= MaxRequests
    /\ pc' = "enter"
    /\ org_count' = n
    /\ UNCHANGED <<handleVars, sftpVars, count, acked, ret, pos, netVars>>

\* Mutant of Already: the bytes answered but not reported are not skipped.
AlreadyInChunks == offset_sent - offset

\* Bytes at the start of the buffer that an earlier entry took care of
Already == offset_sent - offset + file_acked

\* Mutant of BytesToChunk: the buffer may be shorter than what is under way.
BytesUnderflow(n) == n - Already

\* Bytes of a buffer of n that are not in chunks yet
BytesToChunk(n) == IF n >= Already THEN n - Already ELSE 0

\* The function is entered with (buffer, org_count): for the first time or
\* once more after a wait.  In the state "sent" it goes to the answers at once;
\* otherwise the bytes that are in chunks, and those that were answered but not
\* reported, are skipped in the buffer.
Enter ==
    /\ pc = "enter"
    /\ acked' = 0
    /\ \/ /\ write_state = "sent"
          /\ count' = org_count
          /\ pc' = "ack"
       \/ /\ write_state = "idle"
          /\ count' = BytesToChunk(org_count)
          /\ pc' = "chunk"
    /\ UNCHANGED <<handleVars, sftpVars, org_count, ret, pos, netVars>>

Return(r) ==
    /\ pc' = "app"
    /\ ret' = r

MakeChunk ==
    /\ pc = "chunk"
    /\ count > 0
    /\ LET size == AtMost(MaxChunk, count)
       IN  /\ packet_list' = Append(packet_list,
                  [id |-> next_id, off |-> offset_sent,
                   src |-> pos + org_count - count, len |-> size, left |-> size])
           /\ offset_sent' = offset_sent + size
           /\ count' = count - size
    /\ next_id' = next_id + 1
    /\ UNCHANGED <<offset, file_acked, write_state, zombies,
                   pc, org_count, acked, ret, pos, netVars>>

ChunksMade ==
    /\ pc = "chunk"
    /\ count = 0
    /\ pc' = "send"
    /\ UNCHANGED <<handleVars, sftpVars, org_count, count, acked, ret, pos, netVars>>

\* "malloc fail for FXP_WRITE": the chunks made so far stay in the list
AllocFails ==
    /\ "alloc" \in Faults
    /\ pc = "chunk"
    /\ count > 0
    /\ Return(-1)
    /\ UNCHANGED <<handleVars, sftpVars, org_count, count, acked, pos, netVars>>

\* Mutant of FirstUnsent: a packet that was begun is not continued.
FirstUnbegun(i) ==
    /\ i \in 1 .. Len(packet_list)
    /\ packet_list[i].left = packet_list[i].len
    /\ \A j \in 1 .. i - 1 : packet_list[j].left < packet_list[j].len

\* i is the first chunk that is not wholly handed to the channel
FirstUnsent(i) ==
    /\ i \in 1 .. Len(packet_list)
    /\ packet_list[i].left > 0
    /\ \A j \in 1 .. i - 1 : packet_list[j].left = 0

\* The channel takes as much of the packet as its window allows.  The first part
\* starts a request on the wire; a later part is appended to the same request.
SendChunk ==
    /\ pc = "send"
    /\ up
    /\ window > 0
    /\ \E i \in 1 .. Len(packet_list) :
          /\ FirstUnsent(i)
          /\ LET c    == packet_list[i]
                 left == c.left - AtMost(window, c.left)
             IN  /\ packet_list' = [packet_list EXCEPT ![i].left = left]
                 /\ window' = window - (c.left - left)
                 /\ wire' = IF c.left = c.len
                            THEN Append(wire, [id |-> c.id, off |-> c.off, src |-> c.src,
                                               len |-> c.len, whole |-> left = 0])
                            ELSE [wire EXCEPT ![Len(wire)].whole = (left = 0)]
                 /\ pc' = IF left > 0 THEN "ack" ELSE "send"
    /\ UNCHANGED <<offset, offset_sent, file_acked, sftpVars,
                   org_count, count, acked, ret, pos, up, in_sync, replies, remote>>

\* The channel takes nothing now (LIBSSH2_ERROR_EAGAIN), or the connection is dead.
SendStops ==
    /\ pc = "send"
    /\ \E i \in 1 .. Len(packet_list) : FirstUnsent(i)
    /\ \/ /\ up
          /\ window = 0
          /\ pc' = "wait"
          /\ UNCHANGED ret
       \/ /\ ~up
          /\ Return(-1)
    /\ UNCHANGED <<handleVars, sftpVars, org_count, count, acked, pos, netVars>>

AllSent ==
    /\ pc = "send"
    /\ \A i \in 1 .. Len(packet_list) : packet_list[i].left = 0
    /\ pc' = "ack"
    /\ UNCHANGED <<handleVars, sftpVars, org_count, count, acked, ret, pos, netVars>>

\* Mutant of AwaitsAnswer: also a packet that is not completely sent is waited for.
AwaitsTooEarly ==
    /\ packet_list # <<>>
    /\ acked = 0

\* The head of the list is the chunk whose answer is awaited next: it was sent
\* completely, and nothing was answered yet in this entry of the function.
AwaitsAnswer ==
    /\ packet_list # <<>>
    /\ Head(packet_list).left = 0
    /\ acked = 0

RepliedIds == {r.id : r \in replies}

\* Mutant of Answered: the status in the answer is not looked at.
AnsweredAnyhow(ok) == Head(packet_list).id \in RepliedIds

Answered(ok) == [id |-> Head(packet_list).id, ok |-> ok] \in replies

TakeAck ==
    /\ pc = "ack"
    /\ AwaitsAnswer
    /\ Answered(TRUE)
    /\ LET c == Head(packet_list)
       IN  /\ replies' = replies \ {[id |-> c.id, ok |-> TRUE]}
           /\ acked' = acked + c.len
           /\ offset' = offset + c.len
    /\ packet_list' = Tail(packet_list)
    /\ write_state' = "idle"
    /\ UNCHANGED <<offset_sent, file_acked, next_id, zombies,
                   pc, org_count, count, ret, pos, window, up, wire, in_sync, remote>>

ChunkIds(list) == {list[i].id : i \in 1 .. Len(list)}

\* Chunks of a list of which at least one byte was sent
SentIds(list) == {list[i].id : i \in {j \in 1 .. Len(list) : list[j].left < list[j].len}}

\* Mutant of Flush: requests that may still be answered are not remembered.
FlushWithoutZombies(there) ==
    /\ UNCHANGED zombies
    /\ replies' = {r \in there : r.id \notin ChunkIds(packet_list)}
    /\ packet_list' = <<>>

\* sftp_packetlist_flush: of the answers that are there, those to the chunks of
\* the list are dropped; every other request that was begun becomes a zombie.
Flush(there) ==
    /\ zombies' = zombies \cup (SentIds(packet_list) \ {r.id : r \in there})
    /\ replies' = {r \in there : r.id \notin ChunkIds(packet_list)}
    /\ packet_list' = <<>>

\* Mutant of Rewound: the bytes kept for the caller are forgotten, not rewound.
NotRewound == offset

\* The offset up to which the caller knows the bytes as written
Rewound == offset - file_acked

\* "FXP write failed": everything that is not reported is forgotten.  The answer
\* to the first chunk is taken out before the flush.
TakeRejection ==
    /\ pc = "ack"
    /\ AwaitsAnswer
    /\ Answered(FALSE)
    /\ Flush(replies \ {[id |-> Head(packet_list).id, ok |-> FALSE]})
    /\ offset' = Rewound
    /\ offset_sent' = Rewound
    /\ file_acked' = 0
    /\ write_state' = "idle"
    /\ Return(-1)
    /\ UNCHANGED <<next_id, org_count, count, acked, pos, window, up, wire, in_sync, remote>>

\* No answer yet: EAGAIN is remembered in write_state; a dead socket is an error.
NoAnswer ==
    /\ pc = "ack"
    /\ AwaitsAnswer
    /\ Head(packet_list).id \notin RepliedIds
    /\ \/ /\ up
          /\ write_state' = "sent"
          /\ pc' = "wait"
          /\ UNCHANGED ret
       \/ /\ ~up
          /\ write_state' = "idle"
          /\ Return(-1)
    /\ UNCHANGED <<handleVars, next_id, zombies, org_count, count, acked, pos, netVars>>

\* Mutant of Total: the bytes on their way are reported as well.
TotalSent == acked + file_acked + offset_sent - offset

\* Bytes answered, in this entry and before it, and not reported yet
Total == acked + file_acked

\* Report what was answered, at most what was asked for; the rest is kept.
Report ==
    /\ pc = "ack"
    /\ ~AwaitsAnswer
    /\ write_state' = "idle"
    /\ LET r == AtMost(Total, org_count)
       IN  /\ file_acked' = Total - r
           /\ pos' = pos + r
           /\ Return(r)
    /\ acked' = 0
    /\ UNCHANGED <<offset, offset_sent, packet_list, next_id, zombies,
                   org_count, count, netVars>>

\* BLOCK_ADJUST: wait for the socket and enter again.  A wake-up that finds
\* neither room nor the awaited answer ends in the same wait.
WaitEnds ==
    /\ pc = "wait"
    /\ \/ ~up
       \/ write_state = "idle" /\ window > 0
       \/ write_state = "sent" /\ Head(packet_list).id \in RepliedIds
    /\ pc' = "enter"
    /\ UNCHANGED <<handleVars, sftpVars, org_count, count, acked, ret, pos, netVars>>

WaitFails ==
    /\ "wait" \in Faults
    /\ pc = "wait"
    /\ Return(-1)
    /\ UNCHANGED <<handleVars, sftpVars, org_count, count, acked, pos, netVars>>

-----------------------------------------------------------------------------
(* The connection and the server.                                          *)

\* An answer to a request that was given up on is dropped when it arrives.
Answer(id, ok) ==
    IF id \in zombies
    THEN /\ zombies' = zombies \ {id}
         /\ UNCHANGED replies
    ELSE /\ replies' = replies \cup {[id |-> id, ok |-> ok]}
         /\ UNCHANGED zombies

\* The server has the first n bytes of request p in its file.
Stored(p, n) ==
    [i \in Offsets |-> IF i \in p.off .. p.off + n - 1
                       THEN p.src + (i - p.off) ELSE remote[i]]

ServerWrites ==
    /\ up /\ in_sync
    /\ wire # <<>>
    /\ Head(wire).whole
    /\ remote' = Stored(Head(wire), Head(wire).len)
    /\ Answer(Head(wire).id, TRUE)
    /\ wire' = Tail(wire)
    /\ UNCHANGED <<handleVars, write_state, next_id, callVars, window, up, in_sync>>

\* A refused write may have stored a part of its bytes.
ServerRefuses ==
    /\ "reject" \in Faults
    /\ up /\ in_sync
    /\ wire # <<>>
    /\ Head(wire).whole
    /\ \E n \in 0 .. Head(wire).len - 1 : remote' = Stored(Head(wire), n)
    /\ Answer(Head(wire).id, FALSE)
    /\ wire' = Tail(wire)
    /\ UNCHANGED <<handleVars, write_state, next_id, callVars, window, up, in_sync>>

\* A request whose end was never sent is completed with the bytes of the next
\* one; after that the server cannot find the start of a request any more.
ServerLosesFraming ==
    /\ up /\ in_sync
    /\ Len(wire) > 1
    /\ ~Head(wire).whole
    /\ \E n \in 0 .. Head(wire).len - 1 :
          remote' = [i \in Offsets |->
                        IF i \in Head(wire).off + n .. Head(wire).off + Head(wire).len - 1
                        THEN Garbage ELSE Stored(Head(wire), n)[i]]
    /\ Answer(Head(wire).id, TRUE)
    /\ wire' = Tail(wire)
    /\ in_sync' = FALSE
    /\ UNCHANGED <<handleVars, write_state, next_id, callVars, window, up>>

\* The peer makes room (SSH_MSG_CHANNEL_WINDOW_ADJUST).
WindowOpens ==
    /\ up
    /\ window < Window
    /\ window' = Window
    /\ UNCHANGED <<handleVars, sftpVars, callVars, up, wire, in_sync, replies, remote>>

\* The connection dies; answers that did not reach the program are lost.
ConnectionDrops ==
    /\ "drop" \in Faults
    /\ up
    /\ up' = FALSE
    /\ wire' = <<>>
    /\ \E kept \in SUBSET replies : replies' = kept
    /\ UNCHANGED <<handleVars, sftpVars, callVars, window, in_sync, remote>>

-----------------------------------------------------------------------------
\* The steps of a running call
Library ==
    \/ Enter \/ MakeChunk \/ ChunksMade \/ AllocFails
    \/ SendChunk \/ SendStops \/ AllSent
    \/ TakeAck \/ TakeRejection \/ NoAnswer \/ Report
    \/ WaitEnds \/ WaitFails

Network ==
    \/ ServerWrites \/ ServerRefuses \/ ServerLosesFraming
    \/ WindowOpens \/ ConnectionDrops

\* The caller of the manual page: it passes some of what was not reported.
CallerWrites == \E n \in 1 .. AtMost(MaxCount, SrcLen - pos) : Call(n)

Next == CallerWrites \/ Library \/ Network

Spec == Init /\ [][Next]_vars

\* The program runs on while it can, the server works on what it gets and
\* makes room; nothing forces a fault.
FairSteps ==
    /\ WF_vars(Library)
    /\ WF_vars(ServerWrites)
    /\ WF_vars(WindowOpens)

FairSpec == Spec /\ FairSteps

\* and the caller goes on until everything is reported
DiligentSpec == FairSpec /\ WF_vars(CallerWrites)
-----------------------------------------------------------------------------
(* Properties                                                              *)

\* No answered byte is lost and none is counted twice, through partial reports,
\* retries and the rewind after a refused write: what the caller was told, what
\* is kept for it and what this entry counted add up to the answered offset.
AckAccounting == pos + file_acked + acked = offset

\* The chunks without an answer cover exactly the gap between the answered and
\* the sent offset, in order and without a hole or an overlap, each carrying the
\* bytes of the source that belong at its offset: passing the same bytes again
\* never sends one twice.
PipelineCoversGap ==
    LET StartsAt(i) == IF i = 1 THEN offset
                       ELSE packet_list[i - 1].off + packet_list[i - 1].len
        n == Len(packet_list)
    IN  /\ \A i \in 1 .. n : /\ packet_list[i].off = StartsAt(i)
                             /\ packet_list[i].src = packet_list[i].off
        /\ offset_sent = IF n = 0 THEN offset
                         ELSE packet_list[n].off + packet_list[n].len

\* Every byte reported to the caller is in the server's file at its place, and
\* stays there: a late request of an abandoned attempt, a refused write or lost
\* framing never touches it.
ReportedIsStored == \A i \in 0 .. pos - 1 : remote[i] = i

\* Without a refused write a request is never started before the one before it is
\* complete: only the last request on the wire may be incomplete.
FramingKept ==
    /\ in_sync
    /\ \A i \in 1 .. Len(wire) - 1 : wire[i].whole

\* No answer piles up unread: whatever was answered belongs to a chunk in the
\* list, because giving up on a request marks it as a zombie in time.
NoOrphanReply == RepliedIds \subseteq ChunkIds(packet_list)

\* The call implements the abstract upload.
Abstract == INSTANCE Upload WITH
                Length   <- SrcLen,
                stored   <- {i \in Offsets : remote[i] = i},
                reported <- pos

ImplementsUpload == Abstract!Spec

\* A call of the blocking function comes back.
CallReturns == (pc # "app") ~> (pc = "app")

\* A caller that goes on has its whole source reported in the end.
AllReported == <>(pos = SrcLen)
-----------------------------------------------------------------------------
(* The inductive invariant: what the proofs of SftpWriteProofs rest on.     *)

ListIndices == 1 .. Len(packet_list)
WireIndices == 1 .. Len(wire)

Begun(c) == c.left < c.len

\* What the caller was told and what the running call knows of its buffer
CountingInv ==
    /\ AckAccounting
    /\ acked # 0 => pc = "ack"
    /\ pc # "app" => pos + org_count <= SrcLen
    /\ pc = "chunk" => /\ count <= org_count
                       /\ count > 0 => pos + org_count - count = offset_sent

\* The list covers the gap; it is in the order of ids and of offsets, and was
\* sent from its head on
ListInv ==
    /\ PipelineCoversGap
    /\ offset <= offset_sent
    /\ offset_sent <= SrcLen
    /\ \A i \in ListIndices : /\ packet_list[i].id < next_id
                              /\ packet_list[i].left <= packet_list[i].len
                              /\ packet_list[i].off + packet_list[i].len <= offset_sent
    /\ \A i, j \in ListIndices : i < j =>
          /\ packet_list[i].id < packet_list[j].id
          /\ packet_list[i].off + packet_list[i].len <= packet_list[j].off
          /\ packet_list[i].left > 0 => ~Begun(packet_list[j])

SameRequest(p, c) ==
    /\ p.id = c.id
    /\ p.off = c.off
    /\ p.len = c.len
    /\ p.whole <=> c.left = 0

\* The requests on the wire are in the order of their ids and touch nothing that
\* was answered; one that is not older than the list belongs to it; the one that
\* is being sent is the last
WireInv ==
    /\ \A k \in WireIndices : /\ wire[k].id < next_id
                              /\ wire[k].src = wire[k].off
                              /\ wire[k].off >= offset
    /\ \A k, l \in WireIndices : k < l => wire[k].id < wire[l].id
    /\ \A k \in WireIndices : \A i \in ListIndices :
          ~Begun(packet_list[i]) => wire[k].id < packet_list[i].id
    /\ \A k \in WireIndices :
          (packet_list # <<>> /\ wire[k].id >= packet_list[1].id) =>
              \E i \in ListIndices : SameRequest(wire[k], packet_list[i])
    /\ \A k \in WireIndices :
          (k < Len(wire) /\ ~wire[k].whole) =>
              \A i \in ListIndices : packet_list[i].id # wire[k].id
    /\ \A i \in ListIndices :
          (up /\ Begun(packet_list[i]) /\ packet_list[i].left > 0) =>
              wire # <<>> /\ wire[Len(wire)].id = packet_list[i].id

\* One answer to a request, and in the order of the requests
ReplyInv ==
    /\ \A r \in replies : r.id < next_id
    /\ \A r, s \in replies : r.id = s.id => r = s
    /\ \A r \in replies : \A k \in WireIndices : r.id < wire[k].id
    /\ \A r \in replies : \A i \in ListIndices :
          ~Begun(packet_list[i]) => r.id < packet_list[i].id

\* What was answered is stored and stays so
StoredInv ==
    /\ \A x \in 0 .. offset - 1 : remote[x] = x
    /\ \A i \in ListIndices :
          [id |-> packet_list[i].id, ok |-> TRUE] \in replies =>
              \A x \in packet_list[i].off .. packet_list[i].off + packet_list[i].len - 1 :
                  remote[x] = x

\* A request on the wire is awaited or known to be given up
ZombieInv ==
    /\ NoOrphanReply
    /\ \A k \in WireIndices : wire[k].id \in ChunkIds(packet_list) \cup zombies

\* The parts together: together they are kept by every step
IndInv ==
    /\ TypeOK
    /\ CountingInv
    /\ ListInv
    /\ WireInv
    /\ ReplyInv
    /\ StoredInv
    /\ ZombieInv
=============================================================================
