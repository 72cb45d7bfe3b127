---------------------------- MODULE FileCopyProofs ----------------------------
(***************************************************************************)
(* Proofs about FileCopy, on those about the write pipeline: a copy that    *)
(* ends well leaves the whole file, the files of two commands do not mix,   *)
(* and the loop over the commands is the one of CopyLoop.                   *)
(***************************************************************************)
EXTENDS FileCopy, SftpWriteProofs

(* The inductive invariant, part by part *)

\* Between two remote files nothing is left to send and no answer waits; what
\* is still on the wire was given up.
Closed ==
    /\ pc = "app" /\ acked = 0 /\ packet_list = <<>> /\ replies = {}
    /\ \A k \in WireIndices : wire[k].id \in zombies /\ wire[k].id < next_id
    /\ \A k, l \in WireIndices : k < l => wire[k].id < wire[l].id

\* Where the loop is, and what it may think of the last call
Control ==
    /\ at \in {"read", "write"} => sftp_handle
    /\ sftp_handle => at \in {"read", "write", "close"}
    /\ at # "write" => pc = "app"
    /\ at \in {"open_local", "open_remote"} => from_pos = 0
    /\ at = "read" => pos = from_pos
    /\ at = "write" =>
          /\ read_bytes > 0
          /\ pc # "app" => pos + read_bytes = from_pos /\ org_count = read_bytes
          /\ pc = "app" /\ ret = read_bytes => pos = from_pos

\* No byte beyond what was read of the local file is on its way or stored.
Bounded ==
    /\ offset_sent <= from_pos
    /\ \A k \in WireIndices : wire[k].off + wire[k].len <= from_pos
    /\ \A x \in Offsets : x >= from_pos => remote[x] = Missing

\* Everything on its way was sent for the file that is open.
FromHere ==
    /\ \A i \in ListIndices : packet_list[i].id >= first_id
    /\ \A k \in WireIndices : wire[k].id >= first_id
    /\ \A r \in replies : r.id >= first_id

\* What was copied stays so: nothing is on the wire any more.
Copied ==
    outcome = "copied" =>
        /\ wire = <<>>
        /\ \A x \in Offsets : remote[x] = IF x < from_pos THEN x ELSE Missing
        /\ from_pos = from_len \/ read_failed
        /\ at \in {"close", "command", "stopped"}

\* Whose file the request under way names, and the one that is open
Request ==
    /\ open_state # "idle" => \/ open_for \in abandoned
                              \/ at = "open_remote" /\ open_for = todo
    /\ sftp_handle => /\ open_state = "idle"
                      /\ open_for = todo \/ open_for \in abandoned

CopyInv ==
    /\ CopyTypeOK
    /\ Control
    /\ Request
    /\ ~sftp_handle => Closed
    /\ sftp_handle => IndInv /\ Bounded /\ FromHere
    /\ Copied

\* The numbers of the loop
LEMMA CopyNumbers ==
    ASSUME CopyTypeOK
    PROVE  /\ TypeOK
           /\ from_len \in Nat /\ from_len <= SrcLen /\ from_pos \in Nat
           /\ from_pos <= from_len /\ read_bytes \in Nat /\ first_id \in Nat
           /\ first_id <= next_id /\ next_id \in Nat /\ SrcLen \in Nat
           /\ MaxCount \in Nat /\ MaxCount > 0 /\ Offsets \subseteq Int
<1>1. TypeOK /\ next_id \in Nat /\ SrcLen \in Nat /\ MaxCount \in Nat /\ MaxCount > 0
  BY ConstantsAssumption DEF CopyTypeOK, TypeOK
<1>2. from_len \in Nat /\ from_len <= SrcLen
  BY <1>1 DEF CopyTypeOK
<1>3. from_pos \in Nat /\ from_pos <= from_len
  BY <1>2 DEF CopyTypeOK
<1>4. first_id \in Nat /\ first_id <= next_id
  BY <1>1 DEF CopyTypeOK
<1>5. read_bytes \in Nat
  BY <1>1, <1>3 DEF CopyTypeOK, AtMost
<1>6. Offsets \subseteq Int
  BY <1>1 DEF Offsets
<1> QED BY <1>1, <1>2, <1>3, <1>4, <1>5, <1>6

\* The rest of the type invariant for steps that leave the loop alone
LEMMA SameLoopTyped ==
    ASSUME CopyTypeOK, TypeOK', UNCHANGED copyVars, next_id' >= next_id
    PROVE  CopyTypeOK'
<1>1. UNCHANGED <<at, todo, from_len, outcome, from_pos, read_bytes,
                  read_failed, sftp_handle, first_id,
                  open_state, open_left, open_for, abandoned, close_sent, cut>>
  BY DEF copyVars, commandVars, fromVars, openVars, requestVars, closeVars
<1>2. first_id \in Nat /\ first_id <= next_id /\ next_id \in Nat /\ next_id' \in Nat
  BY CopyNumbers DEF TypeOK
<1>3. first_id' \in 0 .. next_id'
  BY <1>1, <1>2
<1> QED BY <1>1, <1>3 DEF CopyTypeOK

-----------------------------------------------------------------------------
(* Steps of the pipeline under a running command *)

\* What a step of libssh2_sftp_write does, as far as the loop is concerned
LEMMA LibraryEffect ==
    ASSUME IndInv, Library
    PROVE  /\ pc # "app"
           /\ next_id' >= next_id
           /\ remote' = remote /\ org_count' = org_count
           /\ pc' # "app" => pos' = pos
           /\ pc' = "app" => ret' = -1 \/ (ret' \in Nat /\ pos' = pos + ret')
           /\ offset_sent' <= offset_sent \/ offset_sent' <= pos + org_count
           /\ replies' \subseteq replies
<1>1. /\ next_id \in Nat /\ offset_sent \in Nat /\ pos \in Nat /\ count \in Nat
      /\ org_count \in Nat /\ offset \in Nat /\ file_acked \in Nat /\ acked \in Nat
      /\ offset <= offset_sent
  BY DEF IndInv, TypeOK, ListInv
<1>2. CASE Enter \/ ChunksMade \/ AllocFails \/ SendStops \/ AllSent \/ NoAnswer
           \/ WaitEnds \/ WaitFails
  BY <1>1, <1>2 DEF Enter, ChunksMade, AllocFails, SendStops, AllSent, NoAnswer,
        WaitEnds, WaitFails, Return, handleVars, sftpVars, netVars
<1>3. CASE MakeChunk
  <2>1. pc = "chunk" /\ count > 0 /\ pos + org_count - count = offset_sent
    BY <1>3 DEF MakeChunk, IndInv, CountingInv
  <2>2. AtMost(MaxChunk, count) <= count /\ AtMost(MaxChunk, count) \in Nat
    BY <1>1, ConstantsAssumption DEF AtMost
  <2>3. offset_sent' = offset_sent + AtMost(MaxChunk, count)
    BY <1>3 DEF MakeChunk
  <2>4. offset_sent' <= pos + org_count
    BY <1>1, <2>1, <2>2, <2>3
  <2> QED BY <1>1, <1>3, <2>1, <2>4 DEF MakeChunk, netVars
<1>4. CASE SendChunk
  BY <1>1, <1>4 DEF SendChunk, sftpVars
<1>5. CASE TakeAck
  BY <1>1, <1>5 DEF TakeAck
<1>6. CASE TakeRejection
  <2>1. Rewound <= offset_sent
    BY <1>1 DEF Rewound
  <2> QED BY <1>1, <1>6, <2>1 DEF TakeRejection, Flush, Return
<1>7. CASE Report
  <2>1. AtMost(Total, org_count) \in Nat
    BY <1>1 DEF AtMost, Total
  <2> QED BY <1>1, <1>7, <2>1 DEF Report, Return, netVars
<1> QED BY <1>2, <1>3, <1>4, <1>5, <1>6, <1>7 DEF Library

\* The chunks a step leaves, and the requests it sends, come from the list.
LEMMA LibraryList ==
    ASSUME IndInv, Library
    PROVE  /\ \A i \in ListIndices' :
                 packet_list'[i].id \in ChunkIds(packet_list) \cup {next_id}
           /\ \A k \in WireIndices' :
                 \/ \E l \in WireIndices : /\ wire'[k].id = wire[l].id
                                           /\ wire'[k].off = wire[l].off
                                           /\ wire'[k].len = wire[l].len
                 \/ \E i \in ListIndices : /\ wire'[k].id = packet_list[i].id
                                           /\ wire'[k].off = packet_list[i].off
                                           /\ wire'[k].len = packet_list[i].len
<1> DEFINE FromList == \A i \in ListIndices' :
                 packet_list'[i].id \in ChunkIds(packet_list) \cup {next_id}
           FromWire == \A k \in WireIndices' :
                 \/ \E l \in WireIndices : /\ wire'[k].id = wire[l].id
                                           /\ wire'[k].off = wire[l].off
                                           /\ wire'[k].len = wire[l].len
                 \/ \E i \in ListIndices : /\ wire'[k].id = packet_list[i].id
                                           /\ wire'[k].off = packet_list[i].off
                                           /\ wire'[k].len = packet_list[i].len
<1>1. packet_list \in Seq(Chunk) /\ wire \in Seq(Packet)
      /\ Len(packet_list) \in Nat /\ Len(wire) \in Nat
  BY ElementTypes DEF IndInv, TypeOK
<1>2. UNCHANGED packet_list => FromList
  BY DEF ListIndices, ChunkIds
<1>3. UNCHANGED wire => FromWire
  BY DEF WireIndices
<1>4. CASE Enter \/ ChunksMade \/ AllocFails \/ SendStops \/ AllSent \/ NoAnswer
           \/ WaitEnds \/ WaitFails \/ Report
  <2>1. UNCHANGED <<packet_list, wire>>
    BY <1>4 DEF Enter, ChunksMade, AllocFails, SendStops, AllSent, NoAnswer,
          WaitEnds, WaitFails, Report, handleVars, netVars
  <2> QED BY <1>2, <1>3, <2>1
<1>5. CASE MakeChunk
  <2>1. UNCHANGED wire
    BY <1>5 DEF MakeChunk, netVars
  <2>2. PICK c : c.id = next_id /\ packet_list' = Append(packet_list, c)
    BY <1>5 DEF MakeChunk
  <2>3. FromList
    BY <1>1, <2>2 DEF ListIndices, ChunkIds
  <2> QED BY <1>3, <2>1, <2>3
<1>6. CASE SendChunk
  <2>1. PICK i \in 1 .. Len(packet_list) :
          /\ FirstUnsent(i)
          /\ LET c    == packet_list[i]
                 left == c.left - AtMost(window, c.left)
             IN  /\ packet_list' = [packet_list EXCEPT ![i].left = left]
                 /\ wire' = IF c.left = c.len
                            THEN Append(wire, [id |-> c.id, off |-> c.off, src |-> c.src,
                                               len |-> c.len, whole |-> left = 0])
                            ELSE [wire EXCEPT ![Len(wire)].whole = (left = 0)]
    BY <1>6 DEF SendChunk
  <2> DEFINE c    == packet_list[i]
             left == c.left - AtMost(window, c.left)
  <2>2. FromList
    <3>1. packet_list' = [packet_list EXCEPT ![i].left = left]
      BY <2>1
    <3>2. /\ Len(packet_list') = Len(packet_list)
          /\ \A j \in 1 .. Len(packet_list) : packet_list'[j].id = packet_list[j].id
      <4>1. \A j \in 1 .. Len(packet_list) : packet_list[j] \in Chunk
        BY <1>1
      <4> HIDE DEF left
      <4> QED BY <1>1, <2>1, <3>1, <4>1 DEF Chunk
    <3> QED BY <1>1, <3>2 DEF ListIndices, ChunkIds
  <2>3. FromWire
    <3>1. CASE c.left = c.len
      <4>1. wire' = Append(wire, [id |-> c.id, off |-> c.off, src |-> c.src,
                                  len |-> c.len, whole |-> left = 0])
        BY <2>1, <3>1
      <4> QED BY <1>1, <4>1 DEF WireIndices, ListIndices
    <3>2. CASE c.left # c.len
      <4>1. wire' = [wire EXCEPT ![Len(wire)].whole = (left = 0)]
        BY <2>1, <3>2
      <4>2. \A k \in WireIndices : wire[k] \in Packet
        BY <1>1 DEF WireIndices
      <4>3. Len(wire') = Len(wire)
        BY <1>1, <4>1
      <4>4. \A k \in WireIndices : /\ wire'[k].id = wire[k].id
                                   /\ wire'[k].off = wire[k].off
                                   /\ wire'[k].len = wire[k].len
        BY <1>1, <4>1, <4>2 DEF Packet, WireIndices
      <4> QED BY <4>3, <4>4 DEF WireIndices
    <3> QED BY <3>1, <3>2
  <2> QED BY <2>2, <2>3
<1>7. CASE TakeAck
  <2>1. packet_list # <<>> /\ packet_list' = Tail(packet_list) /\ UNCHANGED wire
    BY <1>7 DEF TakeAck, AwaitsAnswer
  <2>2. FromList
    <3>1. Len(packet_list') = Len(packet_list) - 1
          /\ \A i \in 1 .. Len(packet_list) - 1 : packet_list'[i] = packet_list[i + 1]
      BY <1>1, <2>1, TailFacts
    <3> QED BY <1>1, <3>1 DEF ListIndices, ChunkIds
  <2> QED BY <1>3, <2>1, <2>2
<1>8. CASE TakeRejection
  BY <1>3, <1>8 DEF TakeRejection, Flush, ListIndices
<1> QED BY <1>4, <1>5, <1>6, <1>7, <1>8 DEF Library

LEMMA WriteKeepsInv ==
    ASSUME CopyInv, WriteSteps
    PROVE  CopyInv'
<1>1. Library /\ UNCHANGED copyVars
  BY DEF WriteSteps
<1>2. UNCHANGED <<at, todo, from_len, outcome, from_pos, read_bytes,
                  read_failed, sftp_handle, first_id,
                  open_state, open_left, open_for, abandoned, close_sent, cut>>
  BY <1>1 DEF copyVars, commandVars, fromVars, openVars, requestVars, closeVars
<1>3. pc # "app" /\ at = "write" /\ sftp_handle
  <2>1. pc # "app"
    BY <1>1 DEF Library, Enter, MakeChunk, ChunksMade, AllocFails, SendChunk, SendStops,
                AllSent, TakeAck, TakeRejection, NoAnswer, Report, WaitEnds, WaitFails
  <2> QED BY <2>1 DEF CopyInv, Control
<1>4. IndInv /\ Bounded /\ FromHere
  BY <1>3 DEF CopyInv
<1>5. IndInv'
  BY <1>1, <1>4, NextKeepsInv DEF Next
<1>6. /\ next_id' >= next_id
      /\ remote' = remote /\ org_count' = org_count
      /\ pc' # "app" => pos' = pos
      /\ pc' = "app" => ret' = -1 \/ (ret' \in Nat /\ pos' = pos + ret')
      /\ offset_sent' <= offset_sent \/ offset_sent' <= pos + org_count
      /\ replies' \subseteq replies
  BY <1>1, <1>4, LibraryEffect
<1>7. CopyTypeOK'
  BY <1>1, <1>5, <1>6, SameLoopTyped DEF CopyInv, IndInv
<1>8. /\ from_len \in Nat /\ from_pos \in Nat /\ from_pos <= from_len
      /\ read_bytes \in Nat /\ read_bytes > 0 /\ first_id \in Nat /\ first_id <= next_id
      /\ pos + read_bytes = from_pos /\ org_count = read_bytes
      /\ pos \in Nat /\ offset_sent \in Nat /\ next_id \in Nat
  BY <1>3, CopyNumbers DEF CopyInv, Control, TypeOK
<1>9. offset_sent' \in Nat
  BY <1>5 DEF IndInv, TypeOK
<1>10. Control'
  <2>1. pc' = "app" /\ ret' = read_bytes => pos' = from_pos
    BY <1>6, <1>8
  <2> QED BY <1>2, <1>3, <1>6, <1>8, <2>1 DEF Control
<1>11. Bounded'
  <2>1. offset_sent' <= from_pos
    BY <1>4, <1>6, <1>8, <1>9 DEF Bounded
  <2>2. ASSUME NEW k \in WireIndices'
        PROVE  wire'[k].off + wire'[k].len <= from_pos
    <3>1. CASE \E l \in WireIndices : /\ wire'[k].id = wire[l].id
                                      /\ wire'[k].off = wire[l].off
                                      /\ wire'[k].len = wire[l].len
      BY <1>4, <3>1 DEF Bounded
    <3>2. CASE \E i \in ListIndices : /\ wire'[k].id = packet_list[i].id
                                      /\ wire'[k].off = packet_list[i].off
                                      /\ wire'[k].len = packet_list[i].len
      <4>1. PICK i \in ListIndices : /\ wire'[k].off = packet_list[i].off
                                     /\ wire'[k].len = packet_list[i].len
        BY <3>2
      <4>2. packet_list[i].off + packet_list[i].len <= offset_sent
        BY <1>4 DEF IndInv, ListInv
      <4>3. offset_sent <= from_pos
        BY <1>4 DEF Bounded
      <4>4. packet_list[i].off \in Nat /\ packet_list[i].len \in Nat
        BY <1>4, ElementTypes DEF IndInv
      <4> QED BY <1>8, <4>1, <4>2, <4>3, <4>4
    <3> QED BY <1>1, <1>4, <2>2, <3>1, <3>2, LibraryList
  <2> QED BY <1>2, <1>4, <1>6, <2>1, <2>2 DEF Bounded
<1>12. FromHere'
  <2>1. \A n \in ChunkIds(packet_list) \cup {next_id} : n >= first_id
    BY <1>4, <1>8 DEF FromHere, ChunkIds, ListIndices
  <2>2. \A i \in ListIndices' : packet_list'[i].id >= first_id
    BY <1>1, <1>4, <2>1, LibraryList
  <2>3. ASSUME NEW k \in WireIndices'
        PROVE  wire'[k].id >= first_id
    BY <1>1, <1>4, LibraryList DEF FromHere
  <2>4. \A r \in replies' : r.id >= first_id
    BY <1>4, <1>6 DEF FromHere
  <2> QED BY <1>2, <2>2, <2>3, <2>4 DEF FromHere
<1>13. Copied'
  BY <1>2, <1>3 DEF CopyInv, Copied
<1> QED BY <1>2, <1>3, <1>5, <1>7, <1>10, <1>11, <1>12, <1>13 DEF CopyInv, Request

-----------------------------------------------------------------------------
(* Steps of the server and of the connection *)

LEMMA NetworkEffect ==
    ASSUME TypeOK, Network
    PROVE  /\ UNCHANGED <<offset, offset_sent, file_acked, packet_list, write_state,
                          next_id, pc, org_count, count, acked, ret, pos>>
           /\ wire = <<>> => wire' = <<>> /\ remote' = remote
           /\ wire' = wire \/ wire' = <<>> \/ (wire # <<>> /\ wire' = Tail(wire))
           /\ \A r \in replies' : r \in replies \/ (wire # <<>> /\ r.id = wire[1].id)
           /\ \A x \in Offsets :
                 \/ remote'[x] = remote[x]
                 \/ /\ wire # <<>>
                    /\ x \in wire[1].off .. wire[1].off + wire[1].len - 1
<1>1. wire # <<>> => Head(wire) = wire[1] /\ wire[1] \in Packet
  BY TailFacts DEF TypeOK
<1> DEFINE w == wire[1]
<1>2. ASSUME wire # <<>>, NEW n \in 0 .. w.len, NEW x \in Offsets,
             x \notin w.off .. w.off + w.len - 1
      PROVE  Stored(w, n)[x] = remote[x]
  <2>1. w.off \in Nat /\ w.len \in Nat
    BY <1>1, <1>2 DEF Packet
  <2>2. x \notin w.off .. w.off + n - 1
    BY <1>2, <2>1, ConstantsAssumption DEF Offsets
  <2> QED BY <2>2 DEF Stored
<1>3. CASE ServerWrites \/ ServerRefuses
  <2>1. wire # <<>> /\ wire' = Tail(wire) /\ Head(wire) = w /\ w \in Packet
    BY <1>1, <1>3 DEF ServerWrites, ServerRefuses
  <2>2. UNCHANGED <<offset, offset_sent, file_acked, packet_list, write_state,
                    next_id, pc, org_count, count, acked, ret, pos>>
    BY <1>3 DEF ServerWrites, ServerRefuses, handleVars, callVars
  <2>3. \A r \in replies' : r \in replies \/ r.id = w.id
    BY <1>3, <2>1 DEF ServerWrites, ServerRefuses, Answer
  <2>4. w.len \in Nat
    BY <2>1 DEF Packet
  <2>5. PICK n \in 0 .. w.len : remote' = Stored(w, n)
    <3>1. CASE ServerWrites
      <4>1. w.len \in 0 .. w.len
        BY <2>4
      <4> QED BY <2>1, <3>1, <4>1 DEF ServerWrites
    <3>2. CASE ServerRefuses
      <4>1. PICK n \in 0 .. w.len - 1 : remote' = Stored(w, n)
        BY <2>1, <3>2 DEF ServerRefuses
      <4>2. n \in 0 .. w.len
        BY <2>4
      <4> QED BY <4>1, <4>2
    <3> QED BY <1>3, <3>1, <3>2
  <2>6. \A x \in Offsets : remote'[x] = remote[x]
                           \/ x \in w.off .. w.off + w.len - 1
    BY <1>2, <2>1, <2>5
  <2> QED BY <2>1, <2>2, <2>3, <2>6
<1>4. CASE ServerLosesFraming
  <2>1. wire # <<>> /\ wire' = Tail(wire) /\ Head(wire) = w /\ w \in Packet
    BY <1>1, <1>4 DEF ServerLosesFraming, TypeOK
  <2>2. UNCHANGED <<offset, offset_sent, file_acked, packet_list, write_state,
                    next_id, pc, org_count, count, acked, ret, pos>>
    BY <1>4 DEF ServerLosesFraming, handleVars, callVars
  <2>3. \A r \in replies' : r \in replies \/ r.id = w.id
    BY <1>4, <2>1 DEF ServerLosesFraming, Answer
  <2>4. w.len \in Nat /\ w.off \in Nat
    BY <2>1 DEF Packet
  <2>5. PICK n \in 0 .. w.len - 1 :
            remote' = [i \in Offsets |->
                          IF i \in w.off + n .. w.off + w.len - 1
                          THEN Garbage ELSE Stored(w, n)[i]]
    BY <1>4, <2>1 DEF ServerLosesFraming
  <2>6. ASSUME NEW x \in Offsets, x \notin w.off .. w.off + w.len - 1
        PROVE  remote'[x] = remote[x]
    <3>1. n \in 0 .. w.len
      BY <2>4
    <3>2. x \notin w.off + n .. w.off + w.len - 1
      BY <2>4, <2>6, ConstantsAssumption DEF Offsets
    <3> QED BY <1>2, <2>1, <2>5, <2>6, <3>1, <3>2
  <2> QED BY <2>1, <2>2, <2>3, <2>6
<1>5. CASE WindowOpens \/ ConnectionDrops
  BY <1>5 DEF WindowOpens, ConnectionDrops, handleVars, sftpVars, callVars
<1> QED BY <1>3, <1>4, <1>5 DEF Network

\* What was given up is answered in vain.
LEMMA GivenUpStays ==
    ASSUME TypeOK, Closed, Network
    PROVE  Closed'
<1>1. /\ UNCHANGED <<packet_list, pc, acked, next_id>>
      /\ wire' = wire \/ wire' = <<>> \/ (wire # <<>> /\ wire' = Tail(wire))
  BY NetworkEffect
<1>2. wire \in Seq(Packet) /\ Len(wire) \in Nat
  BY DEF TypeOK
<1>3. CASE ServerWrites \/ ServerRefuses \/ ServerLosesFraming
  <2>1. wire # <<>> /\ wire' = Tail(wire)
    <3>1. CASE ServerWrites \/ ServerRefuses
      BY <3>1 DEF ServerWrites, ServerRefuses
    <3>2. CASE ServerLosesFraming
      BY <1>2, <3>2 DEF ServerLosesFraming
    <3> QED BY <1>3, <3>1, <3>2
  <2>2. /\ Head(wire) = wire[1] /\ Len(wire) \in Nat \ {0} /\ Len(wire') = Len(wire) - 1
        /\ \A i \in 1 .. Len(wire) - 1 : wire'[i] = wire[i + 1]
    BY <1>2, <2>1, TailFacts
  <2>3. wire[1].id \in zombies
    BY <2>2 DEF Closed, WireIndices
  <2>4. replies' = replies /\ zombies' = zombies \ {wire[1].id}
    BY <1>3, <2>2, <2>3 DEF ServerWrites, ServerRefuses, ServerLosesFraming, Answer
  <2>5. ASSUME NEW k \in WireIndices'
        PROVE  wire'[k].id \in zombies' /\ wire'[k].id < next_id
    <3>1. k + 1 \in WireIndices /\ 1 \in WireIndices /\ 1 < k + 1 /\ wire'[k] = wire[k + 1]
      BY <2>2, <2>5 DEF WireIndices
    <3>2. wire[k + 1].id \in zombies /\ wire[k + 1].id < next_id /\ wire[1].id < wire[k + 1].id
      BY <3>1 DEF Closed
    <3>3. wire[1].id \in Nat /\ wire[k + 1].id \in Nat
      BY <3>1, ElementTypes
    <3> QED BY <2>4, <3>1, <3>2, <3>3
  <2>6. ASSUME NEW k \in WireIndices', NEW l \in WireIndices', k < l
        PROVE  wire'[k].id < wire'[l].id
    <3>1. /\ k + 1 \in WireIndices /\ l + 1 \in WireIndices /\ k + 1 < l + 1
          /\ wire'[k] = wire[k + 1] /\ wire'[l] = wire[l + 1]
      BY <2>2, <2>6 DEF WireIndices
    <3> QED BY <3>1 DEF Closed
  <2> QED BY <1>1, <2>4, <2>5, <2>6 DEF Closed
<1>4. CASE WindowOpens \/ ConnectionDrops
  <2>1. replies' = {} /\ zombies' = zombies /\ (wire' = wire \/ wire' = <<>>)
    BY <1>4 DEF WindowOpens, ConnectionDrops, sftpVars, Closed
  <2> QED BY <1>1, <2>1 DEF Closed, WireIndices
<1> QED BY <1>3, <1>4 DEF Network

\* A network step keeps the types.
LEMMA NetworkTyped ==
    ASSUME TypeOK, Network
    PROVE  TypeOK'
<1>1. /\ UNCHANGED <<offset, offset_sent, file_acked, packet_list, write_state,
                     next_id, pc, org_count, count, acked, ret, pos>>
      /\ wire' = wire \/ wire' = <<>> \/ (wire # <<>> /\ wire' = Tail(wire))
  BY NetworkEffect
<1>2. wire' \in Seq(Packet)
  <2>1. wire \in Seq(Packet) /\ <<>> \in Seq(Packet)
    BY DEF TypeOK
  <2>2. wire # <<>> => Tail(wire) \in Seq(Packet)
    BY <2>1, TailFacts
  <2> QED BY <1>1, <2>1, <2>2
<1>3. ASSUME wire # <<>> PROVE Head(wire).id \in Nat /\ Head(wire) \in Packet
  <2>1. wire \in Seq(Packet)
    BY DEF TypeOK
  <2>2. Head(wire) \in Packet
    BY <1>3, <2>1, TailFacts
  <2> QED BY <2>2 DEF Packet
<1>4. ASSUME wire # <<>>, NEW n \in Nat PROVE Stored(Head(wire), n) \in [Offsets -> Int]
  <2>1. Head(wire).src \in Nat /\ Head(wire).off \in Nat
    BY <1>3, <1>4 DEF Packet
  <2>2. Offsets \subseteq Int
    BY ConstantsAssumption DEF Offsets
  <2>3. \A i \in Offsets : Head(wire).src + (i - Head(wire).off) \in Int /\ remote[i] \in Int
    BY <2>1, <2>2 DEF TypeOK
  <2> QED BY <2>3 DEF Stored
<1>5. CASE ServerWrites \/ ServerRefuses
  <2>1. wire # <<>> /\ window' = window /\ up' = up /\ in_sync' = in_sync
    BY <1>5 DEF ServerWrites, ServerRefuses
  <2>2. PICK ok \in BOOLEAN : Answer(Head(wire).id, ok)
    BY <1>5 DEF ServerWrites, ServerRefuses
  <2>3. zombies' \subseteq Nat /\ replies' \subseteq Reply
    <3>1. zombies \subseteq Nat /\ replies \subseteq Reply
      BY DEF TypeOK
    <3> DEFINE id == Head(wire).id
    <3>2. id \in Nat
      BY <1>3, <2>1
    <3> HIDE DEF id
    <3>3. [id |-> id, ok |-> TRUE] \in Reply /\ [id |-> id, ok |-> FALSE] \in Reply
      BY <3>2 DEF Reply
    <3> QED BY <2>2, <3>1, <3>3 DEF Answer, id
  <2>4. remote' \in [Offsets -> Int]
    <3>1. Head(wire).len \in Nat
      BY <1>3, <2>1 DEF Packet
    <3>2. \A n \in 0 .. Head(wire).len - 1 : n \in Nat
      BY <3>1
    <3> QED BY <1>4, <1>5, <2>1, <3>1, <3>2 DEF ServerWrites, ServerRefuses
  <2> QED BY <1>1, <1>2, <2>1, <2>3, <2>4 DEF TypeOK
<1>6. CASE ServerLosesFraming
  <2>1. wire # <<>> /\ window' = window /\ up' = up /\ in_sync' = FALSE
    BY <1>6 DEF ServerLosesFraming, TypeOK
  <2>2. Answer(Head(wire).id, TRUE)
    BY <1>6 DEF ServerLosesFraming
  <2>3. zombies' \subseteq Nat /\ replies' \subseteq Reply
    <3>1. zombies \subseteq Nat /\ replies \subseteq Reply
      BY DEF TypeOK
    <3> DEFINE id == Head(wire).id
    <3>2. id \in Nat
      BY <1>3, <2>1
    <3> HIDE DEF id
    <3>3. [id |-> id, ok |-> TRUE] \in Reply /\ [id |-> id, ok |-> FALSE] \in Reply
      BY <3>2 DEF Reply
    <3> QED BY <2>2, <3>1, <3>3 DEF Answer, id
  <2>4. remote' \in [Offsets -> Int]
    <3>1. Head(wire).len \in Nat
      BY <1>3, <2>1 DEF Packet
    <3>2. PICK n \in 0 .. Head(wire).len - 1 :
              remote' = [i \in Offsets |->
                            IF i \in Head(wire).off + n .. Head(wire).off + Head(wire).len - 1
                            THEN Garbage ELSE Stored(Head(wire), n)[i]]
      BY <1>6 DEF ServerLosesFraming
    <3>3. Stored(Head(wire), n) \in [Offsets -> Int]
      <4>1. n \in Nat
        BY <3>1
      <4> QED BY <1>4, <2>1, <4>1
    <3> QED BY <3>2, <3>3 DEF Garbage
  <2> QED BY <1>1, <1>2, <2>1, <2>3, <2>4 DEF TypeOK
<1>7. CASE WindowOpens \/ ConnectionDrops
  <2>1. /\ zombies' = zombies /\ replies' \subseteq replies
        /\ remote' = remote /\ in_sync' = in_sync /\ up' \in BOOLEAN /\ window' \in Nat
    BY <1>7, ConstantsAssumption DEF WindowOpens, ConnectionDrops, sftpVars, TypeOK
  <2> QED BY <1>1, <1>2, <2>1 DEF TypeOK
<1> QED BY <1>5, <1>6, <1>7 DEF Network

LEMMA NetworkKeepsInv ==
    ASSUME CopyInv, NetworkSteps
    PROVE  CopyInv'
<1>1. Network /\ UNCHANGED copyVars
  BY DEF NetworkSteps
<1>2. UNCHANGED <<at, todo, from_len, outcome, from_pos, read_bytes,
                  read_failed, sftp_handle, first_id,
                  open_state, open_left, open_for, abandoned, close_sent, cut>>
  BY <1>1 DEF copyVars, commandVars, fromVars, openVars, requestVars, closeVars
<1>3. TypeOK
  BY DEF CopyInv, CopyTypeOK
<1>4. /\ UNCHANGED <<offset, offset_sent, file_acked, packet_list, write_state,
                     next_id, pc, org_count, count, acked, ret, pos>>
      /\ wire = <<>> => wire' = <<>> /\ remote' = remote
      /\ wire' = wire \/ wire' = <<>> \/ (wire # <<>> /\ wire' = Tail(wire))
      /\ \A r \in replies' : r \in replies \/ (wire # <<>> /\ r.id = wire[1].id)
      /\ \A x \in Offsets :
            \/ remote'[x] = remote[x]
            \/ /\ wire # <<>>
               /\ x \in wire[1].off .. wire[1].off + wire[1].len - 1
  BY <1>1, <1>3, NetworkEffect
<1>5. CopyTypeOK'
  <2>1. next_id' >= next_id
    BY <1>3, <1>4 DEF TypeOK
  <2> QED BY <1>1, <1>3, <2>1, NetworkTyped, SameLoopTyped DEF CopyInv
<1>6. Control'
  BY <1>2, <1>4 DEF CopyInv, Control
<1>7. ~sftp_handle' => Closed'
  BY <1>1, <1>2, <1>3, GivenUpStays DEF CopyInv
<1>8. \A k \in WireIndices' : \E l \in WireIndices : wire'[k] = wire[l]
  <2>1. Len(wire) \in Nat /\ wire \in Seq(Packet)
    BY <1>3 DEF TypeOK
  <2>2. ASSUME wire # <<>>, wire' = Tail(wire), NEW k \in WireIndices'
        PROVE  \E l \in WireIndices : wire'[k] = wire[l]
    <3>1. /\ Len(wire') = Len(wire) - 1
          /\ \A i \in 1 .. Len(wire) - 1 : wire'[i] = wire[i + 1]
      BY <2>1, <2>2, TailFacts
    <3>2. k + 1 \in WireIndices /\ wire'[k] = wire[k + 1]
      BY <2>1, <2>2, <3>1 DEF WireIndices
    <3> QED BY <3>2
  <2> QED BY <1>4, <2>1, <2>2 DEF WireIndices
<1>9. ASSUME sftp_handle PROVE IndInv' /\ Bounded' /\ FromHere'
  <2>1. IndInv /\ Bounded /\ FromHere
    BY <1>9 DEF CopyInv
  <2>2. IndInv'
    BY <1>1, <2>1, NextKeepsInv DEF Next
  <2>3. wire # <<>> => 1 \in WireIndices
    <3>1. wire \in Seq(Packet)
      BY <1>3 DEF TypeOK
    <3> QED BY <3>1, TailFacts DEF WireIndices
  <2>4. Bounded'
    <3>1. ASSUME NEW x \in Offsets, x >= from_pos PROVE remote'[x] = Missing
      <4>1. remote[x] = Missing
        BY <2>1, <3>1 DEF Bounded
      <4>2. ASSUME wire # <<>>
            PROVE  x \notin wire[1].off .. wire[1].off + wire[1].len - 1
        <5>1. wire[1].off + wire[1].len <= from_pos
          BY <2>1, <2>3, <4>2 DEF Bounded
        <5>2. wire[1].off \in Nat /\ wire[1].len \in Nat
          BY <1>3, <2>3, <4>2, ElementTypes
        <5>3. from_pos \in Nat /\ x \in Int
          BY CopyNumbers DEF CopyInv
        <5> QED BY <3>1, <5>1, <5>2, <5>3
      <4> QED BY <1>4, <4>1, <4>2
    <3> QED BY <1>2, <1>4, <1>8, <2>1, <3>1 DEF Bounded
  <2>5. FromHere'
    <3>1. \A r \in replies' : r.id >= first_id
      BY <1>4, <2>1, <2>3 DEF FromHere
    <3>2. \A k \in WireIndices' : wire'[k].id >= first_id
      BY <1>8, <2>1 DEF FromHere
    <3> QED BY <1>2, <1>4, <2>1, <3>1, <3>2 DEF FromHere, ListIndices
  <2> QED BY <2>2, <2>4, <2>5
<1>10. Copied'
  BY <1>2, <1>4 DEF CopyInv, Copied
<1>11. Request'
  BY <1>2 DEF CopyInv, Request
<1> QED BY <1>2, <1>5, <1>6, <1>7, <1>9, <1>10, <1>11 DEF CopyInv

-----------------------------------------------------------------------------
(* Steps of the loop *)

\* A step that leaves the pipeline and the handle alone
LEMMA LoopOnly ==
    ASSUME CopyInv, UNCHANGED <<vars, openVars>>,
           CopyTypeOK', Control', Request', Copied',
           sftp_handle => from_pos' = from_pos
    PROVE  CopyInv'
<1>1. UNCHANGED <<offset, offset_sent, file_acked, packet_list, write_state, next_id,
                  zombies, pc, org_count, count, acked, ret, pos, window, up, wire,
                  in_sync, replies, remote, sftp_handle, first_id>>
  BY DEF vars, handleVars, sftpVars, callVars, netVars, openVars
<1>2. Closed' <=> Closed
  BY <1>1 DEF Closed, WireIndices
<1>3. sftp_handle => Bounded' /\ FromHere'
  BY <1>1 DEF CopyInv, Bounded, FromHere, WireIndices, ListIndices
<1>4. sftp_handle => IndInv'
  BY NextKeepsInv DEF CopyInv
<1> QED BY <1>1, <1>2, <1>3, <1>4 DEF CopyInv

LEMMA LoopOnlySteps ==
    ASSUME CopyInv,
           StartCommand \/ OpenLocal \/ WriteReturned \/ CloseLocal \/ SessionStops
    PROVE  CopyInv'
<1>1. UNCHANGED <<vars, openVars>>
  BY DEF StartCommand, OpenLocal, WriteReturned, CloseLocal, SessionStops
<1>2. UNCHANGED <<wire, remote, pc, pos, ret, org_count, sftp_handle, first_id, next_id,
                  open_state, open_left, open_for, abandoned, close_sent, cut>>
  BY <1>1 DEF vars, handleVars, sftpVars, callVars, netVars, openVars, requestVars, closeVars
<1>3. TypeOK'
  BY <1>1 DEF CopyInv, CopyTypeOK, TypeOK, vars, handleVars, sftpVars, callVars, netVars
<1>4. first_id' \in 0 .. next_id' /\ sftp_handle' \in BOOLEAN
  BY <1>2 DEF CopyInv, CopyTypeOK
<1>5. Control /\ Request
  BY DEF CopyInv
<1>6. CASE StartCommand
  <2>1. /\ at = "command" /\ at' = "open_local" /\ ~sftp_handle /\ pc = "app"
        /\ from_pos' = 0 /\ read_bytes' = 0 /\ read_failed' = FALSE /\ outcome' = "none"
        /\ from_len' \in 0 .. SrcLen
        /\ todo > 0 /\ todo' = todo - 1
    BY <1>5, <1>6 DEF StartCommand, Control
  <2>2. todo' \in 0 .. Commands
    BY <2>1, CopyAssumption DEF CopyInv, CopyTypeOK
  <2>3. from_pos' \in 0 .. from_len' /\ read_bytes' \in 0 .. AtMost(MaxCount, from_pos')
    <3>1. from_len' \in Nat /\ MaxCount \in Nat
      BY <2>1, ConstantsAssumption
    <3>2. AtMost(MaxCount, 0) = 0
      BY <3>1 DEF AtMost
    <3> QED BY <2>1, <3>1, <3>2
  <2>4. CopyTypeOK'
    BY <1>2, <1>3, <1>4, <2>1, <2>2, <2>3, CopyAssumption
       DEF CopyInv, CopyTypeOK, Places, Outcomes
  <2>5. Control' /\ Request' /\ Copied'
    BY <1>2, <1>5, <2>1 DEF Control, Request, Copied
  <2> QED BY <1>1, <2>1, <2>4, <2>5, LoopOnly
<1>7. CASE OpenLocal \/ CloseLocal \/ SessionStops
  <2>1. UNCHANGED <<todo, from_len, from_pos, read_bytes, read_failed>>
    BY <1>7 DEF OpenLocal, CloseLocal, SessionStops, fromVars
  <2>2. /\ ~sftp_handle /\ pc = "app" /\ at' \notin {"read", "write"} /\ at' \in Places
        /\ at' \in {"open_local", "open_remote"} => at = "open_local"
        /\ outcome' \in {outcome, "no_local"}
        /\ outcome' = outcome => \/ at' \in {"command", "stopped"}
                                 \/ at = "open_local"
    BY <1>5, <1>7 DEF OpenLocal, CloseLocal, SessionStops, Control, Places
  <2>3. CopyTypeOK'
    BY <1>2, <1>3, <1>4, <2>1, <2>2 DEF CopyInv, CopyTypeOK, Outcomes
  <2>4. Control' /\ Request'
    <3>1. Control'
      BY <1>2, <1>5, <2>1, <2>2 DEF Control
    <3>2. at # "open_remote"
      BY <1>7 DEF OpenLocal, CloseLocal, SessionStops
    <3> QED BY <1>2, <1>5, <2>1, <2>2, <3>1, <3>2 DEF Request
  <2>5. Copied'
    BY <1>2, <2>1, <2>2 DEF CopyInv, Copied
  <2> QED BY <1>1, <2>1, <2>3, <2>4, <2>5, LoopOnly
<1>8. CASE WriteReturned
  <2>1. /\ UNCHANGED <<todo, from_len, from_pos, read_bytes, read_failed>>
        /\ at = "write" /\ pc = "app" /\ at' \in {"read", "close"}
        /\ at' = "read" => ret = read_bytes
        /\ at' = "read" => outcome' = outcome
        /\ at' = "close" => outcome' = "incomplete"
        /\ outcome' \in {outcome, "incomplete"}
    BY <1>8 DEF WriteReturned, WroteAll, fromVars
  <2>2. CopyTypeOK'
    BY <1>2, <1>3, <1>4, <2>1 DEF CopyInv, CopyTypeOK, Outcomes, Places
  <2>3. Control' /\ Request'
    BY <1>2, <1>5, <2>1 DEF Control, Request
  <2>4. Copied'
    BY <1>2, <2>1 DEF CopyInv, Copied
  <2> QED BY <1>1, <2>1, <2>2, <2>3, <2>4, LoopOnly
<1> QED BY <1>6, <1>7, <1>8

\* The bytes of a block that was read
LEMMA BlockRead ==
    ASSUME CopyInv, NEW n \in Nat, Fread(n)
    PROVE  /\ n <= MaxCount /\ from_pos + n <= from_len
           /\ from_pos' = from_pos + n /\ read_bytes' = n
           /\ read_failed' \in BOOLEAN
           /\ n = 0 /\ ~read_failed' => from_pos = from_len
<1>1. /\ from_len \in Nat /\ from_pos \in Nat /\ from_pos <= from_len
      /\ MaxCount \in Nat /\ MaxCount > 0
  BY CopyNumbers DEF CopyInv
<1> DEFINE most == AtMost(MaxCount, from_len - from_pos)
<1>2. /\ most \in Nat /\ most <= MaxCount /\ most <= from_len - from_pos
      /\ most = 0 => from_pos = from_len
  BY <1>1 DEF AtMost
<1>3. /\ n <= most /\ from_pos' = from_pos + n /\ read_bytes' = n
      /\ read_failed' = (read_failed \/ n < most)
  <2>1. /\ \/ n = most
           \/ ReadFaults /\ n < most
        /\ from_pos' = from_pos + n
        /\ read_bytes' = n
        /\ read_failed' = (read_failed \/ n < most)
    BY DEF Fread
  <2> HIDE DEF most
  <2> QED BY <1>2, <2>1
<1>4. read_failed' \in BOOLEAN
  BY <1>3 DEF CopyInv, CopyTypeOK
<1> HIDE DEF most
<1>5. ASSUME n = 0, ~read_failed' PROVE from_pos = from_len
  <2>1. ~(n < most)
    BY <1>3, <1>5, Zenon
  <2> QED BY <1>2, <1>5, <2>1
<1>6. n <= MaxCount /\ from_pos + n <= from_len
  BY <1>1, <1>2, <1>3
<1>7. from_pos' = from_pos + n /\ read_bytes' = n
  BY <1>3
<1> QED BY <1>4, <1>5, <1>6, <1>7

LEMMA ReadAndWriteKeepsInv ==
    ASSUME CopyInv, ReadAndWrite
    PROVE  CopyInv'
<1>1. PICK n \in 1 .. MaxCount : Fread(n) /\ Call(n)
  BY DEF ReadAndWrite
<1>2. /\ at = "read" /\ at' = "write"
      /\ UNCHANGED <<todo, from_len, outcome, sftp_handle, first_id,
                     open_state, open_left, open_for, abandoned, close_sent, cut>>
  BY DEF ReadAndWrite, openVars, requestVars, closeVars
<1>3. /\ from_len \in Nat /\ from_len <= SrcLen /\ from_pos \in Nat /\ SrcLen \in Nat
      /\ from_pos <= from_len /\ MaxCount \in Nat /\ MaxCount > 0 /\ n \in Nat /\ n > 0
  <2>1. MaxCount \in Nat
    BY CopyNumbers DEF CopyInv
  <2>2. n \in Nat /\ n > 0
    BY <2>1
  <2> QED BY <2>2, CopyNumbers DEF CopyInv
<1>4. /\ n <= MaxCount /\ from_pos + n <= from_len
      /\ from_pos' = from_pos + n /\ read_bytes' = n
      /\ read_failed' \in BOOLEAN
  BY <1>1, <1>3, BlockRead
<1>5. sftp_handle /\ pos = from_pos /\ IndInv /\ Bounded /\ FromHere
  BY <1>2 DEF CopyInv, Control
<1>6. /\ UNCHANGED <<handleVars, sftpVars, count, acked, ret, pos, netVars>>
      /\ pc = "app" /\ pc' = "enter" /\ org_count' = n
  BY <1>1 DEF Call
<1>7. CallerWrites
  <2>1. n \in 1 .. AtMost(MaxCount, SrcLen - pos)
    BY <1>3, <1>4, <1>5 DEF AtMost
  <2> QED BY <1>1, <2>1 DEF CallerWrites
<1>8. IndInv'
  BY <1>5, <1>7, NextKeepsInv DEF Next
<1>9. UNCHANGED <<next_id, packet_list, offset_sent, wire, replies, remote, pos>>
  BY <1>6 DEF handleVars, sftpVars, netVars
<1>10. CopyTypeOK'
  <2>1. from_pos' \in 0 .. from_len
    BY <1>3, <1>4
  <2>2. read_bytes' \in 0 .. AtMost(MaxCount, from_pos')
    BY <1>3, <1>4 DEF AtMost
  <2>3. TypeOK'
    BY <1>8 DEF IndInv
  <2> QED BY <1>2, <1>4, <1>9, <2>1, <2>2, <2>3 DEF CopyInv, CopyTypeOK, Places
<1>11. Control'
  BY <1>2, <1>3, <1>4, <1>5, <1>6, <1>9 DEF Control
<1>12. Bounded' /\ FromHere'
  <2>1. /\ offset_sent \in Nat /\ offset_sent <= from_pos /\ Offsets \subseteq Int
        /\ \A k \in WireIndices : /\ wire[k].off + wire[k].len <= from_pos
                                  /\ wire[k].off \in Nat /\ wire[k].len \in Nat
    BY <1>5, CopyNumbers, ElementTypes DEF CopyInv, Bounded, IndInv, TypeOK
  <2>2. offset_sent <= from_pos'
    BY <1>3, <1>4, <2>1
  <2>3. \A k \in WireIndices : wire[k].off + wire[k].len <= from_pos'
    BY <1>3, <1>4, <2>1
  <2>4. \A x \in Offsets : x >= from_pos' => x >= from_pos
    BY <1>3, <1>4, <2>1
  <2>5. Bounded'
    BY <1>5, <1>9, <2>2, <2>3, <2>4 DEF Bounded, WireIndices
  <2> QED BY <1>2, <1>5, <1>9, <2>5 DEF FromHere, WireIndices, ListIndices
<1>13. Copied'
  BY <1>2 DEF CopyInv, Copied
<1>14. Request'
  BY <1>2 DEF CopyInv, Request
<1> QED BY <1>2, <1>5, <1>8, <1>10, <1>11, <1>12, <1>13, <1>14 DEF CopyInv

\* At the end of the local file every byte of it was reported, so it is stored.
LEMMA ReadEndsKeepsInv ==
    ASSUME CopyInv, ReadEnds
    PROVE  CopyInv'
<1>1. /\ at = "read" /\ Fread(0) /\ outcome' = "copied" /\ at' = "close"
      /\ UNCHANGED <<vars, openVars, todo, from_len>>
  BY DEF ReadEnds
<1>2. UNCHANGED <<wire, remote, pc, pos, ret, org_count, sftp_handle, first_id, next_id,
                  open_state, open_left, open_for, abandoned, close_sent, cut>>
  BY <1>1 DEF vars, handleVars, sftpVars, callVars, netVars, openVars, requestVars, closeVars
<1>3. /\ from_pos' = from_pos + 0 /\ read_bytes' = 0 /\ read_failed' \in BOOLEAN
      /\ ~read_failed' => from_pos = from_len
  BY <1>1, BlockRead
<1>4. /\ from_len \in Nat /\ from_pos \in Nat /\ from_pos <= from_len /\ MaxCount \in Nat
      /\ MaxCount > 0 /\ SrcLen \in Nat /\ Offsets \subseteq Int
  BY CopyNumbers DEF CopyInv
<1>5. sftp_handle /\ pos = from_pos /\ IndInv /\ Bounded /\ pc = "app"
  BY <1>1 DEF CopyInv, Control
<1>6. CopyTypeOK'
  <2>1. from_pos' \in 0 .. from_len /\ read_bytes' \in 0 .. AtMost(MaxCount, from_pos')
    BY <1>3, <1>4 DEF AtMost
  <2>2. TypeOK'
    BY <1>1, <1>5, NextKeepsInv DEF IndInv
  <2> QED BY <1>1, <1>2, <1>3, <2>1, <2>2 DEF CopyInv, CopyTypeOK, Places, Outcomes
<1>7. Control' /\ Request'
  BY <1>1, <1>2, <1>5 DEF Control, CopyInv, Request
<1>8. Copied'
  <2>1. pos = from_pos
    BY <1>5
  <2>2. /\ offset \in Nat /\ file_acked \in Nat /\ acked \in Nat /\ offset_sent \in Nat
        /\ pos + file_acked + acked = offset /\ offset <= offset_sent
    BY <1>5 DEF IndInv, TypeOK, CountingInv, AckAccounting, ListInv
  <2>3. offset >= from_pos
    BY <1>4, <2>1, <2>2
  <2>4. wire = <<>>
    <3>1. ASSUME wire # <<>> PROVE FALSE
      <4>1. wire \in Seq(Packet)
        BY <1>5 DEF IndInv, TypeOK
      <4>2. 1 \in WireIndices
        BY <3>1, <4>1, TailFacts DEF WireIndices
      <4>3. wire[1].off >= offset /\ wire[1].off + wire[1].len <= from_pos
        BY <1>5, <4>2 DEF IndInv, WireInv, Bounded
      <4>4. wire[1].off \in Nat /\ wire[1].len \in Nat /\ wire[1].len > 0
        BY <1>5, <4>2, ElementTypes DEF IndInv
      <4> QED BY <1>4, <2>2, <2>3, <4>3, <4>4
    <3> QED BY <3>1
  <2>5. ASSUME NEW x \in Offsets
        PROVE  remote[x] = IF x < from_pos THEN x ELSE Missing
    <3>1. CASE x < from_pos
      <4>1. x \in 0 .. pos - 1
        BY <1>4, <2>1, <3>1 DEF Offsets
      <4>2. remote[x] = x
        BY <1>5, <4>1, InvGivesStored DEF ReportedIsStored
      <4> QED BY <3>1, <4>2
    <3>2. CASE ~(x < from_pos)
      <4>1. x >= from_pos
        BY <1>4, <3>2
      <4> QED BY <1>5, <3>2, <4>1 DEF Bounded
    <3> QED BY <3>1, <3>2
  <2>6. from_pos' = from_pos /\ (from_pos' = from_len \/ read_failed')
    BY <1>3, <1>4
  <2> QED BY <1>1, <1>2, <2>4, <2>5, <2>6 DEF Copied
<1>9. from_pos' = from_pos
  BY <1>3, <1>4
<1> QED BY <1>1, <1>6, <1>7, <1>8, <1>9, LoopOnly

LEMMA OpenKeepsInv ==
    ASSUME CopyInv, OpenRemote
    PROVE  CopyInv'
<1>1. /\ at = "open_remote" /\ at' = "read" /\ wire = <<>>
      /\ open_state = "sent" /\ open_state' = "idle"
      /\ UNCHANGED <<next_id, open_left, open_for, abandoned, close_sent, cut>>
      /\ first_id' = next_id /\ sftp_handle' = TRUE
      /\ offset' = 0 /\ offset_sent' = 0 /\ file_acked' = 0
      /\ packet_list' = <<>> /\ pos' = 0
      /\ remote' = [i \in Offsets |-> Missing]
      /\ UNCHANGED <<write_state, zombies, pc, org_count, count, acked, ret,
                     window, up, wire, in_sync, replies,
                     todo, from_len, outcome, fromVars>>
  BY DEF OpenRemote, Exchanged, sftpVars, closeVars
<1>2. UNCHANGED <<from_pos, read_bytes, read_failed>>
  BY <1>1 DEF fromVars
<1>3. pc = "app" /\ acked = 0 /\ replies = {} /\ from_pos = 0 /\ SrcLen \in Nat
  BY <1>1, CopyNumbers DEF CopyInv, Control, Closed
<1>4. ListIndices' = {} /\ WireIndices' = {} /\ Len(packet_list') = 0
  BY <1>1 DEF ListIndices, WireIndices
<1>5. TypeOK'
  <2>1. remote' \in [Offsets -> Int] /\ packet_list' \in Seq(Chunk)
    BY <1>1 DEF Missing
  <2>2. next_id' \in Nat
    BY <1>1 DEF CopyInv, CopyTypeOK, TypeOK
  <2> QED BY <1>1, <2>1, <2>2 DEF CopyInv, CopyTypeOK, TypeOK
<1>6. IndInv'
  <2>1. CountingInv'
    BY <1>1, <1>3 DEF CountingInv, AckAccounting
  <2>2. ListInv'
    BY <1>1, <1>3, <1>4 DEF ListInv, PipelineCoversGap
  <2>3. WireInv' /\ ReplyInv' /\ ZombieInv'
    BY <1>1, <1>3, <1>4 DEF WireInv, ReplyInv, ZombieInv, NoOrphanReply, RepliedIds
  <2>4. StoredInv'
    BY <1>1, <1>4 DEF StoredInv
  <2> QED BY <1>5, <2>1, <2>2, <2>3, <2>4 DEF IndInv
<1>7. Bounded' /\ FromHere'
  BY <1>1, <1>2, <1>3, <1>4 DEF Bounded, FromHere
<1>8. CopyTypeOK'
  <2>1. first_id' \in 0 .. next_id'
    BY <1>1, <1>5 DEF TypeOK
  <2> QED BY <1>1, <1>2, <1>5, <2>1 DEF CopyInv, CopyTypeOK, Places
<1>9. Control' /\ Request'
  <2>1. from_pos = 0
    BY <1>1 DEF CopyInv, Control
  <2>2. open_for = todo \/ open_for \in abandoned
    BY <1>1 DEF CopyInv, Request
  <2> QED BY <1>1, <1>2, <1>3, <2>1, <2>2 DEF Control, Request
<1>10. Copied'
  BY <1>1, <1>2 DEF CopyInv, Copied
<1> QED BY <1>1, <1>6, <1>7, <1>8, <1>9, <1>10 DEF CopyInv

\* A step of sftp_open that has no answer yet changes its own state, the window and
\* the request ids.
LEMMA OpeningStep ==
    ASSUME CopyInv, at = "open_remote",
           at' \in {"open_remote", "close"}, outcome' \in {outcome, "no_remote"},
           UNCHANGED <<handleVars, write_state, zombies, callVars, up, wire, in_sync,
                       replies, remote, todo, from_len, fromVars, sftp_handle, first_id>>,
           next_id' \in {next_id, next_id + 1}, window' \in Nat,
           open_state' \in {"idle", "created", "sent"}, open_left' \in 0 .. RequestLen,
           open_for' \in 0 .. Commands, abandoned' \subseteq 0 .. Commands,
           UNCHANGED closeVars,
           open_state' # "idle" => \/ open_for' \in abandoned'
                                   \/ at' = "open_remote" /\ open_for' = todo
    PROVE  CopyInv'
<1>1. UNCHANGED <<packet_list, zombies, pc, acked, replies, wire, from_pos, read_bytes,
                  read_failed, sftp_handle, first_id, todo, from_len, close_sent, cut>>
  BY DEF handleVars, callVars, fromVars, closeVars
<1>2. ~sftp_handle /\ Closed /\ next_id \in Nat /\ pc = "app" /\ first_id \in 0 .. next_id
  BY DEF CopyInv, Control, CopyTypeOK, TypeOK
<1>3. next_id' \in Nat /\ next_id' >= next_id /\ first_id' \in 0 .. next_id'
  BY <1>1, <1>2
<1>4. TypeOK'
  BY <1>1, <1>3 DEF CopyInv, CopyTypeOK, TypeOK, handleVars, callVars
<1>5. CopyTypeOK'
  BY <1>1, <1>3, <1>4 DEF CopyInv, CopyTypeOK, Places, Outcomes
<1>6. Closed'
  <2>1. \A k \in WireIndices : wire[k].id \in Nat
    BY ElementTypes DEF CopyInv, CopyTypeOK
  <2>2. \A k \in WireIndices : wire[k].id < next_id'
    BY <1>2, <1>3, <2>1 DEF Closed
  <2> QED BY <1>1, <1>2, <2>2 DEF Closed, WireIndices
<1>7. Control' /\ Request'
  BY <1>1, <1>2 DEF CopyInv, Control, Request
<1>8. Copied'
  <2>1. outcome # "copied"
    BY DEF CopyInv, Copied
  <2> QED BY <2>1 DEF Copied
<1> QED BY <1>1, <1>2, <1>5, <1>6, <1>7, <1>8 DEF CopyInv

LEMMA OpeningKeepsInv ==
    ASSUME CopyInv,
           OpenBegins \/ OpenNotBegun \/ OpenSends \/ OpenSendFails \/ OpenWaitFails
               \/ OpenRemoteFails
    PROVE  CopyInv'
<1>1. /\ window \in Nat /\ next_id \in Nat /\ RequestLen \in Nat /\ todo \in 0 .. Commands
      /\ open_state \in {"idle", "created", "sent"} /\ open_left \in 0 .. RequestLen
      /\ open_for \in 0 .. Commands /\ abandoned \subseteq 0 .. Commands
  BY CopyAssumption DEF CopyInv, CopyTypeOK, TypeOK
<1>2. open_state # "idle" => open_for \in abandoned \/ (at = "open_remote" /\ open_for = todo)
  BY DEF CopyInv, Request
<1>3. CASE OpenBegins
  <2>1. /\ at = "open_remote" /\ open_state' = "created" /\ open_left' = RequestLen
        /\ open_for' = todo /\ next_id' = next_id + 1 /\ abandoned' = abandoned
        /\ at' = at /\ outcome' = outcome /\ window' = window
        /\ UNCHANGED <<handleVars, write_state, zombies, callVars, up, wire, in_sync,
                       replies, remote, todo, from_len, fromVars, sftp_handle, first_id,
                       closeVars>>
    BY <1>3 DEF OpenBegins, PacketToSend, netVars, commandVars
  <2>2. open_left' \in 0 .. RequestLen
    BY <1>1, <2>1
  <2> QED BY <1>1, <2>1, <2>2, OpeningStep
<1>4. CASE OpenNotBegun \/ OpenSendFails \/ OpenRemoteFails
  <2>1. /\ at = "open_remote" /\ at' = "close" /\ outcome' = "no_remote"
        /\ open_state' = "idle"
        /\ UNCHANGED <<vars, open_left, open_for, abandoned, todo, from_len, fromVars,
                       sftp_handle, first_id, closeVars>>
    BY <1>4 DEF OpenNotBegun, OpenSendFails, OpenRemoteFails, OpenGivesUp, PacketToSend
  <2>2. /\ window' = window /\ next_id' = next_id
        /\ UNCHANGED <<handleVars, write_state, zombies, callVars, up, wire, in_sync,
                       replies, remote>>
    BY <2>1 DEF vars, sftpVars, netVars
  <2> QED BY <1>1, <2>1, <2>2, OpeningStep
<1>5. CASE OpenSends
  <2> DEFINE n == AtMost(window, open_left)
  <2>1. n \in Nat /\ n <= window /\ n <= open_left
    BY <1>1 DEF AtMost
  <2>2. /\ at = "open_remote" /\ open_state = "created"
        /\ open_left' = open_left - n /\ window' = window - n
        /\ UNCHANGED <<handleVars, sftpVars, callVars, up, wire, in_sync, replies, remote,
                       todo, from_len, fromVars, sftp_handle, first_id, closeVars>>
    BY <1>5 DEF OpenSends
  <2> HIDE DEF n
  <2>3. open_left' \in 0 .. RequestLen /\ window' \in Nat
    BY <1>1, <2>1, <2>2
  <2>4. \/ /\ open_state' = "sent"
           /\ UNCHANGED <<at, outcome, open_for, abandoned>>
        \/ UNCHANGED <<at, outcome, open_state, open_for, abandoned>>
        \/ OpenLeavesRequest
    BY <1>5, Zenon DEF OpenSends
  <2>5. /\ at' \in {"open_remote", "close"} /\ outcome' \in {outcome, "no_remote"}
        /\ open_state' \in {"idle", "created", "sent"} /\ open_for' = open_for
        /\ abandoned' \subseteq 0 .. Commands
        /\ open_for \in abandoned' \/ (at' = "open_remote" /\ open_for = todo)
    BY <1>1, <1>2, <2>2, <2>4 DEF OpenLeavesRequest
  <2>6. UNCHANGED <<write_state, zombies, next_id>>
    BY <2>2 DEF sftpVars
  <2> QED BY <1>1, <2>2, <2>3, <2>5, <2>6, OpeningStep
<1>6. CASE OpenWaitFails
  <2>1. /\ at = "open_remote" /\ at' = "close" /\ outcome' = "no_remote"
        /\ open_state' = open_state /\ open_for' = open_for
        /\ abandoned' = abandoned \cup {open_for}
        /\ UNCHANGED <<vars, open_left, todo, from_len, fromVars,
                       sftp_handle, first_id, closeVars>>
    BY <1>6 DEF OpenWaitFails, OpenLeavesRequest
  <2>2. /\ window' = window /\ next_id' = next_id
        /\ UNCHANGED <<handleVars, write_state, zombies, callVars, up, wire, in_sync,
                       replies, remote>>
    BY <2>1 DEF vars, sftpVars, netVars
  <2> QED BY <1>1, <2>1, <2>2, OpeningStep
<1> QED BY <1>3, <1>4, <1>5, <1>6

\* Sending the request to close uses up the window, and that is all.
LEMMA CloseSendsKeepsInv ==
    ASSUME CopyInv, CloseSends
    PROVE  CopyInv'
<1>1. /\ at = "close" /\ sftp_handle /\ window >= RequestLen
      /\ window' = window - RequestLen /\ close_sent' = TRUE
      /\ UNCHANGED <<handleVars, sftpVars, callVars, up, wire, in_sync, replies, remote,
                     commandVars, fromVars, sftp_handle, first_id, requestVars, cut>>
  BY DEF CloseSends
<1>2. UNCHANGED <<offset, offset_sent, file_acked, packet_list, write_state, next_id,
                  zombies, pc, org_count, count, acked, ret, pos, up, wire,
                  in_sync, replies, remote, at, todo, from_len, outcome, from_pos,
                  read_bytes, read_failed, sftp_handle, first_id,
                  open_state, open_left, open_for, abandoned, cut>>
  BY <1>1 DEF handleVars, sftpVars, callVars, commandVars, fromVars, requestVars
<1>3. window' \in Nat
  <2>1. window \in Nat /\ RequestLen \in Nat
    BY CopyAssumption DEF CopyInv, CopyTypeOK, TypeOK
  <2> QED BY <1>1, <2>1
<1>4. TypeOK'
  BY <1>2, <1>3 DEF CopyInv, CopyTypeOK, TypeOK
<1>5. CopyTypeOK'
  BY <1>1, <1>2, <1>4 DEF CopyInv, CopyTypeOK
<1>6. IndInv
  BY <1>1 DEF CopyInv
<1>7. ListIndices' = ListIndices /\ WireIndices' = WireIndices
  BY <1>2 DEF ListIndices, WireIndices
<1>8. IndInv'
  <2>1. CountingInv'
    BY <1>2, <1>6 DEF IndInv, CountingInv, AckAccounting
  <2>2. ListInv'
    BY <1>2, <1>6, <1>7 DEF IndInv, ListInv, PipelineCoversGap, Begun
  <2>3. WireInv'
    BY <1>2, <1>6, <1>7 DEF IndInv, WireInv, SameRequest, Begun
  <2>4. ReplyInv'
    BY <1>2, <1>6, <1>7 DEF IndInv, ReplyInv, Begun
  <2>5. StoredInv' /\ ZombieInv'
    BY <1>2, <1>6, <1>7 DEF IndInv, StoredInv, ZombieInv, NoOrphanReply, RepliedIds, ChunkIds
  <2> QED BY <1>4, <2>1, <2>2, <2>3, <2>4, <2>5 DEF IndInv
<1>9. Bounded' /\ FromHere' /\ Control' /\ Request' /\ Copied'
  BY <1>1, <1>2, <1>7 DEF CopyInv, Bounded, FromHere, Control, Request, Copied
<1> QED BY <1>1, <1>2, <1>5, <1>8, <1>9 DEF CopyInv

\* Closing gives up what is in the list: what of it was sent becomes a zombie.
LEMMA CloseKeepsInv ==
    ASSUME CopyInv, CloseRemote \/ CloseIsCut
    PROVE  CopyInv'
<1>1. /\ at = "close" /\ sftp_handle /\ ~sftp_handle'
      /\ next_id' = next_id + 1 /\ Flush(replies)
      /\ close_sent' = FALSE /\ cut' \in BOOLEAN /\ window' \in Nat
      /\ UNCHANGED <<offset, offset_sent, file_acked, write_state, callVars,
                     up, wire, in_sync, remote, commandVars, fromVars, first_id, requestVars>>
  <2>1. at = "close" /\ sftp_handle /\ HandleIsGone
    BY DEF CloseRemote, CloseIsCut
  <2>2. (window' = window \/ window' = 0) /\ (cut' = cut \/ cut' = TRUE)
    BY DEF CloseRemote, CloseIsCut
  <2>3. window \in Nat /\ cut \in BOOLEAN
    BY DEF CopyInv, CopyTypeOK, TypeOK
  <2>4. window' \in Nat
    BY <2>2, <2>3
  <2>5. cut' \in BOOLEAN
    BY <2>2, <2>3, Zenon
  <2> QED BY <2>1, <2>4, <2>5 DEF HandleIsGone
<1>2. UNCHANGED <<at, todo, from_len, outcome, from_pos, read_bytes, read_failed,
                  pc, org_count, count, acked, ret, pos,
                  open_state, open_left, open_for, abandoned>>
  BY <1>1 DEF commandVars, fromVars, callVars, requestVars
<1>3. IndInv /\ next_id \in Nat /\ pc = "app"
  BY <1>1 DEF CopyInv, Control, IndInv, TypeOK
<1>4. packet_list' = <<>> /\ replies' = {}
  BY <1>1, <1>3 DEF Flush, IndInv, ZombieInv, NoOrphanReply, RepliedIds
<1>5. zombies' = zombies \cup (SentIds(packet_list) \ RepliedIds)
  BY <1>1 DEF Flush, RepliedIds
<1>6. zombies' \subseteq Nat
  <2>1. \A i \in ListIndices : packet_list[i].id \in Nat
    BY <1>3, ElementTypes DEF IndInv
  <2>2. SentIds(packet_list) \subseteq Nat
    BY <2>1 DEF SentIds, ListIndices
  <2> QED BY <1>3, <1>5, <2>2 DEF IndInv, TypeOK
<1>7. TypeOK'
  <2>1. <<>> \in Seq(Chunk)
    OBVIOUS
  <2> QED BY <1>1, <1>2, <1>3, <1>4, <1>6, <2>1 DEF IndInv, TypeOK
<1>8. CopyTypeOK'
  <2>1. first_id' \in 0 .. next_id' /\ sftp_handle' \in BOOLEAN
    <3>1. first_id' \in 0 .. next_id'
      BY <1>1, <1>3, CopyNumbers DEF CopyInv
    <3> QED BY <3>1 DEF CloseRemote, CloseIsCut, HandleIsGone
  <2> QED BY <1>1, <1>2, <1>7, <2>1 DEF CopyInv, CopyTypeOK
<1>9. Closed'
  <2>1. acked = 0
    BY <1>3 DEF IndInv, CountingInv
  <2>2. ASSUME NEW k \in WireIndices
        PROVE  wire[k].id \in zombies'
    <3>1. wire[k].id \in ChunkIds(packet_list) \cup zombies
      BY <1>3 DEF IndInv, ZombieInv
    <3>2. ASSUME wire[k].id \in ChunkIds(packet_list) PROVE wire[k].id \in zombies'
      <4>1. PICK i \in ListIndices : wire[k].id = packet_list[i].id
        BY <3>2 DEF ChunkIds, ListIndices
      <4>2. wire[k].id \in Nat
        BY <1>3, ElementTypes DEF IndInv
      <4>3. Begun(packet_list[i])
        <5>1. ~(wire[k].id < packet_list[i].id)
          BY <4>1, <4>2
        <5> QED BY <1>3, <5>1 DEF IndInv, WireInv
      <4>4. wire[k].id \in SentIds(packet_list)
        BY <4>1, <4>3 DEF SentIds, Begun, ListIndices
      <4>5. wire[k].id \notin RepliedIds
        <5>1. \A r \in replies : r.id < wire[k].id
          BY <1>3 DEF IndInv, ReplyInv
        <5>2. ~(wire[k].id < wire[k].id)
          BY <4>2
        <5> QED BY <5>1, <5>2 DEF RepliedIds
      <4> QED BY <1>5, <4>4, <4>5
    <3> QED BY <1>5, <3>1, <3>2
  <2>3. ASSUME NEW k \in WireIndices
        PROVE  wire[k].id < next_id'
    <3>1. wire[k].id \in Nat /\ wire[k].id < next_id
      BY <1>3, ElementTypes DEF IndInv, WireInv
    <3> QED BY <1>1, <1>3, <3>1
  <2>4. \A k, l \in WireIndices : k < l => wire[k].id < wire[l].id
    BY <1>3 DEF IndInv, WireInv
  <2> QED BY <1>1, <1>2, <1>3, <1>4, <2>1, <2>2, <2>3, <2>4 DEF Closed, WireIndices
<1>10. Control' /\ Request' /\ Copied'
  BY <1>1, <1>2, <1>3 DEF CopyInv, Control, Request, Copied
<1> QED BY <1>1, <1>8, <1>9, <1>10 DEF CopyInv

-----------------------------------------------------------------------------
(* The invariant holds, and what follows from it *)

LEMMA CopyInvInit == CopyInit => CopyInv
<1> SUFFICES ASSUME CopyInit PROVE CopyInv
  OBVIOUS
<1>1. Init /\ at = "command" /\ todo = Commands /\ from_len = 0 /\ from_pos = 0
      /\ read_bytes = 0 /\ read_failed = FALSE /\ sftp_handle = FALSE /\ first_id = 0
      /\ outcome = "none" /\ open_state = "idle" /\ open_left = 0 /\ open_for = 0
      /\ abandoned = {} /\ close_sent = FALSE /\ cut = FALSE
  BY DEF CopyInit
<1>2. /\ pc = "app" /\ acked = 0 /\ packet_list = <<>> /\ replies = {} /\ wire = <<>>
      /\ WireIndices = {} /\ next_id = 0
  BY <1>1 DEF Init, InitHandle, WireIndices
<1>3. TypeOK
  BY <1>1, InitHolds DEF IndInv
<1>4. CopyTypeOK
  <2>2. AtMost(MaxCount, 0) = 0 /\ SrcLen \in Nat /\ Commands \in Nat
    BY ConstantsAssumption, CopyAssumption DEF AtMost
  <2>3. /\ todo \in 0 .. Commands /\ from_len \in 0 .. SrcLen
        /\ from_pos \in 0 .. from_len /\ first_id \in 0 .. next_id
        /\ open_left \in 0 .. RequestLen /\ open_for \in 0 .. Commands
        /\ read_bytes \in 0 .. AtMost(MaxCount, from_pos)
    BY <1>1, <1>2, <2>2, CopyAssumption
  <2> QED BY <1>1, <1>3, <2>3 DEF CopyTypeOK, Places, Outcomes
<1> QED BY <1>1, <1>2, <1>4 DEF CopyInv, Control, Request, Closed, Copied

LEMMA CopyInvNext == CopyInv /\ [CopyNext]_allVars => CopyInv'
<1> SUFFICES ASSUME CopyInv, [CopyNext]_allVars PROVE CopyInv'
  OBVIOUS
<1>1. CASE CommandLoop
  BY <1>1, LoopOnlySteps, OpenKeepsInv, OpeningKeepsInv, ReadAndWriteKeepsInv,
     ReadEndsKeepsInv, CloseSendsKeepsInv, CloseKeepsInv DEF CommandLoop
<1>2. CASE WriteSteps
  BY <1>2, WriteKeepsInv
<1>3. CASE NetworkSteps
  BY <1>3, NetworkKeepsInv
<1>4. CASE UNCHANGED allVars
  <2>1. UNCHANGED <<vars, openVars>> /\ UNCHANGED copyVars
    BY <1>4 DEF allVars, copyVars
  <2>2. UNCHANGED <<at, todo, from_len, outcome, from_pos, read_bytes,
                    read_failed, sftp_handle, first_id,
                    open_state, open_left, open_for, abandoned, close_sent, cut>>
    BY <2>1 DEF copyVars, commandVars, fromVars, openVars, requestVars, closeVars
  <2>3. UNCHANGED <<offset, offset_sent, file_acked, packet_list, write_state, next_id,
                    zombies, pc, org_count, count, acked, ret, pos, window, up, wire,
                    in_sync, replies, remote>>
    BY <2>1 DEF vars, handleVars, sftpVars, callVars, netVars
  <2>4. TypeOK'
    BY <2>3 DEF CopyInv, CopyTypeOK, TypeOK
  <2>5. CopyTypeOK' /\ Control' /\ Request' /\ Copied'
    BY <2>2, <2>3, <2>4 DEF CopyInv, CopyTypeOK, Control, Request, Copied
  <2> QED BY <2>1, <2>2, <2>5, LoopOnly
<1> QED BY <1>1, <1>2, <1>3, <1>4 DEF CopyNext

LEMMA CopyInvHolds == CopySpec => []CopyInv
BY CopyInvInit, CopyInvNext, PTL DEF CopySpec

\* Every variable of the copy commands keeps its type.
THEOREM CopyTyped == CopySpec => []CopyTypeOK
<1>1. CopyInv => CopyTypeOK
  BY DEF CopyInv
<1> QED BY <1>1, CopyInvHolds, PTL

\* A command that ends without an error leaves what was read of the local file on
\* the remote, whatever its length, the size of blocks and chunks, the window and the faults.
THEOREM CopyIsWhole == CopySpec => []CopiedIsWhole
<1>1. CopyInv => CopiedIsWhole
  BY DEF CopyInv, Copied, CopiedIsWhole
<1> QED BY <1>1, CopyInvHolds, PTL

\* No request or answer of an earlier file meets the file that is open, and that is
\* the file of the running command or of one whose open failed half way.
THEOREM CopyOneFileAtATime == CopySpec => []OneFileAtATime
<1>1. CopyInv => OneFileAtATime
  BY DEF CopyInv, FromHere, Request, OneFileAtATime, RepliedIds, WireIndices
<1> QED BY <1>1, CopyInvHolds, PTL

\* The loop over the commands is the one that SshExec builds on.
THEOREM CopyImplementsLoop == CopySpec => ImplementsLoop
<1>1. CopyInit => Loop!LoopInit
  BY CopyAssumption DEF CopyInit, Loop!LoopInit, LoopPhase
<1>2. ASSUME CopyInv, [CopyNext]_allVars PROVE [Loop!LoopNext]_(Loop!loopVars)
  <2> USE DEF Loop!LoopNext, Loop!BeginCommand, Loop!OpenHandle, Loop!Release,
              Loop!EndCommand, Loop!loopVars
  <2>1. Control
    BY <1>2 DEF CopyInv
  <2>2. CASE UNCHANGED <<at, todo, sftp_handle>>
    BY <2>2 DEF LoopPhase
  <2>3. CASE StartCommand
    BY <2>1, <2>3 DEF StartCommand, Control, LoopPhase, openVars
  <2>4. CASE OpenLocal
    BY <2>1, <2>4 DEF OpenLocal, Control, LoopPhase, openVars
  <2>5. CASE OpenRemote
    BY <2>1, <2>5 DEF OpenRemote, Control, LoopPhase
  <2>10. CASE OpenBegins \/ OpenNotBegun \/ OpenSends \/ OpenSendFails \/ OpenWaitFails
              \/ OpenRemoteFails
    BY <2>1, <2>10 DEF OpenBegins, OpenNotBegun, OpenSends, OpenSendFails, OpenWaitFails,
       OpenRemoteFails, PacketToSend, OpenGivesUp, OpenLeavesRequest, Control, LoopPhase,
       commandVars
  <2>6. CASE ReadAndWrite \/ ReadEnds \/ WriteReturned
    BY <2>1, <2>6 DEF ReadAndWrite, ReadEnds, WriteReturned, Control, LoopPhase, openVars
  <2>7. CASE CloseRemote \/ CloseIsCut
    BY <2>1, <2>7 DEF CloseRemote, CloseIsCut, HandleIsGone, Control, LoopPhase, commandVars
  <2>11. CASE CloseSends
    BY <2>2, <2>11 DEF CloseSends, commandVars
  <2>8. CASE CloseLocal \/ SessionStops
    BY <2>1, <2>8 DEF CloseLocal, SessionStops, Control, LoopPhase, openVars
  <2>9. CASE WriteSteps \/ NetworkSteps \/ UNCHANGED allVars
    BY <2>2, <2>9 DEF WriteSteps, NetworkSteps, allVars, copyVars, commandVars, openVars
  <2> QED BY <1>2, <2>3, <2>4, <2>5, <2>6, <2>7, <2>8, <2>9, <2>10, <2>11
          DEF CopyNext, CommandLoop
<1>3. CopyInv /\ [CopyNext]_allVars => [Loop!LoopNext]_(Loop!loopVars)
  BY <1>2
<1> QED BY <1>1, <1>3, CopyInvHolds, PTL DEF CopySpec, ImplementsLoop, Loop!LoopSpec

-----------------------------------------------------------------------------
(* Sessions that fit the channel's first window                             *)

\* Most bytes one command sends: the file, and the requests around it
CommandLen == SrcLen + 2 * RequestLen

\* The window left by libssh2_sftp_init takes all that the commands send.
Fits == Commands * CommandLen <= Window - InitSize

\* There is room for n bytes besides the commands that are still to run.
Room(n) == window >= todo * CommandLen + n

\* The loop may still pass bytes of the open file: no call came up short.
GoingOn ==
    \/ at = "read"
    \/ at = "write" /\ (pc # "app" \/ WroteAll)

\* The window takes what the running command may still send.
RoomLeft ==
    /\ Room(0)
    /\ at = "open_local" => Room(CommandLen)
    /\ at = "open_remote" => Room(SrcLen + RequestLen)
    /\ at = "open_remote" /\ open_state # "sent" => Room(CommandLen)
    /\ sftp_handle /\ ~close_sent => Room(RequestLen)
    /\ GoingOn =>
          /\ Room(RequestLen + SrcLen - offset_sent)
          /\ \A i \in ListIndices : packet_list[i].left > 0
                => Room(RequestLen + SrcLen - packet_list[i].off)

\* The channel never takes a part of a request.
RequestsWhole ==
    /\ \A i \in ListIndices : packet_list[i].left \in {0, packet_list[i].len}
    /\ \A k \in WireIndices : wire[k].whole
    /\ in_sync /\ ~cut

\* The numbers that the room is counted in
LEMMA RoomNumbers ==
    ASSUME CopyTypeOK
    PROVE  /\ SrcLen \in Nat /\ RequestLen \in Nat /\ RequestLen > 0
           /\ CommandLen \in Nat /\ CommandLen = SrcLen + RequestLen + RequestLen
           /\ todo \in Nat /\ todo * CommandLen \in Nat
           /\ window \in Nat /\ offset_sent \in Nat
<1>1. SrcLen \in Nat /\ RequestLen \in Nat /\ RequestLen > 0 /\ Commands \in Nat
  BY ConstantsAssumption, CopyAssumption
<1>2. CommandLen \in Nat /\ CommandLen = SrcLen + RequestLen + RequestLen
  BY <1>1 DEF CommandLen
<1>3. todo \in Nat /\ window \in Nat /\ offset_sent \in Nat
  BY <1>1 DEF CopyTypeOK, TypeOK
<1>4. \A a, b \in Nat : a * b \in Nat
  OBVIOUS
<1> QED BY <1>1, <1>2, <1>3, <1>4

\* The server and the connection only make room, and a whole request that is
\* answered leaves whole ones.
LEMMA NetworkLeavesRoom ==
    ASSUME CopyInv, RoomLeft, RequestsWhole, NetworkSteps
    PROVE  RoomLeft' /\ RequestsWhole'
<1>1. Network /\ UNCHANGED copyVars /\ TypeOK
  BY DEF NetworkSteps, CopyInv, CopyTypeOK
<1>2. /\ at' = at /\ todo' = todo /\ read_bytes' = read_bytes
      /\ sftp_handle' = sftp_handle /\ open_state' = open_state
      /\ close_sent' = close_sent /\ cut' = cut
  BY <1>1 DEF copyVars, commandVars, fromVars, openVars, requestVars, closeVars
<1>3. /\ packet_list' = packet_list /\ offset_sent' = offset_sent
      /\ pc' = pc /\ ret' = ret
      /\ wire' = wire \/ wire' = <<>> \/ (wire # <<>> /\ wire' = Tail(wire))
  BY <1>1, NetworkEffect
<1>4. window' \in Nat /\ window' >= window
  <2>1. window \in Nat /\ Window \in Nat
    BY <1>1, ConstantsAssumption DEF TypeOK
  <2>2. window' = window \/ (window < Window /\ window' = Window)
    BY <1>1 DEF Network, ServerWrites, ServerRefuses, ServerLosesFraming,
                WindowOpens, ConnectionDrops
  <2> QED BY <2>1, <2>2
<1>5. ~ServerLosesFraming
  <2>1. ASSUME Len(wire) > 1 PROVE Head(wire).whole
    <3>1. wire # <<>> /\ wire \in Seq(Packet)
      BY <1>1, <2>1 DEF TypeOK
    <3>2. Head(wire) = wire[1] /\ 1 \in WireIndices
      BY <3>1, TailFacts DEF WireIndices
    <3> QED BY <3>2 DEF RequestsWhole
  <2> QED BY <2>1 DEF ServerLosesFraming
<1>6. in_sync' = in_sync
  BY <1>1, <1>5 DEF Network, ServerWrites, ServerRefuses, WindowOpens, ConnectionDrops
<1>7. \A k \in WireIndices' : wire'[k].whole
  <2>1. CASE wire' = wire
    BY <2>1 DEF RequestsWhole, WireIndices
  <2>2. CASE wire' = <<>>
    BY <2>2 DEF WireIndices
  <2>3. CASE wire # <<>> /\ wire' = Tail(wire)
    <3>1. /\ Len(wire) \in Nat \ {0} /\ Len(wire') = Len(wire) - 1
          /\ \A i \in 1 .. Len(wire) - 1 : wire'[i] = wire[i + 1]
      BY <1>1, <2>3, TailFacts DEF TypeOK
    <3> QED BY <3>1 DEF RequestsWhole, WireIndices
  <2> QED BY <1>3, <2>1, <2>2, <2>3
<1>8. RequestsWhole'
  BY <1>2, <1>3, <1>6, <1>7 DEF RequestsWhole, ListIndices
<1>9. RoomLeft'
  <2> DEFINE base == todo * CommandLen
  <2>1. /\ base \in Nat /\ SrcLen \in Nat /\ RequestLen \in Nat /\ CommandLen \in Nat
        /\ window \in Nat /\ offset_sent \in Nat
    BY RoomNumbers DEF CopyInv
  <2>2. \A i \in ListIndices : packet_list[i].off \in Nat
    BY <1>1, ElementTypes
  <2>3. ASSUME NEW n \in Int, Room(n) PROVE window' >= todo' * CommandLen + n
    <3>1. window >= base + n /\ base \in Nat /\ todo' * CommandLen = base
      BY <1>2, <2>1, <2>3 DEF Room
    <3> HIDE DEF base
    <3> QED BY <1>4, <2>1, <3>1
  <2>4. GoingOn' <=> GoingOn
    BY <1>2, <1>3 DEF GoingOn, WroteAll
  <2>5. ListIndices' = ListIndices
    BY <1>3 DEF ListIndices
  <2> HIDE DEF base
  <2>6. /\ 0 \in Int /\ CommandLen \in Int /\ SrcLen + RequestLen \in Int /\ RequestLen \in Int
        /\ RequestLen + SrcLen - offset_sent \in Int
        /\ \A i \in ListIndices : RequestLen + SrcLen - packet_list[i].off \in Int
    BY <2>1, <2>2
  <2>7. \A n \in Int : Room(n) => window' >= todo' * CommandLen + n
    BY <2>3
  <2> QED BY <1>2, <1>3, <2>4, <2>5, <2>6, <2>7 DEF RoomLeft, Room
<1> QED BY <1>8, <1>9

\* A packet that fits is handed to the channel whole; after a refusal the loop
\* sends no more of the file.
LEMMA WriteLeavesRoom ==
    ASSUME CopyInv, RoomLeft, RequestsWhole, WriteSteps
    PROVE  RoomLeft' /\ RequestsWhole'
<1> DEFINE base == todo * CommandLen
           need == base + RequestLen + SrcLen
           n == Len(packet_list)
<1>1. Library /\ UNCHANGED copyVars
  BY DEF WriteSteps
<1>2. /\ at' = at /\ todo' = todo /\ read_bytes' = read_bytes
      /\ sftp_handle' = sftp_handle /\ open_state' = open_state
      /\ close_sent' = close_sent /\ cut' = cut
  BY <1>1 DEF copyVars, commandVars, fromVars, openVars, requestVars, closeVars
<1>3. pc # "app" /\ at = "write" /\ sftp_handle
  <2>1. pc # "app"
    BY <1>1 DEF Library, Enter, MakeChunk, ChunksMade, AllocFails, SendChunk, SendStops,
                AllSent, TakeAck, TakeRejection, NoAnswer, Report, WaitEnds, WaitFails
  <2> QED BY <2>1 DEF CopyInv, Control
<1>4. IndInv /\ TypeOK /\ read_bytes \in Nat
  BY <1>3, CopyNumbers DEF CopyInv
<1>5. /\ base \in Nat /\ SrcLen \in Nat /\ RequestLen \in Nat /\ CommandLen \in Nat
      /\ window \in Nat /\ offset_sent \in Nat
  BY RoomNumbers DEF CopyInv
<1>6. /\ packet_list \in Seq(Chunk) /\ wire \in Seq(Packet)
      /\ n \in Nat /\ ListIndices = 1 .. n /\ WireIndices = 1 .. Len(wire)
      /\ \A i \in ListIndices :
            /\ packet_list[i].off \in Nat /\ packet_list[i].len \in Nat
            /\ packet_list[i].len > 0 /\ packet_list[i].left \in Nat
            /\ packet_list[i].off + packet_list[i].len <= offset_sent
      /\ offset_sent <= SrcLen
  BY <1>4, ElementTypes DEF TypeOK, IndInv, ListInv, ListIndices, WireIndices
<1>7. /\ window >= need - offset_sent
      /\ \A i \in ListIndices : packet_list[i].left > 0 => window >= need - packet_list[i].off
      /\ \A i \in ListIndices : packet_list[i].left \in {0, packet_list[i].len}
      /\ \A k \in WireIndices : wire[k].whole
      /\ in_sync /\ ~cut
  <2>1. /\ Room(RequestLen + SrcLen - offset_sent)
        /\ \A i \in ListIndices : packet_list[i].left > 0
              => Room(RequestLen + SrcLen - packet_list[i].off)
    BY <1>3 DEF RoomLeft, GoingOn
  <2>2. \A i \in ListIndices :
            need - packet_list[i].off = base + (RequestLen + SrcLen - packet_list[i].off)
    <3> HIDE DEF base
    <3> QED BY <1>5, <1>6
  <2>3. need - offset_sent = base + (RequestLen + SrcLen - offset_sent)
    <3> HIDE DEF base
    <3> QED BY <1>5
  <2> QED BY <2>1, <2>2, <2>3 DEF Room, RequestsWhole
\* What is left to show of a step
<1> DEFINE Kept ==
             /\ window' >= base + RequestLen
             /\ pc' # "app" \/ ret' = read_bytes =>
                   /\ window' >= need - offset_sent'
                   /\ \A i \in ListIndices' : packet_list'[i].left > 0
                         => packet_list'[i].off \in Nat /\ window' >= need - packet_list'[i].off
             /\ offset_sent' \in Nat
           Whole ==
             /\ \A i \in ListIndices' : packet_list'[i].left \in {0, packet_list'[i].len}
             /\ \A k \in WireIndices' : wire'[k].whole
             /\ in_sync'
<1>8. ASSUME Kept, window' \in Nat PROVE RoomLeft'
  <2>1. window' >= base + 0 /\ window' >= base + RequestLen
    <3> HIDE DEF base
    <3> QED BY <1>5, <1>8
  <2>2. pc' # "app" \/ ret' = read_bytes =>
           /\ window' >= base + (RequestLen + SrcLen - offset_sent')
           /\ \A i \in ListIndices' : packet_list'[i].left > 0
                 => window' >= base + (RequestLen + SrcLen - packet_list'[i].off)
    <3>1. \A x \in Nat : need - x = base + (RequestLen + SrcLen - x)
      <4> HIDE DEF base
      <4> QED BY <1>5
    <3> QED BY <1>8, <3>1
  <2> HIDE DEF Kept
  <2> QED BY <1>2, <1>3, <2>1, <2>2 DEF RoomLeft, Room, GoingOn, WroteAll
<1>9. Whole => RequestsWhole'
  BY <1>2, <1>7 DEF RequestsWhole
<1>10. window >= base + RequestLen
  <2> HIDE DEF base
  <2> QED BY <1>5, <1>6, <1>7
<1>11. CASE Enter \/ ChunksMade \/ AllocFails \/ SendStops \/ AllSent \/ NoAnswer
           \/ Report \/ WaitEnds \/ WaitFails
  <2>1. /\ packet_list' = packet_list /\ offset_sent' = offset_sent
        /\ window' = window /\ wire' = wire /\ in_sync' = in_sync
    BY <1>11 DEF Enter, ChunksMade, AllocFails, SendStops, AllSent, NoAnswer, Report,
                 WaitEnds, WaitFails, handleVars, netVars
  <2>2. Kept /\ Whole
    BY <1>5, <1>6, <1>7, <1>10, <2>1 DEF ListIndices, WireIndices
  <2> HIDE DEF Kept, Whole
  <2> QED BY <1>5, <1>8, <1>9, <2>1, <2>2
<1>12. CASE MakeChunk
  <2> DEFINE size == AtMost(MaxChunk, count)
             c == [id |-> next_id, off |-> offset_sent,
                   src |-> pos + org_count - count, len |-> size, left |-> size]
  <2>1. /\ packet_list' = Append(packet_list, c) /\ offset_sent' = offset_sent + size
        /\ window' = window /\ wire' = wire /\ in_sync' = in_sync
    BY <1>12 DEF MakeChunk, netVars
  <2>2. size \in Nat
    BY <1>4, ConstantsAssumption DEF AtMost, TypeOK
  <2>3. /\ c.off = offset_sent /\ c.left = size /\ c.len = size
    OBVIOUS
  <2> HIDE DEF size, c
  <2>4. /\ Len(packet_list') = n + 1 /\ packet_list'[n + 1] = c
        /\ \A i \in 1 .. n : packet_list'[i] = packet_list[i]
    BY <1>6, <2>1
  <2>5. \A i \in ListIndices' : i = n + 1 \/ i \in ListIndices
    BY <1>6, <2>4 DEF ListIndices
  <2>6. window' >= need - offset_sent'
    <3> HIDE DEF base
    <3> QED BY <1>5, <1>7, <2>1, <2>2
  <2>7. ASSUME NEW i \in ListIndices'
        PROVE  /\ packet_list'[i].off \in Nat
               /\ packet_list'[i].left > 0 => window' >= need - packet_list'[i].off
               /\ packet_list'[i].left \in {0, packet_list'[i].len}
    <3>1. CASE i = n + 1
      BY <1>5, <1>7, <2>1, <2>3, <2>4, <3>1
    <3>2. CASE i \in ListIndices
      BY <1>6, <1>7, <2>1, <2>4, <3>2
    <3> QED BY <2>5, <3>1, <3>2
  <2>8. offset_sent' \in Nat
    BY <1>5, <2>1, <2>2
  <2>9. \A k \in WireIndices' : wire'[k].whole
    BY <1>7, <2>1 DEF WireIndices
  <2>10. window' >= base + RequestLen /\ window' \in Nat
    BY <1>5, <1>10, <2>1
  <2>11. Kept /\ Whole
    <3> HIDE DEF base
    <3> QED BY <1>7, <2>1, <2>6, <2>7, <2>8, <2>9, <2>10
  <2> HIDE DEF Kept, Whole
  <2> QED BY <1>8, <1>9, <2>10, <2>11
<1>13. CASE SendChunk
  <2>1. PICK i \in 1 .. Len(packet_list) :
          /\ FirstUnsent(i)
          /\ LET c    == packet_list[i]
                 left == c.left - AtMost(window, c.left)
             IN  /\ packet_list' = [packet_list EXCEPT ![i].left = left]
                 /\ window' = window - (c.left - left)
                 /\ wire' = IF c.left = c.len
                            THEN Append(wire, [id |-> c.id, off |-> c.off, src |-> c.src,
                                               len |-> c.len, whole |-> left = 0])
                            ELSE [wire EXCEPT ![Len(wire)].whole = (left = 0)]
    BY <1>13 DEF SendChunk
  <2> DEFINE c    == packet_list[i]
             left == c.left - AtMost(window, c.left)
             p    == [id |-> c.id, off |-> c.off, src |-> c.src,
                      len |-> c.len, whole |-> left = 0]
  <2>2. /\ i \in ListIndices /\ c \in Chunk /\ c.left > 0 /\ c.left = c.len
        /\ c.off \in Nat /\ c.len \in Nat /\ c.off + c.len <= offset_sent
        /\ \A j \in ListIndices : j < i => packet_list[j].left = 0
        /\ \A j \in ListIndices : i < j => c.off + c.len <= packet_list[j].off
    <3>1. i \in ListIndices /\ c.left > 0 /\ \A j \in 1 .. i - 1 : packet_list[j].left = 0
      BY <1>6, <2>1 DEF FirstUnsent
    <3>2. c.left = c.len /\ c.off \in Nat /\ c.len \in Nat /\ c.off + c.len <= offset_sent
      BY <1>6, <1>7, <3>1
    <3>3. \A j \in ListIndices : j < i => packet_list[j].left = 0
      BY <1>6, <3>1
    <3>4. \A j \in ListIndices : i < j => c.off + c.len <= packet_list[j].off
      BY <1>4, <3>1 DEF IndInv, ListInv
    <3>5. c \in Chunk
      BY <1>4, <3>1, ElementTypes
    <3> QED BY <3>1, <3>2, <3>3, <3>4, <3>5
  <2>3. window >= need - c.off
    BY <1>7, <2>2
  <2>4. c.len <= window
    <3> HIDE DEF base, c
    <3> QED BY <1>5, <1>6, <2>2, <2>3
  <2>5. left = 0
    <3>1. AtMost(window, c.left) = c.left
      <4> HIDE DEF c
      <4> QED BY <1>5, <2>2, <2>4 DEF AtMost
    <3> QED BY <2>2, <3>1
  <2>6. /\ packet_list' = [packet_list EXCEPT ![i].left = 0]
        /\ window' = window - c.len
        /\ wire' = Append(wire, p) /\ p.whole
        /\ offset_sent' = offset_sent /\ in_sync' = in_sync
    <3>1. packet_list' = [packet_list EXCEPT ![i].left = left]
      BY <2>1
    <3>2. window' = window - (c.left - left)
      BY <2>1
    <3>3. wire' = Append(wire, p)
      BY <2>1, <2>2
    <3>4. offset_sent' = offset_sent /\ in_sync' = in_sync
      BY <1>13 DEF SendChunk
    <3>5. p.whole
      BY <2>5
    <3>6. c.left - 0 = c.len
      BY <2>2
    <3> HIDE DEF left
    <3> QED BY <2>5, <3>1, <3>2, <3>3, <3>4, <3>5, <3>6
  <2>7. /\ ListIndices' = ListIndices
        /\ packet_list'[i].left = 0
        /\ \A j \in ListIndices : j # i => packet_list'[j] = packet_list[j]
    <3> HIDE DEF c, p
    <3> QED BY <1>6, <2>2, <2>6, ElementTypes, <1>4 DEF ListIndices, Chunk
  <2>8. \A k \in WireIndices' : wire'[k].whole
    <3>1. Len(wire) \in Nat
      BY <1>6
    <3>2. Len(wire') = Len(wire) + 1 /\ wire'[Len(wire) + 1] = p
          /\ \A k \in 1 .. Len(wire) : wire'[k] = wire[k]
      <4> HIDE DEF p
      <4> QED BY <1>6, <2>6
    <3> QED BY <1>6, <1>7, <2>6, <3>1, <3>2 DEF WireIndices
  <2> HIDE DEF c, left, p
  <2>9. window' >= need - offset_sent' /\ window' \in Nat
    <3>1. need \in Int
      BY <1>5
    <3>2. /\ window \in Nat /\ offset_sent \in Nat /\ c.off \in Nat /\ c.len \in Nat
          /\ c.off + c.len <= offset_sent /\ window >= need - c.off /\ c.len <= window
          /\ window' = window - c.len /\ offset_sent' = offset_sent
      BY <1>5, <2>2, <2>3, <2>4, <2>6
    <3> HIDE DEF need
    <3> QED BY <3>1, <3>2
  <2>10. ASSUME NEW j \in ListIndices', packet_list'[j].left > 0
         PROVE  packet_list'[j].off \in Nat /\ window' >= need - packet_list'[j].off
    <3>1. j \in ListIndices /\ j # i /\ packet_list'[j] = packet_list[j]
      BY <2>7, <2>10
    <3>2. i < j
      <4>1. packet_list[j].left # 0
        BY <1>6, <2>10, <3>1
      <4>2. ~(j < i)
        BY <2>2, <3>1, <4>1
      <4> QED BY <1>6, <2>2, <3>1, <4>2
    <3>3. c.off + c.len <= packet_list[j].off /\ packet_list[j].off \in Nat
      BY <1>6, <2>2, <3>1, <3>2
    <3>4. window' >= need - packet_list[j].off
      <4>1. need \in Int
        BY <1>5
      <4>2. /\ window \in Nat /\ c.off \in Nat /\ c.len \in Nat
            /\ window >= need - c.off /\ window' = window - c.len
        BY <1>5, <2>2, <2>3, <2>6
      <4> HIDE DEF need
      <4> QED BY <3>3, <4>1, <4>2
    <3> QED BY <3>1, <3>3, <3>4
  <2>11. window' >= base + RequestLen
    <3> HIDE DEF base
    <3> QED BY <1>5, <1>6, <2>6, <2>9
  <2>12. \A j \in ListIndices' : packet_list'[j].left \in {0, packet_list'[j].len}
    BY <1>7, <2>7
  <2>13. Kept /\ Whole
    BY <1>5, <1>7, <2>6, <2>8, <2>9, <2>10, <2>11, <2>12
  <2> HIDE DEF Kept, Whole
  <2> QED BY <1>8, <1>9, <2>9, <2>13
<1>14. CASE TakeAck
  <2>1. /\ packet_list # <<>> /\ packet_list' = Tail(packet_list)
        /\ offset_sent' = offset_sent /\ window' = window
        /\ wire' = wire /\ in_sync' = in_sync
    BY <1>14 DEF TakeAck, AwaitsAnswer
  <2>2. \A i \in ListIndices' : i + 1 \in ListIndices /\ packet_list'[i] = packet_list[i + 1]
    BY <1>6, <2>1, TailFacts DEF ListIndices
  <2>3. Kept /\ Whole
    BY <1>5, <1>6, <1>7, <1>10, <2>1, <2>2 DEF WireIndices
  <2> HIDE DEF Kept, Whole
  <2> QED BY <1>5, <1>8, <1>9, <2>1, <2>3
<1>15. CASE TakeRejection
  <2>1. /\ packet_list' = <<>> /\ pc' = "app" /\ ret' = -1
        /\ window' = window /\ wire' = wire /\ in_sync' = in_sync
    BY <1>15 DEF TakeRejection, Flush, Return
  <2>2. ListIndices' = {}
    BY <2>1 DEF ListIndices
  <2>3. offset_sent' \in Nat
    <3>1. IndInv'
      BY <1>1, <1>4, NextKeepsInv DEF Next
    <3> QED BY <3>1 DEF IndInv, TypeOK
  <2>4. -1 # read_bytes
    BY <1>4
  <2>5. Kept /\ Whole
    BY <1>5, <1>7, <1>10, <2>1, <2>2, <2>3, <2>4 DEF WireIndices
  <2> HIDE DEF Kept, Whole
  <2> QED BY <1>5, <1>8, <1>9, <2>1, <2>5
<1> QED BY <1>1, <1>11, <1>12, <1>13, <1>14, <1>15 DEF Library

\* Steps of the loop that send nothing
LEMMA LoopKeepsRoom ==
    ASSUME CopyInv, RoomLeft, RequestsWhole,
           \/ StartCommand \/ OpenLocal \/ CloseLocal \/ SessionStops
           \/ ReadAndWrite \/ ReadEnds \/ WriteReturned
    PROVE  RoomLeft' /\ RequestsWhole'
<1>1. /\ packet_list' = packet_list /\ wire' = wire /\ in_sync' = in_sync
      /\ window' = window /\ offset_sent' = offset_sent /\ ret' = ret
      /\ UNCHANGED openVars
  <2>1. CASE ReadAndWrite
    BY <2>1 DEF ReadAndWrite, Call, handleVars, netVars
  <2>2. CASE ~ReadAndWrite
    BY <2>2 DEF StartCommand, OpenLocal, CloseLocal, SessionStops, ReadEnds, WriteReturned,
                vars, handleVars, callVars, netVars
  <2> QED BY <2>1, <2>2
<1>2. /\ sftp_handle' = sftp_handle /\ close_sent' = close_sent /\ cut' = cut
      /\ open_state' = open_state
  BY <1>1 DEF openVars, requestVars, closeVars
<1>3. RequestsWhole'
  BY <1>1, <1>2 DEF RequestsWhole, ListIndices, WireIndices
<1>4. Control
  BY DEF CopyInv
<1>5. CASE StartCommand
  <2>1. /\ at = "command" /\ at' = "open_local" /\ todo' = todo - 1 /\ todo > 0
        /\ ~sftp_handle
    BY <1>4, <1>5 DEF StartCommand, Control
  <2>2. window >= todo * CommandLen + 0
    BY DEF RoomLeft, Room
  <2>3. /\ todo \in Nat /\ CommandLen \in Nat /\ window \in Nat
        /\ todo' * CommandLen \in Nat
        /\ todo' * CommandLen + CommandLen = todo * CommandLen
    <3>1. /\ todo \in Nat /\ todo > 0 /\ CommandLen \in Nat /\ window \in Nat
          /\ todo * CommandLen \in Nat
      BY <2>1, RoomNumbers DEF CopyInv
    <3>2. \A a, b \in Nat : a > 0 => (a - 1) * b \in Nat /\ (a - 1) * b + b = a * b
      OBVIOUS
    <3> QED BY <2>1, <3>1, <3>2
  <2>4. window >= todo' * CommandLen + CommandLen /\ window >= todo' * CommandLen + 0
    <3> DEFINE rest == todo' * CommandLen
               all == todo * CommandLen
    <3>1. rest \in Nat /\ rest + CommandLen = all /\ window >= all + 0 /\ CommandLen \in Nat
          /\ all \in Int /\ window \in Nat
      BY <2>2, <2>3
    <3> HIDE DEF rest, all
    <3>2. window >= rest + CommandLen /\ window >= rest + 0
      BY <3>1
    <3> QED BY <3>2 DEF rest
  <2>5. RoomLeft'
    BY <1>1, <1>2, <2>1, <2>4 DEF RoomLeft, Room, GoingOn
  <2> QED BY <1>3, <2>5
<1>6. CASE OpenLocal \/ CloseLocal \/ SessionStops
  <2>1. /\ todo' = todo /\ ~sftp_handle
        /\ at' \notin {"open_local", "read", "write"}
        /\ at' = "open_remote" => at = "open_local"
    BY <1>4, <1>6 DEF OpenLocal, CloseLocal, SessionStops, Control
  <2>2. at = "open_local" => Room(CommandLen) /\ Room(SrcLen + RequestLen)
    <3>1. /\ todo * CommandLen \in Nat /\ CommandLen = SrcLen + RequestLen + RequestLen
          /\ RequestLen \in Nat /\ SrcLen \in Nat /\ window \in Nat
      BY RoomNumbers DEF CopyInv
    <3> DEFINE base == todo * CommandLen
    <3>2. at = "open_local" => window >= base + CommandLen
      BY DEF RoomLeft, Room
    <3>3. base \in Nat
      BY <3>1
    <3> HIDE DEF base
    <3>4. window >= base + CommandLen => window >= base + (SrcLen + RequestLen)
      BY <3>1, <3>3
    <3> QED BY <3>2, <3>4 DEF Room, base
  <2>3. RoomLeft'
    BY <1>1, <1>2, <2>1, <2>2 DEF RoomLeft, Room, GoingOn
  <2> QED BY <1>3, <2>3
<1>7. CASE ReadAndWrite \/ ReadEnds \/ WriteReturned
  <2>1. /\ todo' = todo /\ at' \in {"read", "write", "close"} /\ at \in {"read", "write"}
        /\ GoingOn' => GoingOn
    BY <1>7 DEF ReadAndWrite, ReadEnds, WriteReturned, GoingOn
  <2>2. ListIndices' = ListIndices
    BY <1>1 DEF ListIndices
  <2>3. RoomLeft'
    BY <1>1, <1>2, <2>1, <2>2 DEF RoomLeft, Room
  <2> QED BY <1>3, <2>3
<1> QED BY <1>5, <1>6, <1>7

\* A request that opens a file goes out whole, and the file that is opened
\* finds the room for all its bytes.
LEMMA OpeningLeavesRoom ==
    ASSUME CopyInv, RoomLeft, RequestsWhole,
           \/ OpenBegins \/ OpenNotBegun \/ OpenSends \/ OpenSendFails
           \/ OpenWaitFails \/ OpenRemote \/ OpenRemoteFails
    PROVE  RoomLeft' /\ RequestsWhole'
<1> DEFINE base == todo * CommandLen
<1>1. /\ base \in Nat /\ CommandLen \in Nat /\ RequestLen \in Nat /\ SrcLen \in Nat
      /\ CommandLen = SrcLen + RequestLen + RequestLen /\ window \in Nat
  BY RoomNumbers DEF CopyInv
<1>2. /\ at = "open_remote" /\ todo' = todo /\ cut' = cut
      /\ wire' = wire /\ in_sync' = in_sync
  BY DEF OpenBegins, OpenNotBegun, OpenSends, OpenSendFails, OpenWaitFails, OpenRemote,
         OpenRemoteFails, OpenGivesUp, OpenLeavesRequest, PacketToSend, vars, netVars,
         commandVars, closeVars
<1>3. ~sftp_handle
  BY <1>2 DEF CopyInv, Control
<1>4. /\ window >= base + 0
      /\ window >= base + (SrcLen + RequestLen)
      /\ open_state # "sent" => window >= base + CommandLen
  BY <1>2 DEF RoomLeft, Room
<1> HIDE DEF base
<1>5. CASE OpenRemote
  <2>1. /\ at' = "read" /\ sftp_handle' /\ offset_sent' = 0 /\ packet_list' = <<>>
        /\ window' = window /\ open_state' = "idle"
    BY <1>5 DEF OpenRemote
  <2>2. ListIndices' = {}
    BY <2>1 DEF ListIndices
  <2>3. window >= base + RequestLen /\ window >= base + (RequestLen + SrcLen - 0)
    BY <1>1, <1>4
  <2>4. RoomLeft'
    BY <1>2, <1>4, <2>1, <2>2, <2>3 DEF RoomLeft, Room, base
  <2> QED BY <1>2, <2>2, <2>4 DEF RequestsWhole, WireIndices
<1>6. CASE ~OpenRemote
  <2>1. packet_list' = packet_list /\ sftp_handle' = sftp_handle
    BY <1>6 DEF OpenBegins, OpenNotBegun, OpenSends, OpenSendFails, OpenWaitFails,
                OpenRemoteFails, vars, handleVars
  <2>2. RequestsWhole'
    BY <1>2, <2>1 DEF RequestsWhole, ListIndices, WireIndices
  <2>3. CASE OpenBegins
    <3>1. at' = at /\ window' = window /\ open_state = "idle"
      BY <2>3 DEF OpenBegins, PacketToSend, commandVars, netVars
    <3>2. RoomLeft'
      BY <1>2, <1>3, <1>4, <2>1, <3>1 DEF RoomLeft, Room, GoingOn, base
    <3> QED BY <2>2, <3>2
  <2>4. CASE OpenNotBegun \/ OpenSendFails \/ OpenWaitFails \/ OpenRemoteFails
    <3>1. at' = "close" /\ window' = window
      BY <2>4 DEF OpenNotBegun, OpenSendFails, OpenWaitFails, OpenRemoteFails,
                  OpenGivesUp, OpenLeavesRequest, vars, netVars
    <3>2. RoomLeft'
      BY <1>2, <1>3, <1>4, <2>1, <3>1 DEF RoomLeft, Room, GoingOn, base
    <3> QED BY <2>2, <3>2
  <2>5. CASE OpenSends
    <3>1. open_state = "created" /\ open_left \in 0 .. RequestLen
      BY <2>5 DEF OpenSends, CopyInv, CopyTypeOK
    <3>2. AtMost(window, open_left) = open_left /\ open_left \in Nat /\ open_left <= RequestLen
      <4>1. open_left \in Nat /\ open_left <= RequestLen
        BY <1>1, <3>1
      <4>2. window >= base + CommandLen
        BY <1>4, <3>1
      <4>3. open_left <= window
        BY <1>1, <4>1, <4>2
      <4> QED BY <1>1, <4>1, <4>3 DEF AtMost
    <3>3. open_left' = 0 /\ window' = window - open_left
      BY <2>5, <3>2 DEF OpenSends
    <3>4. at' = at /\ open_state' = "sent"
      BY <2>5, <3>3 DEF OpenSends
    <3>5. window' >= base + 0 /\ window' >= base + (SrcLen + RequestLen)
      BY <1>1, <1>4, <3>1, <3>2, <3>3
    <3>6. RoomLeft'
      BY <1>2, <1>3, <2>1, <3>4, <3>5 DEF RoomLeft, Room, GoingOn, base
    <3> QED BY <2>2, <3>6
  <2> QED BY <1>6, <2>3, <2>4, <2>5
<1> QED BY <1>5, <1>6

\* The request that closes a file goes out whole.
LEMMA ClosingLeavesRoom ==
    ASSUME CopyInv, RoomLeft, RequestsWhole, CloseSends \/ CloseIsCut \/ CloseRemote
    PROVE  RoomLeft' /\ RequestsWhole'
<1> DEFINE base == todo * CommandLen
<1>1. base \in Nat /\ RequestLen \in Nat /\ window \in Nat
  BY RoomNumbers DEF CopyInv
<1>2. /\ at = "close" /\ at' = at /\ todo' = todo
      /\ wire' = wire /\ in_sync' = in_sync
  BY DEF CloseSends, CloseIsCut, CloseRemote, HandleIsGone, commandVars
<1>3. window >= base + 0
  BY DEF RoomLeft, Room
<1>4. CASE CloseSends
  <2>1. /\ sftp_handle /\ ~close_sent /\ close_sent' /\ window' = window - RequestLen
        /\ cut' = cut /\ packet_list' = packet_list
    BY <1>4 DEF CloseSends, handleVars
  <2>2. window >= base + RequestLen
    BY <2>1 DEF RoomLeft, Room
  <2>3. window' >= base + 0
    <3> HIDE DEF base
    <3> QED BY <1>1, <2>1, <2>2
  <2>4. RoomLeft'
    BY <1>2, <2>1, <2>3 DEF RoomLeft, Room, GoingOn
  <2> QED BY <1>2, <2>1, <2>4 DEF RequestsWhole, ListIndices, WireIndices
<1>5. ~CloseIsCut
  <2>1. ASSUME CloseIsCut PROVE FALSE
    <3>1. sftp_handle /\ ~close_sent /\ window \in 1 .. RequestLen - 1
      BY <2>1 DEF CloseIsCut
    <3>2. window >= base + RequestLen
      BY <3>1 DEF RoomLeft, Room
    <3> HIDE DEF base
    <3> QED BY <1>1, <3>1, <3>2
  <2> QED BY <2>1
<1>6. CASE CloseRemote
  <2>1. /\ ~sftp_handle' /\ packet_list' = <<>> /\ window' = window /\ cut' = cut
    BY <1>6 DEF CloseRemote, HandleIsGone, Flush
  <2>2. ListIndices' = {}
    BY <2>1 DEF ListIndices
  <2>3. RoomLeft'
    BY <1>2, <1>3, <2>1 DEF RoomLeft, Room, GoingOn
  <2> QED BY <1>2, <2>1, <2>2, <2>3 DEF RequestsWhole, WireIndices
<1> QED BY <1>4, <1>5, <1>6

LEMMA RoomNext ==
    CopyInv /\ RoomLeft /\ RequestsWhole /\ [CopyNext]_allVars
        => RoomLeft' /\ RequestsWhole'
<1> SUFFICES ASSUME CopyInv, RoomLeft, RequestsWhole, [CopyNext]_allVars
             PROVE  RoomLeft' /\ RequestsWhole'
  OBVIOUS
<1>1. CASE UNCHANGED allVars
  <2>1. UNCHANGED <<at, todo, read_bytes, sftp_handle, open_state, close_sent, cut, pc, ret,
                    packet_list, offset_sent, window, wire, in_sync>>
    BY <1>1 DEF allVars, vars, handleVars, callVars, netVars, copyVars, commandVars,
                fromVars, openVars, requestVars, closeVars
  <2> QED BY <2>1 DEF RoomLeft, RequestsWhole, Room, GoingOn, WroteAll, ListIndices,
                      WireIndices
<1> QED BY <1>1, LoopKeepsRoom, OpeningLeavesRoom, ClosingLeavesRoom, WriteLeavesRoom,
           NetworkLeavesRoom DEF CopyNext, CommandLoop

LEMMA RoomHolds == ASSUME Fits PROVE CopySpec => [](RoomLeft /\ RequestsWhole)
<1>1. ASSUME CopyInit PROVE RoomLeft /\ RequestsWhole
  <2>1. /\ at = "command" /\ todo = Commands /\ ~sftp_handle /\ ~cut
        /\ packet_list = <<>> /\ wire = <<>> /\ in_sync /\ window = Window - InitSize
    BY <1>1 DEF CopyInit, Init, InitHandle
  <2>2. ListIndices = {} /\ WireIndices = {}
    BY <2>1 DEF ListIndices, WireIndices
  <2>3. Room(0)
    <3>1. window >= todo * CommandLen
      BY <2>1, Fits DEF Fits
    <3>2. CopyTypeOK
      BY <1>1, CopyInvInit DEF CopyInv
    <3>3. todo * CommandLen \in Nat
      BY <3>2, RoomNumbers
    <3>4. \A n \in Nat : n + 0 = n
      OBVIOUS
    <3> QED BY <3>1, <3>3, <3>4 DEF Room
  <2> QED BY <2>1, <2>2, <2>3 DEF RoomLeft, RequestsWhole, GoingOn
<1> QED BY <1>1, RoomNext, CopyInvHolds, PTL DEF CopySpec

\* In a session whose bytes fit the channel's first window nothing is ever cut,
\* whatever fails and whether or not the server makes room in time: no write
\* request, no request to close, and the server never loses its place.
THEOREM CopyRequestsWhole == Fits => (CopySpec => []RequestsWhole)
<1> SUFFICES ASSUME Fits PROVE CopySpec => []RequestsWhole
  OBVIOUS
<1> QED BY RoomHolds, PTL

\* The file that is open is the one that the running command names.
OpenedIsNamed == sftp_handle => open_for = todo

\* No open failed with its request under way.
NoneAbandoned == abandoned = {}

\* In such a session, when no wait of sftp_open fails either, no command writes
\* to the file of an earlier one: the exception that OneFileAtATime makes for an
\* abandoned open is not needed.
THEOREM CopyOpenedIsNamed == Fits /\ ~OpenFaults => (CopySpec => []OpenedIsNamed)
<1> SUFFICES ASSUME Fits, ~OpenFaults PROVE CopySpec => []OpenedIsNamed
  OBVIOUS
<1>1. CopyInit => NoneAbandoned
  BY DEF CopyInit, NoneAbandoned
<1>2. ASSUME CopyInv, RoomLeft, NoneAbandoned, [CopyNext]_allVars PROVE NoneAbandoned'
  <2> USE DEF NoneAbandoned
  <2>1. CASE OpenSends
    <3>1. /\ at = "open_remote" /\ open_state = "created" /\ open_left \in 0 .. RequestLen
      BY <1>2, <2>1 DEF OpenSends, CopyInv, CopyTypeOK
    <3> DEFINE base == todo * CommandLen
    <3>2. /\ base \in Nat /\ CommandLen \in Nat /\ RequestLen \in Nat /\ SrcLen \in Nat
          /\ CommandLen = SrcLen + RequestLen + RequestLen /\ window \in Nat
      BY <1>2, RoomNumbers DEF CopyInv
    <3>3. window >= base + CommandLen
      BY <1>2, <3>1 DEF RoomLeft, Room
    <3> HIDE DEF base
    <3>4. AtMost(window, open_left) = open_left /\ open_left - open_left = 0
      BY <3>1, <3>2, <3>3 DEF AtMost
    <3>5. ~(open_left' > 0)
      BY <2>1, <3>4 DEF OpenSends
    <3> QED BY <1>2, <2>1, <3>5 DEF OpenSends
  <2>2. CASE ~OpenSends /\ CommandLoop
    BY <1>2, <2>2 DEF CommandLoop, StartCommand, OpenLocal, OpenBegins, OpenNotBegun,
       OpenSendFails, OpenWaitFails, OpenRemote, OpenRemoteFails, OpenGivesUp, ReadAndWrite,
       ReadEnds, WriteReturned, CloseSends, CloseIsCut, CloseRemote, HandleIsGone,
       CloseLocal, SessionStops, openVars, requestVars
  <2>3. CASE WriteSteps \/ NetworkSteps \/ UNCHANGED allVars
    BY <1>2, <2>3 DEF WriteSteps, NetworkSteps, allVars, copyVars, openVars, requestVars
  <2> QED BY <1>2, <2>1, <2>2, <2>3 DEF CopyNext
<1>3. CopyInv /\ NoneAbandoned => OpenedIsNamed
  BY DEF CopyInv, Request, OpenedIsNamed, NoneAbandoned
<1>4. CopyInv /\ RoomLeft /\ NoneAbandoned /\ [CopyNext]_allVars => NoneAbandoned'
  BY <1>2
<1> QED BY <1>1, <1>3, <1>4, CopyInvHolds, RoomHolds, PTL DEF CopySpec

-----------------------------------------------------------------------------
(* Blocks that fit a packet                                                 *)

BlockFitsPacket == MaxCount <= MaxChunk \/ SrcLen <= MaxChunk

\* The call has its one packet still to make.
Unmade ==
    /\ packet_list = <<>> /\ write_state = "idle"
    /\ pc \in {"enter", "chunk"}
    /\ pc = "chunk" => count = org_count

\* The packet holds the whole block; the call waits for nothing before it is sent.
Made ==
    /\ Len(packet_list) = 1
    /\ packet_list[1].len = org_count
    /\ acked = 0
    /\ pc = "chunk" => count = 0
    /\ pc \in {"ack", "wait", "enter"} => packet_list[1].left = 0
    /\ pc \in {"wait", "enter"} => write_state = "sent"

\* The answer was taken: the whole block is going to be reported.
Taken ==
    /\ packet_list = <<>> /\ write_state = "idle"
    /\ pc = "ack" /\ acked = org_count

\* Each call is done with its block before it returns.
BlockByBlock ==
    /\ up /\ \A r \in replies : r.ok
    /\ outcome # "incomplete"
    /\ sftp_handle => file_acked = 0
    /\ pc = "app" => packet_list = <<>> /\ write_state = "idle"
    /\ at = "write" => org_count <= MaxChunk /\ (pc = "app" => ret = read_bytes)
    /\ pc # "app" => Unmade \/ Made \/ Taken

\* What the calls rest on
LEMMA BlockFacts ==
    ASSUME CopyInv, pc # "app"
    PROVE  /\ at = "write" /\ sftp_handle /\ IndInv
           /\ org_count = read_bytes /\ read_bytes \in Nat /\ read_bytes > 0
           /\ packet_list \in Seq(Chunk)
           /\ acked \in Nat /\ count \in Nat /\ file_acked \in Nat
<1>1. at = "write" /\ sftp_handle /\ org_count = read_bytes /\ read_bytes > 0
  BY DEF CopyInv, Control
<1> QED BY <1>1, CopyNumbers DEF CopyInv, IndInv, TypeOK

\* A call of libssh2_sftp_write with a block no longer than a packet reports
\* the whole block.
LEMMA WriteBlockByBlock ==
    ASSUME CopyInv, RoomLeft, RequestsWhole, RequestsWhole', BlockByBlock,
           Faults = {}, WriteSteps
    PROVE  BlockByBlock'
<1>1. Library /\ UNCHANGED copyVars
  BY DEF WriteSteps
<1>2. pc # "app"
  BY <1>1 DEF Library, Enter, MakeChunk, ChunksMade, AllocFails, SendChunk, SendStops,
              AllSent, TakeAck, TakeRejection, NoAnswer, Report, WaitEnds, WaitFails
<1>3. /\ at = "write" /\ sftp_handle /\ IndInv
      /\ org_count = read_bytes /\ read_bytes \in Nat /\ read_bytes > 0
      /\ packet_list \in Seq(Chunk)
      /\ acked \in Nat /\ count \in Nat /\ file_acked = 0
  BY <1>2, BlockFacts DEF BlockByBlock
<1>4. /\ at' = at /\ sftp_handle' = sftp_handle /\ outcome' = outcome
      /\ read_bytes' = read_bytes
  BY <1>1 DEF copyVars, commandVars, fromVars, openVars
<1>5. up /\ (\A r \in replies : r.ok) /\ outcome # "incomplete" /\ org_count <= MaxChunk
      /\ (Unmade \/ Made \/ Taken)
  <2>1. at = "write" /\ pc # "app"
    BY <1>2, <1>3
  <2>2. Unmade \/ Made \/ Taken
    BY <2>1, Zenon DEF BlockByBlock
  <2>3. up /\ outcome # "incomplete"
    BY DEF BlockByBlock
  <2>5. org_count <= MaxChunk
    BY <2>1 DEF BlockByBlock
  <2>4. \A r \in replies : r.ok
    BY Zenon DEF BlockByBlock
  <2> QED BY <2>2, <2>3, <2>4, <2>5, Zenon
<1>6. packet_list = <<>> => Len(packet_list) = 0
  OBVIOUS
\* What is left to show of a step that does not end the call
<1>7. ASSUME up' = up, replies' \subseteq replies, org_count' = org_count,
             file_acked' = 0, pc' # "app", Unmade' \/ Made' \/ Taken'
      PROVE  BlockByBlock'
  BY <1>3, <1>4, <1>5, <1>7 DEF BlockByBlock
<1>8. CASE Enter
  <2>1. /\ pc = "enter" /\ acked' = 0
        /\ UNCHANGED <<handleVars, sftpVars, org_count, ret, pos, netVars>>
        /\ \/ write_state = "sent" /\ pc' = "ack"
           \/ write_state = "idle" /\ pc' = "chunk" /\ count' = BytesToChunk(org_count)
    BY <1>8 DEF Enter
  <2>2. /\ packet_list' = packet_list /\ write_state' = write_state /\ up' = up
        /\ replies' = replies /\ file_acked' = file_acked /\ org_count' = org_count
    BY <2>1 DEF handleVars, sftpVars, netVars
  <2>3. CASE Unmade
    <3>1. offset_sent = offset /\ offset \in Nat
      BY <1>3, <1>6, <2>3 DEF Unmade, IndInv, TypeOK, ListInv, PipelineCoversGap
    <3>2. BytesToChunk(org_count) = org_count
      BY <1>3, <3>1 DEF BytesToChunk, Already
    <3>3. Unmade'
      BY <2>1, <2>2, <2>3, <3>2 DEF Unmade
    <3> QED BY <1>3, <1>7, <2>1, <2>2, <3>3
  <2>4. CASE Made
    <3>1. Made'
      BY <2>1, <2>2, <2>4 DEF Made
    <3> QED BY <1>3, <1>7, <2>1, <2>2, <3>1
  <2> QED BY <1>5, <2>1, <2>3, <2>4 DEF Taken
<1>9. CASE MakeChunk
  <2> DEFINE size == AtMost(MaxChunk, count)
             c == [id |-> next_id, off |-> offset_sent,
                   src |-> pos + org_count - count, len |-> size, left |-> size]
  <2>1. /\ pc = "chunk" /\ count > 0 /\ pc' = pc
        /\ packet_list' = Append(packet_list, c) /\ count' = count - size
        /\ up' = up /\ replies' = replies /\ file_acked' = file_acked
        /\ org_count' = org_count /\ acked' = acked
    BY <1>9 DEF MakeChunk, netVars
  <2>2. packet_list = <<>> /\ count = org_count /\ write_state = "idle"
    BY <1>3, <1>5, <2>1 DEF Unmade, Made, Taken
  <2>3. size = count
    BY <1>3, <1>5, <2>2, ConstantsAssumption DEF AtMost
  <2>4. c.len = size
    OBVIOUS
  <2> HIDE DEF c, size
  <2>5. Len(packet_list') = 1 /\ packet_list'[1] = c /\ count' = 0
    BY <1>3, <2>1, <2>2, <2>3
  <2>6. acked = 0
    BY <1>3, <2>1 DEF IndInv, CountingInv
  <2>7. Made'
    BY <2>1, <2>2, <2>3, <2>4, <2>5, <2>6 DEF Made
  <2> QED BY <1>3, <1>7, <2>1, <2>7
<1>10. CASE ChunksMade
  <2>1. pc = "chunk" /\ count = 0 /\ pc' = "send"
        /\ UNCHANGED <<handleVars, sftpVars, org_count, count, acked, ret, pos, netVars>>
    BY <1>10 DEF ChunksMade
  <2>2. /\ packet_list' = packet_list /\ up' = up /\ replies' = replies
        /\ file_acked' = file_acked /\ org_count' = org_count /\ acked' = acked
    BY <2>1 DEF handleVars, netVars
  <2>3. Made
    BY <1>3, <1>5, <2>1 DEF Unmade, Taken
  <2>4. Made'
    BY <2>1, <2>2, <2>3 DEF Made
  <2> QED BY <1>3, <1>7, <2>1, <2>2, <2>4
<1>11. CASE SendChunk
  <2>1. PICK i \in 1 .. Len(packet_list) :
          /\ FirstUnsent(i)
          /\ LET c    == packet_list[i]
                 left == c.left - AtMost(window, c.left)
             IN  /\ packet_list' = [packet_list EXCEPT ![i].left = left]
                 /\ pc' = IF left > 0 THEN "ack" ELSE "send"
    BY <1>11 DEF SendChunk
  <2>2. /\ pc = "send" /\ window > 0 /\ up' = up /\ replies' = replies
        /\ UNCHANGED <<file_acked, org_count, acked>>
    BY <1>11 DEF SendChunk
  <2>3. Made
    BY <1>5, <2>2 DEF Unmade, Taken
  <2>4. /\ i = 1 /\ 1 \in ListIndices /\ packet_list[1] \in Chunk
        /\ packet_list[1].left \in Nat /\ packet_list[1].len \in Nat
        /\ packet_list[1].left > 0 /\ packet_list[1].left <= packet_list[1].len
    <3>1. i = 1 /\ 1 \in ListIndices /\ packet_list[1].left > 0
      BY <2>1, <2>3 DEF Made, FirstUnsent, ListIndices
    <3> QED BY <1>3, <3>1, ElementTypes DEF IndInv, ListInv
  <2> DEFINE left == packet_list[1].left - AtMost(window, packet_list[1].left)
  <2>5. packet_list' = [packet_list EXCEPT ![1].left = left]
    BY <2>1, <2>4
  <2>6. pc' = IF left > 0 THEN "ack" ELSE "send"
    BY <2>1, <2>4
  <2>7. left < packet_list[1].len
    BY <1>3, <2>2, <2>4 DEF AtMost, IndInv, TypeOK
  <2> HIDE DEF left
  <2>8. /\ Len(packet_list') = 1 /\ packet_list'[1].len = packet_list[1].len
        /\ packet_list'[1].left = left
    BY <1>3, <2>3, <2>4, <2>5 DEF Made, Chunk
  <2>9. left = 0
    <3>1. 1 \in ListIndices'
      BY <2>8 DEF ListIndices
    <3>2. left \in {0, packet_list[1].len}
      BY <2>8, <3>1 DEF RequestsWhole
    <3>3. left # packet_list[1].len
      BY <2>4, <2>7
    <3> QED BY <3>2, <3>3
  <2>10. pc' = "send"
    BY <2>6, <2>9
  <2>11. Made'
    BY <2>2, <2>3, <2>8, <2>10 DEF Made
  <2> QED BY <1>3, <1>7, <2>2, <2>10, <2>11
<1>12. CASE SendStops
  <2>1. pc = "send" /\ window = 0
    BY <1>5, <1>12 DEF SendStops
  <2>2. PICK i \in ListIndices : packet_list[i].left > 0
    <3>1. PICK i \in 1 .. Len(packet_list) : FirstUnsent(i)
      BY <1>12 DEF SendStops
    <3> QED BY <3>1 DEF FirstUnsent, ListIndices
  <2>3. Room(RequestLen + SrcLen - packet_list[i].off)
    BY <1>2, <1>3, <2>2 DEF RoomLeft, GoingOn
  <2>4. /\ packet_list[i].off \in Nat /\ packet_list[i].len \in Nat
        /\ packet_list[i].off + packet_list[i].len <= offset_sent /\ offset_sent <= SrcLen
    BY <1>3, <2>2, ElementTypes DEF IndInv, ListInv
  <2> DEFINE base == todo * CommandLen
  <2>5. /\ base \in Nat /\ RequestLen \in Nat /\ RequestLen > 0 /\ SrcLen \in Nat
        /\ offset_sent \in Nat
    BY RoomNumbers DEF CopyInv
  <2>6. 0 >= base + (RequestLen + SrcLen - packet_list[i].off)
    BY <2>1, <2>3 DEF Room
  <2> HIDE DEF base
  <2> QED BY <2>4, <2>5, <2>6
<1>13. CASE AllSent
  <2>1. /\ pc = "send" /\ pc' = "ack"
        /\ \A i \in 1 .. Len(packet_list) : packet_list[i].left = 0
        /\ UNCHANGED <<handleVars, sftpVars, org_count, count, acked, ret, pos, netVars>>
    BY <1>13 DEF AllSent
  <2>2. /\ packet_list' = packet_list /\ up' = up /\ replies' = replies
        /\ file_acked' = file_acked /\ org_count' = org_count /\ acked' = acked
    BY <2>1 DEF handleVars, netVars
  <2>3. Made
    BY <1>5, <2>1 DEF Unmade, Taken
  <2>4. packet_list[1].left = 0
    BY <2>1, <2>3 DEF Made
  <2>5. Made'
    BY <2>1, <2>2, <2>3, <2>4 DEF Made
  <2> QED BY <1>3, <1>7, <2>1, <2>2, <2>5
<1>14. CASE TakeAck
  <2>1. /\ pc = "ack" /\ pc' = pc /\ packet_list # <<>> /\ packet_list' = Tail(packet_list)
        /\ acked' = acked + Head(packet_list).len /\ write_state' = "idle"
        /\ up' = up /\ replies' \subseteq replies
        /\ UNCHANGED <<file_acked, org_count>>
    BY <1>14 DEF TakeAck, AwaitsAnswer
  <2>2. Made
    BY <1>5, <2>1 DEF Unmade, Taken
  <2>3. Head(packet_list) = packet_list[1] /\ Len(packet_list') = 0 /\ packet_list' \in Seq(Chunk)
    BY <1>3, <2>1, <2>2, TailFacts DEF Made
  <2>4. packet_list' = <<>> /\ acked' = org_count
    BY <1>3, <2>1, <2>2, <2>3 DEF Made
  <2>5. Taken'
    BY <2>1, <2>4 DEF Taken
  <2> QED BY <1>3, <1>7, <2>1, <2>5
<1>15. ~TakeRejection
  <2>1. ~Answered(FALSE)
    BY <1>5 DEF Answered
  <2> QED BY <2>1 DEF TakeRejection
<1>16. CASE NoAnswer
  <2>1. /\ pc = "ack" /\ pc' = "wait" /\ write_state' = "sent" /\ packet_list # <<>>
        /\ UNCHANGED <<handleVars, next_id, zombies, org_count, count, acked, pos, netVars>>
    BY <1>5, <1>16 DEF NoAnswer, AwaitsAnswer
  <2>2. /\ packet_list' = packet_list /\ up' = up /\ replies' = replies
        /\ file_acked' = file_acked /\ org_count' = org_count /\ acked' = acked
    BY <2>1 DEF handleVars, netVars
  <2>3. Made
    BY <1>5, <2>1 DEF Unmade, Taken
  <2>4. Made'
    BY <2>1, <2>2, <2>3 DEF Made
  <2> QED BY <1>3, <1>7, <2>1, <2>2, <2>4
<1>17. CASE Report
  <2>1. /\ pc = "ack" /\ ~AwaitsAnswer /\ write_state' = "idle" /\ pc' = "app"
        /\ ret' = AtMost(Total, org_count) /\ file_acked' = Total - AtMost(Total, org_count)
        /\ UNCHANGED <<packet_list, org_count>> /\ up' = up /\ replies' = replies
    BY <1>17 DEF Report, Return, netVars
  <2>2. ~Made
    <3>1. Made => packet_list # <<>> /\ Head(packet_list).left = 0 /\ acked = 0
      BY <1>3, <2>1, <1>6, TailFacts DEF Made
    <3> QED BY <2>1, <3>1 DEF AwaitsAnswer
  <2>3. Taken
    BY <1>5, <2>1, <2>2 DEF Unmade
  <2>4. Total = org_count /\ AtMost(Total, org_count) = org_count
    BY <1>3, <2>3 DEF Taken, Total, AtMost
  <2>5. ret' = read_bytes /\ file_acked' = 0
    BY <1>3, <2>1, <2>4
  <2> QED BY <1>4, <1>5, <2>1, <2>3, <2>5 DEF BlockByBlock, Taken
<1>18. CASE WaitEnds
  <2>1. /\ pc = "wait" /\ pc' = "enter"
        /\ UNCHANGED <<handleVars, sftpVars, org_count, count, acked, ret, pos, netVars>>
    BY <1>18 DEF WaitEnds
  <2>2. /\ packet_list' = packet_list /\ up' = up /\ replies' = replies
        /\ file_acked' = file_acked /\ org_count' = org_count /\ acked' = acked
        /\ write_state' = write_state
    BY <2>1 DEF handleVars, netVars, sftpVars
  <2>3. Made
    BY <1>5, <2>1 DEF Unmade, Taken
  <2>4. Made'
    BY <2>1, <2>2, <2>3 DEF Made
  <2> QED BY <1>3, <1>7, <2>1, <2>2, <2>4
<1>19. ~AllocFails /\ ~WaitFails
  BY DEF AllocFails, WaitFails
<1> QED BY <1>1, <1>8, <1>9, <1>10, <1>11, <1>12, <1>13, <1>14, <1>15, <1>16, <1>17, <1>18,
           <1>19 DEF Library

\* The loop passes only such blocks, and the server refuses none.
LEMMA LoopBlockByBlock ==
    ASSUME CopyInv, RequestsWhole, BlockByBlock, Faults = {}, BlockFitsPacket,
           CommandLoop \/ NetworkSteps
    PROVE  BlockByBlock'
<1>1. CASE ReadAndWrite
  <2>1. PICK n \in 1 .. MaxCount : Fread(n) /\ Call(n)
    BY <1>1 DEF ReadAndWrite
  <2>2. /\ at = "read" /\ at' = "write" /\ outcome' = outcome /\ sftp_handle' = sftp_handle
        /\ pc = "app" /\ pc' = "enter" /\ org_count' = n
        /\ UNCHANGED <<handleVars, sftpVars, count, acked, ret, pos, netVars>>
    BY <1>1, <2>1 DEF ReadAndWrite, Call, openVars
  <2>3. /\ packet_list' = packet_list /\ write_state' = write_state /\ up' = up
        /\ replies' = replies /\ file_acked' = file_acked
    BY <2>2 DEF handleVars, sftpVars, netVars
  <2>4. n <= MaxChunk
    <3>1. /\ from_len \in Nat /\ from_len <= SrcLen /\ from_pos \in Nat
          /\ SrcLen \in Nat /\ MaxCount \in Nat /\ MaxChunk \in Nat /\ n \in Nat
      BY CopyNumbers, ConstantsAssumption DEF CopyInv
    <3>2. n <= MaxCount /\ from_pos + n <= from_len
      BY <2>1, <3>1, BlockRead
    <3> QED BY <3>1, <3>2 DEF BlockFitsPacket
  <2>5. packet_list = <<>> /\ write_state = "idle" /\ up /\ outcome # "incomplete"
        /\ (sftp_handle => file_acked = 0) /\ \A r \in replies : r.ok
    BY <2>2 DEF BlockByBlock
  <2>6. Unmade'
    BY <2>2, <2>3, <2>5 DEF Unmade
  <2> QED BY <2>2, <2>3, <2>4, <2>5, <2>6 DEF BlockByBlock
<1>2. CASE NetworkSteps
  <2>1. Network /\ UNCHANGED copyVars /\ TypeOK
    BY <1>2 DEF NetworkSteps, CopyInv, CopyTypeOK
  <2>2. UNCHANGED <<file_acked, packet_list, write_state, pc, org_count, count, acked, ret>>
    BY <2>1, NetworkEffect
  <2>3. UNCHANGED <<at, outcome, sftp_handle, read_bytes>>
    BY <2>1 DEF copyVars, commandVars, fromVars, openVars
  <2>4. ~ServerRefuses /\ ~ConnectionDrops /\ ~ServerLosesFraming
    <3>1. ASSUME Len(wire) > 1 PROVE Head(wire).whole
      <4>1. wire # <<>> /\ wire \in Seq(Packet)
        BY <2>1, <3>1 DEF TypeOK
      <4>2. Head(wire) = wire[1] /\ 1 \in WireIndices
        BY <4>1, TailFacts DEF WireIndices
      <4> QED BY <4>2 DEF RequestsWhole
    <3> QED BY <3>1 DEF ServerRefuses, ConnectionDrops, ServerLosesFraming
  <2>5. up' = up /\ \A r \in replies' : r \in replies \/ r.ok
    BY <2>1, <2>4 DEF Network, ServerWrites, WindowOpens, Answer
  <2>6. pc # "app" => Unmade' \/ Made' \/ Taken'
    BY <2>2 DEF BlockByBlock, Unmade, Made, Taken
  <2> QED BY <2>2, <2>3, <2>5, <2>6 DEF BlockByBlock
<1>3. CASE OpenRemote
  <2>1. /\ at = "open_remote" /\ at' = "read" /\ file_acked' = 0 /\ packet_list' = <<>>
        /\ outcome' = outcome /\ up' = up /\ replies' = replies
        /\ write_state' = write_state /\ pc' = pc
    BY <1>3 DEF OpenRemote, sftpVars
  <2>2. pc = "app"
    BY <2>1 DEF CopyInv, Control
  <2> QED BY <2>1, <2>2 DEF BlockByBlock
<1>4. CASE WriteReturned
  <2>1. /\ at = "write" /\ pc = "app" /\ UNCHANGED vars
        /\ sftp_handle' = sftp_handle
        /\ WroteAll => at' = "read" /\ outcome' = outcome
    BY <1>4 DEF WriteReturned, openVars
  <2>2. WroteAll
    BY <2>1 DEF BlockByBlock, WroteAll
  <2>3. UNCHANGED <<up, replies, file_acked, packet_list, write_state, pc>>
    BY <2>1 DEF vars, handleVars, sftpVars, callVars, netVars
  <2> QED BY <2>1, <2>2, <2>3 DEF BlockByBlock
<1>5. CASE CloseIsCut \/ CloseRemote
  <2>1. /\ at = "close" /\ at' = at /\ outcome' = outcome /\ up' = up /\ ~sftp_handle'
        /\ packet_list' = <<>> /\ replies' \subseteq replies
        /\ write_state' = write_state /\ pc' = pc
    BY <1>5 DEF CloseIsCut, CloseRemote, HandleIsGone, Flush, commandVars, callVars
  <2>2. pc = "app"
    BY <2>1 DEF CopyInv, Control
  <2> QED BY <2>1, <2>2 DEF BlockByBlock
<1>6. CASE \/ StartCommand \/ OpenLocal \/ OpenBegins \/ OpenNotBegun \/ OpenSends
           \/ OpenSendFails \/ OpenWaitFails \/ OpenRemoteFails \/ ReadEnds
           \/ CloseSends \/ CloseLocal \/ SessionStops
  <2>1. /\ UNCHANGED <<up, replies, file_acked, packet_list, write_state, pc, sftp_handle>>
        /\ at # "write" /\ at' # "write"
        /\ outcome' # "incomplete" \/ outcome' = outcome
    BY <1>6 DEF StartCommand, OpenLocal, OpenBegins, OpenNotBegun, OpenSends, OpenSendFails,
       OpenWaitFails, OpenRemoteFails, OpenGivesUp, OpenLeavesRequest, PacketToSend, ReadEnds,
       CloseSends, CloseLocal, SessionStops, vars, handleVars, sftpVars, callVars, netVars,
       commandVars, openVars
  <2>2. pc = "app"
    BY <2>1 DEF CopyInv, Control
  <2> QED BY <2>1, <2>2 DEF BlockByBlock
<1> QED BY <1>1, <1>2, <1>3, <1>4, <1>5, <1>6 DEF CommandLoop

\* The loop of main.cpp takes a short count for a failure.  With a window that
\* takes all of the session and blocks no longer than a packet of libssh2 no
\* copy without faults fails half way; run copy_short_count shows that it does
\* with a block of several packets.
THEOREM CopyShortCount ==
    Fits /\ BlockFitsPacket /\ Faults = {} => (CopySpec => []ShortCountIsNoFailure)
<1> SUFFICES ASSUME Fits, BlockFitsPacket, Faults = {}
             PROVE  CopySpec => []ShortCountIsNoFailure
  OBVIOUS
<1>1. CopyInit => BlockByBlock
  <2> SUFFICES ASSUME CopyInit PROVE BlockByBlock
    OBVIOUS
  <2>1. /\ up /\ replies = {} /\ outcome = "none" /\ ~sftp_handle /\ pc = "app"
        /\ packet_list = <<>> /\ write_state = "idle" /\ at = "command"
    BY DEF CopyInit, Init, InitHandle
  <2> QED BY <2>1 DEF BlockByBlock
<1>2. ASSUME CopyInv, RoomLeft, RequestsWhole, RequestsWhole', BlockByBlock,
             [CopyNext]_allVars
      PROVE  BlockByBlock'
  <2>1. CASE WriteSteps
    BY <1>2, <2>1, WriteBlockByBlock
  <2>2. CASE CommandLoop \/ NetworkSteps
    BY <1>2, <2>2, LoopBlockByBlock
  <2>3. CASE UNCHANGED allVars
    <3>1. UNCHANGED <<up, replies, outcome, sftp_handle, file_acked, pc, packet_list,
                      write_state, at, org_count, ret, read_bytes, count, acked>>
      BY <2>3 DEF allVars, vars, handleVars, sftpVars, callVars, netVars, copyVars,
                  commandVars, fromVars, openVars
    <3>2. Unmade \/ Made \/ Taken => Unmade' \/ Made' \/ Taken'
      BY <3>1 DEF Unmade, Made, Taken
    <3> QED BY <1>2, <3>1, <3>2 DEF BlockByBlock
  <2> QED BY <1>2, <2>1, <2>2, <2>3 DEF CopyNext
<1>3. CopyInv /\ RoomLeft /\ RequestsWhole /\ RequestsWhole' /\ BlockByBlock
          /\ [CopyNext]_allVars => BlockByBlock'
  BY <1>2
<1>4. BlockByBlock => ShortCountIsNoFailure
  BY DEF BlockByBlock, ShortCountIsNoFailure
<1> QED BY <1>1, <1>3, <1>4, CopyInvHolds, RoomHolds, PTL DEF CopySpec
=============================================================================
