--------------------------- MODULE SftpWriteProofs ---------------------------
(***************************************************************************)
(* Proofs about SftpWrite for every source length, chunk size, window and  *)
(* set of faults: IndInv is inductive, the invariants follow from it, and  *)
(* SftpWrite implements Upload.                                            *)
(***************************************************************************)
EXTENDS SftpWrite, SequenceTheorems, TLAPS

\* What Tail does to the sequences of the model.
LEMMA TailFacts ==
    ASSUME NEW S, NEW s \in Seq(S), s # <<>>
    PROVE  /\ Tail(s) \in Seq(S)
           /\ Len(s) \in Nat \ {0}
           /\ Len(Tail(s)) = Len(s) - 1
           /\ \A i \in 1 .. Len(s) - 1 : Tail(s)[i] = s[i + 1]
           /\ Head(s) = s[1]
           /\ s[1] \in S
  BY HeadTailProperties, EmptySeq, LenProperties, SMT

\* The types of what the list and the wire hold.
LEMMA ElementTypes ==
    ASSUME TypeOK
    PROVE  /\ Len(packet_list) \in Nat /\ Len(wire) \in Nat
           /\ \A i \in ListIndices :
                 /\ packet_list[i] \in Chunk
                 /\ packet_list[i].id \in Nat /\ packet_list[i].off \in Nat
                 /\ packet_list[i].src \in Nat /\ packet_list[i].left \in Nat
                 /\ packet_list[i].len \in Nat /\ packet_list[i].len > 0
           /\ \A k \in WireIndices :
                 /\ wire[k] \in Packet
                 /\ wire[k].id \in Nat /\ wire[k].off \in Nat /\ wire[k].src \in Nat
                 /\ wire[k].len \in Nat /\ wire[k].len > 0 /\ wire[k].whole \in BOOLEAN
           /\ \A r \in replies : r.id \in Nat /\ r.ok \in BOOLEAN
  <1>1. packet_list \in Seq(Chunk) /\ wire \in Seq(Packet) /\ replies \subseteq Reply
    BY DEF TypeOK
  <1>2. Len(packet_list) \in Nat /\ Len(wire) \in Nat
    BY <1>1, LenProperties
  <1>3. /\ \A i \in ListIndices : packet_list[i] \in Chunk
        /\ \A k \in WireIndices : wire[k] \in Packet
    BY <1>1, ElementOfSeq DEF ListIndices, WireIndices
  <1> QED
    BY <1>1, <1>2, <1>3, SMTT(30) DEF Chunk, Packet, Reply

\* The invariant holds when the file was opened and nothing was written yet.
LEMMA InitHolds == Init => IndInv
  <1> SUFFICES ASSUME Init PROVE IndInv
    OBVIOUS
  <1> USE ConstantsAssumption DEF Init, InitHandle, ListIndices, WireIndices
  <1>1. packet_list = <<>> /\ wire = <<>> /\ replies = {} /\ Len(packet_list) = 0 /\ Len(wire) = 0
    BY SMT
  <1>2. TypeOK
    BY <1>1, SMT DEF TypeOK, PCs, Missing, Offsets, Chunk, Packet
  <1>3. CountingInv
    BY SMT DEF CountingInv, AckAccounting
  <1>4. ListInv
    BY <1>1, SMT DEF ListInv, PipelineCoversGap
  <1>5. WireInv
    BY <1>1, SMT DEF WireInv
  <1>6. ReplyInv
    BY <1>1 DEF ReplyInv
  <1>7. StoredInv
    BY <1>1, SMT DEF StoredInv
  <1>8. ZombieInv
    BY <1>1, SMT DEF ZombieInv, NoOrphanReply, RepliedIds
  <1> QED
    BY <1>2, <1>3, <1>4, <1>5, <1>6, <1>7, <1>8 DEF IndInv

\* A step of the call that touches neither the list nor the network keeps the
\* parts of the invariant that speak of these.
LEMMA QuietStep ==
    ASSUME IndInv, TypeOK', CountingInv',
           UNCHANGED <<handleVars, next_id, zombies, netVars>>
    PROVE  IndInv'
  <1> USE DEF IndInv, handleVars, netVars, ListIndices, WireIndices, Begun
  <1>1. ListInv'
    BY DEF ListInv, PipelineCoversGap
  <1>2. WireInv'
    BY DEF WireInv, SameRequest
  <1>3. ReplyInv'
    BY DEF ReplyInv
  <1>4. StoredInv'
    BY DEF StoredInv
  <1>5. ZombieInv'
    BY DEF ZombieInv, NoOrphanReply, RepliedIds, ChunkIds
  <1> QED
    BY <1>1, <1>2, <1>3, <1>4, <1>5

\* The steps of the call that only decide where it goes on.
LEMMA ControlSteps ==
    ASSUME IndInv,
           CallerWrites \/ Enter \/ ChunksMade \/ AllocFails \/ SendStops
           \/ AllSent \/ NoAnswer \/ WaitEnds \/ WaitFails
    PROVE  IndInv'
  <1> USE ConstantsAssumption
  <1> USE DEF TypeOK, PCs, CountingInv, AckAccounting, handleVars, sftpVars, netVars, Return
  <1>1. CASE CallerWrites
    <2>1. UNCHANGED <<handleVars, next_id, zombies, netVars>>
      BY <1>1, SMT DEF CallerWrites, Call
    <2>2. TypeOK'
      BY <1>1, SMT DEF CallerWrites, Call, IndInv
    <2>3. CountingInv'
      BY <1>1, SMT DEF CallerWrites, Call, IndInv, AtMost
    <2> QED
      BY <2>1, <2>2, <2>3, QuietStep
  <1>2. CASE Enter
    <2>1. UNCHANGED <<handleVars, next_id, zombies, netVars>>
      BY <1>2, SMT DEF Enter
    <2>2. Already \in Nat
      BY <1>2, SMT DEF Already, IndInv, ListInv
    <2>3. TypeOK'
      BY <1>2, <2>2, SMT DEF Enter, IndInv, BytesToChunk
    <2>4. CountingInv'
      BY <1>2, <2>2, SMT DEF Enter, IndInv, BytesToChunk, Already
    <2> QED
      BY <2>1, <2>3, <2>4, QuietStep
  <1>3. CASE NoAnswer
    <2>1. UNCHANGED <<handleVars, next_id, zombies, netVars>>
      BY <1>3, SMT DEF NoAnswer
    <2>2. TypeOK' /\ CountingInv'
      BY <1>3, SMT DEF NoAnswer, IndInv, AwaitsAnswer
    <2> QED
      BY <2>1, <2>2, QuietStep
  <1>4. CASE ChunksMade \/ AllocFails \/ SendStops \/ AllSent \/ WaitEnds \/ WaitFails
    <2>1. UNCHANGED <<handleVars, next_id, zombies, netVars>>
      BY <1>4, SMT DEF ChunksMade, AllocFails, SendStops, AllSent, WaitEnds, WaitFails
    <2>2. /\ pc \in {"chunk", "send", "wait"}
          /\ pc' \in {"app", "enter", "send", "ack", "wait"}
          /\ ret' \in Int
          /\ UNCHANGED <<write_state, org_count, count, acked, pos>>
      BY <1>4, SMT DEF ChunksMade, AllocFails, SendStops, AllSent, WaitEnds, WaitFails, IndInv
    <2>3. TypeOK' /\ CountingInv'
      BY <2>1, <2>2, SMT DEF IndInv
    <2> QED
      BY <2>1, <2>3, QuietStep
  <1> QED
    BY <1>1, <1>2, <1>3, <1>4

\* A new chunk at the end of the list continues it.
LEMMA MakeChunkStep ==
    ASSUME IndInv, MakeChunk
    PROVE  IndInv'
  <1> USE ConstantsAssumption
  <1> DEFINE size == AtMost(MaxChunk, count)
             c == [id |-> next_id, off |-> offset_sent,
                   src |-> pos + org_count - count, len |-> size, left |-> size]
             n == Len(packet_list)
  <1>1. /\ size \in Nat \ {0} /\ size <= count
        /\ pos + org_count - count = offset_sent
        /\ offset_sent \in Nat /\ next_id \in Nat /\ count \in Nat
        /\ offset_sent + count <= SrcLen
        /\ pc = "chunk"
    BY SMT DEF MakeChunk, AtMost, IndInv, TypeOK, CountingInv
  <1>2. packet_list' = Append(packet_list, c) /\ packet_list \in Seq(Chunk)
    BY DEF MakeChunk, IndInv, TypeOK
  <1>3. /\ offset_sent' = offset_sent + size
        /\ next_id' = next_id + 1
        /\ count' = count - size
        /\ UNCHANGED <<offset, file_acked, write_state, zombies,
                       pc, org_count, acked, ret, pos>>
        /\ UNCHANGED <<window, up, wire, in_sync, replies, remote>>
    BY SMT DEF MakeChunk, netVars
  <1>4. /\ c.id = next_id /\ c.off = offset_sent /\ c.src = offset_sent
        /\ c.len = size /\ c.left = size
        /\ c \in Chunk
    BY <1>1, SMT DEF Chunk
  <1> HIDE DEF size, c
  <1>5. /\ packet_list' \in Seq(Chunk)
        /\ n \in Nat
        /\ Len(packet_list') = n + 1
        /\ \A i \in 1 .. n : packet_list'[i] = packet_list[i] /\ packet_list[i] \in Chunk
        /\ packet_list'[n + 1] = c
    BY <1>2, <1>4, AppendProperties, ElementOfSeq, LenProperties, SMT
  <1> HIDE DEF n
  <1>6. ListIndices' = ListIndices \cup {n + 1} /\ ListIndices = 1 .. n
    BY <1>5, SMT DEF ListIndices, n
  <1>7. TypeOK'
    BY <1>1, <1>3, <1>5, SMT DEF IndInv, TypeOK, PCs
  <1>8. CountingInv'
    BY <1>1, <1>3, SMT DEF IndInv, TypeOK, CountingInv, AckAccounting
  <1>9. ListInv'
    <2>0. \A i \in 1 .. n : /\ packet_list[i].id \in Nat /\ packet_list[i].id < next_id
                            /\ packet_list[i].left \in Nat /\ packet_list[i].len \in Nat
                            /\ packet_list[i].left <= packet_list[i].len
                            /\ packet_list[i].off \in Nat
                            /\ packet_list[i].off + packet_list[i].len <= offset_sent
      BY <1>6, ElementTypes DEF IndInv, ListInv
    <2>1. PipelineCoversGap'
      <3>1. \A i \in 1 .. n + 1 :
               /\ packet_list'[i].off = IF i = 1 THEN offset
                                        ELSE packet_list'[i - 1].off + packet_list'[i - 1].len
               /\ packet_list'[i].src = packet_list'[i].off
        <4> SUFFICES ASSUME NEW i \in 1 .. n + 1
                     PROVE  /\ packet_list'[i].off = IF i = 1 THEN offset
                                   ELSE packet_list'[i - 1].off + packet_list'[i - 1].len
                            /\ packet_list'[i].src = packet_list'[i].off
          OBVIOUS
        <4>1. CASE i \in 1 .. n
          BY <4>1, <1>5, SMT DEF IndInv, ListInv, PipelineCoversGap, n
        <4>2. CASE i = n + 1
          BY <4>2, <1>4, <1>5, SMT DEF IndInv, ListInv, PipelineCoversGap, n
        <4> QED
          BY <4>1, <4>2, <1>5, SMT
      <3>2. offset_sent' = packet_list'[n + 1].off + packet_list'[n + 1].len
        BY <1>3, <1>4, <1>5
      <3> QED
        BY <3>1, <3>2, <1>3, <1>5, SMT DEF PipelineCoversGap
    <2>2. (offset <= offset_sent /\ offset_sent <= SrcLen)'
      BY <1>1, <1>3, SMT DEF IndInv, TypeOK, ListInv
    <2>3. \A i \in ListIndices' : /\ packet_list'[i].id < next_id'
                                  /\ packet_list'[i].left <= packet_list'[i].len
                                  /\ packet_list'[i].off + packet_list'[i].len <= offset_sent'
      <3> SUFFICES ASSUME NEW i \in ListIndices'
                   PROVE  /\ packet_list'[i].id < next_id'
                          /\ packet_list'[i].left <= packet_list'[i].len
                          /\ packet_list'[i].off + packet_list'[i].len <= offset_sent'
        OBVIOUS
      <3>1. CASE i \in 1 .. n
        BY <3>1, <2>0, <1>1, <1>3, <1>5, SMTT(30)
      <3>2. CASE i = n + 1
        BY <3>2, <1>1, <1>3, <1>4, <1>5, SMT
      <3> QED
        BY <3>1, <3>2, <1>6
    <2>4. \A i, j \in ListIndices' : i < j =>
             /\ packet_list'[i].id < packet_list'[j].id
             /\ packet_list'[i].off + packet_list'[i].len <= packet_list'[j].off
             /\ packet_list'[i].left > 0 => ~Begun(packet_list'[j])
      <3> SUFFICES ASSUME NEW i \in ListIndices', NEW j \in ListIndices', i < j
                   PROVE  /\ packet_list'[i].id < packet_list'[j].id
                          /\ packet_list'[i].off + packet_list'[i].len <= packet_list'[j].off
                          /\ packet_list'[i].left > 0 => ~Begun(packet_list'[j])
        OBVIOUS
      <3>1. i \in 1 .. n
        BY <1>5, <1>6, SMT
      <3>2. CASE j \in 1 .. n
        BY <3>1, <3>2, <1>5, <1>6 DEF IndInv, ListInv
      <3>3. CASE j = n + 1
        BY <3>1, <3>3, <2>0, <1>1, <1>4, <1>5, <1>6, SMTT(30) DEF Begun
      <3> QED
        BY <3>2, <3>3, <1>6
    <2> QED
      BY <2>1, <2>2, <2>3, <2>4 DEF ListInv, Begun
  <1>10. WireInv'
    <2>1. WireIndices' = WireIndices /\ wire' = wire /\ up' = up
      BY <1>3 DEF WireIndices
    <2>2. \A k \in WireIndices : /\ wire[k].id < next_id'
                                 /\ wire[k].src = wire[k].off
                                 /\ wire[k].off >= offset'
                                 /\ wire[k].id < next_id
                                 /\ wire[k].id \in Nat
      BY <1>1, <1>3, ElementTypes, SMT DEF IndInv, WireInv
    <2>3. \A k, l \in WireIndices : k < l => wire[k].id < wire[l].id
      BY DEF IndInv, WireInv
    <2>4. \A k \in WireIndices : \A i \in ListIndices' :
             ~Begun(packet_list'[i]) => wire[k].id < packet_list'[i].id
      BY <2>2, <1>4, <1>5, <1>6 DEF IndInv, WireInv
    <2>5. \A k \in WireIndices :
             (packet_list' # <<>> /\ wire[k].id >= packet_list'[1].id) =>
                 \E i \in ListIndices' : SameRequest(wire[k], packet_list'[i])
      <3> SUFFICES ASSUME NEW k \in WireIndices, wire[k].id >= packet_list'[1].id
                   PROVE  \E i \in ListIndices' : SameRequest(wire[k], packet_list'[i])
        OBVIOUS
      <3>1. n # 0
        BY <2>2, <1>1, <1>4, <1>5, SMT
      <3>2. packet_list # <<>> /\ packet_list'[1] = packet_list[1]
        BY <3>1, <1>2, <1>5, EmptySeq, SMT DEF n
      <3>3. PICK i \in ListIndices : SameRequest(wire[k], packet_list[i])
        BY <3>2 DEF IndInv, WireInv
      <3> QED
        BY <3>3, <1>5, <1>6
    <2>6. \A k \in WireIndices :
             (k < Len(wire) /\ ~wire[k].whole) =>
                 \A i \in ListIndices' : packet_list'[i].id # wire[k].id
      <3> SUFFICES ASSUME NEW k \in WireIndices, k < Len(wire), ~wire[k].whole,
                          NEW i \in ListIndices'
                   PROVE  packet_list'[i].id # wire[k].id
        OBVIOUS
      <3>1. CASE i \in 1 .. n
        BY <3>1, <1>5, <1>6 DEF IndInv, WireInv
      <3>2. CASE i = n + 1
        BY <3>2, <1>1, <1>4, <1>5, <2>2, SMT
      <3> QED
        BY <3>1, <3>2, <1>6
    <2>7. \A i \in ListIndices' :
             (up /\ Begun(packet_list'[i]) /\ packet_list'[i].left > 0) =>
                 wire # <<>> /\ wire[Len(wire)].id = packet_list'[i].id
      <3>1. ~Begun(packet_list'[n + 1])
        BY <1>1, <1>4, <1>5, SMT DEF Begun
      <3> QED
        BY <3>1, <1>5, <1>6 DEF IndInv, WireInv
    <2> QED
      BY <2>1, <2>2, <2>3, <2>4, <2>5, <2>6, <2>7 DEF WireInv, SameRequest, Begun
  <1>11. ReplyInv'
    <2>1. \A r \in replies : r.id < next_id' /\ r.id \in Nat /\ r.id < next_id
      BY <1>1, <1>3, SMT DEF IndInv, ReplyInv, TypeOK, Reply
    <2>2. \A r \in replies : \A i \in ListIndices' :
             ~Begun(packet_list'[i]) => r.id < packet_list'[i].id
      BY <2>1, <1>4, <1>5, <1>6 DEF IndInv, ReplyInv
    <2> QED
      BY <2>1, <2>2, <1>3 DEF IndInv, ReplyInv, Begun, WireIndices
  <1>12. StoredInv'
    <2>1. [id |-> c.id, ok |-> TRUE] \notin replies
      BY <1>1, <1>4, SMT DEF IndInv, ReplyInv
    <2>2. ASSUME NEW i \in ListIndices', [id |-> packet_list'[i].id, ok |-> TRUE] \in replies
          PROVE  \A x \in packet_list'[i].off .. packet_list'[i].off + packet_list'[i].len - 1 :
                     remote[x] = x
      BY <2>1, <2>2, <1>5, <1>6 DEF IndInv, StoredInv
    <2> QED
      BY <2>2, <1>3 DEF IndInv, StoredInv
  <1>13. ZombieInv'
    <2>1. ChunkIds(packet_list) \subseteq ChunkIds(packet_list')
      BY <1>5, <1>6, SMT DEF ChunkIds, n
    <2> QED
      BY <2>1, <1>3 DEF IndInv, ZombieInv, NoOrphanReply, RepliedIds, WireIndices
  <1> QED
    BY <1>7, <1>8, <1>9, <1>10, <1>11, <1>12, <1>13 DEF IndInv

\* Only the list's head starts at the answered offset; no chunk starts below it.
LEMMA ChunksAboveOffset ==
    ASSUME IndInv, NEW i \in ListIndices
    PROVE  packet_list[i].off >= offset
  <1>1. 1 \in ListIndices /\ i \in Nat /\ offset \in Nat
    BY ElementTypes, SMT DEF IndInv, ListIndices, TypeOK
  <1>2. packet_list[1].off = offset
    BY <1>1, SMT DEF IndInv, ListInv, PipelineCoversGap, ListIndices
  <1>3. CASE i = 1
    BY <1>1, <1>2, <1>3, SMT
  <1>4. CASE i # 1
    <2>1. packet_list[1].off + packet_list[1].len <= packet_list[i].off
      BY <1>1, <1>4, ElementTypes, SMT DEF IndInv, ListInv, ListIndices
    <2> QED
      BY <2>1, <1>1, <1>2, ElementTypes, SMT DEF IndInv
  <1> QED
    BY <1>3, <1>4

\* A request of the list that is on the wire belongs to one chunk only.
LEMMA SameId ==
    ASSUME IndInv, NEW i \in ListIndices, NEW j \in ListIndices,
           packet_list[i].id = packet_list[j].id
    PROVE  i = j
  <1>1. i \in Nat /\ j \in Nat
    BY ElementTypes, SMT DEF IndInv, ListIndices
  <1>2. ~(i < j) /\ ~(j < i)
    BY ElementTypes, SMT DEF IndInv, ListInv
  <1> QED
    BY <1>1, <1>2, SMT

\* A request of the list on the wire describes its chunk.
LEMMA WireRequest ==
    ASSUME IndInv, NEW k \in WireIndices, NEW i \in ListIndices,
           wire[k].id = packet_list[i].id
    PROVE  SameRequest(wire[k], packet_list[i])
  <1>1. packet_list # <<>> /\ 1 \in ListIndices
    BY ElementTypes, EmptySeq, SMT DEF IndInv, TypeOK, ListIndices
  <1>2. wire[k].id >= packet_list[1].id
    <2>1. CASE i = 1
      BY <2>1, <1>1, ElementTypes, SMT DEF IndInv
    <2>2. CASE i # 1
      BY <2>2, <1>1, ElementTypes, SMT DEF IndInv, ListInv, ListIndices
    <2> QED
      BY <2>1, <2>2
  <1>3. PICK j \in ListIndices : SameRequest(wire[k], packet_list[j])
    BY <1>1, <1>2 DEF IndInv, WireInv
  <1>4. packet_list[i].id = packet_list[j].id
    BY <1>3 DEF SameRequest
  <1>5. i = j
    BY <1>4, SameId
  <1> QED
    BY <1>3, <1>5

\* Handing bytes of the first unsent chunk to the channel.
LEMMA SendChunkStep ==
    ASSUME IndInv, SendChunk
    PROVE  IndInv'
  <1> USE ConstantsAssumption
  <1>1. PICK i \in 1 .. Len(packet_list) :
          /\ FirstUnsent(i)
          /\ LET c    == packet_list[i]
                 left == c.left - AtMost(window, c.left)
             IN  /\ packet_list' = [packet_list EXCEPT ![i].left = left]
                 /\ window' = window - (c.left - left)
                 /\ wire' = IF c.left = c.len
                            THEN Append(wire, [id |-> c.id, off |-> c.off, src |-> c.src,
                                               len |-> c.len, whole |-> left = 0])
                            ELSE [wire EXCEPT ![Len(wire)].whole = (left = 0)]
                 /\ pc' = IF left > 0 THEN "ack" ELSE "send"
    BY DEF SendChunk
  <1> DEFINE c    == packet_list[i]
             left == c.left - AtMost(window, c.left)
             p    == [id |-> c.id, off |-> c.off, src |-> c.src,
                      len |-> c.len, whole |-> left = 0]
             n    == Len(packet_list)
             m    == Len(wire)
  <1>2. /\ i \in ListIndices /\ ListIndices = 1 .. n /\ WireIndices = 1 .. m
        /\ n \in Nat /\ m \in Nat
        /\ c \in Chunk
        /\ c.id \in Nat /\ c.off \in Nat /\ c.src \in Nat /\ c.left \in Nat
        /\ c.len \in Nat /\ c.len > 0 /\ c.left > 0 /\ c.left <= c.len
        /\ \A j \in 1 .. i - 1 : packet_list[j].left = 0
    BY <1>1, ElementTypes DEF FirstUnsent, IndInv, ListInv, ListIndices, WireIndices
  <1>3. /\ left \in Nat /\ left < c.left
        /\ window' \in Nat
        /\ pc' \in {"ack", "send"} /\ pc = "send" /\ up
        /\ UNCHANGED <<offset, offset_sent, file_acked, write_state, next_id, zombies,
                       org_count, count, acked, ret, pos, up, in_sync, replies, remote>>
    <2>1. /\ pc = "send" /\ up /\ window > 0
          /\ UNCHANGED <<offset, offset_sent, file_acked, write_state, next_id, zombies,
                         org_count, count, acked, ret, pos, up, in_sync, replies, remote>>
      BY DEF SendChunk, sftpVars
    <2>2. /\ window' = window - (c.left - left)
          /\ pc' = IF left > 0 THEN "ack" ELSE "send"
      BY <1>1
    <2>3. window \in Nat
      BY DEF IndInv, TypeOK
    <2>4. left \in Nat /\ left < c.left /\ c.left - left <= window
      BY <2>1, <2>3, <1>2, SMT DEF AtMost
    <2> HIDE DEF left, c
    <2> QED
      BY <2>1, <2>2, <2>3, <2>4, <1>2, SMT
  <1>4. packet_list' = [packet_list EXCEPT ![i].left = left] /\ packet_list \in Seq(Chunk)
    BY <1>1 DEF IndInv, TypeOK
  <1>5. wire' = IF c.left = c.len THEN Append(wire, p)
                ELSE [wire EXCEPT ![m].whole = (left = 0)]
    BY <1>1
  <1>6. /\ p \in Packet
        /\ p.id = c.id /\ p.off = c.off /\ p.src = c.src /\ p.len = c.len
        /\ p.whole <=> left = 0
    <2>1. (left = 0) \in BOOLEAN
      OBVIOUS
    <2>2. c.len \in Nat \ {0}
      BY <1>2, SMT
    <2> HIDE DEF left, c
    <2>3. p \in Packet
      BY <2>1, <2>2, <1>2, Zenon DEF Packet
    <2> QED
      BY <2>3, Zenon
  <1> HIDE DEF c, left, p
  <1>7. /\ packet_list' \in Seq(Chunk) /\ Len(packet_list') = n
        /\ \A j \in 1 .. n : /\ packet_list'[j].id = packet_list[j].id
                             /\ packet_list'[j].off = packet_list[j].off
                             /\ packet_list'[j].src = packet_list[j].src
                             /\ packet_list'[j].len = packet_list[j].len
                             /\ j # i => packet_list'[j] = packet_list[j]
        /\ packet_list'[i].left = left
    <2>1. packet_list' = [packet_list EXCEPT ![i] = [c EXCEPT !.left = left]]
      BY <1>4 DEF c
    <2>2. [c EXCEPT !.left = left] \in Chunk
      <3>1. c \in Chunk /\ left \in Nat
        BY <1>2, <1>3
      <3> QED
        BY <3>1 DEF Chunk
    <2>3. /\ packet_list' \in Seq(Chunk) /\ Len(packet_list') = n
          /\ \A j \in 1 .. n : packet_list'[j] = IF j = i THEN [c EXCEPT !.left = left]
                                                 ELSE packet_list[j]
      BY <2>1, <2>2, <1>4, ExceptSeq
    <2>4. /\ [c EXCEPT !.left = left].id = c.id /\ [c EXCEPT !.left = left].off = c.off
          /\ [c EXCEPT !.left = left].src = c.src /\ [c EXCEPT !.left = left].len = c.len
          /\ [c EXCEPT !.left = left].left = left
      BY <1>2, SMT DEF Chunk
    <2> QED
      BY <2>3, <2>4, <1>2 DEF c
  <1>8. ListIndices' = ListIndices /\ packet_list # <<>> /\ packet_list' # <<>>
    BY <1>2, <1>4, <1>7, EmptySeq, SMT DEF ListIndices
  <1>9. \A j \in ListIndices : /\ ~Begun(packet_list'[j]) => j # i /\ ~Begun(packet_list[j])
                               /\ j < i => packet_list[j].left = 0 /\ Begun(packet_list[j])
                               /\ i < j => ~Begun(packet_list[j])
    <2> TAKE j \in ListIndices
    <2>1. /\ j \in Nat /\ i \in Nat
          /\ packet_list[j].left \in Nat /\ packet_list[j].len \in Nat
          /\ packet_list[j].len > 0
      BY <1>2, ElementTypes, SMT DEF IndInv
    <2>2. ~Begun(packet_list'[j]) => j # i /\ ~Begun(packet_list[j])
      BY <2>1, <1>2, <1>3, <1>7, SMT DEF Begun, c
    <2>3. j < i => packet_list[j].left = 0 /\ Begun(packet_list[j])
      BY <2>1, <1>2, SMT DEF Begun
    <2>4. i < j => ~Begun(packet_list[j])
      BY <1>2 DEF IndInv, ListInv, c
    <2> QED
      BY <2>2, <2>3, <2>4
  \* The wire gets the request p at its end, or the last one on it is continued.
  <1> DEFINE WireGoal == /\ wire' \in Seq(Packet) /\ WireInv' /\ ReplyInv'
                         /\ \A k \in WireIndices' :
                               wire'[k].id \in ChunkIds(packet_list) \cup zombies
  <1>10. ASSUME c.left = c.len PROVE WireGoal
    <2>1. /\ wire' \in Seq(Packet) /\ Len(wire') = m + 1
          /\ \A k \in 1 .. m : wire'[k] = wire[k]
          /\ wire'[m + 1] = p
      BY <1>5, <1>6, <1>10, AppendProperties DEF IndInv, TypeOK
    <2>2. WireIndices' = WireIndices \cup {m + 1}
      BY <2>1, <1>2, SMT DEF WireIndices
    <2>3. ~Begun(c)
      BY <1>10, <1>2, SMT DEF Begun
    <2>4. \A k \in WireIndices : wire[k].id < c.id /\ wire[k].id \in Nat
      BY <2>3, <1>2, ElementTypes DEF IndInv, WireInv, c
    <2>5. WireInv'
      <3>1. \A k \in WireIndices' : /\ wire'[k].id < next_id'
                                    /\ wire'[k].src = wire'[k].off
                                    /\ wire'[k].off >= offset'
        <4>1. c.id < next_id /\ c.src = c.off /\ c.off >= offset
          BY <1>2, ChunksAboveOffset DEF IndInv, ListInv, PipelineCoversGap, c
        <4> QED
          BY <4>1, <2>1, <2>2, <1>2, <1>3, <1>6, SMTT(30) DEF IndInv, WireInv
      <3>2. \A k, l \in WireIndices' : k < l => wire'[k].id < wire'[l].id
        <4> SUFFICES ASSUME NEW k \in WireIndices', NEW l \in WireIndices', k < l
                     PROVE  wire'[k].id < wire'[l].id
          OBVIOUS
        <4>1. k \in WireIndices
          BY <2>1, <1>2, SMT DEF WireIndices
        <4>2. CASE l \in WireIndices
          BY <4>1, <4>2, <2>1, <1>2 DEF IndInv, WireInv
        <4>3. CASE l = m + 1
          BY <4>1, <4>3, <2>1, <2>4, <1>2, <1>6
        <4> QED
          BY <4>2, <4>3, <2>2
      <3>3. \A k \in WireIndices' : \A j \in ListIndices :
               ~Begun(packet_list'[j]) => wire'[k].id < packet_list'[j].id
        <4> SUFFICES ASSUME NEW k \in WireIndices', NEW j \in ListIndices,
                            ~Begun(packet_list'[j])
                     PROVE  wire'[k].id < packet_list[j].id
          BY <1>2, <1>7
        <4>1. j # i /\ ~Begun(packet_list[j]) /\ ~(j < i)
          BY <1>9
        <4>2. CASE k \in WireIndices
          BY <4>1, <4>2, <2>1, <1>2 DEF IndInv, WireInv
        <4>3. CASE k = m + 1
          <5>1. i < j
            BY <4>1, <1>2, SMT
          <5> QED
            BY <5>1, <4>3, <2>1, <1>2, <1>6 DEF IndInv, ListInv, c
        <4> QED
          BY <4>2, <4>3, <2>2
      <3>4. \A k \in WireIndices' :
               wire'[k].id >= packet_list'[1].id =>
                   \E j \in ListIndices : SameRequest(wire'[k], packet_list'[j])
        <4> SUFFICES ASSUME NEW k \in WireIndices', wire'[k].id >= packet_list'[1].id
                     PROVE  \E j \in ListIndices : SameRequest(wire'[k], packet_list'[j])
          OBVIOUS
        <4>1. CASE k \in WireIndices
          <5>1. wire[k].id >= packet_list[1].id
            <6>1. wire'[k] = wire[k]
              BY <4>1, <2>1, <1>2 DEF WireIndices
            <6>2. packet_list'[1].id = packet_list[1].id
              BY <1>2, <1>7
            <6> QED
              BY <6>1, <6>2
          <5>2. PICK j \in ListIndices : SameRequest(wire[k], packet_list[j])
            BY <5>1, <4>1, <1>8 DEF IndInv, WireInv
          <5>3. j # i
            BY <5>2, <4>1, <2>4, <1>2, SMT DEF SameRequest, c
          <5> QED
            BY <5>2, <5>3, <4>1, <2>1, <1>2, <1>7
        <4>2. CASE k = m + 1
          <5>1. SameRequest(wire'[k], packet_list'[i])
            BY <4>2, <2>1, <1>2, <1>6, <1>7 DEF SameRequest, c
          <5> QED
            BY <5>1, <1>2
        <4> QED
          BY <4>1, <4>2, <2>2
      <3>5. \A k \in WireIndices' : (k < m + 1 /\ ~wire'[k].whole) =>
               \A j \in ListIndices : packet_list'[j].id # wire'[k].id
        <4> SUFFICES ASSUME NEW k \in WireIndices', k < m + 1, ~wire'[k].whole,
                            NEW j \in ListIndices, packet_list[j].id = wire'[k].id
                     PROVE  FALSE
          BY <1>2, <1>7
        <4>1. k \in WireIndices /\ wire'[k] = wire[k]
          BY <2>1, <2>2, <1>2, SMT
        <4>2. packet_list[j].left # 0
          BY <4>1, WireRequest DEF SameRequest
        <4>3. ~(j < i)
          BY <4>2, <1>9
        <4>4. packet_list[j].id < c.id
          BY <4>1, <2>4
        <4>5. ~(i < j)
          BY <4>4, <1>2, ElementTypes, SMT DEF IndInv, ListInv, c
        <4> QED
          BY <4>3, <4>4, <4>5, <1>2, SMT DEF c
      <3>6. \A j \in ListIndices :
               (up /\ Begun(packet_list'[j]) /\ packet_list'[j].left > 0) =>
                   wire' # <<>> /\ wire'[m + 1].id = packet_list'[j].id
        <4> SUFFICES ASSUME NEW j \in ListIndices, Begun(packet_list'[j]),
                            packet_list'[j].left > 0
                     PROVE  wire' # <<>> /\ wire'[m + 1].id = packet_list'[j].id
          OBVIOUS
        <4>1. j = i
          <5> SUFFICES ASSUME j # i PROVE FALSE
            OBVIOUS
          <5>1. packet_list'[j] = packet_list[j]
            BY <1>2, <1>7
          <5> QED
            BY <5>1, <1>2, <1>9, SMT
        <4>2. wire' # <<>>
          BY <2>1, <1>2, EmptySeq, SMT
        <4> QED
          BY <4>1, <4>2, <2>1, <1>2, <1>6, <1>7 DEF c
      <3> QED
        BY <3>1, <3>2, <3>3, <3>4, <3>5, <3>6, <2>1, <1>3, <1>8
           DEF WireInv, Begun, SameRequest
    <2>6. ReplyInv'
      <3>1. \A r \in replies : r.id < c.id
        BY <2>3, <1>2 DEF IndInv, ReplyInv, c
      <3>2. \A r \in replies : \A k \in WireIndices' : r.id < wire'[k].id
        BY <3>1, <2>1, <2>2, <1>2, <1>6 DEF IndInv, ReplyInv
      <3>3. \A r \in replies : \A j \in ListIndices :
               ~Begun(packet_list'[j]) => r.id < packet_list'[j].id
        BY <1>2, <1>7, <1>9 DEF IndInv, ReplyInv
      <3> QED
        BY <3>2, <3>3, <1>3, <1>8 DEF IndInv, ReplyInv, Begun
    <2>7. \A k \in WireIndices' : wire'[k].id \in ChunkIds(packet_list) \cup zombies
      BY <2>1, <2>2, <1>2, <1>6, SMTT(30) DEF IndInv, ZombieInv, ChunkIds, c
    <2> QED
      BY <2>1, <2>5, <2>6, <2>7
  <1>11. ASSUME c.left # c.len PROVE WireGoal
    <2>1. Begun(c)
      BY <1>2, <1>11, SMT DEF Begun
    <2>2. wire # <<>> /\ wire[m].id = c.id
      BY <2>1, <1>2, <1>3 DEF IndInv, WireInv, c
    <2>3. m \in WireIndices /\ wire[m] \in Packet
      BY <2>2, <1>2, ElementTypes, EmptySeq, SMT DEF IndInv, TypeOK
    <2> DEFINE last == [wire[m] EXCEPT !.whole = (left = 0)]
    <2>4. /\ last \in Packet
          /\ last.id = wire[m].id /\ last.off = wire[m].off /\ last.src = wire[m].src
          /\ last.len = wire[m].len
          /\ last.whole <=> left = 0
      <3>1. (left = 0) \in BOOLEAN
        OBVIOUS
      <3> QED
        BY <3>1, <2>3, Zenon DEF Packet
    <2>5. wire' = [wire EXCEPT ![m] = last]
      BY <1>5, <1>11
    <2> HIDE DEF last
    <2>6. /\ wire' \in Seq(Packet) /\ Len(wire') = m
          /\ \A k \in 1 .. m : wire'[k] = IF k = m THEN last ELSE wire[k]
      BY <2>3, <2>4, <2>5, <1>2, ExceptSeq DEF IndInv, TypeOK
    <2>7. /\ WireIndices' = WireIndices
          /\ \A k \in WireIndices : /\ wire'[k].id = wire[k].id
                                    /\ wire'[k].off = wire[k].off
                                    /\ wire'[k].src = wire[k].src
                                    /\ wire'[k].len = wire[k].len
                                    /\ k # m => wire'[k] = wire[k]
          /\ wire'[m].whole <=> left = 0
      BY <2>3, <2>4, <2>6, <1>2 DEF WireIndices
    <2>8. WireInv'
      <3>1. \A k \in WireIndices' : /\ wire'[k].id < next_id'
                                    /\ wire'[k].src = wire'[k].off
                                    /\ wire'[k].off >= offset'
        BY <2>7, <1>3 DEF IndInv, WireInv
      <3>2. \A k, l \in WireIndices' : k < l => wire'[k].id < wire'[l].id
        BY <2>7 DEF IndInv, WireInv
      <3>3. \A k \in WireIndices' : \A j \in ListIndices :
               ~Begun(packet_list'[j]) => wire'[k].id < packet_list'[j].id
        BY <2>7, <1>2, <1>7, <1>9 DEF IndInv, WireInv
      <3>4. \A k \in WireIndices' :
               wire'[k].id >= packet_list'[1].id =>
                   \E j \in ListIndices : SameRequest(wire'[k], packet_list'[j])
        <4> SUFFICES ASSUME NEW k \in WireIndices, wire'[k].id >= packet_list'[1].id
                     PROVE  \E j \in ListIndices : SameRequest(wire'[k], packet_list'[j])
          BY <2>7
        <4>1. wire[k].id >= packet_list[1].id
          BY <2>7, <1>2, <1>7, SMT
        <4>2. PICK j \in ListIndices : SameRequest(wire[k], packet_list[j])
          BY <4>1, <1>8 DEF IndInv, WireInv
        <4>3. CASE k = m
          <5>1. j = i
            BY <4>2, <4>3, <2>2, <1>2, SameId DEF SameRequest, c
          <5> QED
            BY <5>1, <4>2, <4>3, <2>3, <2>7, <1>2, <1>7 DEF SameRequest
        <4>4. CASE k # m
          <5>1. wire[k].id < c.id /\ wire[k].id \in Nat
            BY <4>4, <2>2, <2>3, <1>2, ElementTypes, SMT DEF IndInv, WireInv
          <5>2. j # i
            BY <5>1, <4>2, <1>2, SMT DEF SameRequest, c
          <5> QED
            BY <5>2, <4>2, <4>4, <2>7, <1>2, <1>7
        <4> QED
          BY <4>3, <4>4
      <3>5. \A k \in WireIndices' : (k < m /\ ~wire'[k].whole) =>
               \A j \in ListIndices : packet_list'[j].id # wire'[k].id
        <4> SUFFICES ASSUME NEW k \in WireIndices, k < m, ~wire'[k].whole,
                            NEW j \in ListIndices
                     PROVE  packet_list[j].id # wire[k].id
          BY <2>7, <1>2, <1>7
        <4>1. k # m
          BY <1>2, SMT
        <4> QED
          BY <4>1, <2>7 DEF IndInv, WireInv
      <3>6. \A j \in ListIndices :
               (up /\ Begun(packet_list'[j]) /\ packet_list'[j].left > 0) =>
                   wire' # <<>> /\ wire'[m].id = packet_list'[j].id
        <4> SUFFICES ASSUME NEW j \in ListIndices, Begun(packet_list'[j]),
                            packet_list'[j].left > 0
                     PROVE  wire' # <<>> /\ wire'[m].id = packet_list'[j].id
          OBVIOUS
        <4>1. j = i
          <5> SUFFICES ASSUME j # i PROVE FALSE
            OBVIOUS
          <5>1. packet_list'[j] = packet_list[j]
            BY <1>2, <1>7
          <5> QED
            BY <5>1, <1>2, <1>9, SMT
        <4>2. wire' # <<>>
          BY <2>3, <2>6, <1>2, EmptySeq, SMT
        <4> QED
          BY <4>1, <4>2, <2>2, <2>3, <2>7, <1>2, <1>7 DEF c
      <3> QED
        BY <3>1, <3>2, <3>3, <3>4, <3>5, <3>6, <2>6, <1>3, <1>8
           DEF WireInv, Begun, SameRequest
    <2>9. ReplyInv'
      <3>1. \A r \in replies : \A k \in WireIndices' : r.id < wire'[k].id
        BY <2>7 DEF IndInv, ReplyInv
      <3>2. \A r \in replies : \A j \in ListIndices :
               ~Begun(packet_list'[j]) => r.id < packet_list'[j].id
        BY <1>2, <1>7, <1>9 DEF IndInv, ReplyInv
      <3> QED
        BY <3>1, <3>2, <1>3, <1>8 DEF IndInv, ReplyInv, Begun
    <2>10. \A k \in WireIndices' : wire'[k].id \in ChunkIds(packet_list) \cup zombies
      BY <2>7 DEF IndInv, ZombieInv
    <2> QED
      BY <2>6, <2>8, <2>9, <2>10
  <1>12. WireGoal
    BY <1>10, <1>11
  <1>13. TypeOK'
    BY <1>3, <1>7, <1>12 DEF IndInv, TypeOK, PCs
  <1>14. CountingInv'
    BY <1>3, SMT DEF IndInv, CountingInv, AckAccounting
  <1>15. ListInv'
    <2>1. PipelineCoversGap'
      <3>1. ASSUME NEW j \in 1 .. n
            PROVE  /\ packet_list'[j].off = IF j = 1 THEN offset
                         ELSE packet_list'[j - 1].off + packet_list'[j - 1].len
                   /\ packet_list'[j].src = packet_list'[j].off
        <4>1. j # 1 => j - 1 \in 1 .. n
          BY <1>2, SMT
        <4> QED
          BY <4>1, <1>2, <1>7 DEF IndInv, ListInv, PipelineCoversGap
      <3>2. n = 0 \/ n \in 1 .. n
        BY <1>2, SMT
      <3>3. offset_sent = IF n = 0 THEN offset ELSE packet_list'[n].off + packet_list'[n].len
        BY <3>2, <1>7 DEF IndInv, ListInv, PipelineCoversGap
      <3> QED
        BY <3>1, <3>3, <1>3, <1>7 DEF PipelineCoversGap
    <2>2. \A j \in ListIndices : /\ packet_list'[j].id < next_id
                                 /\ packet_list'[j].left <= packet_list'[j].len
                                 /\ packet_list'[j].off + packet_list'[j].len <= offset_sent
      <3> SUFFICES ASSUME NEW j \in ListIndices PROVE packet_list'[j].left <= packet_list'[j].len
        BY <1>2, <1>7 DEF IndInv, ListInv
      <3>1. CASE j = i
        BY <3>1, <1>2, <1>3, <1>7, SMT DEF c
      <3>2. CASE j # i
        BY <3>2, <1>2, <1>7 DEF IndInv, ListInv
      <3> QED
        BY <3>1, <3>2
    <2>3. \A j, l \in ListIndices : j < l =>
             /\ packet_list'[j].id < packet_list'[l].id
             /\ packet_list'[j].off + packet_list'[j].len <= packet_list'[l].off
             /\ packet_list'[j].left > 0 => ~Begun(packet_list'[l])
      <3> SUFFICES ASSUME NEW j \in ListIndices, NEW l \in ListIndices, j < l,
                          packet_list'[j].left > 0
                   PROVE  ~Begun(packet_list'[l])
        BY <1>2, <1>7 DEF IndInv, ListInv
      <3>1. packet_list[j].left > 0
        <4>1. CASE j = i
          BY <4>1, <1>2, <1>3 DEF c
        <4>2. CASE j # i
          <5>1. packet_list'[j] = packet_list[j]
            BY <4>2, <1>2, <1>7
          <5> QED
            BY <5>1
        <4> QED
          BY <4>1, <4>2
      <3>2. l # i
        BY <3>1, <1>9, SMT
      <3> QED
        BY <3>1, <3>2, <1>2, <1>7 DEF IndInv, ListInv
    <2> QED
      BY <2>1, <2>2, <2>3, <1>3, <1>8 DEF IndInv, ListInv, Begun
  <1>16. StoredInv'
    BY <1>2, <1>3, <1>7, <1>8 DEF IndInv, StoredInv
  <1>17. ZombieInv'
    <2>1. ChunkIds(packet_list') = ChunkIds(packet_list)
      BY <1>2, <1>7 DEF ChunkIds
    <2> QED
      BY <2>1, <1>3, <1>12 DEF IndInv, ZombieInv, NoOrphanReply, RepliedIds
  <1> QED
    BY <1>12, <1>13, <1>14, <1>15, <1>16, <1>17 DEF IndInv

\* An answered chunk at the head of the list: the rest of the list and the
\* requests on the wire start behind it.
LEMMA TakeAckStep ==
    ASSUME IndInv, TakeAck
    PROVE  IndInv'
  <1> USE ConstantsAssumption
  <1> DEFINE c == packet_list[1]
             n == Len(packet_list)
             ack == [id |-> c.id, ok |-> TRUE]
  <1>1. /\ packet_list # <<>> /\ packet_list \in Seq(Chunk)
        /\ Head(packet_list) = c
        /\ n \in Nat \ {0} /\ ListIndices = 1 .. n /\ 1 \in ListIndices
        /\ packet_list' = Tail(packet_list)
        /\ packet_list' \in Seq(Chunk) /\ Len(packet_list') = n - 1
        /\ \A i \in 1 .. n - 1 : packet_list'[i] = packet_list[i + 1]
    BY TailFacts, SMT DEF TakeAck, AwaitsAnswer, IndInv, TypeOK, ListIndices
  <1>2. /\ c.id \in Nat /\ c.off \in Nat /\ c.len \in Nat /\ c.len > 0 /\ c.left = 0
        /\ c.off = offset /\ offset \in Nat
    BY <1>1, ElementTypes, SMT
       DEF TakeAck, AwaitsAnswer, IndInv, TypeOK, ListInv, PipelineCoversGap
  <1>3. /\ ack \in replies /\ replies' = replies \ {ack}
        /\ acked = 0 /\ acked' = acked + c.len
        /\ offset' = offset + c.len
        /\ write_state' = "idle"
        /\ pc = "ack"
        /\ UNCHANGED <<offset_sent, file_acked, next_id, zombies, pc, org_count, count,
                       ret, pos, window, up, wire, in_sync, remote>>
    BY <1>1 DEF TakeAck, Answered, AwaitsAnswer
  <1> HIDE DEF c
  <1>4. /\ ListIndices' = 1 .. n - 1
        /\ \A i \in ListIndices' : i \in Nat /\ i + 1 \in ListIndices /\ i + 1 # 1
                                   /\ packet_list'[i] = packet_list[i + 1]
        /\ \A i \in ListIndices : i # 1 => i - 1 \in ListIndices' /\ packet_list'[i - 1] = packet_list[i]
        /\ WireIndices' = WireIndices
    BY <1>1, <1>3, SMT DEF ListIndices, WireIndices
  <1>5. \A i \in ListIndices : i # 1 => /\ c.id < packet_list[i].id
                                        /\ c.off + c.len <= packet_list[i].off
    BY <1>1, SMT DEF IndInv, ListInv, c
  <1>6. \A k \in WireIndices : /\ wire[k].id \in Nat /\ c.id < wire[k].id
                               /\ \E i \in ListIndices : i # 1 /\ SameRequest(wire[k], packet_list[i])
    <2> TAKE k \in WireIndices
    <2>1. wire[k].id \in Nat
      BY ElementTypes DEF IndInv
    <2>2. c.id < wire[k].id
      BY <1>3 DEF IndInv, ReplyInv
    <2>3. PICK i \in ListIndices : SameRequest(wire[k], packet_list[i])
      BY <2>1, <2>2, <1>1, <1>2, SMT DEF IndInv, WireInv, c
    <2>4. i # 1
      BY <2>1, <2>2, <2>3, <1>2, SMT DEF SameRequest, c
    <2> QED
      BY <2>1, <2>2, <2>3, <2>4
  <1>7. TypeOK'
    <2>1. offset' \in Nat /\ acked' \in Nat
      BY <1>2, <1>3, SMT
    <2> QED
      BY <2>1, <1>1, <1>3 DEF IndInv, TypeOK, PCs
  <1>8. CountingInv'
    <2>1. pos \in Nat /\ file_acked \in Nat /\ pos + file_acked + acked = offset
      BY DEF IndInv, TypeOK, CountingInv, AckAccounting
    <2>2. pos + file_acked + acked' = offset'
      BY <2>1, <1>2, <1>3, SMT
    <2> QED
      BY <2>2, <1>3 DEF IndInv, CountingInv, AckAccounting
  <1>9. ListInv'
    <2>1. \A i \in 1 .. n - 1 :
             /\ packet_list'[i].off = IF i = 1 THEN offset'
                                      ELSE packet_list'[i - 1].off + packet_list'[i - 1].len
             /\ packet_list'[i].src = packet_list'[i].off
      <3> SUFFICES ASSUME NEW i \in 1 .. n - 1
                   PROVE  /\ packet_list'[i].off = IF i = 1 THEN offset'
                                ELSE packet_list'[i - 1].off + packet_list'[i - 1].len
                          /\ packet_list'[i].src = packet_list'[i].off
        OBVIOUS
      <3>1. /\ packet_list'[i] = packet_list[i + 1] /\ i + 1 # 1 /\ (i + 1) - 1 = i
            /\ i + 1 \in 1 .. n
        BY <1>1, SMT
      <3>2. /\ packet_list[i + 1].off = packet_list[i].off + packet_list[i].len
            /\ packet_list[i + 1].src = packet_list[i + 1].off
        BY <3>1 DEF IndInv, ListInv, PipelineCoversGap
      <3>3. CASE i = 1
        BY <3>1, <3>2, <3>3, <1>2, <1>3 DEF c
      <3>4. CASE i # 1
        <4>1. packet_list'[i - 1] = packet_list[i]
          BY <3>4, <1>1, SMT
        <4> QED
          BY <4>1, <3>1, <3>2, <3>4
      <3> QED
        BY <3>3, <3>4
    <2>2. offset_sent = IF n - 1 = 0 THEN offset'
                        ELSE packet_list'[n - 1].off + packet_list'[n - 1].len
      <3>1. offset_sent = packet_list[n].off + packet_list[n].len
        BY <1>1, SMT DEF IndInv, ListInv, PipelineCoversGap
      <3>2. CASE n = 1
        BY <3>1, <3>2, <1>2, <1>3 DEF c
      <3>3. CASE n # 1
        <4>1. packet_list'[n - 1] = packet_list[n]
          BY <3>3, <1>1, SMT
        <4> QED
          BY <4>1, <3>1, <3>3, <1>1, SMT
      <3> QED
        BY <3>2, <3>3
    <2>3. PipelineCoversGap'
      BY <2>1, <2>2, <1>1, <1>3 DEF PipelineCoversGap
    <2>4. offset' <= offset_sent' /\ offset_sent' <= SrcLen
      BY <1>1, <1>2, <1>3 DEF IndInv, ListInv, c
    <2>5. \A i \in ListIndices' : /\ packet_list'[i].id < next_id'
                                  /\ packet_list'[i].left <= packet_list'[i].len
                                  /\ packet_list'[i].off + packet_list'[i].len <= offset_sent'
      BY <1>3, <1>4 DEF IndInv, ListInv
    <2>6. \A i, j \in ListIndices' : i < j =>
             /\ packet_list'[i].id < packet_list'[j].id
             /\ packet_list'[i].off + packet_list'[i].len <= packet_list'[j].off
             /\ packet_list'[i].left > 0 => ~Begun(packet_list'[j])
      <3> SUFFICES ASSUME NEW i \in ListIndices', NEW j \in ListIndices', i < j
                   PROVE  /\ packet_list'[i].id < packet_list'[j].id
                          /\ packet_list'[i].off + packet_list'[i].len <= packet_list'[j].off
                          /\ packet_list'[i].left > 0 => ~Begun(packet_list'[j])
        OBVIOUS
      <3>1. i + 1 < j + 1
        BY <1>4, SMT
      <3> QED
        BY <3>1, <1>4 DEF IndInv, ListInv
    <2> QED
      BY <2>3, <2>4, <2>5, <2>6 DEF ListInv, Begun
  <1>10. WireInv'
    <2>1. \A k \in WireIndices : /\ wire[k].id < next_id
                                 /\ wire[k].src = wire[k].off
                                 /\ wire[k].off >= offset'
      <3> TAKE k \in WireIndices
      <3>1. PICK i \in ListIndices : i # 1 /\ SameRequest(wire[k], packet_list[i])
        BY <1>6
      <3>2. wire[k].off >= offset'
        BY <3>1, <1>2, <1>3, <1>5, ElementTypes, SMT DEF SameRequest, IndInv
      <3> QED
        BY <3>2 DEF IndInv, WireInv
    <2>2. \A k \in WireIndices : \A i \in ListIndices' :
             ~Begun(packet_list'[i]) => wire[k].id < packet_list'[i].id
      BY <1>4 DEF IndInv, WireInv
    <2>3. \A k \in WireIndices : \E i \in ListIndices' : SameRequest(wire[k], packet_list'[i])
      BY <1>4, <1>6
    <2>4. \A k \in WireIndices : (k < Len(wire) /\ ~wire[k].whole) =>
             \A i \in ListIndices' : packet_list'[i].id # wire[k].id
      BY <1>4 DEF IndInv, WireInv
    <2>5. \A i \in ListIndices' :
             (up /\ Begun(packet_list'[i]) /\ packet_list'[i].left > 0) =>
                 wire # <<>> /\ wire[Len(wire)].id = packet_list'[i].id
      BY <1>4 DEF IndInv, WireInv
    <2>6. \A k, l \in WireIndices : k < l => wire[k].id < wire[l].id
      BY DEF IndInv, WireInv
    <2> QED
      BY <2>1, <2>2, <2>3, <2>4, <2>5, <2>6, <1>3, <1>4 DEF WireInv, Begun, SameRequest
  <1>11. ReplyInv'
    BY <1>3, <1>4 DEF IndInv, ReplyInv, Begun
  <1>12. StoredInv'
    <2>1. ASSUME NEW x \in 0 .. offset' - 1
          PROVE  remote[x] = x
      <3>1. CASE x < offset
        BY <2>1, <3>1, <1>2, <1>3, SMT DEF IndInv, StoredInv
      <3>2. CASE ~(x < offset)
        <4>1. x \in c.off .. c.off + c.len - 1
          BY <2>1, <3>2, <1>2, <1>3, SMT
        <4> QED
          BY <4>1, <1>1, <1>3 DEF IndInv, StoredInv, c
      <3> QED
        BY <3>1, <3>2
    <2>2. ASSUME NEW i \in ListIndices', [id |-> packet_list'[i].id, ok |-> TRUE] \in replies
          PROVE  \A x \in packet_list'[i].off .. packet_list'[i].off + packet_list'[i].len - 1 :
                     remote[x] = x
      BY <2>2, <1>4 DEF IndInv, StoredInv
    <2> QED
      BY <2>1, <2>2, <1>3 DEF StoredInv
  <1>13. ZombieInv'
    <2>1. ASSUME NEW r \in replies'
          PROVE  r.id \in ChunkIds(packet_list')
      <3>1. r \in replies /\ r # ack
        BY <1>3
      <3>2. PICK i \in ListIndices : r.id = packet_list[i].id
        BY <3>1 DEF IndInv, ZombieInv, NoOrphanReply, RepliedIds, ChunkIds, ListIndices
      <3>3. i # 1
        BY <3>1, <3>2, <1>3 DEF IndInv, ReplyInv, c
      <3>4. i - 1 \in ListIndices' /\ packet_list'[i - 1] = packet_list[i]
        BY <3>2, <3>3, <1>4 DEF ListIndices
      <3> QED
        BY <3>2, <3>4 DEF ChunkIds, ListIndices
    <2>2. ASSUME NEW k \in WireIndices
          PROVE  wire[k].id \in ChunkIds(packet_list')
      <3>1. PICK i \in ListIndices : i # 1 /\ SameRequest(wire[k], packet_list[i])
        BY <1>6
      <3> QED
        BY <3>1, <1>4 DEF ChunkIds, ListIndices, SameRequest
    <2> QED
      BY <2>1, <2>2, <1>3, <1>4 DEF ZombieInv, NoOrphanReply, RepliedIds
  <1> QED
    BY <1>7, <1>8, <1>9, <1>10, <1>11, <1>12, <1>13 DEF IndInv

\* A refused chunk: the list is given up and the offsets return to where the
\* caller stands.
LEMMA TakeRejectionStep ==
    ASSUME IndInv, TakeRejection
    PROVE  IndInv'
  <1> USE ConstantsAssumption
  <1> DEFINE there == replies \ {[id |-> Head(packet_list).id, ok |-> FALSE]}
  <1>1. /\ packet_list' = <<>> /\ Len(packet_list') = 0 /\ ListIndices' = {}
        /\ zombies' = zombies \cup (SentIds(packet_list) \ {r.id : r \in there})
        /\ replies' = {r \in there : r.id \notin ChunkIds(packet_list)}
        /\ offset' = offset - file_acked /\ offset_sent' = offset - file_acked
        /\ file_acked' = 0
        /\ acked = 0 /\ acked' = 0
        /\ UNCHANGED <<next_id, org_count, count, pos, window, up, wire, in_sync, remote>>
        /\ write_state' = "idle" /\ pc' = "app" /\ ret' = -1
    BY SMT DEF TakeRejection, Flush, Rewound, Return, AwaitsAnswer, ListIndices
  <1>2. /\ offset' = pos /\ pos \in Nat /\ offset' <= offset
        /\ offset \in Nat /\ WireIndices' = WireIndices
    BY <1>1, SMT DEF IndInv, TypeOK, CountingInv, AckAccounting, WireIndices
  <1>3. replies' = {} /\ replies' \subseteq replies
    BY <1>1 DEF IndInv, ZombieInv, NoOrphanReply, RepliedIds
  <1>4. \A k \in WireIndices : wire[k].id \in zombies'
    <2> TAKE k \in WireIndices
    <2>1. CASE wire[k].id \in zombies
      BY <2>1, <1>1
    <2>2. CASE wire[k].id \in ChunkIds(packet_list)
      <3>1. PICK i \in ListIndices : packet_list[i].id = wire[k].id
        BY <2>2 DEF ChunkIds, ListIndices
      <3>2. Begun(packet_list[i])
        BY <3>1, ElementTypes, SMT DEF IndInv, WireInv
      <3>3. wire[k].id \in SentIds(packet_list)
        BY <3>1, <3>2 DEF SentIds, Begun, ListIndices
      <3>4. wire[k].id \notin {r.id : r \in there}
        BY ElementTypes, SMT DEF IndInv, ReplyInv
      <3> QED
        BY <3>3, <3>4, <1>1
    <2> QED
      BY <2>1, <2>2 DEF IndInv, ZombieInv
  <1>5. TypeOK'
    <2>1. zombies' \subseteq Nat
      <3>1. SentIds(packet_list) \subseteq Nat
        BY ElementTypes DEF SentIds, IndInv, ListIndices
      <3> QED
        BY <3>1, <1>1 DEF IndInv, TypeOK
    <2>2. packet_list' \in Seq(Chunk)
      BY <1>1, EmptySeq
    <2> QED
      BY <2>1, <2>2, <1>1, <1>2, <1>3, SMT DEF IndInv, TypeOK, PCs
  <1>6. CountingInv'
    BY <1>1, <1>2, SMT DEF IndInv, TypeOK, CountingInv, AckAccounting
  <1>7. ListInv'
    <2>1. offset' <= SrcLen
      BY <1>1, <1>2, SMT DEF IndInv, TypeOK, ListInv
    <2> QED
      BY <2>1, <1>1, <1>2, SMT DEF ListInv, PipelineCoversGap
  <1>8. WireInv'
    <2>1. \A k \in WireIndices : wire[k].off >= offset'
      BY <1>2, ElementTypes, SMT DEF IndInv, WireInv
    <2> QED
      BY <2>1, <1>1, <1>2 DEF IndInv, WireInv
  <1>9. ReplyInv'
    BY <1>3 DEF ReplyInv
  <1>10. StoredInv'
    <2>1. \A x \in 0 .. offset' - 1 : x \in 0 .. offset - 1
      BY <1>2, SMT
    <2> QED
      BY <2>1, <1>1 DEF IndInv, StoredInv
  <1>11. ZombieInv'
    BY <1>1, <1>2, <1>3, <1>4 DEF ZombieInv, NoOrphanReply, RepliedIds
  <1> QED
    BY <1>5, <1>6, <1>7, <1>8, <1>9, <1>10, <1>11 DEF IndInv

\* Reporting what was answered moves the caller, not the pipeline.
LEMMA ReportStep ==
    ASSUME IndInv, Report
    PROVE  IndInv'
  <1> USE ConstantsAssumption
  <1> DEFINE r == AtMost(Total, org_count)
  <1>1. /\ pc = "ack" /\ pc' = "app" /\ write_state' = "idle" /\ acked' = 0
        /\ file_acked' = Total - r /\ pos' = pos + r /\ ret' = r
        /\ UNCHANGED <<offset, offset_sent, packet_list, next_id, zombies, org_count, count>>
        /\ UNCHANGED <<window, up, wire, in_sync, replies, remote>>
    BY DEF Report, Return, netVars
  <1>2. /\ Total \in Nat /\ r \in Nat /\ r <= Total
        /\ pos + Total = offset /\ pos \in Nat /\ offset \in Nat
    BY SMT DEF Total, AtMost, IndInv, TypeOK, CountingInv, AckAccounting
  <1> HIDE DEF r
  <1>3. TypeOK'
    BY <1>1, <1>2, SMT DEF IndInv, TypeOK, PCs
  <1>4. CountingInv'
    BY <1>1, <1>2, SMT DEF CountingInv, AckAccounting
  <1>5. ListInv'
    BY <1>1 DEF IndInv, ListInv, PipelineCoversGap, ListIndices, Begun
  <1>6. WireInv'
    BY <1>1 DEF IndInv, WireInv, ListIndices, WireIndices, Begun, SameRequest
  <1>7. ReplyInv'
    BY <1>1 DEF IndInv, ReplyInv, ListIndices, WireIndices, Begun
  <1>8. StoredInv'
    BY <1>1 DEF IndInv, StoredInv, ListIndices
  <1>9. ZombieInv'
    BY <1>1 DEF IndInv, ZombieInv, NoOrphanReply, RepliedIds, ChunkIds, WireIndices
  <1> QED
    BY <1>3, <1>4, <1>5, <1>6, <1>7, <1>8, <1>9 DEF IndInv

\* The server is done with the request w at the head of the wire.  Whatever it
\* did to its file, it did within the range of w; if it answered with success to
\* a chunk of the list, the chunk is stored.
LEMMA ServerStep ==
    ASSUME IndInv, wire # <<>>, wire' = Tail(wire),
           NEW ok \in BOOLEAN, Answer(wire[1].id, ok),
           UNCHANGED <<handleVars, write_state, next_id, callVars, window, up>>,
           in_sync' \in BOOLEAN, remote' \in [Offsets -> Int],
           \A x \in Offsets : x \notin wire[1].off .. wire[1].off + wire[1].len - 1
                                  => remote'[x] = remote[x],
           ok /\ wire[1].id \in ChunkIds(packet_list) =>
               \A x \in Offsets : x \in wire[1].off .. wire[1].off + wire[1].len - 1
                                      => remote'[x] = x,
           wire[1].whole \/ Len(wire) > 1
    PROVE  IndInv'
  <1> USE ConstantsAssumption
  <1> DEFINE w == wire[1]
             m == Len(wire)
             reply == [id |-> w.id, ok |-> ok]
  <1>1. /\ m \in Nat \ {0} /\ WireIndices = 1 .. m /\ 1 \in WireIndices
        /\ wire' \in Seq(Packet) /\ Len(wire') = m - 1
        /\ \A k \in 1 .. m - 1 : wire'[k] = wire[k + 1]
    BY TailFacts, SMT DEF IndInv, TypeOK, WireIndices
  <1>2. /\ w.id \in Nat /\ w.off \in Nat /\ w.len \in Nat /\ w.len > 0
        /\ w.id < next_id /\ w.off >= offset
        /\ offset \in Nat /\ offset <= SrcLen /\ SrcLen \in Nat
    BY <1>1, ElementTypes, SMT DEF IndInv, TypeOK, WireInv, ListInv
  <1>3. /\ UNCHANGED <<offset, offset_sent, file_acked, packet_list>>
        /\ UNCHANGED <<write_state, next_id, pc, org_count, count, acked, ret, pos, window, up>>
        /\ ListIndices' = ListIndices
    BY DEF handleVars, callVars, ListIndices
  <1>4. /\ WireIndices' = 1 .. m - 1
        /\ \A k \in WireIndices' : k \in Nat /\ k + 1 \in WireIndices /\ wire'[k] = wire[k + 1]
        /\ \A k \in WireIndices' : w.id < wire'[k].id
    <2>1. WireIndices' = 1 .. m - 1
      BY <1>1 DEF WireIndices
    <2>2. \A k \in WireIndices' : /\ k \in Nat /\ k + 1 \in WireIndices /\ 1 < k + 1
                                  /\ wire'[k] = wire[k + 1]
      BY <2>1, <1>1, SMT
    <2>3. \A k \in WireIndices' : w.id < wire'[k].id
      BY <2>2, <1>1 DEF IndInv, WireInv
    <2> QED
      BY <2>1, <2>2, <2>3
  <1>5. \/ w.id \in zombies /\ zombies' = zombies \ {w.id} /\ replies' = replies
        \/ w.id \notin zombies /\ zombies' = zombies /\ replies' = replies \cup {reply}
    BY DEF Answer
  <1>6. /\ reply \in Reply /\ reply.id = w.id /\ reply.ok = ok
        /\ \A r \in replies : r.id \in Nat /\ r.id < w.id
    BY <1>1, <1>2, ElementTypes DEF Reply, IndInv, ReplyInv
  <1> HIDE DEF reply, w
  <1>7. TypeOK'
    BY <1>1, <1>3, <1>5, <1>6 DEF IndInv, TypeOK
  <1>8. CountingInv'
    BY <1>3 DEF IndInv, CountingInv, AckAccounting
  <1>9. ListInv'
    BY <1>3 DEF IndInv, ListInv, PipelineCoversGap, Begun
  <1>10. WireInv'
    <2>1. \A k \in WireIndices' : /\ wire'[k].id < next_id'
                                  /\ wire'[k].src = wire'[k].off
                                  /\ wire'[k].off >= offset'
      BY <1>3, <1>4 DEF IndInv, WireInv
    <2>2. \A k, l \in WireIndices' : k < l => wire'[k].id < wire'[l].id
      <3> SUFFICES ASSUME NEW k \in WireIndices', NEW l \in WireIndices', k < l
                   PROVE  wire'[k].id < wire'[l].id
        OBVIOUS
      <3>1. k + 1 < l + 1
        BY <1>4, SMT
      <3> QED
        BY <3>1, <1>4 DEF IndInv, WireInv
    <2>3. \A k \in WireIndices' : \A i \in ListIndices :
             ~Begun(packet_list[i]) => wire'[k].id < packet_list[i].id
      BY <1>4 DEF IndInv, WireInv
    <2>4. \A k \in WireIndices' :
             (packet_list # <<>> /\ wire'[k].id >= packet_list[1].id) =>
                 \E i \in ListIndices : SameRequest(wire'[k], packet_list[i])
      BY <1>4 DEF IndInv, WireInv
    <2>5. \A k \in WireIndices' : (k < Len(wire') /\ ~wire'[k].whole) =>
             \A i \in ListIndices : packet_list[i].id # wire'[k].id
      <3> SUFFICES ASSUME NEW k \in WireIndices', k < m - 1, ~wire'[k].whole
                   PROVE  \A i \in ListIndices : packet_list[i].id # wire'[k].id
        BY <1>1
      <3>1. k + 1 < m
        BY <1>1, <1>4, SMT
      <3> QED
        BY <3>1, <1>4 DEF IndInv, WireInv
    <2>6. \A i \in ListIndices :
             (up /\ Begun(packet_list[i]) /\ packet_list[i].left > 0) =>
                 wire' # <<>> /\ wire'[Len(wire')].id = packet_list[i].id
      <3> SUFFICES ASSUME NEW i \in ListIndices, up, Begun(packet_list[i]),
                          packet_list[i].left > 0
                   PROVE  wire' # <<>> /\ wire'[m - 1].id = packet_list[i].id
        BY <1>1
      <3>1. wire[m].id = packet_list[i].id
        BY DEF IndInv, WireInv
      <3>2. m # 1
        <4> SUFFICES ASSUME m = 1 PROVE FALSE
          OBVIOUS
        <4>1. w.whole
          BY DEF w
        <4>2. SameRequest(w, packet_list[i])
          BY <3>1, <1>1, WireRequest DEF w
        <4> QED
          BY <4>1, <4>2, ElementTypes, SMT DEF SameRequest, IndInv
      <3>3. wire'[m - 1] = wire[m] /\ m - 1 # 0
        BY <3>2, <1>1, SMT
      <3>4. wire' # <<>>
        BY <3>3, <1>1, EmptySeq, SMT
      <3> QED
        BY <3>1, <3>3, <3>4
    <2> QED
      <3>1. UNCHANGED <<packet_list, up>> /\ ListIndices' = ListIndices
        BY <1>3
      <3>2. \A k \in WireIndices' : \A i \in ListIndices' :
               ~Begun(packet_list'[i]) => wire'[k].id < packet_list'[i].id
        BY <3>1, <2>3
      <3>3. \A k \in WireIndices' :
               (packet_list' # <<>> /\ wire'[k].id >= packet_list'[1].id) =>
                   \E i \in ListIndices' : SameRequest(wire'[k], packet_list'[i])
        BY <3>1, <2>4
      <3>4. \A k \in WireIndices' : (k < Len(wire') /\ ~wire'[k].whole) =>
               \A i \in ListIndices' : packet_list'[i].id # wire'[k].id
        BY <3>1, <2>5
      <3>5. \A i \in ListIndices' :
               (up' /\ Begun(packet_list'[i]) /\ packet_list'[i].left > 0) =>
                   wire' # <<>> /\ wire'[Len(wire')].id = packet_list'[i].id
        BY <3>1, <2>6
      <3> QED
        BY <2>1, <2>2, <3>2, <3>3, <3>4, <3>5 DEF WireInv, Begun, SameRequest
  <1>11. ReplyInv'
    <2>1. \A r \in replies' : r \in replies \/ r = reply
      BY <1>5
    <2>2. \A r \in replies' : r.id < next_id'
      BY <2>1, <1>2, <1>3, <1>6 DEF IndInv, ReplyInv
    <2>3. \A r, s \in replies' : r.id = s.id => r = s
      <3>1. \A r \in replies : r.id # w.id
        BY <1>2, <1>6, SMT
      <3> QED
        BY <2>1, <3>1, <1>6 DEF IndInv, ReplyInv
    <2>4. \A r \in replies' : \A k \in WireIndices' : r.id < wire'[k].id
      BY <2>1, <1>4, <1>6 DEF IndInv, ReplyInv
    <2>5. \A r \in replies' : \A i \in ListIndices :
             ~Begun(packet_list[i]) => r.id < packet_list[i].id
      <3>1. \A i \in ListIndices : ~Begun(packet_list[i]) => w.id < packet_list[i].id
        BY <1>1 DEF IndInv, WireInv, w
      <3> QED
        BY <2>1, <3>1, <1>6 DEF IndInv, ReplyInv
    <2> QED
      BY <2>2, <2>3, <2>4, <2>5, <1>3 DEF ReplyInv, Begun
  <1>12. StoredInv'
    <2>1. ASSUME NEW x \in 0 .. offset - 1
          PROVE  remote'[x] = x
      <3>1. x \in Offsets /\ x \notin w.off .. w.off + w.len - 1
        BY <1>2, SMT DEF Offsets
      <3>2. remote[x] = x
        BY DEF IndInv, StoredInv
      <3> QED
        BY <3>1, <3>2 DEF w
    <2>2. ASSUME NEW i \in ListIndices, [id |-> packet_list[i].id, ok |-> TRUE] \in replies',
                 NEW x \in packet_list[i].off .. packet_list[i].off + packet_list[i].len - 1
          PROVE  remote'[x] = x
      <3>1. /\ x \in Offsets
            /\ packet_list[i].id \in Nat /\ packet_list[i].off \in Nat /\ packet_list[i].len \in Nat
        <4>1. /\ packet_list[i].id \in Nat /\ packet_list[i].off \in Nat
              /\ packet_list[i].len \in Nat /\ offset_sent \in Nat
          BY ElementTypes DEF IndInv, TypeOK
        <4>2. packet_list[i].off + packet_list[i].len <= offset_sent /\ offset_sent <= SrcLen
          BY DEF IndInv, ListInv
        <4>3. x \in Offsets
          BY <4>1, <4>2, <1>2, SMT DEF Offsets
        <4> QED
          BY <4>1, <4>3
      <3>2. CASE packet_list[i].id = w.id
        <4>1. ok
          BY <3>2, <2>2, <1>2, <1>5, <1>6, SMT DEF reply
        <4>2. SameRequest(w, packet_list[i])
          BY <3>2, <1>1, WireRequest DEF w
        <4>3. w.id \in ChunkIds(packet_list)
          BY <3>2 DEF ChunkIds, ListIndices
        <4> QED
          BY <4>1, <4>2, <4>3, <3>1 DEF SameRequest, w
      <3>3. CASE packet_list[i].id # w.id
        <4>1. [id |-> packet_list[i].id, ok |-> TRUE] \in replies
          BY <3>3, <2>2, <1>5, <1>6
        <4>2. remote[x] = x
          BY <4>1 DEF IndInv, StoredInv
        <4>3. packet_list[i].id < w.id
          BY <4>1, <1>6
        <4>4. packet_list # <<>> /\ 1 \in ListIndices /\ i \in Nat
          BY ElementTypes, EmptySeq, SMT DEF IndInv, TypeOK, ListIndices
        <4>5. packet_list[1].id <= packet_list[i].id
          <5>1. CASE i = 1
            BY <5>1, <3>1, SMT
          <5>2. CASE i # 1
            <6>1. 1 < i
              BY <5>2, ElementTypes, SMT DEF IndInv, ListIndices
            <6> QED
              BY <6>1, <4>4, ElementTypes, SMT DEF IndInv, ListInv
          <5> QED
            BY <5>1, <5>2
        <4>6. w.id >= packet_list[1].id
          <5>1. packet_list[1].id \in Nat
            BY <4>4, ElementTypes DEF IndInv
          <5> QED
            BY <5>1, <4>3, <4>5, <3>1, <1>2, SMT
        <4>7. PICK j \in ListIndices : SameRequest(w, packet_list[j])
          BY <4>4, <4>6, <1>1 DEF IndInv, WireInv, w
        <4>8. i < j
          <5>1. packet_list[i].id < packet_list[j].id
            BY <4>3, <4>7 DEF SameRequest
          <5>2. j \in Nat /\ i # j
            BY <5>1, <3>1, ElementTypes, SMT DEF IndInv, ListIndices
          <5>3. ~(j < i)
            BY <5>1, ElementTypes, SMT DEF IndInv, ListInv
          <5> QED
            BY <5>2, <5>3, <4>4, SMT
        <4>9. packet_list[i].off + packet_list[i].len <= w.off
          BY <4>7, <4>8 DEF IndInv, ListInv, SameRequest
        <4>10. x \notin w.off .. w.off + w.len - 1
          <5>1. x \in Int /\ x < packet_list[i].off + packet_list[i].len
            BY <3>1, SMT
          <5> QED
            BY <5>1, <4>9, <3>1, <1>2, SMTT(30)
        <4> QED
          BY <4>2, <4>10, <3>1 DEF w
      <3> QED
        BY <3>2, <3>3
    <2> QED
      BY <2>1, <2>2, <1>3 DEF StoredInv
  <1>13. ZombieInv'
    <2>1. \A r \in replies' : r.id \in ChunkIds(packet_list)
      BY <1>1, <1>5, <1>6 DEF IndInv, ZombieInv, NoOrphanReply, RepliedIds, w
    <2>2. \A k \in WireIndices' : wire'[k].id \in ChunkIds(packet_list) \cup zombies'
      <3> TAKE k \in WireIndices'
      <3>1. wire'[k].id # w.id
        BY <1>2, <1>4, SMT
      <3> QED
        BY <3>1, <1>4, <1>5 DEF IndInv, ZombieInv
    <2> QED
      BY <2>1, <2>2, <1>3 DEF ZombieInv, NoOrphanReply, RepliedIds
  <1> QED
    BY <1>7, <1>8, <1>9, <1>10, <1>11, <1>12, <1>13 DEF IndInv

\* The three things the server may do with a request, and the window.
LEMMA NetworkStep ==
    ASSUME IndInv,
           ServerWrites \/ ServerRefuses \/ ServerLosesFraming \/ WindowOpens
           \/ ConnectionDrops
    PROVE  IndInv'
  <1> USE ConstantsAssumption
  <1> DEFINE w == wire[1]
  <1>1. wire # <<>> => /\ Head(wire) = w /\ 1 \in WireIndices
                       /\ w.id \in Nat /\ w.off \in Nat /\ w.src = w.off
                       /\ w.len \in Nat /\ w.len > 0
                       /\ Len(wire) \in Nat
    BY TailFacts, ElementTypes, SMT DEF IndInv, TypeOK, WireInv, WireIndices
  <1>2. remote \in [Offsets -> Int] /\ Offsets \subseteq Int
    BY SMT DEF IndInv, TypeOK, Offsets
  <1>3. \A l \in Nat : wire # <<>> =>
           /\ Stored(w, l) \in [Offsets -> Int]
           /\ \A x \in Offsets : Stored(w, l)[x] = IF x \in w.off .. w.off + l - 1
                                                   THEN x ELSE remote[x]
    BY <1>1, <1>2, SMT DEF Stored
  <1>4. CASE ServerWrites
    <2>1. /\ wire # <<>> /\ wire' = Tail(wire) /\ Answer(w.id, TRUE) /\ w.whole
          /\ remote' = Stored(w, w.len)
          /\ UNCHANGED <<handleVars, write_state, next_id, callVars, window, up>>
          /\ in_sync' \in BOOLEAN
      BY <1>1, <1>4 DEF ServerWrites, IndInv, TypeOK
    <2>2. /\ remote' \in [Offsets -> Int]
          /\ \A x \in Offsets : x \notin w.off .. w.off + w.len - 1 => remote'[x] = remote[x]
          /\ \A x \in Offsets : x \in w.off .. w.off + w.len - 1 => remote'[x] = x
      BY <2>1, <1>1, <1>3
    <2> QED
      BY <2>1, <2>2, ServerStep
  <1>5. CASE ServerRefuses
    <2>1. /\ wire # <<>> /\ wire' = Tail(wire) /\ Answer(w.id, FALSE) /\ w.whole
          /\ UNCHANGED <<handleVars, write_state, next_id, callVars, window, up>>
          /\ in_sync' \in BOOLEAN
      BY <1>1, <1>5 DEF ServerRefuses, IndInv, TypeOK
    <2>2. PICK l \in 0 .. w.len - 1 : remote' = Stored(w, l)
      BY <1>1, <1>5 DEF ServerRefuses
    <2>3. l \in Nat /\ w.off .. w.off + l - 1 \subseteq w.off .. w.off + w.len - 1
      BY <2>1, <1>1, SMT
    <2>4. /\ remote' \in [Offsets -> Int]
          /\ \A x \in Offsets : x \notin w.off .. w.off + w.len - 1 => remote'[x] = remote[x]
      BY <2>1, <2>2, <2>3, <1>3
    <2> QED
      BY <2>1, <2>4, ServerStep
  <1>6. CASE ServerLosesFraming
    <2>1. /\ wire # <<>> /\ wire' = Tail(wire) /\ Len(wire) > 1 /\ ~w.whole
          /\ Answer(w.id, TRUE)
          /\ UNCHANGED <<handleVars, write_state, next_id, callVars, window, up>>
          /\ in_sync' \in BOOLEAN
      <3>1. wire # <<>>
        BY <1>6, EmptySeq, SMT DEF ServerLosesFraming
      <3> QED
        BY <3>1, <1>1, <1>6 DEF ServerLosesFraming
    <2>2. PICK l \in 0 .. w.len - 1 :
             remote' = [x \in Offsets |-> IF x \in w.off + l .. w.off + w.len - 1
                                          THEN Garbage ELSE Stored(w, l)[x]]
      BY <2>1, <1>1, <1>6 DEF ServerLosesFraming
    <2>3. /\ l \in Nat /\ w.off .. w.off + l - 1 \subseteq w.off .. w.off + w.len - 1
          /\ w.off + l .. w.off + w.len - 1 \subseteq w.off .. w.off + w.len - 1
          /\ Garbage \in Int
      BY <2>1, <1>1, SMT DEF Garbage
    <2>4. /\ Stored(w, l) \in [Offsets -> Int]
          /\ \A x \in Offsets : x \notin w.off .. w.off + w.len - 1 => Stored(w, l)[x] = remote[x]
      BY <2>1, <2>3, <1>3
    <2>5. /\ remote' \in [Offsets -> Int]
          /\ \A x \in Offsets : x \notin w.off .. w.off + w.len - 1 => remote'[x] = remote[x]
      BY <2>2, <2>3, <2>4
    <2>6. w.id \notin ChunkIds(packet_list)
      <3>1. \A i \in ListIndices : packet_list[i].id # w.id
        BY <2>1, <1>1 DEF IndInv, WireInv
      <3> QED
        BY <3>1 DEF ChunkIds, ListIndices
    <2> QED
      BY <2>1, <2>5, <2>6, ServerStep
  <1>7. CASE WindowOpens
    <2>1. /\ UNCHANGED <<offset, offset_sent, file_acked, packet_list, next_id, zombies,
                        up, wire, in_sync, replies, remote>>
          /\ UNCHANGED <<write_state, pc, org_count, count, acked, ret, pos>>
          /\ window' \in Nat
      BY <1>7, SMT DEF WindowOpens, handleVars, sftpVars, callVars
    <2> USE DEF IndInv, ListIndices, WireIndices, Begun
    <2>2. TypeOK' /\ CountingInv' /\ ListInv'
      BY <2>1 DEF TypeOK, CountingInv, AckAccounting, ListInv, PipelineCoversGap
    <2>3. WireInv'
      BY <2>1 DEF WireInv, SameRequest
    <2>4. ReplyInv' /\ StoredInv'
      BY <2>1 DEF ReplyInv, StoredInv
    <2>5. ZombieInv'
      BY <2>1 DEF ZombieInv, NoOrphanReply, RepliedIds, ChunkIds
    <2> QED
      BY <2>2, <2>3, <2>4, <2>5
  <1>8. CASE ConnectionDrops
    <2>1. /\ up' = FALSE /\ wire' = <<>> /\ replies' \subseteq replies
          /\ UNCHANGED <<offset, offset_sent, file_acked, packet_list, write_state, next_id, zombies>>
          /\ UNCHANGED <<pc, org_count, count, acked, ret, pos, window, in_sync, remote>>
      BY <1>8 DEF ConnectionDrops, handleVars, sftpVars, callVars
    <2>2. wire' \in Seq(Packet) /\ Len(wire') = 0 /\ WireIndices' = {}
      BY <2>1, EmptySeq, SMT DEF WireIndices
    <2> USE DEF IndInv, ListIndices, Begun
    <2>3. TypeOK' /\ CountingInv' /\ ListInv'
      BY <2>1, <2>2 DEF TypeOK, CountingInv, AckAccounting, ListInv, PipelineCoversGap
    <2>4. WireInv'
      BY <2>1, <2>2 DEF WireInv
    <2>5. ReplyInv' /\ StoredInv'
      BY <2>1, <2>2 DEF ReplyInv, StoredInv
    <2>6. ZombieInv'
      <3>1. ChunkIds(packet_list') = ChunkIds(packet_list)
        BY <2>1
      <3>2. RepliedIds' \subseteq RepliedIds
        BY <2>1 DEF RepliedIds
      <3> QED
        BY <2>2, <3>1, <3>2 DEF ZombieInv, NoOrphanReply
    <2> QED
      BY <2>3, <2>4, <2>5, <2>6
  <1> QED
    BY <1>4, <1>5, <1>6, <1>7, <1>8

\* Every step of the pipeline keeps the invariant.
LEMMA NextKeepsInv == IndInv /\ [Next]_vars => IndInv'
  <1> SUFFICES ASSUME IndInv, [Next]_vars PROVE IndInv'
    OBVIOUS
  <1>1. CASE CallerWrites
    BY <1>1, ControlSteps
  <1>2. CASE Library
    BY <1>2, ControlSteps, MakeChunkStep, SendChunkStep, TakeAckStep, TakeRejectionStep,
       ReportStep DEF Library
  <1>3. CASE Network
    BY <1>3, NetworkStep DEF Network
  <1>4. CASE UNCHANGED vars
    <2>1. UNCHANGED <<handleVars, next_id, zombies, netVars>> /\ UNCHANGED <<write_state, callVars>>
      BY <1>4 DEF vars, sftpVars
    <2>2. TypeOK' /\ CountingInv'
      BY <2>1 DEF IndInv, TypeOK, CountingInv, AckAccounting, handleVars, netVars, callVars
    <2> QED
      BY <2>1, <2>2, QuietStep
  <1> QED
    BY <1>1, <1>2, <1>3, <1>4 DEF Next

\* The inductive invariant holds throughout: the bookkeeping of a handle, the
\* requests on the way, their answers and the server's file always fit together.
THEOREM Invariance == Spec => []IndInv
  BY InitHolds, NextKeepsInv, PTL DEF Spec

\* Every variable of the pipeline keeps its type.
THEOREM TypeCorrect == Spec => []TypeOK
  <1>1. IndInv => TypeOK
    BY DEF IndInv
  <1> QED
    BY <1>1, Invariance, PTL

\* No answered byte is lost or counted twice between the answer and the report.
THEOREM AccountingHolds == Spec => []AckAccounting
  <1>1. IndInv => AckAccounting
    BY DEF IndInv, CountingInv
  <1> QED
    BY <1>1, Invariance, PTL

\* The outstanding chunks cover exactly what is sent and not answered.
THEOREM GapIsCovered == Spec => []PipelineCoversGap
  <1>1. IndInv => PipelineCoversGap
    BY DEF IndInv, ListInv
  <1> QED
    BY <1>1, Invariance, PTL

\* What was reported is within what was answered, and that is stored.
LEMMA InvGivesStored == IndInv => ReportedIsStored /\ pos \in 0 .. SrcLen
  <1> SUFFICES ASSUME IndInv PROVE ReportedIsStored /\ pos \in 0 .. SrcLen
    OBVIOUS
  <1>1. pos \in Nat /\ offset \in Nat /\ pos <= offset /\ offset <= SrcLen /\ SrcLen \in Nat
    BY ConstantsAssumption, SMT DEF IndInv, TypeOK, CountingInv, AckAccounting, ListInv
  <1>2. \A x \in 0 .. pos - 1 : x \in 0 .. offset - 1
    BY <1>1, SMT
  <1>3. pos \in 0 .. SrcLen
    BY <1>1, SMT
  <1> QED
    BY <1>2, <1>3 DEF IndInv, StoredInv, ReportedIsStored

\* A byte that libssh2_sftp_write reported as written is in the server's file.
THEOREM ReportedBytesAreStored == Spec => []ReportedIsStored
  BY InvGivesStored, Invariance, PTL

\* Every answer that waits belongs to a chunk that waits for it.
THEOREM NoAnswerIsOrphaned == Spec => []NoOrphanReply
  <1>1. IndInv => NoOrphanReply
    BY DEF IndInv, ZombieInv
  <1> QED
    BY <1>1, Invariance, PTL

\* Only a report moves the caller's position, forward, and it leaves the
\* server's file alone.
LEMMA PositionMoves ==
    ASSUME IndInv, [Next]_vars
    PROVE  \/ pos' = pos
           \/ pos' > pos /\ remote' = remote
  <1>1. CASE Report
    <2>1. Total \in Nat /\ org_count \in Nat /\ pos \in Nat
      BY SMT DEF IndInv, TypeOK, Total
    <2>2. AtMost(Total, org_count) \in Nat
      BY <2>1, SMT DEF AtMost
    <2>3. pos' = pos + AtMost(Total, org_count) /\ remote' = remote
      BY <1>1 DEF Report, netVars
    <2> HIDE DEF AtMost
    <2> QED
      BY <2>1, <2>2, <2>3, SMT
  <1>2. CASE CallerWrites
    BY <1>2 DEF CallerWrites, Call
  <1>3. CASE Enter \/ MakeChunk \/ ChunksMade \/ AllocFails \/ SendChunk
    BY <1>3 DEF Enter, MakeChunk, ChunksMade, AllocFails, SendChunk
  <1>4. CASE SendStops \/ AllSent \/ TakeAck \/ TakeRejection \/ NoAnswer \/ WaitEnds \/ WaitFails
    BY <1>4 DEF SendStops, AllSent, TakeAck, TakeRejection, NoAnswer, WaitEnds, WaitFails
  <1>5. CASE Network
    BY <1>5 DEF Network, ServerWrites, ServerRefuses, ServerLosesFraming, WindowOpens,
                ConnectionDrops, callVars
  <1>6. CASE UNCHANGED vars
    BY <1>6 DEF vars, callVars
  <1> QED
    BY <1>1, <1>2, <1>3, <1>4, <1>5, <1>6 DEF Next, Library

\* The calls of libssh2_sftp_write implement the abstract upload: the reported
\* position only grows and never passes a byte that the server does not have.
THEOREM UploadImplemented == Spec => ImplementsUpload
  <1> DEFINE held == {i \in Offsets : remote[i] = i}
  <1>1. Init => Abstract!Init
    BY ConstantsAssumption, SMT DEF Init, Abstract!Init, Offsets, Missing
  <1>2. IndInv /\ IndInv' /\ [Next]_vars => [Abstract!Next]_(Abstract!vars)
    <2> SUFFICES ASSUME IndInv, IndInv', [Next]_vars PROVE Abstract!Next
      OBVIOUS
    <2>1. /\ pos \in 0 .. SrcLen /\ pos' \in 0 .. SrcLen
          /\ \A i \in 0 .. pos - 1 : remote[i] = i
          /\ \A i \in 0 .. pos' - 1 : remote'[i] = i
      <3>1. ReportedIsStored /\ pos \in 0 .. SrcLen
        BY InvGivesStored
      <3>2. (ReportedIsStored /\ pos \in 0 .. SrcLen)'
        BY InvGivesStored, PTL
      <3> QED
        BY <3>1, <3>2 DEF ReportedIsStored
    <2>2. /\ 0 .. pos - 1 \subseteq Offsets /\ 0 .. pos' - 1 \subseteq Offsets
          /\ Offsets = 0 .. SrcLen - 1
      <3>1. pos <= SrcLen /\ pos' <= SrcLen /\ pos \in Int /\ pos' \in Int /\ SrcLen \in Int
        BY <2>1, ConstantsAssumption, SMT
      <3>2. ASSUME NEW a \in Int, a <= SrcLen PROVE 0 .. a - 1 \subseteq 0 .. SrcLen - 1
        BY <3>1, <3>2, SMT
      <3> QED
        BY <3>1, <3>2 DEF Offsets
    <2>3. 0 .. pos - 1 \subseteq held /\ 0 .. pos' - 1 \subseteq held'
      BY <2>1, <2>2 DEF Offsets
    <2>4. CASE pos' = pos
      <3>1. held' \in SUBSET (0 .. SrcLen - 1)
        BY DEF Offsets
      <3> QED
        BY <3>1, <2>3, <2>4 DEF Abstract!Next, Abstract!Change
    <2>5. CASE pos' > pos /\ remote' = remote
      <3>1. pos' \in pos + 1 .. SrcLen
        BY <2>1, <2>2, <2>5, SMT
      <3>2. held' = held
        BY <2>5 DEF Offsets
      <3> QED
        BY <3>1, <3>2, <2>3 DEF Abstract!Next, Abstract!Report
    <2> QED
      BY <2>4, <2>5, PositionMoves
  <1> QED
    BY <1>1, <1>2, Invariance, PTL DEF Spec, ImplementsUpload, Abstract!Spec

\* Nothing was given up: every answer says yes.
NothingGivenUp ==
    /\ zombies = {} /\ in_sync
    /\ \A r \in replies : r.ok

LEMMA NothingIsGivenUp ==
    ASSUME IndInv, NothingGivenUp, "reject" \notin Faults, [Next]_vars
    PROVE  NothingGivenUp'
  <1> USE DEF NothingGivenUp
  <1>1. CASE CallerWrites \/ Enter \/ MakeChunk \/ ChunksMade \/ AllocFails \/ SendChunk
    BY <1>1 DEF CallerWrites, Call, Enter, MakeChunk, ChunksMade, AllocFails, SendChunk,
                sftpVars, netVars
  <1>2. CASE SendStops \/ AllSent \/ NoAnswer \/ Report \/ WaitEnds \/ WaitFails
    BY <1>2 DEF SendStops, AllSent, NoAnswer, Report, WaitEnds, WaitFails, sftpVars, netVars
  <1>3. CASE TakeAck
    BY <1>3 DEF TakeAck
  <1>4. CASE TakeRejection
    BY <1>4 DEF TakeRejection, Answered
  <1>5. CASE ServerWrites
    BY <1>5 DEF ServerWrites, Answer
  <1>6. CASE ServerRefuses
    BY <1>6 DEF ServerRefuses
  <1>7. CASE ServerLosesFraming
    <2>1. Len(wire) > 1 /\ ~Head(wire).whole
      BY <1>7 DEF ServerLosesFraming
    <2>2. wire # <<>> /\ wire \in Seq(Packet) /\ Len(wire) \in Nat
      BY <2>1, ElementTypes DEF IndInv, TypeOK
    <2>3. 1 \in WireIndices /\ 1 < Len(wire) /\ ~wire[1].whole
      BY <2>1, <2>2, TailFacts DEF WireIndices
    <2>4. wire[1].id \notin ChunkIds(packet_list)
      BY <2>3, Zenon DEF IndInv, WireInv, ChunkIds, ListIndices
    <2> QED
      BY <2>3, <2>4 DEF IndInv, ZombieInv
  <1>8. CASE WindowOpens \/ ConnectionDrops
    BY <1>8 DEF WindowOpens, ConnectionDrops, sftpVars
  <1>9. CASE UNCHANGED vars
    BY <1>9 DEF vars, sftpVars, netVars
  <1> QED
    BY <1>1, <1>2, <1>3, <1>4, <1>5, <1>6, <1>7, <1>8, <1>9 DEF Next, Library, Network

\* While the server refuses nothing, a request is never begun before the one
\* before it is complete.
THEOREM FramingIsKept == "reject" \notin Faults => (Spec => []FramingKept)
  <1> SUFFICES ASSUME "reject" \notin Faults PROVE Spec => []FramingKept
    OBVIOUS
  <1>1. Init => NothingGivenUp
    BY DEF Init, NothingGivenUp
  <1>2. IndInv /\ NothingGivenUp /\ [Next]_vars => NothingGivenUp'
    BY NothingIsGivenUp
  <1>3. ASSUME IndInv, NothingGivenUp PROVE FramingKept
    <2>1. ASSUME NEW k \in 1 .. Len(wire) - 1, ~wire[k].whole PROVE FALSE
      <3>1. k \in WireIndices /\ k < Len(wire)
        BY <2>1, <1>3, ElementTypes DEF WireIndices, IndInv
      <3>2. wire[k].id \notin ChunkIds(packet_list)
        BY <1>3, <2>1, <3>1, Zenon DEF IndInv, WireInv, ChunkIds, ListIndices
      <3> QED
        BY <1>3, <3>1, <3>2 DEF IndInv, ZombieInv, NothingGivenUp
    <2> QED
      BY <1>3, <2>1 DEF FramingKept, NothingGivenUp
  <1> QED
    BY <1>1, <1>2, <1>3, Invariance, PTL DEF Spec

-----------------------------------------------------------------------------
(* A call never waits in vain                                               *)

\* The answer of a request is there, or the request is on its way.
UnderWay(id) ==
    \/ id \in RepliedIds
    \/ \E k \in WireIndices : wire[k].id = id

\* What sftp_write waits for when it remembers that it waits: the answer to the
\* head of the list, which was sent to its last byte and was not lost.
AwaitedUnderWay ==
    up /\ write_state = "sent" =>
        /\ packet_list # <<>>
        /\ packet_list[1].left = 0
        /\ UnderWay(packet_list[1].id)

\* Every chunk that was begun is under way, because no answer to it is taken for
\* one that was given up.
BegunUnderWay ==
    /\ \A z \in zombies : z < next_id /\ z \notin ChunkIds(packet_list)
    /\ up => \A i \in ListIndices :
                Begun(packet_list[i]) => UnderWay(packet_list[i].id)
    /\ write_state = "sent" => packet_list # <<>> /\ packet_list[1].left = 0

\* Neither the list nor the wire nor the answers change.
LEMMA StaysUnderWay ==
    ASSUME BegunUnderWay,
           UNCHANGED <<packet_list, next_id, zombies, up, wire, replies>>,
           write_state' \in {write_state, "idle"}
    PROVE  BegunUnderWay'
  BY Zenon DEF BegunUnderWay, UnderWay, Begun, ListIndices, WireIndices, RepliedIds,
         ChunkIds

\* A new chunk is not begun and its id is new.
LEMMA MadeUnderWay ==
    ASSUME IndInv, BegunUnderWay, MakeChunk
    PROVE  BegunUnderWay'
  <1> DEFINE n == Len(packet_list)
  <1>1. PICK c \in Chunk : /\ packet_list' = Append(packet_list, c)
                           /\ c.id = next_id /\ ~Begun(c)
    <2> DEFINE size == AtMost(MaxChunk, count)
               c == [id |-> next_id, off |-> offset_sent,
                     src |-> pos + org_count - count, len |-> size, left |-> size]
    <2>1. size \in Nat \ {0} /\ pos + org_count - count \in Nat
      BY ConstantsAssumption, SMT
         DEF MakeChunk, AtMost, IndInv, TypeOK, CountingInv, AckAccounting
    <2>2. packet_list' = Append(packet_list, c)
      BY DEF MakeChunk
    <2>3. c \in Chunk
      BY <2>1 DEF IndInv, TypeOK, Chunk
    <2>4. ~Begun(c)
      BY <2>1 DEF Begun
    <2> QED
      BY <2>2, <2>3, <2>4
  <1>2. /\ packet_list \in Seq(Chunk) /\ n \in Nat
        /\ packet_list' \in Seq(Chunk) /\ Len(packet_list') = n + 1
        /\ \A i \in 1 .. n : packet_list'[i] = packet_list[i]
        /\ packet_list'[n + 1] = c
        /\ ListIndices = 1 .. n /\ ListIndices' = 1 .. n + 1
    BY <1>1, AppendProperties DEF IndInv, TypeOK, ListIndices
  <1>3. /\ next_id \in Nat /\ next_id' = next_id + 1
        /\ UNCHANGED <<zombies, write_state, up, wire, replies>>
    BY DEF MakeChunk, netVars, IndInv, TypeOK
  <1>4. ASSUME NEW z \in zombies' PROVE z < next_id' /\ z \notin ChunkIds(packet_list)'
    <2>1. z \in Nat /\ z < next_id /\ z \notin ChunkIds(packet_list)
      BY <1>3, <1>4 DEF BegunUnderWay, IndInv, TypeOK
    <2>2. z < next_id' /\ z # next_id
      BY <2>1, <1>3, SMT
    <2>3. ASSUME NEW i \in 1 .. n + 1 PROVE packet_list'[i].id # z
      <3>1. CASE i = n + 1
        BY <3>1, <1>1, <1>2, <2>2
      <3>2. CASE i # n + 1
        BY <3>2, <2>1, <1>2 DEF ChunkIds
      <3> QED
        BY <3>1, <3>2
    <2> QED
      BY <2>2, <2>3, <1>2 DEF ChunkIds
  <1>5. ASSUME up', NEW i \in ListIndices', Begun(packet_list'[i])
        PROVE  UnderWay(packet_list[i].id)' /\ packet_list'[i].id = packet_list[i].id
    <2>1. i # n + 1
      BY <1>5, <1>1, <1>2
    <2>2. i \in ListIndices /\ packet_list'[i] = packet_list[i]
      BY <2>1, <1>2, SMT
    <2> QED
      BY <2>2, <1>3, <1>5, Zenon
         DEF BegunUnderWay, UnderWay, RepliedIds, WireIndices
  <1>6. write_state' = "sent" => packet_list' # <<>> /\ packet_list'[1].left = 0
    <2> SUFFICES ASSUME write_state' = "sent" PROVE packet_list' # <<>> /\ packet_list'[1].left = 0
      OBVIOUS
    <2>1. packet_list # <<>> /\ packet_list[1].left = 0
      BY <1>3 DEF BegunUnderWay
    <2>2. 1 \in 1 .. n
      BY <2>1, <1>2, EmptySeq, SMT
    <2> QED
      BY <2>1, <2>2, <1>2, EmptySeq, SMT
  <1> QED
    BY <1>4, <1>5, <1>6 DEF BegunUnderWay, UnderWay

\* The channel takes bytes of a chunk: its request is the last on the wire.
LEMMA SentUnderWay ==
    ASSUME IndInv, BegunUnderWay, SendChunk
    PROVE  BegunUnderWay'
  <1>1. PICK i \in 1 .. Len(packet_list) :
          /\ FirstUnsent(i)
          /\ LET c    == packet_list[i]
                 left == c.left - AtMost(window, c.left)
             IN  /\ packet_list' = [packet_list EXCEPT ![i].left = left]
                 /\ wire' = IF c.left = c.len
                            THEN Append(wire, [id |-> c.id, off |-> c.off, src |-> c.src,
                                               len |-> c.len, whole |-> left = 0])
                            ELSE [wire EXCEPT ![Len(wire)].whole = (left = 0)]
    BY DEF SendChunk
  <1> DEFINE c    == packet_list[i]
             left == c.left - AtMost(window, c.left)
             p    == [id |-> c.id, off |-> c.off, src |-> c.src,
                      len |-> c.len, whole |-> left = 0]
             n    == Len(packet_list)
             m    == Len(wire)
  <1>2. /\ packet_list \in Seq(Chunk) /\ wire \in Seq(Packet)
        /\ n \in Nat /\ m \in Nat /\ i \in ListIndices
        /\ ListIndices = 1 .. n /\ WireIndices = 1 .. m
        /\ c \in Chunk /\ c.left # 0
        /\ c.id \in Nat /\ c.off \in Nat /\ c.src \in Nat
        /\ c.len \in Nat /\ c.len > 0 /\ c.left \in Nat /\ c.left <= c.len
    <2>1. packet_list \in Seq(Chunk) /\ wire \in Seq(Packet)
      BY DEF IndInv, TypeOK
    <2> QED
      BY <2>1, <1>1, ElementTypes DEF FirstUnsent, IndInv, ListInv, ListIndices, WireIndices
  <1>3. /\ up
        /\ UNCHANGED <<next_id, zombies, write_state, up, replies>>
    BY DEF SendChunk, sftpVars
  <1>4. /\ packet_list' = [packet_list EXCEPT ![i].left = left]
        /\ wire' = IF c.left = c.len THEN Append(wire, p)
                   ELSE [wire EXCEPT ![m].whole = (left = 0)]
    BY <1>1
  <1> HIDE DEF left
  <1>5. /\ Len(packet_list') = n /\ ListIndices' = ListIndices
        /\ packet_list' # <<>> <=> packet_list # <<>>
        /\ \A j \in ListIndices : packet_list'[j].id = packet_list[j].id
        /\ \A j \in ListIndices : j # i => packet_list'[j] = packet_list[j]
    BY <1>2, <1>4, SMT DEF ListIndices
  <1>6. /\ m <= Len(wire') /\ Len(wire') \in Nat
        /\ \A k \in 1 .. m : wire'[k].id = wire[k].id
        /\ \E k \in 1 .. Len(wire') : wire'[k].id = c.id
    <2>1. CASE c.left = c.len
      <3>1. p \in Packet
        BY <1>2 DEF Packet
      <3>2. /\ Len(wire') = m + 1 /\ wire'[m + 1] = p
            /\ \A k \in 1 .. m : wire'[k] = wire[k]
        BY <3>1, <2>1, <1>2, <1>4, AppendProperties
      <3> QED
        BY <3>2, <1>2, SMT
    <2>2. CASE c.left # c.len
      <3>1. Begun(packet_list[i]) /\ packet_list[i].left > 0
        BY <2>2, <1>2, SMT DEF Begun
      <3>2. wire # <<>> /\ wire[m].id = c.id
        BY <3>1, <1>2, <1>3 DEF IndInv, WireInv
      <3>3. wire' = [wire EXCEPT ![m].whole = (left = 0)] /\ m > 0
        BY <2>2, <3>2, <1>2, <1>4, EmptySeq, SMT
      <3>4. Len(wire') = m /\ \A k \in 1 .. m : wire'[k].id = wire[k].id
        BY <3>3, <1>2, SMT DEF Packet
      <3> QED
        BY <3>2, <3>3, <3>4, <1>2, SMT
    <2> QED
      BY <2>1, <2>2
  <1>7. WireIndices' = 1 .. Len(wire') /\ WireIndices \subseteq WireIndices'
    BY <1>2, <1>6, SMT DEF WireIndices
  <1>8. ChunkIds(packet_list)' = ChunkIds(packet_list)
    BY <1>2, <1>5, Zenon DEF ChunkIds
  <1>9. ASSUME NEW j \in ListIndices, Begun(packet_list'[j])
        PROVE  UnderWay(packet_list[j].id)'
    <2>1. CASE j = i
      BY <2>1, <1>5, <1>6, <1>7 DEF UnderWay
    <2>2. CASE j # i
      <3>1. UnderWay(packet_list[j].id)
        BY <2>2, <1>3, <1>5, <1>9 DEF BegunUnderWay
      <3> QED
        BY <3>1, <1>2, <1>3, <1>5, <1>6, <1>7, <1>9 DEF UnderWay, RepliedIds
    <2> QED
      BY <2>1, <2>2
  <1>10. write_state' = "sent" => packet_list' # <<>> /\ packet_list'[1].left = 0
    <2> SUFFICES ASSUME write_state' = "sent" PROVE packet_list' # <<>> /\ packet_list'[1].left = 0
      OBVIOUS
    <2>1. packet_list # <<>> /\ packet_list[1].left = 0
      BY <1>3 DEF BegunUnderWay
    <2>2. 1 \in ListIndices /\ 1 # i
      BY <2>1, <1>2, EmptySeq, SMT
    <2> QED
      BY <2>1, <2>2, <1>5
  <1> QED
    BY <1>3, <1>5, <1>8, <1>9, <1>10, Zenon DEF BegunUnderWay

\* The answer to the head is taken: the others stay where they are.
LEMMA TakenUnderWay ==
    ASSUME IndInv, BegunUnderWay, TakeAck
    PROVE  BegunUnderWay'
  <1> DEFINE c == packet_list[1]
             n == Len(packet_list)
             ack == [id |-> c.id, ok |-> TRUE]
  <1>1. /\ packet_list # <<>> /\ Head(packet_list) = c
        /\ n \in Nat \ {0} /\ ListIndices = 1 .. n /\ 1 \in ListIndices
        /\ Len(packet_list') = n - 1 /\ ListIndices' = 1 .. n - 1
        /\ \A i \in 1 .. n - 1 : packet_list'[i] = packet_list[i + 1]
    BY TailFacts, SMT DEF TakeAck, AwaitsAnswer, IndInv, TypeOK, ListIndices
  <1>2. /\ replies' = replies \ {ack} /\ write_state' = "idle"
        /\ UNCHANGED <<next_id, zombies, up, wire>>
    BY <1>1 DEF TakeAck
  <1>3. \A i \in ListIndices' : /\ i + 1 \in ListIndices
                                /\ packet_list'[i] = packet_list[i + 1]
                                /\ packet_list[i + 1].id # c.id
    <2> TAKE i \in ListIndices'
    <2>1. i + 1 \in ListIndices /\ i + 1 # 1 /\ packet_list'[i] = packet_list[i + 1]
      BY <1>1, SMT
    <2> QED
      BY <2>1, <1>1, SameId
  <1>4. ChunkIds(packet_list)' \subseteq ChunkIds(packet_list)
    BY <1>1, <1>3 DEF ChunkIds
  <1>5. ASSUME up, NEW i \in ListIndices', Begun(packet_list'[i])
        PROVE  UnderWay(packet_list[i].id)'
    <2>1. UnderWay(packet_list[i + 1].id)
      BY <1>3, <1>5 DEF BegunUnderWay
    <2>2. packet_list[i + 1].id # c.id
      BY <1>3, <1>5
    <2>3. packet_list[i + 1].id \in RepliedIds => packet_list[i + 1].id \in RepliedIds'
      BY <2>2, <1>2 DEF RepliedIds
    <2>4. packet_list'[i].id = packet_list[i + 1].id
      BY <1>3, <1>5
    <2> QED
      BY <2>1, <2>3, <2>4, <1>2, Zenon DEF UnderWay, WireIndices
  <1> QED
    BY <1>2, <1>4, <1>5 DEF BegunUnderWay

\* After a refusal the list is empty; what is given up was handed out before.
LEMMA FlushedUnderWay ==
    ASSUME IndInv, BegunUnderWay, TakeRejection
    PROVE  BegunUnderWay'
  <1>1. /\ zombies' \subseteq zombies \cup SentIds(packet_list)
        /\ packet_list' = <<>> /\ write_state' = "idle" /\ next_id' = next_id
    BY DEF TakeRejection, Flush
  <1>2. Len(packet_list') = 0 /\ ListIndices' = {} /\ ChunkIds(packet_list)' = {}
    BY <1>1, SMT DEF ListIndices, ChunkIds
  <1>3. \A z \in SentIds(packet_list) : z < next_id
    BY DEF SentIds, IndInv, ListInv, ListIndices
  <1> QED
    BY <1>1, <1>2, <1>3 DEF BegunUnderWay

\* The server answers the first request on the wire.
LEMMA AnsweredUnderWay ==
    ASSUME IndInv, BegunUnderWay, wire # <<>>, wire' = Tail(wire),
           NEW ok \in BOOLEAN, Answer(wire[1].id, ok),
           UNCHANGED <<handleVars, write_state, next_id, up>>
    PROVE  BegunUnderWay'
  <1> DEFINE w == wire[1]
             m == Len(wire)
  <1>1. /\ m \in Nat \ {0} /\ WireIndices = 1 .. m /\ WireIndices' = 1 .. m - 1
        /\ \A k \in 1 .. m - 1 : wire'[k] = wire[k + 1]
    BY TailFacts, SMT DEF IndInv, TypeOK, WireIndices
  <1>2. /\ packet_list' = packet_list /\ write_state' = write_state
        /\ next_id' = next_id /\ up' = up
        /\ ListIndices' = ListIndices
        /\ ChunkIds(packet_list)' = ChunkIds(packet_list)
    BY DEF handleVars, ListIndices, ChunkIds
  <1>3. zombies' \subseteq zombies /\ RepliedIds \subseteq RepliedIds'
    BY DEF Answer, RepliedIds
  <1>4. \A k \in WireIndices : k # 1 => \E l \in WireIndices' : wire'[l].id = wire[k].id
    <2> TAKE k \in WireIndices
    <2> HAVE k # 1
    <2>1. k - 1 \in WireIndices' /\ k - 1 + 1 = k
      BY <1>1, SMT
    <2> QED
      BY <2>1, <1>1
  <1>5. ASSUME up, NEW i \in ListIndices, Begun(packet_list[i])
        PROVE  UnderWay(packet_list[i].id)'
    <2>1. packet_list[i].id \notin zombies
      BY <1>5 DEF BegunUnderWay, ChunkIds, ListIndices
    <2>2. UnderWay(packet_list[i].id)
      BY <1>5 DEF BegunUnderWay
    <2>3. packet_list[i].id = w.id => packet_list[i].id \in RepliedIds'
      BY <2>1 DEF Answer, RepliedIds
    <2> QED
      BY <2>2, <2>3, <1>2, <1>3, <1>4 DEF UnderWay
  <1>6. \A z \in zombies' : z < next_id' /\ z \notin ChunkIds(packet_list)'
    BY <1>2, <1>3 DEF BegunUnderWay
  <1>7. up' => \A i \in ListIndices' :
                 Begun(packet_list[i])' => UnderWay(packet_list[i].id)'
    BY <1>2, <1>5
  <1> QED
    BY <1>2, <1>6, <1>7 DEF BegunUnderWay

\* No step loses what a call waits for.
LEMMA UnderWayNext ==
    ASSUME IndInv, BegunUnderWay, [Next]_vars
    PROVE  BegunUnderWay'
  <1>1. CASE \/ CallerWrites \/ Enter \/ ChunksMade \/ AllocFails \/ SendStops \/ AllSent
             \/ Report \/ WaitEnds \/ WaitFails \/ WindowOpens \/ UNCHANGED vars
    <2>1. /\ UNCHANGED <<packet_list, next_id, zombies, up, wire, replies>>
          /\ write_state' \in {write_state, "idle"}
      BY <1>1 DEF CallerWrites, Call, Enter, ChunksMade, AllocFails, SendStops, AllSent,
                  Report, WaitEnds, WaitFails, WindowOpens, vars, handleVars, sftpVars, netVars
    <2> QED
      BY <2>1, StaysUnderWay
  <1>2. CASE NoAnswer
    <2>1. UNCHANGED <<packet_list, next_id, zombies, up, wire, replies>>
      BY <1>2 DEF NoAnswer, handleVars, netVars
    <2>2. packet_list # <<>> /\ packet_list[1].left = 0
      BY <1>2, TailFacts DEF NoAnswer, AwaitsAnswer, IndInv, TypeOK
    <2>3. /\ ChunkIds(packet_list)' = ChunkIds(packet_list)
          /\ ListIndices' = ListIndices
          /\ \A id : UnderWay(id)' <=> UnderWay(id)
      BY <2>1 DEF ChunkIds, ListIndices, UnderWay, RepliedIds, WireIndices
    <2> QED
      BY <2>1, <2>2, <2>3 DEF BegunUnderWay, Begun
  <1>3. CASE ServerWrites \/ ServerRefuses \/ ServerLosesFraming
    <2>1. /\ wire # <<>> /\ wire' = Tail(wire)
          /\ \E ok \in BOOLEAN : Answer(Head(wire).id, ok)
          /\ UNCHANGED <<handleVars, write_state, next_id, up>>
      <3>1. Len(wire) > 1 => wire # <<>>
        BY SMT
      <3> QED
        BY <3>1, <1>3, Zenon DEF ServerWrites, ServerRefuses, ServerLosesFraming
    <2>2. Head(wire) = wire[1]
      BY <2>1, TailFacts DEF IndInv, TypeOK
    <2> QED
      BY <2>1, <2>2, AnsweredUnderWay
  <1>4. CASE ConnectionDrops
    <2>1. UNCHANGED <<packet_list, next_id, zombies, write_state>> /\ ~up'
      BY <1>4 DEF ConnectionDrops, handleVars, sftpVars
    <2> QED
      BY <2>1 DEF BegunUnderWay, ChunkIds
  <1> QED
    BY <1>1, <1>2, <1>3, <1>4, MadeUnderWay, SentUnderWay, TakenUnderWay, FlushedUnderWay
       DEF Next, Library, Network

LEMMA UnderWayHolds == Spec => []BegunUnderWay
  <1>1. Init => BegunUnderWay
    <2> SUFFICES ASSUME Init PROVE BegunUnderWay
      OBVIOUS
    <2>1. packet_list = <<>> /\ zombies = {} /\ write_state = "idle"
      BY DEF Init, InitHandle
    <2>2. ListIndices = {}
      BY <2>1, SMT DEF ListIndices
    <2> QED
      BY <2>1, <2>2 DEF BegunUnderWay
  <1>2. IndInv /\ BegunUnderWay /\ [Next]_vars => BegunUnderWay'
    BY UnderWayNext
  <1> QED
    BY <1>1, <1>2, Invariance, PTL DEF Spec

\* When sftp_write waits for an answer, whatever went wrong before, the packet
\* was sent to its end and its answer is there or the packet is on its way.
THEOREM AwaitedIsUnderWay == Spec => []AwaitedUnderWay
  <1>1. IndInv /\ BegunUnderWay => AwaitedUnderWay
    <2> SUFFICES ASSUME IndInv, BegunUnderWay, up, write_state = "sent"
                 PROVE  /\ packet_list # <<>> /\ packet_list[1].left = 0
                        /\ UnderWay(packet_list[1].id)
      BY DEF AwaitedUnderWay
    <2>1. packet_list # <<>> /\ packet_list[1].left = 0
      BY DEF BegunUnderWay
    <2>2. 1 \in ListIndices
      BY <2>1, ElementTypes, EmptySeq, SMT DEF IndInv, TypeOK, ListIndices
    <2>3. Begun(packet_list[1])
      BY <2>1, <2>2, ElementTypes DEF IndInv, Begun
    <2> QED
      BY <2>1, <2>2, <2>3 DEF BegunUnderWay
  <1> QED
    BY <1>1, Invariance, UnderWayHolds, PTL

\* The answer a call waits for is there, or the server gets to the request:
\* every packet up to it is complete on the wire.
AnswerIsComing ==
    up /\ write_state = "sent" =>
        /\ packet_list # <<>>
        /\ \/ packet_list[1].id \in RepliedIds
           \/ /\ in_sync
              /\ \E k \in WireIndices : /\ wire[k].id = packet_list[1].id
                                        /\ \A l \in 1 .. k : wire[l].whole

\* Without a refused write the blocking call never waits for something that
\* cannot come, however the window cut its packets: with a refused one the
\* begun packet that the flush drops may bar the way for all that follow.
THEOREM AnswerComes == "reject" \notin Faults => (Spec => []AnswerIsComing)
  <1> SUFFICES ASSUME "reject" \notin Faults PROVE Spec => []AnswerIsComing
    OBVIOUS
  <1>1. ASSUME IndInv, FramingKept, AwaitedUnderWay PROVE AnswerIsComing
    <2> SUFFICES ASSUME up, write_state = "sent", packet_list[1].id \notin RepliedIds
                 PROVE  /\ packet_list # <<>> /\ in_sync
                        /\ \E k \in WireIndices : /\ wire[k].id = packet_list[1].id
                                                  /\ \A l \in 1 .. k : wire[l].whole
      BY <1>1 DEF AwaitedUnderWay, AnswerIsComing
    <2>1. /\ packet_list # <<>> /\ packet_list[1].left = 0
          /\ \E k \in WireIndices : wire[k].id = packet_list[1].id
      BY <1>1 DEF AwaitedUnderWay, UnderWay
    <2>2. PICK k \in WireIndices : wire[k].id = packet_list[1].id
      BY <2>1
    <2>3. 1 \in ListIndices
      BY <1>1, <2>1, ElementTypes, EmptySeq, SMT DEF IndInv, TypeOK, ListIndices
    <2>4. wire[k].whole
      BY <1>1, <2>1, <2>2, <2>3, WireRequest DEF SameRequest
    <2>5. in_sync /\ \A l \in 1 .. Len(wire) - 1 : wire[l].whole
      BY <1>1 DEF FramingKept
    <2>6. \A l \in 1 .. k : l = k \/ l \in 1 .. Len(wire) - 1
      BY <1>1, ElementTypes, SMT DEF IndInv, WireIndices
    <2> QED
      BY <2>1, <2>2, <2>4, <2>5, <2>6
  <1> QED
    BY <1>1, Invariance, FramingIsKept, AwaitedIsUnderWay, PTL
=============================================================================
