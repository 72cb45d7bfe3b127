------------------------------ MODULE PacketRead ------------------------------
(***************************************************************************)
(* How _libssh2_transport_read cuts the byte stream of the server into      *)
(* packets (ext/lib/libssh2/src/transport.c), for each way in which packets *)
(* are protected once there are keys:                                       *)
(*   "mac"  encrypted with the length field, then a MAC as it is            *)
(*   "gcm"  length in the clear, the tag goes through decryption            *)
(*          (INTEGRATED_MAC and PKTLEN_AAD)                                 *)
(*   "etm"  length in the clear, the MAC is over the encrypted packet       *)
(*                                                                          *)
(* A byte is its position in the stream; p->buf holds the bytes from taken  *)
(* to received.  recv may yield any part of what the server sent.  One      *)
(* action is a stretch of the loop: recv, the first block of a packet, what *)
(* there is of the rest, the whole packet.                                  *)
(***************************************************************************)
EXTENDS Integers, Sequences

CONSTANTS Block,    \* blocksize of the ciphers
          MacLen,   \* mac_len of the MACs that are not integrated
          Suites,   \* ways of protection that may be agreed on
          Alike,    \* it is the same in both directions
          Payloads, \* lengths of payloads
          Plain,    \* packets before the keys are there
          Packets,  \* bound: packets of the server
          BufSize   \* PACKETBUFSIZE

ASSUME PacketReadAssumption ==
    /\ Block \in Nat /\ Block > 5
    /\ MacLen \in Nat \ {0}
    /\ Suites \subseteq {"mac", "gcm", "etm"}
    /\ Alike \in BOOLEAN
    /\ Payloads \subseteq Nat \ {0}
    /\ Plain \in Nat /\ Packets \in Nat
    /\ BufSize \in Nat /\ BufSize >= Block

VARIABLES
    suite,     \* how the server protects its packets
    local_etm, \* session->local.mac->etm
    sent,      \* packets of the server: packet_length and where they end
    received,  \* bytes that recv has yielded
    taken,     \* bytes in front of buf[readidx]
    done,      \* packets that were added to the queue
    packet_length,
    total_num, \* bytes the current packet has in p->payload, 0: no packet
    data_num,  \* bytes of it that are there
    clear,     \* of these, in front: went through decryption
    last_part, \* bytes of the last call of crypt
    jump,      \* readPack_state is jump1
    blocked,   \* what the last call waits for
    at         \* place in the code

packetVars == <<packet_length, total_num, data_num, clear, last_part>>
vars == <<suite, local_etm, sent, received, taken, done, packetVars, jump,
          blocked, at>>

Places == {"caller", "loop", "data", "full", "failed"}

TypeOK ==
    /\ suite \in Suites /\ local_etm \in BOOLEAN
    /\ sent \in Seq([length : Nat, end : Nat])
    /\ received \in Nat /\ taken \in Nat /\ done \in Nat
    /\ received - taken <= BufSize
    /\ packet_length \in Nat /\ total_num \in Nat /\ data_num \in Nat
    /\ clear \in Nat /\ last_part \in Nat
    /\ jump \in BOOLEAN
    /\ blocked \in {"none", "inbound", "outbound"}
    /\ at \in Places

Init ==
    /\ suite \in Suites
    /\ local_etm \in BOOLEAN /\ (Alike => local_etm = (suite = "etm"))
    /\ sent = <<>>
    /\ received = 0 /\ taken = 0 /\ done = 0
    /\ packet_length = 0 /\ total_num = 0 /\ data_num = 0 /\ clear = 0
    /\ last_part = 0
    /\ jump = FALSE /\ blocked = "none" /\ at = "caller"

Lesser(a, b)  == IF a < b THEN a ELSE b
Greater(a, b) == IF a > b THEN a ELSE b

-----------------------------------------------------------------------------
(* The server                                                               *)

Tag(encrypted) ==
    IF ~encrypted THEN 0 ELSE IF suite = "gcm" THEN Block ELSE MacLen

\* packet_length with the padding of _libssh2_transport_send, which the
\* server needs just so
Padded(payload, encrypted) ==
    LET bs      == IF encrypted THEN Block ELSE 8
        offset  == IF encrypted /\ suite # "mac" THEN 4 ELSE 0
        padding == bs - ((payload + 5 - offset) % bs)
    IN  payload + 1 + (IF padding < 4 THEN padding + bs ELSE padding)

EndOf(i) == IF i = 0 THEN 0 ELSE sent[i].end

ServerSends ==
    /\ Len(sent) < Packets
    /\ \E payload \in Payloads :
          LET encrypted == Len(sent) >= Plain
              length    == Padded(payload, encrypted)
          IN  sent' = Append(sent, [length |-> length,
                  end |-> EndOf(Len(sent)) + 4 + length + Tag(encrypted)])
    /\ UNCHANGED <<suite, local_etm, received, taken, done, packetVars, jump,
                   blocked, at>>

-----------------------------------------------------------------------------
(* _libssh2_transport_read                                                  *)

Encrypted == done >= Plain

\* "not strictly true, but we can use 5 here"
BlockSize == IF Encrypted THEN Block ELSE 5

Etm == Encrypted /\ local_etm

InBuffer == received - taken   \* remainbuf

Returns(why) == at' = "caller" /\ blocked' = why

Call ==
    /\ at = "caller"
    /\ at' = IF jump THEN "full" ELSE "loop"
    /\ jump' = FALSE
    /\ blocked' = "none"
    /\ UNCHANGED <<suite, local_etm, sent, received, taken, done, packetVars>>

\* Mutant of NeedsMore: there is always a recv first.
NeedsAlways == TRUE

\* Mutant of NeedsMore: a recv only when nothing is left.
NeedsWhenEmpty == InBuffer = 0

NeedsMore == InBuffer < BlockSize

\* Mutant of Space: what is left in the buffer does not count.
SpaceOfBuffer == BufSize

\* What is left moves to the start of the buffer.
Space == BufSize - InBuffer

EnoughInBuffer ==
    /\ at = "loop"
    /\ ~NeedsMore
    /\ at' = "data"
    /\ UNCHANGED <<suite, local_etm, sent, received, taken, done, packetVars, jump,
                   blocked>>

Recv ==
    /\ at = "loop"
    /\ NeedsMore
    /\ \E n \in 1 .. Lesser(Space, EndOf(Len(sent)) - received) :
          received' = received + n
    /\ at' = "data"
    /\ UNCHANGED <<suite, local_etm, sent, taken, done, packetVars, jump, blocked>>

RecvWaits ==
    /\ at = "loop"
    /\ NeedsMore
    /\ Returns("inbound")
    /\ UNCHANGED <<suite, local_etm, sent, received, taken, done, packetVars, jump>>

\* recv fails, or there is no memory for the packet
ReadFails ==
    /\ at \in {"loop", "data"}
    /\ at' = "failed"
    /\ UNCHANGED <<suite, local_etm, sent, received, taken, done, packetVars, jump,
                   blocked>>

\* What has to be there of a packet before it is begun
Required == IF Etm THEN 4 ELSE BlockSize

BeginWaits ==
    /\ at = "data"
    /\ total_num = 0
    /\ InBuffer < Required
    /\ Returns("inbound")
    /\ UNCHANGED <<suite, local_etm, sent, received, taken, done, packetVars, jump>>

\* The length field, where it is: encrypted only in "mac".  Elsewhere, or read
\* in the other way, it is another number.
Readable == Encrypted => (suite = "mac" => ~Etm) /\ (suite = "etm" => Etm)

LengthField ==
    IF done = Len(sent) \/ taken # EndOf(done) THEN 0
    ELSE IF Readable THEN sent[done + 1].length ELSE sent[done + 1].length + 1

\* Mutant of TotalNum: the MAC counts from the first packet on.
TotalWithMac ==
    IF Etm THEN 4 + LengthField + Tag(TRUE) ELSE LengthField - 1 + Tag(TRUE)

TotalNum ==
    IF Etm THEN 4 + LengthField + Tag(TRUE) ELSE LengthField - 1 + Tag(Encrypted)

\* Except with etm the first block is decrypted, and what follows the five
\* bytes of the header goes to the payload.
BeginPacket ==
    /\ at = "data"
    /\ total_num = 0
    /\ InBuffer >= Required
    /\ packet_length' = LengthField
    /\ IF LengthField = 0
       THEN at' = "failed" /\ UNCHANGED <<taken, total_num, data_num, clear>>
       ELSE /\ at' = at
            /\ total_num' = TotalNum
            /\ taken' = IF Etm THEN taken ELSE taken + BlockSize
            /\ data_num' = IF Etm THEN 0 ELSE BlockSize - 5
            /\ clear' = data_num'
    /\ last_part' = 0
    /\ UNCHANGED <<suite, local_etm, sent, received, done, jump, blocked>>

\* numbytes, for this packet
Numbytes == Lesser(InBuffer, total_num - data_num)

\* What has to stay behind decryption: the MAC that is not integrated
Skip == IF suite = "gcm" THEN 0 ELSE MacLen

ReachesEnd == data_num + Numbytes >= total_num - Skip

\* Mutant of DecryptMore: blocks are not made whole.
DecryptFractions ==
    IF ~Encrypted \/ Etm THEN 0
    ELSE IF ReachesEnd THEN Greater(0, total_num - Skip - data_num)
    ELSE IF suite = "gcm" THEN Lesser(Numbytes, total_num - Block - data_num)
    ELSE Numbytes

\* numdecrypt
DecryptMore ==
    IF ~Encrypted \/ Etm THEN 0
    ELSE IF ReachesEnd THEN Greater(0, total_num - Skip - data_num)
    ELSE IF suite = "gcm"
         THEN Lesser(Numbytes - (Numbytes % Block), total_num - Block - data_num)
    ELSE Numbytes - (Numbytes % Block)

\* Mutant of CopyMore: what is left of a block is copied as it is.
CopyFractions == Numbytes - DecryptMore

\* What is copied as it is
CopyMore == IF Encrypted /\ ~Etm /\ ~ReachesEnd THEN 0 ELSE Numbytes - DecryptMore

\* The last piece that decrypt makes of n bytes
LastPart(n) ==
    IF suite = "gcm" /\ ReachesEnd
    THEN IF n < Block THEN n ELSE Block + (n % Block)
    ELSE IF n % Block = 0 THEN Block ELSE n % Block

Collect ==
    /\ at = "data"
    /\ total_num # 0
    /\ taken' = taken + DecryptMore + CopyMore
    /\ data_num' = data_num + DecryptMore + CopyMore
    /\ clear' = clear + DecryptMore
    /\ last_part' = IF DecryptMore > 0 THEN LastPart(DecryptMore) ELSE last_part
    /\ at' = IF data_num' = total_num THEN "full" ELSE "loop"
    /\ UNCHANGED <<suite, local_etm, sent, received, done, packet_length, total_num,
                   jump, blocked>>

\* The packet is in the queue; when it starts an exchange of keys that has to
\* wait, the call returns EAGAIN all the same.
Delivered ==
    /\ at = "full"
    /\ total_num' = 0
    /\ done' = done + 1
    /\ \E why \in {"none", "outbound"} : Returns(why)
    /\ UNCHANGED <<suite, local_etm, sent, received, taken, packet_length, data_num,
                   clear, last_part, jump>>

\* packet_add cannot send its reply yet; the next call goes on there.
DeliveryWaits ==
    /\ at = "full"
    /\ jump' = TRUE
    /\ Returns("outbound")
    /\ UNCHANGED <<suite, local_etm, sent, received, taken, done, packetVars>>

-----------------------------------------------------------------------------
ReadSteps == Call \/ EnoughInBuffer \/ RecvWaits \/ BeginWaits \/ BeginPacket \/ Collect

Next == ReadSteps \/ Recv \/ Delivered \/ DeliveryWaits \/ ReadFails \/ ServerSends

Spec == Init /\ [][Next]_vars

\* The program calls again while it waits; what the server sent arrives, and
\* the reply of a packet can be sent some time.
Fairness ==
    /\ WF_vars(ReadSteps) /\ WF_vars(ServerSends)
    /\ SF_vars(Recv) /\ SF_vars(Delivered)

FairSpec == Spec /\ Fairness

-----------------------------------------------------------------------------
(* Properties                                                               *)

Header == IF Etm THEN 0 ELSE 5

\* The reader is at the byte it takes itself to be at: packets are cut where
\* the server joined them, whatever parts recv yields and however the keys
\* change the size of a block between two packets.
InStep ==
    /\ done <= Len(sent)
    /\ total_num = 0 => taken = EndOf(done)
    /\ total_num # 0 =>
          /\ done < Len(sent)
          /\ packet_length = sent[done + 1].length
          /\ taken = EndOf(done) + Header + data_num
          /\ EndOf(done) + Header + total_num = EndOf(done + 1)

\* The assertions of transport_read and of decrypt: remainbuf and numdecrypt are
\* not negative, and there is as much to decrypt; "if we get called with a len that
\* isn't an even number of blocksizes we risk losing those extra bytes"; and the
\* comment there, that "the whole MAC is included in a single decrypt call".
AssertionsHold ==
    /\ InBuffer >= 0
    /\ at = "data" /\ total_num # 0 =>
          /\ DecryptMore \in 0 .. Numbytes
          /\ suite = "mac" => DecryptMore % Block = 0
    /\ at = "full" /\ Etm => (packet_length - Block) % Block = 0
    /\ at = "full" /\ Encrypted /\ suite = "gcm" => last_part >= Tag(TRUE)

\* Everything encrypted goes through decryption before the packet is looked
\* at, in one run from its start, and the MAC that is not integrated does not.
MacIsRaw ==
    total_num # 0 /\ Encrypted /\ ~Etm =>
        LET encrypted == total_num - Skip IN
        /\ clear <= encrypted
        /\ clear < data_num => clear = encrypted
        /\ at = "full" => clear = encrypted

\* A call that sends the program to wait for the server has no whole packet
\* left: nobody would wake it up.
NothingHeldBack ==
    at = "caller" /\ blocked = "inbound" /\ done < Len(sent)
        => received < EndOf(done + 1)

\* Every packet of the server is read.
AllRead == <>(done = Packets \/ at = "failed")
=============================================================================
