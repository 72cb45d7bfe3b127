--------------------------- MODULE PacketReadProofs ---------------------------
(***************************************************************************)
(* Proofs about PacketRead, for packets of any lengths that recv yields in  *)
(* any parts, when both directions are protected alike (Alike).             *)
(***************************************************************************)
EXTENDS PacketRead, TLAPS

(* Remainders *)

\* A whole number of blocks
Whole(n) == \E k \in Nat : n = k * Block

\* A remainder is smaller than both numbers.
LEMMA RemainderFacts ==
    ASSUME NEW a \in Nat, NEW b \in Nat \ {0}
    PROVE  a % b \in 0 .. b - 1 /\ a % b <= a
BY Z3

LEMMA WithoutRemainder ==
    ASSUME NEW a \in Nat, NEW b \in Nat \ {0}
    PROVE  \E k \in Nat : a - (a % b) = k * b
BY Z3

LEMMA MultipleHasNone ==
    ASSUME NEW b \in Nat \ {0}, NEW k \in Nat
    PROVE  (k * b) % b = 0
BY Z3

LEMMA SumOfMultiples ==
    ASSUME NEW a \in Nat, NEW b \in Nat, NEW k \in Nat
    PROVE  a * b + k * b = (a + k) * b
BY Z3

LEMMA DifferenceOfMultiples ==
    ASSUME NEW a \in Nat, NEW b \in Nat \ {0}, NEW k \in Nat, k * b <= a * b
    PROVE  k <= a /\ a * b - k * b = (a - k) * b
BY Z3

\* Whole blocks
LEMMA WholeFacts ==
    /\ \A a, b \in Nat : Whole(a) /\ Whole(b) => Whole(a + b)
    /\ \A a, b \in Nat : Whole(a) /\ Whole(b) /\ b <= a => Whole(a - b)
    /\ \A a \in Nat : Whole(a) => a % Block = 0
    /\ \A a \in Nat : Whole(a - (a % Block))
    /\ Whole(0) /\ Whole(Block)
<1>0. Block \in Nat \ {0}
  BY PacketReadAssumption
<1>1. ASSUME NEW a \in Nat, NEW b \in Nat, Whole(a), Whole(b) PROVE Whole(a + b)
  <2>1. PICK k \in Nat : a = k * Block
    BY <1>1 DEF Whole
  <2>2. PICK l \in Nat : b = l * Block
    BY <1>1 DEF Whole
  <2>3. a + b = (k + l) * Block /\ k + l \in Nat
    BY <1>0, <2>1, <2>2, SumOfMultiples
  <2> QED BY <2>3 DEF Whole
<1>2. ASSUME NEW a \in Nat, NEW b \in Nat, Whole(a), Whole(b), b <= a
      PROVE  Whole(a - b)
  <2>1. PICK k \in Nat : a = k * Block
    BY <1>2 DEF Whole
  <2>2. PICK l \in Nat : b = l * Block
    BY <1>2 DEF Whole
  <2>3. l <= k /\ a - b = (k - l) * Block
    BY <1>0, <1>2, <2>1, <2>2, DifferenceOfMultiples
  <2>4. k - l \in Nat
    BY <2>3
  <2> QED BY <2>3, <2>4 DEF Whole
<1>3. \A a \in Nat : Whole(a) => a % Block = 0
  BY <1>0, MultipleHasNone DEF Whole
<1>4. \A a \in Nat : Whole(a - (a % Block))
  BY <1>0, WithoutRemainder DEF Whole
<1>5. Whole(0)
  <2>1. 0 = 0 * Block
    BY <1>0
  <2> QED BY <2>1 DEF Whole
<1>6. Whole(Block)
  <2>1. Block = 1 * Block
    BY <1>0
  <2> QED BY <2>1 DEF Whole
<1> QED BY <1>1, <1>2, <1>3, <1>4, <1>5, <1>6

\* transport_send pads a packet to whole blocks, with at least four bytes.
LEMMA PaddedFacts ==
    ASSUME NEW payload \in Payloads, NEW encrypted \in BOOLEAN
    PROVE  LET n == Padded(payload, encrypted) IN
           /\ n \in Nat /\ n >= 4
           /\ encrypted => n + 4 >= Block
           /\ encrypted /\ suite = "mac" => Whole(n + 4)
           /\ encrypted /\ suite # "mac" => n >= Block /\ Whole(n)
<1> DEFINE bs      == IF encrypted THEN Block ELSE 8
           offset  == IF encrypted /\ suite # "mac" THEN 4 ELSE 0
           all     == payload + 5 - offset
           padding == bs - (all % bs)
           padded  == IF padding < 4 THEN padding + bs ELSE padding
<1>1. bs \in Nat \ {0} /\ bs >= 4 /\ payload \in Nat \ {0} /\ all \in Nat
      /\ all >= 2 /\ offset \in {0, 4}
  BY PacketReadAssumption
<1>2. all % bs \in 0 .. bs - 1 /\ all % bs <= all
  BY <1>1, RemainderFacts
<1>3. Padded(payload, encrypted) = payload + 1 + padded
  BY DEF Padded
<1>4. padded \in Nat /\ padded >= 4 /\ payload + 1 \in Nat
  <2> HIDE DEF all, bs, offset
  <2> QED BY <1>1, <1>2
<1>5. padded \in {padding, padding + bs} /\ padding \in Nat /\ all + padding >= bs
  <2> HIDE DEF all, bs, offset
  <2> QED BY <1>1, <1>2
<1>6. all = payload + 1 + 4 - offset
  BY <1>1
<1>7. CASE encrypted
  <2>1. bs = Block
    BY <1>7
  <2>2. Whole(all - (all % Block)) /\ Whole(Block)
    BY <1>1, WholeFacts
  <2>3. all - (all % Block) \in Nat /\ Block \in Nat
    BY <1>1, <1>2, <2>1
  <2>4. Whole(all - (all % Block) + Block)
    BY <2>2, <2>3, WholeFacts
  <2>5. all - (all % Block) + Block = all + padding
    <3> HIDE DEF all
    <3> QED BY <1>1, <1>2, <2>1, <2>3
  <2>6. all + padding + Block \in Nat /\ all + padding \in Nat
    <3> HIDE DEF all, padding
    <3> QED BY <1>1, <1>5, <2>1
  <2>7. Whole(all + padding) /\ Whole(all + padding + Block)
    BY <2>2, <2>3, <2>4, <2>5, <2>6, WholeFacts
  <2>8. Whole(all + padded) /\ all + padded >= Block
    <3>1. \/ all + padded = all + padding
          \/ all + padded = all + padding + Block
      <4> HIDE DEF all, padding, padded
      <4> QED BY <1>1, <1>5, <2>1
    <3>2. all + padded >= Block
      <4> HIDE DEF all, padding, padded, bs
      <4> QED BY <1>1, <1>5, <2>1
    <3> QED BY <2>7, <3>1, <3>2
  <2>9. payload + 1 + padded = all + padded - 4 + offset
    <3> HIDE DEF all, padded
    <3> QED BY <1>1, <1>4, <1>6
  <2>10. CASE suite = "mac"
    <3>1. offset = 0
      BY <2>10
    <3>2. payload + 1 + padded + 4 = all + padded
      <4> HIDE DEF all, padded, offset
      <4> QED BY <1>1, <1>4, <2>9, <3>1
    <3>3. payload + 1 + padded >= 4 /\ payload + 1 + padded \in Nat
      <4> HIDE DEF padded
      <4> QED BY <1>1, <1>4
    <3> HIDE DEF all, padded
    <3> QED BY <1>3, <2>8, <2>10, <3>2, <3>3
  <2>11. CASE suite # "mac"
    <3>1. offset = 4
      BY <1>7, <2>11
    <3>2. payload + 1 + padded = all + padded
      <4> HIDE DEF all, padded, offset
      <4> QED BY <1>1, <1>4, <2>9, <3>1
    <3>3. payload + 1 + padded >= 4 /\ payload + 1 + padded \in Nat
      <4> HIDE DEF padded
      <4> QED BY <1>1, <1>4
    <3>4. payload + 1 + padded + 4 >= Block
      <4> HIDE DEF padded, all
      <4> QED BY <1>1, <1>4, <2>1, <2>8, <3>2
    <3> HIDE DEF all, padded
    <3> QED BY <1>3, <2>8, <2>11, <3>2, <3>3, <3>4
  <2> QED BY <2>10, <2>11
<1>8. CASE ~encrypted
  <2>1. payload + 1 + padded >= 4 /\ payload + 1 + padded \in Nat
    <3> HIDE DEF padded
    <3> QED BY <1>1, <1>4
  <2> HIDE DEF padded
  <2> QED BY <1>3, <1>8, <2>1
<1> QED BY <1>7, <1>8
-----------------------------------------------------------------------------
(* The inductive invariant, part by part *)

\* The packet is all there: it is delivered, or will be by the next call.
Complete == at = "full" \/ jump

Joined(i, encrypted) ==
    LET n == sent[i].length
    IN  /\ sent[i].end = EndOf(i - 1) + 4 + n + Tag(encrypted)
        /\ n >= 4
        /\ encrypted => n + 4 >= Block
        /\ encrypted /\ suite = "mac" => Whole(n + 4)
        /\ encrypted /\ suite # "mac" => n >= Block /\ Whole(n)

\* The server joins its packets without a gap.
Stream ==
    \A i \in 1 .. Len(sent) : \A encrypted \in BOOLEAN :
        (encrypted <=> i > Plain) => Joined(i, encrypted)

Buffered == taken <= received /\ received <= EndOf(Len(sent))

\* Where a call may return, less than a packet is there.
Waiting ==
    /\ jump => at = "caller" /\ blocked = "outbound"
    /\ Complete => total_num # 0 /\ data_num = total_num
    /\ total_num # 0 /\ ~Complete => data_num < total_num
    /\ total_num # 0 /\ ~Complete /\ at \in {"caller", "loop"}
          => data_num + InBuffer < total_num
    /\ at = "caller" /\ blocked = "inbound" /\ total_num = 0
          => InBuffer < BlockSize

\* How far the decryption of the current packet has come
Decrypted ==
    total_num # 0 /\ Encrypted /\ ~Etm =>
        /\ clear <= data_num
        /\ clear <= total_num - Skip
        /\ clear < data_num => clear = total_num - Skip
        /\ suite = "mac" => Whole(clear + 5)
        /\ suite = "gcm" /\ ~Complete => data_num <= total_num - Block
        /\ suite = "gcm" /\ Complete => last_part >= Block

OneWay == local_etm = (suite = "etm")

ReadInv ==
    TypeOK /\ OneWay /\ Stream /\ Buffered /\ InStep /\ Waiting /\ Decrypted

\* The numbers of a state
LEMMA Numbers ==
    ASSUME TypeOK
    PROVE  /\ received \in Nat /\ taken \in Nat /\ done \in Nat
           /\ total_num \in Nat /\ data_num \in Nat /\ clear \in Nat
           /\ packet_length \in Nat /\ last_part \in Nat
           /\ Block \in Nat /\ Block > 5 /\ MacLen \in Nat /\ MacLen > 0
           /\ BufSize \in Nat /\ BufSize >= Block /\ Plain \in Nat
           /\ suite \in {"mac", "gcm", "etm"}
           /\ Len(sent) \in Nat
BY PacketReadAssumption DEF TypeOK

\* The packet that the reader is at
LEMMA CurrentPacket ==
    ASSUME ReadInv, done < Len(sent), NEW n, n = sent[done + 1].length
    PROVE  /\ n \in Nat /\ n >= 4 /\ EndOf(done) \in Nat
           /\ EndOf(done + 1) = EndOf(done) + 4 + n + Tag(Encrypted)
           /\ Encrypted => n + 4 >= Block
           /\ Encrypted /\ suite = "mac" => Whole(n + 4)
           /\ Encrypted /\ suite # "mac" => n >= Block /\ Whole(n)
<1>1. done \in Nat /\ Len(sent) \in Nat /\ Plain \in Nat
  BY Numbers DEF ReadInv
<1>2. done + 1 \in 1 .. Len(sent) /\ (done + 1) - 1 = done /\ done + 1 # 0
  BY <1>1
<1> DEFINE P == [length : Nat, end : Nat]
<1>3. sent \in Seq(P) /\ sent[done + 1] \in P
  <2>1. sent \in Seq(P)
    BY DEF ReadInv, TypeOK
  <2> HIDE DEF P
  <2> QED BY <1>2, <2>1
<1>4. EndOf(done) \in Nat
  <2>1. CASE done = 0
    BY <2>1 DEF EndOf
  <2>2. CASE done # 0
    <3>1. done \in 1 .. Len(sent)
      BY <1>1, <2>2
    <3>2. sent[done] \in P
      <4> HIDE DEF P
      <4> QED BY <1>3, <3>1
    <3> QED BY <2>2, <3>2 DEF EndOf
  <2> QED BY <2>1, <2>2
<1>5. Encrypted = (done + 1 > Plain)
  BY <1>1 DEF Encrypted
<1>6. /\ Encrypted => Joined(done + 1, TRUE)
      /\ ~Encrypted => Joined(done + 1, FALSE)
  BY <1>2, <1>5 DEF ReadInv, Stream
<1>7. /\ sent[done + 1].end = EndOf((done + 1) - 1) + 4 + n + Tag(Encrypted)
      /\ n >= 4
      /\ Encrypted => n + 4 >= Block
      /\ Encrypted /\ suite = "mac" => Whole(n + 4)
      /\ Encrypted /\ suite # "mac" => n >= Block /\ Whole(n)
  <2>1. CASE Encrypted
    BY <1>6, <2>1 DEF Joined, Tag
  <2>2. CASE ~Encrypted
    BY <1>6, <2>2 DEF Joined, Tag
  <2> QED BY <2>1, <2>2
<1>8. EndOf(done + 1) = sent[done + 1].end
  BY <1>2 DEF EndOf
<1>9. n \in Nat
  BY <1>3
<1> QED BY <1>2, <1>4, <1>7, <1>8, <1>9

\* What a stretch of the packet does to its numbers
LEMMA StretchNumbers ==
    ASSUME ReadInv, at = "data", total_num # 0
    PROVE  /\ InBuffer \in Nat
           /\ Numbytes \in Nat /\ Numbytes <= InBuffer
           /\ Numbytes <= total_num - data_num
           /\ Numbytes # InBuffer => Numbytes = total_num - data_num
           /\ data_num < total_num
<1>1. ~Complete
  BY DEF ReadInv, Waiting, Complete
<1>2. data_num < total_num /\ taken <= received
  BY <1>1 DEF ReadInv, Waiting, Buffered
<1>3. received \in Nat /\ taken \in Nat /\ total_num \in Nat /\ data_num \in Nat
  BY Numbers DEF ReadInv
<1> QED BY <1>2, <1>3 DEF Numbytes, InBuffer, Lesser

LEMMA StretchFacts ==
    ASSUME ReadInv, at = "data", total_num # 0
    PROVE  /\ DecryptMore \in 0 .. Numbytes
           /\ CopyMore \in 0 .. Numbytes
           /\ DecryptMore + CopyMore <= Numbytes
           /\ Numbytes = total_num - data_num => DecryptMore + CopyMore = Numbytes
           /\ Encrypted /\ ~Etm =>
                /\ clear + DecryptMore <= total_num - Skip
                /\ clear + DecryptMore < data_num + DecryptMore + CopyMore
                      => clear + DecryptMore = total_num - Skip
                /\ suite = "mac" => Whole(DecryptMore)
                /\ suite = "gcm" =>
                     \/ data_num + DecryptMore + CopyMore <= total_num - Block
                     \/ /\ data_num + DecryptMore + CopyMore = total_num
                        /\ DecryptMore >= Block
                        /\ ReachesEnd
<1>1. /\ received \in Nat /\ taken \in Nat /\ done \in Nat
      /\ total_num \in Nat /\ data_num \in Nat /\ clear \in Nat
      /\ Block \in Nat /\ Block > 5 /\ MacLen \in Nat /\ MacLen > 0
  BY Numbers DEF ReadInv
<1>2. /\ Numbytes \in Nat /\ Numbytes <= total_num - data_num
      /\ data_num < total_num
  BY StretchNumbers
<1>3. Skip \in Nat
  BY <1>1 DEF Skip
<1>4. /\ Numbytes - (Numbytes % Block) \in 0 .. Numbytes
      /\ Whole(Numbytes - (Numbytes % Block))
  <2>1. Block \in Nat \ {0}
    BY <1>1
  <2>2. Numbytes % Block \in 0 .. Block - 1 /\ Numbytes % Block <= Numbytes
    BY <1>2, <2>1, RemainderFacts
  <2>3. Numbytes - (Numbytes % Block) \in 0 .. Numbytes
    BY <1>1, <1>2, <2>2
  <2> QED BY <1>2, <2>3, WholeFacts
<1>5. ~Complete
  BY DEF ReadInv, Waiting, Complete
<1>6. CASE ~Encrypted \/ Etm
  <2>1. DecryptMore = 0 /\ CopyMore = Numbytes
    BY <1>2, <1>6 DEF DecryptMore, CopyMore
  <2> QED BY <1>2, <1>6, <2>1
<1>7. CASE Encrypted /\ ~Etm
  <2>1. /\ clear <= data_num
        /\ clear <= total_num - Skip
        /\ clear < data_num => clear = total_num - Skip
        /\ suite = "mac" => Whole(clear + 5)
        /\ suite = "gcm" => data_num <= total_num - Block
    BY <1>5, <1>7 DEF ReadInv, Decrypted
  <2>2. suite \in {"mac", "gcm"}
    BY <1>7, Numbers DEF ReadInv, OneWay, Etm
  <2>3. Whole(0)
    BY WholeFacts
  <2>4. CASE ReachesEnd
    <3>1. /\ DecryptMore = Greater(0, total_num - Skip - data_num)
          /\ CopyMore = Numbytes - DecryptMore
      BY <1>7, <2>4 DEF DecryptMore, CopyMore
    <3>2. data_num + Numbytes >= total_num - Skip
      BY <2>4 DEF ReachesEnd
    <3>3. DecryptMore = IF 0 > total_num - Skip - data_num THEN 0
                        ELSE total_num - Skip - data_num
      BY <3>1 DEF Greater
    <3>4. /\ DecryptMore \in 0 .. Numbytes
          /\ CopyMore \in 0 .. Numbytes
          /\ DecryptMore + CopyMore = Numbytes
          /\ clear + DecryptMore = total_num - Skip
      BY <1>1, <1>2, <1>3, <2>1, <3>1, <3>2, <3>3
    <3>5. ASSUME suite = "mac" PROVE Whole(DecryptMore)
      <4>1. Skip = MacLen /\ done < Len(sent)
        BY <3>5, <1>5 DEF Skip, ReadInv, InStep
      <4>2. DecryptMore = 0 \/ DecryptMore = (total_num - Skip + 5) - (clear + 5)
        BY <1>1, <1>3, <3>4
      <4>3. Whole(total_num - Skip + 5) /\ total_num - Skip + 5 \in Nat
        <5> DEFINE n == sent[done + 1].length
        <5>1. /\ n \in Nat /\ EndOf(done) \in Nat /\ Whole(n + 4)
              /\ EndOf(done + 1) = EndOf(done) + 4 + n + MacLen
          BY <1>7, <3>5, <4>1, CurrentPacket DEF Tag
        <5>2. EndOf(done) + 5 + total_num = EndOf(done + 1)
          BY <1>7 DEF ReadInv, InStep, Header
        <5> HIDE DEF n
        <5>3. total_num - Skip + 5 = n + 4
          BY <1>1, <4>1, <5>1, <5>2
        <5> QED BY <5>1, <5>3
      <4>4. clear + 5 \in Nat /\ Whole(clear + 5) /\ clear + 5 <= total_num - Skip + 5
        BY <1>1, <1>3, <2>1, <3>5
      <4>5. Whole((total_num - Skip + 5) - (clear + 5))
        <5>1. ASSUME NEW a \in Nat, NEW b \in Nat, Whole(a), Whole(b), b <= a
              PROVE  Whole(a - b)
          BY <5>1, WholeFacts
        <5> HIDE DEF Whole
        <5> QED BY <4>3, <4>4, <5>1
      <4> QED BY <2>3, <4>2, <4>5
    <3>6. ASSUME suite = "gcm"
          PROVE  data_num + DecryptMore + CopyMore = total_num /\ DecryptMore >= Block
      <4>1. Skip = 0
        BY <3>6 DEF Skip
      <4> QED BY <1>1, <1>2, <2>1, <3>2, <3>3, <3>4, <3>6, <4>1
    <3> QED BY <1>1, <1>2, <1>7, <2>2, <2>4, <3>4, <3>5, <3>6
  <2>5. CASE ~ReachesEnd /\ suite = "mac"
    <3>1. DecryptMore = Numbytes - (Numbytes % Block) /\ CopyMore = 0
      BY <1>7, <2>5 DEF DecryptMore, CopyMore
    <3>2. data_num + Numbytes < total_num - Skip
      BY <1>1, <1>2, <1>3, <2>5 DEF ReachesEnd
    <3>3. DecryptMore \in 0 .. Numbytes /\ Whole(DecryptMore)
      BY <1>4, <3>1
    <3>4. Numbytes # total_num - data_num /\ clear = data_num
      BY <1>1, <1>2, <1>3, <2>1, <3>2
    <3> HIDE DEF Numbytes, DecryptMore, CopyMore
    <3> QED BY <1>1, <1>2, <1>3, <2>1, <2>5, <3>1, <3>2, <3>3, <3>4
  <2>6. CASE ~ReachesEnd /\ suite = "gcm"
    <3>1. /\ DecryptMore = Lesser(Numbytes - (Numbytes % Block),
                                  total_num - Block - data_num)
          /\ CopyMore = 0 /\ Skip = 0
      BY <1>7, <2>6 DEF DecryptMore, CopyMore, Skip
    <3>2. data_num + Numbytes < total_num - Skip
      BY <1>1, <1>2, <1>3, <2>6 DEF ReachesEnd
    <3> DEFINE whole == Numbytes - (Numbytes % Block)
    <3>3. DecryptMore = IF whole < total_num - Block - data_num THEN whole
                        ELSE total_num - Block - data_num
      BY <3>1 DEF Lesser
    <3>4. DecryptMore \in 0 .. Numbytes /\ DecryptMore <= total_num - Block - data_num
      <4>1. whole \in 0 .. Numbytes
        BY <1>4
      <4> HIDE DEF whole
      <4> QED BY <1>1, <1>2, <2>1, <2>6, <3>3, <4>1
    <3>5. Numbytes # total_num - data_num /\ clear = data_num
      BY <1>1, <1>2, <1>3, <2>1, <3>1, <3>2
    <3> HIDE DEF whole
    <3> QED BY <1>1, <1>2, <2>1, <2>6, <3>1, <3>4, <3>5
  <2> QED BY <2>2, <2>4, <2>5, <2>6
<1> QED BY <1>6, <1>7

-----------------------------------------------------------------------------
(* One lemma per action *)

\* Steps that take no byte
Control ==
    \/ Call
    \/ EnoughInBuffer
    \/ RecvWaits
    \/ ReadFails
    \/ BeginWaits
    \/ DeliveryWaits

LEMMA ControlKeepsInv ==
    ASSUME ReadInv, Control
    PROVE  ReadInv'
<1>1. UNCHANGED <<suite, local_etm, sent, received, taken, done, packetVars>>
  BY DEF Control, Call, EnoughInBuffer, RecvWaits, ReadFails, BeginWaits,
         DeliveryWaits
<1>2. /\ Encrypted' = Encrypted /\ Etm' = Etm /\ Header' = Header
      /\ BlockSize' = BlockSize /\ InBuffer' = InBuffer /\ Skip' = Skip
  BY <1>1 DEF Encrypted, Etm, Header, BlockSize, InBuffer, Skip
<1>3. TypeOK'
  <2>1. TypeOK
    BY DEF ReadInv
  <2>2. /\ jump' \in BOOLEAN
        /\ blocked' \in {"none", "inbound", "outbound"}
        /\ at' \in Places
    BY <2>1 DEF TypeOK, Control, Call, EnoughInBuffer, RecvWaits, ReadFails,
                BeginWaits, DeliveryWaits, Returns, Places
  <2> QED BY <1>1, <2>1, <2>2 DEF TypeOK, packetVars
<1>4. OneWay' /\ Stream' /\ Buffered'
  BY <1>1 DEF ReadInv, OneWay, Stream, Joined, EndOf, Tag, Buffered
<1>5. InStep'
  BY <1>1, <1>2 DEF ReadInv, InStep, EndOf, packetVars
<1>6. Complete' = Complete
  <2>1. jump => at = "caller"
    BY DEF ReadInv, Waiting
  <2> QED BY <2>1 DEF Complete, Control, Call, EnoughInBuffer, RecvWaits, ReadFails,
                      BeginWaits, DeliveryWaits, Returns
<1>7. Decrypted'
  BY <1>1, <1>2, <1>6 DEF ReadInv, Decrypted, packetVars
<1>8. Waiting'
  <2>1. Waiting
    BY DEF ReadInv
  <2>2. jump' => at' = "caller" /\ blocked' = "outbound"
    BY <2>1 DEF Waiting, Control, Call, EnoughInBuffer, RecvWaits, ReadFails,
                BeginWaits, DeliveryWaits, Returns
  <2>3. Complete' => total_num' # 0 /\ data_num' = total_num'
    BY <1>1, <1>6, <2>1 DEF Waiting, packetVars
  <2>4. total_num' # 0 /\ ~Complete' => data_num' < total_num'
    BY <1>1, <1>6, <2>1 DEF Waiting, packetVars
  <2>5. total_num' # 0 /\ ~Complete' /\ at' \in {"caller", "loop"}
            => data_num' + InBuffer' < total_num'
    <3>1. total_num # 0 /\ ~Complete /\ at' \in {"caller", "loop"}
              => at \in {"caller", "loop"}
      BY DEF Control, Call, EnoughInBuffer, RecvWaits, ReadFails, BeginWaits,
             DeliveryWaits, Returns, Complete
    <3> QED BY <1>1, <1>2, <1>6, <2>1, <3>1 DEF Waiting, packetVars
  <2>6. at' = "caller" /\ blocked' = "inbound" /\ total_num' = 0
            => InBuffer' < BlockSize'
    <3>1. ASSUME at' = "caller", blocked' = "inbound", total_num = 0
          PROVE  InBuffer < BlockSize \/ InBuffer < Required
      BY <3>1, <2>1 DEF Waiting, Control, Call, EnoughInBuffer, RecvWaits, ReadFails,
            BeginWaits, DeliveryWaits, Returns, NeedsMore
    <3>2. Required <= BlockSize /\ Required \in Nat /\ BlockSize \in Nat
      BY Numbers DEF ReadInv, Required, BlockSize, Etm
    <3>3. InBuffer \in Int
      BY Numbers DEF ReadInv, InBuffer
    <3> QED BY <1>1, <1>2, <3>1, <3>2, <3>3 DEF packetVars
  <2> QED BY <2>2, <2>3, <2>4, <2>5, <2>6 DEF Waiting
<1> QED BY <1>3, <1>4, <1>5, <1>7, <1>8 DEF ReadInv

LEMMA RecvKeepsInv ==
    ASSUME ReadInv, Recv
    PROVE  ReadInv'
<1>1. PICK n \in 1 .. Lesser(Space, EndOf(Len(sent)) - received) : received' = received + n
  BY DEF Recv
<1>2. /\ UNCHANGED <<suite, local_etm, sent, taken, done, packetVars, jump, blocked>>
      /\ at = "loop" /\ at' = "data"
  BY DEF Recv
<1>3. /\ received \in Nat /\ taken \in Nat /\ BufSize \in Nat /\ Len(sent) \in Nat
      /\ taken <= received
  BY Numbers DEF ReadInv, Buffered
<1>4. EndOf(Len(sent)) \in Nat
  <2> DEFINE P == [length : Nat, end : Nat]
  <2>1. sent \in Seq(P)
    BY DEF ReadInv, TypeOK
  <2>2. CASE Len(sent) = 0
    BY <2>2 DEF EndOf
  <2>3. CASE Len(sent) # 0
    <3>1. sent[Len(sent)] \in P
      <4> HIDE DEF P
      <4> QED BY <1>3, <2>1, <2>3
    <3> QED BY <2>3, <3>1 DEF EndOf
  <2> QED BY <2>2, <2>3
<1>5. /\ received' \in Nat /\ received' <= EndOf(Len(sent))
      /\ received' - taken <= BufSize /\ taken <= received'
  <2>1. n \in Nat /\ n <= BufSize - (received - taken) /\ n <= EndOf(Len(sent)) - received
    BY <1>1, <1>3, <1>4 DEF Lesser, Space, InBuffer
  <2> QED BY <1>1, <1>3, <1>4, <2>1
<1>6. TypeOK'
  BY <1>2, <1>5 DEF ReadInv, TypeOK, packetVars, Places
<1>7. /\ Encrypted' = Encrypted /\ Etm' = Etm /\ Header' = Header /\ Skip' = Skip
  BY <1>2 DEF Encrypted, Etm, Header, Skip
<1>8. ~jump /\ ~Complete /\ ~Complete'
  BY <1>2 DEF ReadInv, Waiting, Complete
<1>9. OneWay' /\ Stream'
  BY <1>2 DEF ReadInv, OneWay, Stream, Joined, EndOf, Tag
<1>10. Buffered'
  BY <1>2, <1>5 DEF Buffered, EndOf
<1>11. InStep'
  BY <1>2, <1>7 DEF ReadInv, InStep, EndOf, packetVars
<1>12. Decrypted'
  BY <1>2, <1>7, <1>8 DEF ReadInv, Decrypted, packetVars
<1>13. Waiting'
  BY <1>2, <1>8 DEF ReadInv, Waiting, packetVars
<1> QED BY <1>6, <1>9, <1>10, <1>11, <1>12, <1>13 DEF ReadInv

LEMMA BeginKeepsInv ==
    ASSUME ReadInv, BeginPacket
    PROVE  ReadInv'
<1> DEFINE n   == sent[done + 1].length
           tag == Tag(Encrypted)
<1>1. /\ UNCHANGED <<suite, local_etm, sent, received, done, jump, blocked>>
      /\ at = "data" /\ total_num = 0 /\ InBuffer >= Required /\ last_part' = 0
      /\ packet_length' = LengthField
  BY DEF BeginPacket
<1>2. /\ received \in Nat /\ taken \in Nat /\ done \in Nat /\ Len(sent) \in Nat
      /\ Block \in Nat /\ Block > 5 /\ MacLen \in Nat /\ MacLen > 0 /\ BufSize \in Nat
      /\ suite \in {"mac", "gcm", "etm"}
      /\ received - taken <= BufSize
  BY Numbers DEF ReadInv, TypeOK
<1>3. taken = EndOf(done) /\ done <= Len(sent)
  BY <1>1 DEF ReadInv, InStep
<1>4. Required \in Nat /\ Required > 0 /\ taken < received
  <2>1. Required \in Nat /\ Required > 0
    BY <1>2 DEF Required, BlockSize
  <2> QED BY <1>1, <1>2, <2>1 DEF InBuffer
<1>5. done < Len(sent)
  <2>1. received <= EndOf(Len(sent))
    BY DEF ReadInv, Buffered
  <2>2. done = Len(sent) => received <= taken
    BY <1>3, <2>1
  <2> QED BY <1>2, <1>3, <1>4, <2>2
<1>6. /\ n \in Nat /\ n >= 4 /\ EndOf(done) \in Nat
      /\ EndOf(done + 1) = EndOf(done) + 4 + n + tag
      /\ Encrypted => n + 4 >= Block
      /\ Encrypted /\ suite = "mac" => Whole(n + 4)
      /\ Encrypted /\ suite # "mac" => n >= Block /\ Whole(n)
  BY <1>5, CurrentPacket
<1>7. LengthField = n
  <2>1. Readable
    BY DEF ReadInv, OneWay, Readable, Etm
  <2> QED BY <1>2, <1>3, <1>5, <2>1 DEF LengthField
<1>8. ~jump /\ ~Complete /\ ~Complete'
  <2>1. ~jump
    BY <1>1 DEF ReadInv, Waiting
  <2>2. at' # "full"
    BY <1>1 DEF BeginPacket
  <2> QED BY <1>1, <2>1, <2>2 DEF Complete
<1>11. /\ tag \in Nat
       /\ Encrypted => tag = (IF suite = "gcm" THEN Block ELSE MacLen)
       /\ Etm => Encrypted
  BY <1>2 DEF Tag, Etm
<1>19. Etm => TotalNum = 4 + n + tag
  BY <1>7, <1>11 DEF TotalNum, Tag, Etm, ReadInv, OneWay
<1>20. ~Etm => TotalNum = n - 1 + tag
  BY <1>7 DEF TotalNum
<1> HIDE DEF n, tag
<1>9. /\ at' = "data"
      /\ total_num' = TotalNum
      /\ taken' = IF Etm THEN taken ELSE taken + BlockSize
      /\ data_num' = IF Etm THEN 0 ELSE BlockSize - 5
      /\ clear' = data_num'
  BY <1>1, <1>6, <1>7 DEF BeginPacket
<1>10. /\ Encrypted' = Encrypted /\ Etm' = Etm /\ Header' = Header /\ Skip' = Skip
       /\ EndOf(done + 1)' = EndOf(done + 1) /\ EndOf(done)' = EndOf(done)
  BY <1>1 DEF Encrypted, Etm, Header, Skip, EndOf
<1>12. /\ total_num' \in Nat /\ data_num' \in Nat /\ data_num' < total_num'
       /\ taken' \in Nat /\ taken' <= received /\ received - taken' <= BufSize
       /\ taken' = EndOf(done) + Header + data_num'
       /\ EndOf(done) + Header + total_num' = EndOf(done + 1)
       /\ Encrypted /\ ~Etm => /\ data_num' = Block - 5
                               /\ total_num' = n - 1 + tag
  <2>1. CASE Etm
    <3>1. total_num' = 4 + n + tag /\ taken' = taken /\ data_num' = 0
          /\ Header = 0
      BY <1>9, <1>19, <2>1 DEF Header
    <3> QED BY <1>2, <1>3, <1>4, <1>6, <1>11, <2>1, <3>1
  <2>2. CASE ~Etm /\ Encrypted
    <3>1. /\ total_num' = n - 1 + tag /\ taken' = taken + Block
          /\ data_num' = Block - 5 /\ Header = 5 /\ InBuffer >= Block
      BY <1>1, <1>9, <1>20, <2>2 DEF Header, BlockSize, Required
    <3>2. received - taken >= Block
      BY <3>1 DEF InBuffer
    <3>3. tag > 0
      BY <1>2, <1>11, <2>2
    <3>4. /\ n \in Nat /\ n + 4 >= Block /\ EndOf(done) \in Nat /\ tag \in Nat
          /\ EndOf(done + 1) = EndOf(done) + 4 + n + tag /\ taken = EndOf(done)
          /\ taken < received
      BY <1>3, <1>4, <1>6, <1>11, <2>2
    <3>5. /\ total_num' \in Nat /\ data_num' \in Nat /\ data_num' < total_num'
      BY <1>2, <3>1, <3>2, <3>3, <3>4
    <3>6. /\ taken' \in Nat /\ taken' <= received /\ received - taken' <= BufSize
      <4>1. taken' = taken + Block /\ taken \in Nat
        BY <1>2, <3>1
      <4> QED BY <1>2, <3>2, <4>1
    <3>7. taken' = EndOf(done) + Header + data_num'
      BY <1>2, <3>1, <3>2, <3>3, <3>4
    <3>8. EndOf(done) + Header + total_num' = EndOf(done + 1)
      BY <1>2, <3>1, <3>2, <3>3, <3>4
    <3> QED BY <2>2, <3>1, <3>5, <3>6, <3>7, <3>8
  <2>3. CASE ~Etm /\ ~Encrypted
    <3>1. /\ total_num' = n - 1 + tag /\ taken' = taken + 5
          /\ data_num' = 5 - 5 /\ Header = 5 /\ InBuffer >= 5
      BY <1>1, <1>9, <1>20, <2>3 DEF Header, BlockSize, Required
    <3>2. received - taken >= 5
      BY <3>1 DEF InBuffer
    <3>3. /\ n \in Nat /\ n >= 4 /\ EndOf(done) \in Nat /\ tag \in Nat
          /\ EndOf(done + 1) = EndOf(done) + 4 + n + tag /\ taken = EndOf(done)
          /\ taken < received
      BY <1>3, <1>4, <1>6, <1>11, <2>3
    <3>5. /\ total_num' \in Nat /\ data_num' \in Nat /\ data_num' < total_num'
      BY <1>2, <3>1, <3>2, <3>3
    <3>6. /\ taken' \in Nat /\ taken' <= received /\ received - taken' <= BufSize
      BY <1>2, <3>1, <3>2, <3>3
    <3>7. taken' = EndOf(done) + Header + data_num'
      BY <1>2, <3>1, <3>2, <3>3
    <3>8. EndOf(done) + Header + total_num' = EndOf(done + 1)
      BY <1>2, <3>1, <3>2, <3>3
    <3> QED BY <2>3, <3>1, <3>5, <3>6, <3>7, <3>8
  <2> QED BY <2>1, <2>2, <2>3
<1>13. TypeOK'
  <2>1. packet_length' \in Nat /\ clear' \in Nat /\ last_part' \in Nat /\ at' \in Places
    BY <1>1, <1>6, <1>7, <1>9, <1>12 DEF Places
  <2> QED BY <1>1, <1>12, <2>1 DEF ReadInv, TypeOK
<1>14. OneWay' /\ Stream'
  BY <1>1 DEF ReadInv, OneWay, Stream, Joined, EndOf, Tag
<1>15. Buffered'
  BY <1>1, <1>12 DEF ReadInv, Buffered, EndOf
<1>16. InStep'
  <2>1. packet_length' = sent'[done' + 1].length
    BY <1>1, <1>7 DEF n
  <2>2. total_num' # 0
    BY <1>12
  <2> QED BY <1>1, <1>2, <1>3, <1>5, <1>10, <1>12, <2>1, <2>2 DEF InStep
<1>17. Waiting'
  BY <1>1, <1>8, <1>9, <1>12 DEF Waiting
<1>18. Decrypted'
  <2> SUFFICES ASSUME Encrypted, ~Etm
               PROVE  /\ clear' <= data_num'
                      /\ clear' <= total_num' - Skip
                      /\ clear' < data_num' => clear' = total_num' - Skip
                      /\ suite = "mac" => Whole(clear' + 5)
                      /\ suite = "gcm" => data_num' <= total_num' - Block
    BY <1>1, <1>8, <1>10 DEF Decrypted
  <2>1. suite \in {"mac", "gcm"}
    BY <1>2 DEF ReadInv, OneWay, Etm
  <2>2. /\ clear' = Block - 5 /\ data_num' = Block - 5
        /\ total_num' = n - 1 + tag
    BY <1>9, <1>12
  <2>3. CASE suite = "mac"
    <3>1. tag = MacLen /\ Skip = MacLen /\ n + 4 >= Block
      BY <1>6, <1>11, <2>3 DEF Skip
    <3>2. clear' + 5 = Block /\ Whole(Block)
      BY <1>2, <2>2, WholeFacts
    <3> QED BY <1>2, <1>6, <2>2, <2>3, <3>1, <3>2
  <2>4. CASE suite = "gcm"
    <3>1. tag = Block /\ Skip = 0 /\ n >= Block
      BY <1>6, <1>11, <2>4 DEF Skip
    <3> QED BY <1>2, <1>6, <2>2, <2>4, <3>1
  <2> QED BY <2>1, <2>3, <2>4
<1> QED BY <1>13, <1>14, <1>15, <1>16, <1>17, <1>18 DEF ReadInv

LEMMA CollectKeepsInv ==
    ASSUME ReadInv, Collect
    PROVE  ReadInv'
<1>1. /\ UNCHANGED <<suite, local_etm, sent, received, done, packet_length, total_num,
                     jump, blocked>>
      /\ at = "data" /\ total_num # 0
      /\ taken' = taken + DecryptMore + CopyMore
      /\ data_num' = data_num + DecryptMore + CopyMore
      /\ clear' = clear + DecryptMore
      /\ last_part' = IF DecryptMore > 0 THEN LastPart(DecryptMore) ELSE last_part
      /\ at' = IF data_num' = total_num THEN "full" ELSE "loop"
  BY DEF Collect
<1>2. /\ received \in Nat /\ taken \in Nat /\ done \in Nat /\ total_num \in Nat
      /\ data_num \in Nat /\ clear \in Nat /\ last_part \in Nat
      /\ Block \in Nat /\ Block > 5 /\ MacLen \in Nat /\ BufSize \in Nat
      /\ received - taken <= BufSize /\ taken <= received
  BY Numbers DEF ReadInv, TypeOK, Buffered
<1>3. /\ InBuffer \in Nat
      /\ Numbytes \in Nat /\ Numbytes <= InBuffer
      /\ Numbytes <= total_num - data_num
      /\ Numbytes # InBuffer => Numbytes = total_num - data_num
      /\ data_num < total_num
  BY <1>1, StretchNumbers
<1>4. /\ DecryptMore \in 0 .. Numbytes
      /\ CopyMore \in 0 .. Numbytes
      /\ DecryptMore + CopyMore <= Numbytes
      /\ Numbytes = total_num - data_num => DecryptMore + CopyMore = Numbytes
  BY <1>1, StretchFacts
<1>5. ASSUME Encrypted, ~Etm
      PROVE  /\ clear + DecryptMore <= total_num - Skip
             /\ clear + DecryptMore < data_num + DecryptMore + CopyMore
                   => clear + DecryptMore = total_num - Skip
             /\ suite = "mac" => Whole(DecryptMore)
             /\ suite = "gcm" =>
                  \/ data_num + DecryptMore + CopyMore <= total_num - Block
                  \/ /\ data_num + DecryptMore + CopyMore = total_num
                     /\ DecryptMore >= Block
                     /\ ReachesEnd
  BY <1>1, <1>5, StretchFacts
<1>6. ~jump /\ ~Complete /\ (Complete' <=> data_num' = total_num)
  <2>1. ~jump
    BY <1>1 DEF ReadInv, Waiting
  <2> QED BY <1>1, <2>1 DEF Complete
<1>7. /\ Encrypted' = Encrypted /\ Etm' = Etm /\ Header' = Header /\ Skip' = Skip
      /\ EndOf(done + 1)' = EndOf(done + 1) /\ EndOf(done)' = EndOf(done)
  BY <1>1 DEF Encrypted, Etm, Header, Skip, EndOf
<1>8. InBuffer = received - taken /\ InBuffer' = received - taken'
  BY <1>1 DEF InBuffer
<1>9. DecryptMore \in Nat /\ CopyMore \in Nat
  <2> HIDE DEF DecryptMore, CopyMore, Numbytes
  <2> QED BY <1>3, <1>4
<1>10. taken' \in Nat /\ data_num' \in Nat /\ clear' \in Nat
  BY <1>1, <1>2, <1>9
<1>11. data_num' <= total_num /\ taken' <= received /\ received - taken' <= BufSize
  BY <1>1, <1>2, <1>3, <1>4, <1>8, <1>9
<1>12. /\ data_num' # total_num => data_num' + InBuffer' < total_num
       /\ InBuffer' \in Nat
  BY <1>1, <1>2, <1>3, <1>4, <1>8, <1>9, <1>11
<1>13. last_part' \in Nat
  <2>1. ASSUME DecryptMore > 0 PROVE LastPart(DecryptMore) \in Nat
    <3>1. DecryptMore % Block \in 0 .. Block - 1
      <4>1. Block \in Nat \ {0}
        BY <1>2
      <4> QED BY <1>9, <4>1, RemainderFacts
    <3> QED BY <1>2, <1>9, <3>1 DEF LastPart
  <2> QED BY <1>1, <1>2, <2>1
<1>14. TypeOK'
  <2>1. at' \in Places
    BY <1>1 DEF Places
  <2> QED BY <1>1, <1>10, <1>11, <1>13, <2>1 DEF ReadInv, TypeOK
<1>15. OneWay' /\ Stream'
  BY <1>1 DEF ReadInv, OneWay, Stream, Joined, EndOf, Tag
<1>16. Buffered'
  BY <1>1, <1>11 DEF ReadInv, Buffered, EndOf
<1>17. InStep'
  <2>1. /\ done < Len(sent)
        /\ packet_length = sent[done + 1].length
        /\ taken = EndOf(done) + Header + data_num
        /\ EndOf(done) + Header + total_num = EndOf(done + 1)
    BY <1>1 DEF ReadInv, InStep
  <2>2. EndOf(done) \in Nat /\ Header \in Nat
    BY <2>1, CurrentPacket DEF Header
  <2>3. taken' = EndOf(done) + Header + data_num'
    <3>1. /\ taken' = taken + DecryptMore + CopyMore
          /\ data_num' = data_num + DecryptMore + CopyMore
          /\ taken = EndOf(done) + Header + data_num
      BY <1>1, <2>1
    <3>2. data_num \in Nat
      BY <1>2
    <3> HIDE DEF Header, EndOf, DecryptMore, CopyMore
    <3> QED BY <1>9, <2>2, <3>1, <3>2
  <2> QED BY <1>1, <1>2, <1>7, <2>1, <2>3, Numbers DEF ReadInv, InStep
<1>18. Waiting'
  BY <1>1, <1>2, <1>6, <1>10, <1>11, <1>12 DEF Waiting
<1>19. Decrypted'
  <2> SUFFICES ASSUME Encrypted, ~Etm
               PROVE  /\ clear' <= data_num'
                      /\ clear' <= total_num - Skip
                      /\ clear' < data_num' => clear' = total_num - Skip
                      /\ suite = "mac" => Whole(clear' + 5)
                      /\ suite = "gcm" /\ ~Complete' => data_num' <= total_num - Block
                      /\ suite = "gcm" /\ Complete' => last_part' >= Block
    BY <1>1, <1>7 DEF Decrypted
  <2>1. clear <= data_num /\ (suite = "mac" => Whole(clear + 5))
    BY <1>1 DEF ReadInv, Decrypted
  <2>2. clear' <= data_num'
    BY <1>1, <1>2, <1>9, <2>1
  <2>3. clear' <= total_num - Skip
    BY <1>1, <1>5
  <2>4. clear' < data_num' => clear' = total_num - Skip
    BY <1>1, <1>5
  <2>5. ASSUME suite = "mac" PROVE Whole(clear' + 5)
    <3>1. Whole(clear + 5) /\ Whole(DecryptMore) /\ clear + 5 \in Nat
      BY <1>2, <1>5, <2>1, <2>5
    <3>2. Whole((clear + 5) + DecryptMore)
      <4> HIDE DEF Whole
      <4> QED BY <1>9, <3>1, WholeFacts
    <3>3. clear' + 5 = (clear + 5) + DecryptMore
      BY <1>1, <1>2, <1>9
    <3> QED BY <3>2, <3>3
  <2>6. ASSUME suite = "gcm", ~Complete' PROVE data_num' <= total_num - Block
    BY <1>1, <1>5, <1>6, <2>6
  <2>7. ASSUME suite = "gcm", Complete' PROVE last_part' >= Block
    <3>1. data_num' = total_num
      BY <1>6, <2>7
    <3>2. ~(data_num' <= total_num - Block)
      BY <1>2, <3>1
    <3>3. DecryptMore >= Block /\ ReachesEnd
      BY <1>1, <1>5, <2>7, <3>2
    <3>4. DecryptMore > 0 /\ DecryptMore % Block \in 0 .. Block - 1
      <4>1. Block \in Nat \ {0}
        BY <1>2
      <4>2. DecryptMore % Block \in 0 .. Block - 1
        BY <1>9, <4>1, RemainderFacts
      <4> QED BY <1>2, <1>9, <3>3, <4>2
    <3>5. LastPart(DecryptMore) = Block + (DecryptMore % Block)
      <4>1. ~(DecryptMore < Block)
        BY <1>2, <1>9, <3>3
      <4> QED BY <2>7, <3>3, <4>1 DEF LastPart
    <3>6. last_part' = LastPart(DecryptMore)
      BY <1>1, <3>4
    <3> QED BY <1>2, <3>4, <3>5, <3>6
  <2> QED BY <2>2, <2>3, <2>4, <2>5, <2>6, <2>7
<1> QED BY <1>14, <1>15, <1>16, <1>17, <1>18, <1>19 DEF ReadInv

LEMMA DeliveredKeepsInv ==
    ASSUME ReadInv, Delivered
    PROVE  ReadInv'
<1>1. /\ UNCHANGED <<suite, local_etm, sent, received, taken, packet_length, data_num,
                     clear, last_part, jump>>
      /\ at = "full" /\ total_num' = 0 /\ done' = done + 1
      /\ at' = "caller" /\ blocked' \in {"none", "outbound"}
  BY DEF Delivered, Returns
<1>2. total_num # 0 /\ data_num = total_num /\ ~jump
  BY <1>1 DEF ReadInv, Waiting, Complete
<1>3. /\ done \in Nat /\ Len(sent) \in Nat /\ done < Len(sent)
      /\ taken = EndOf(done) + Header + data_num
      /\ EndOf(done) + Header + total_num = EndOf(done + 1)
  BY <1>2, Numbers DEF ReadInv, InStep
<1>4. TypeOK'
  BY <1>1, <1>3 DEF ReadInv, TypeOK, Places
<1>5. OneWay' /\ Stream'
  BY <1>1 DEF ReadInv, OneWay, Stream, Joined, EndOf, Tag
<1>6. Buffered'
  BY <1>1 DEF ReadInv, Buffered, EndOf
<1>7. InStep'
  <2>1. taken' = EndOf(done + 1) /\ EndOf(done + 1) = EndOf(done)'
    BY <1>1, <1>2, <1>3 DEF EndOf
  <2> QED BY <1>1, <1>3, <2>1 DEF InStep
<1>8. Waiting' /\ Decrypted'
  BY <1>1, <1>2 DEF Waiting, Decrypted, Complete
<1> QED BY <1>4, <1>5, <1>6, <1>7, <1>8 DEF ReadInv

LEMMA ServerSendsKeepsInv ==
    ASSUME ReadInv, ServerSends
    PROVE  ReadInv'
<1> DEFINE P         == [length : Nat, end : Nat]
           last      == Len(sent) + 1
           encrypted == Len(sent) >= Plain
<1>1. UNCHANGED <<suite, local_etm, received, taken, done, packetVars, jump, blocked, at>>
  BY DEF ServerSends
<1>2. PICK payload \in Payloads :
          sent' = Append(sent, [length |-> Padded(payload, encrypted),
                    end |-> EndOf(Len(sent)) + 4 + Padded(payload, encrypted)
                            + Tag(encrypted)])
  BY DEF ServerSends
<1> DEFINE n   == Padded(payload, encrypted)
           tag == Tag(encrypted)
           end == EndOf(Len(sent)) + 4 + n + tag
<1>3. /\ Len(sent) \in Nat /\ done \in Nat /\ received \in Nat /\ Plain \in Nat
      /\ sent \in Seq(P)
      /\ received <= EndOf(Len(sent)) /\ taken <= received /\ done <= Len(sent)
      /\ Block \in Nat /\ MacLen \in Nat
  BY Numbers DEF ReadInv, TypeOK, Buffered, InStep
<1>4. encrypted \in BOOLEAN
  OBVIOUS
<1>5. /\ n \in Nat /\ n >= 4
      /\ encrypted => n + 4 >= Block
      /\ encrypted /\ suite = "mac" => Whole(n + 4)
      /\ encrypted /\ suite # "mac" => n >= Block /\ Whole(n)
  BY <1>4, PaddedFacts
<1>6. Tag(encrypted) \in Nat
  BY <1>3 DEF Tag
<1>7. EndOf(Len(sent)) \in Nat
  <2>1. CASE Len(sent) = 0
    BY <2>1 DEF EndOf
  <2>2. CASE Len(sent) # 0
    <3>1. sent[Len(sent)] \in P
      <4> HIDE DEF P
      <4> QED BY <1>3, <2>2
    <3> QED BY <2>2, <3>1 DEF EndOf
  <2> QED BY <2>1, <2>2
<1>8. end \in Nat /\ end >= EndOf(Len(sent))
  <2>1. tag \in Nat
    BY <1>6
  <2>2. n \in Nat /\ n >= 4
    BY <1>5
  <2> HIDE DEF n, tag
  <2> QED BY <1>7, <2>1, <2>2
<1>9. /\ sent' \in Seq(P) /\ Len(sent') = last
      /\ \A i \in 1 .. Len(sent) : sent'[i] = sent[i]
      /\ sent'[last] = [length |-> n, end |-> end]
  <2>1. sent' = Append(sent, [length |-> n, end |-> end])
    BY <1>2
  <2>2. [length |-> n, end |-> end] \in P
    BY <1>5, <1>8
  <2> HIDE DEF P, n, end, encrypted
  <2> QED BY <1>3, <2>1, <2>2
<1>10. \A i \in 0 .. Len(sent) : EndOf(i)' = EndOf(i)
  BY <1>3, <1>9 DEF EndOf
<1>11. EndOf(Len(sent))' = end
  <2>1. Len(sent') # 0 /\ sent'[Len(sent')].end = end
    <3> HIDE DEF n, end
    <3> QED BY <1>3, <1>9
  <2> QED BY <2>1 DEF EndOf
<1>12. TypeOK'
  BY <1>1, <1>9 DEF ReadInv, TypeOK, packetVars, Places
<1>13. OneWay'
  BY <1>1 DEF ReadInv, OneWay
<1>14. Buffered'
  <2> HIDE DEF end
  <2> QED BY <1>1, <1>3, <1>7, <1>8, <1>11 DEF Buffered
<1>15. /\ Encrypted' = Encrypted /\ Etm' = Etm /\ Header' = Header /\ Skip' = Skip
       /\ BlockSize' = BlockSize /\ InBuffer' = InBuffer /\ Complete' = Complete
  BY <1>1 DEF Encrypted, Etm, Header, Skip, BlockSize, InBuffer, Complete
<1>16. InStep'
  <2>1. done \in 0 .. Len(sent)
    BY <1>3
  <2>2. EndOf(done)' = EndOf(done)
    BY <1>1, <1>10, <2>1 DEF EndOf
  <2>3. ASSUME total_num # 0
        PROVE  /\ done < Len(sent)
               /\ packet_length = sent[done + 1].length
               /\ EndOf(done + 1)' = EndOf(done + 1)
               /\ sent'[done + 1] = sent[done + 1]
    <3>1. done < Len(sent) /\ packet_length = sent[done + 1].length
      BY <2>3 DEF ReadInv, InStep
    <3>2. done + 1 \in 1 .. Len(sent) /\ done + 1 \in 0 .. Len(sent)
      BY <1>3, <3>1
    <3> QED BY <1>1, <1>9, <1>10, <3>1, <3>2 DEF EndOf
  <2>4. done' <= Len(sent')
    BY <1>1, <1>3, <1>9
  <2>5. ASSUME total_num' = 0 PROVE taken' = EndOf(done)'
    BY <1>1, <2>2, <2>5 DEF ReadInv, InStep, packetVars
  <2>6. ASSUME total_num' # 0
        PROVE  /\ done' < Len(sent')
               /\ packet_length' = sent'[done' + 1].length
    <3>1. total_num # 0 /\ done' = done /\ packet_length' = packet_length
      BY <1>1, <2>6 DEF packetVars
    <3>2. done < Len(sent) /\ packet_length = sent[done + 1].length
      BY <2>3, <3>1
    <3>3. Len(sent') = Len(sent) + 1
      BY <1>9
    <3>4. done' < Len(sent')
      <4> HIDE DEF n, end, tag, encrypted, P, last
      <4> QED BY <1>3, <3>1, <3>2, <3>3
    <3>5. sent'[done + 1] = sent[done + 1]
      BY <2>3, <3>1
    <3> QED BY <3>1, <3>2, <3>4, <3>5
  <2>7. ASSUME total_num' # 0
        PROVE  /\ taken' = EndOf(done)' + Header' + data_num'
               /\ EndOf(done)' + Header' + total_num' = EndOf(done + 1)'
    <3>1. total_num # 0 /\ taken' = taken /\ data_num' = data_num /\ total_num' = total_num
      BY <1>1, <2>7 DEF packetVars
    <3>2. /\ taken = EndOf(done) + Header + data_num
          /\ EndOf(done) + Header + total_num = EndOf(done + 1)
      BY <3>1 DEF ReadInv, InStep
    <3>3. EndOf(done + 1)' = EndOf(done + 1)
      BY <2>3, <3>1
    <3> QED BY <1>15, <2>2, <3>1, <3>2, <3>3
  <2> QED BY <2>4, <2>5, <2>6, <2>7 DEF InStep
<1>17. Waiting' /\ Decrypted'
  BY <1>1, <1>15 DEF ReadInv, Waiting, Decrypted, packetVars
<1>18. Stream'
  <2> SUFFICES ASSUME NEW i \in 1 .. last, NEW e \in BOOLEAN, e <=> i > Plain
               PROVE  Joined(i, e)'
    BY <1>9 DEF Stream
  <2>1. CASE i \in 1 .. Len(sent)
    <3>1. sent'[i] = sent[i] /\ EndOf(i - 1)' = EndOf(i - 1)
      <4>1. i - 1 \in 0 .. Len(sent)
        BY <1>3, <2>1
      <4> QED BY <1>9, <1>10, <2>1, <4>1 DEF EndOf
    <3>2. Joined(i, e)
      BY <2>1 DEF ReadInv, Stream
    <3> QED BY <1>1, <3>1, <3>2 DEF Joined, Tag
  <2>2. CASE i = last
    <3>1. i - 1 = Len(sent) /\ (e <=> encrypted)
      BY <1>3, <2>2
    <3>2. sent'[i].length = n /\ sent'[i].end = end
      BY <1>9, <2>2
    <3>3. EndOf(i - 1)' = EndOf(Len(sent))
      BY <1>3, <1>10, <2>2, <3>1 DEF EndOf
    <3>4. Tag(e)' = Tag(encrypted)
      BY <1>1, <3>1 DEF Tag
    <3>5. /\ n >= 4
          /\ e => n + 4 >= Block
          /\ e /\ suite' = "mac" => Whole(n + 4)
          /\ e /\ suite' # "mac" => n >= Block /\ Whole(n)
      BY <1>1, <1>5, <3>1
    <3>6. sent'[i].end = EndOf(i - 1)' + 4 + n + Tag(e)'
      BY <3>2, <3>3, <3>4
    <3> HIDE DEF n, end, encrypted, last
    <3> QED BY <3>2, <3>5, <3>6 DEF Joined
  <2> QED BY <1>3, <2>1, <2>2
<1> QED BY <1>12, <1>13, <1>14, <1>16, <1>17, <1>18 DEF ReadInv

-----------------------------------------------------------------------------
(* The invariant holds, and what follows from it *)

LEMMA ReadInvInit ==
    ASSUME Alike, Init
    PROVE  ReadInv
<1>1. TypeOK /\ OneWay /\ InStep
  <2>1. received - taken <= BufSize
    BY PacketReadAssumption DEF Init
  <2>2. sent \in Seq([length : Nat, end : Nat])
    BY DEF Init
  <2>3. Len(sent) = 0
    BY DEF Init
  <2>4. InStep
    BY <2>3 DEF Init, InStep, EndOf
  <2>5. OneWay
    BY DEF Init, OneWay
  <2>6. TypeOK
    BY <2>1, <2>2 DEF Init, TypeOK, Places
  <2> QED BY <2>4, <2>5, <2>6
<1>2. Stream /\ Buffered /\ Waiting /\ Decrypted
  BY DEF Init, Stream, Buffered, Waiting, Decrypted, Complete, EndOf
<1> QED BY <1>1, <1>2 DEF ReadInv

LEMMA ReadInvNext ==
    ASSUME ReadInv, [Next]_vars
    PROVE  ReadInv'
<1>1. CASE Control
  BY <1>1, ControlKeepsInv
<1>2. CASE Recv
  BY <1>2, RecvKeepsInv
<1>3. CASE BeginPacket
  BY <1>3, BeginKeepsInv
<1>4. CASE Collect
  BY <1>4, CollectKeepsInv
<1>5. CASE Delivered
  BY <1>5, DeliveredKeepsInv
<1>6. CASE ServerSends
  BY <1>6, ServerSendsKeepsInv
<1>7. CASE UNCHANGED vars
  <2>1. UNCHANGED <<suite, local_etm, sent, received, taken, done, packet_length,
                    total_num, data_num, clear, last_part, jump, blocked, at>>
    BY <1>7 DEF vars, packetVars
  <2> QED BY <2>1 DEF ReadInv, TypeOK, OneWay, Stream, Joined, Tag, Buffered, InStep,
                      Waiting, Decrypted, Complete, EndOf, Encrypted, Etm, Header,
                      Skip, BlockSize, InBuffer
<1> QED BY <1>1, <1>2, <1>3, <1>4, <1>5, <1>6, <1>7 DEF Next, ReadSteps, Control

LEMMA ReadInvHolds == Alike => (Spec => []ReadInv)
<1> SUFFICES ASSUME Alike PROVE Spec => []ReadInv
  OBVIOUS
<1>1. Init => ReadInv
  BY ReadInvInit
<1>2. ReadInv /\ [Next]_vars => ReadInv'
  BY ReadInvNext
<1> QED BY <1>1, <1>2, PTL DEF Spec

\* decrypt is only ever given whole blocks.
LEMMA WholeBlocks ==
    ASSUME ReadInv
    PROVE  /\ suite = "mac" /\ at = "data" /\ total_num # 0 => DecryptMore % Block = 0
           /\ at = "full" /\ Etm => (packet_length - Block) % Block = 0
<1>1. ASSUME suite = "mac", at = "data", total_num # 0
      PROVE  DecryptMore % Block = 0
  <2>1. CASE Encrypted /\ ~Etm
    <3>1. Whole(DecryptMore) /\ DecryptMore \in Nat
      BY <1>1, <2>1, StretchFacts, StretchNumbers
    <3> QED BY <3>1, WholeFacts
  <2>2. CASE ~Encrypted \/ Etm
    <3>1. DecryptMore = 0
      BY <2>2 DEF DecryptMore
    <3> QED BY <3>1, WholeFacts
  <2> QED BY <2>1, <2>2
<1>2. ASSUME at = "full", Etm
      PROVE  (packet_length - Block) % Block = 0
  <2>1. total_num # 0
    BY <1>2 DEF ReadInv, Waiting, Complete
  <2>2. done < Len(sent) /\ packet_length = sent[done + 1].length
    BY <2>1 DEF ReadInv, InStep
  <2>3. Encrypted /\ suite # "mac"
    BY <1>2 DEF ReadInv, OneWay, Etm
  <2>4. packet_length \in Nat /\ packet_length >= Block /\ Whole(packet_length)
    BY <2>2, <2>3, CurrentPacket
  <2>5. Whole(packet_length - Block) /\ packet_length - Block \in Nat
    <3>1. Block \in Nat /\ Whole(Block)
      BY WholeFacts, Numbers DEF ReadInv
    <3>2. packet_length - Block \in Nat
      BY <2>4, <3>1
    <3> HIDE DEF Whole
    <3> QED BY <2>4, <3>1, <3>2, WholeFacts
  <2> QED BY <2>5, WholeFacts
<1> QED BY <1>1, <1>2

\* The tag of a packet with an integrated MAC is never cut in two.
LEMMA WholeTag ==
    ASSUME ReadInv, at = "full", Encrypted, suite = "gcm"
    PROVE  last_part >= Tag(TRUE)
<1>1. total_num # 0 /\ Complete
  BY DEF ReadInv, Waiting, Complete
<1>2. ~Etm
  BY DEF ReadInv, OneWay, Etm
<1>3. last_part >= Block
  BY <1>1, <1>2 DEF ReadInv, Decrypted
<1> QED BY <1>3 DEF Tag

\* Every variable of the reader keeps its type; what is in the buffer fits.
THEOREM PacketReadTyped == Alike => (Spec => []TypeOK)
<1>1. ReadInv => TypeOK
  BY DEF ReadInv
<1> QED BY <1>1, ReadInvHolds, PTL

\* However recv cuts the stream, the reader finds every packet where the
\* server began it, for every size of block, MAC, payload and buffer.
THEOREM PacketReadInStep == Alike => (Spec => []InStep)
<1>1. ReadInv => InStep
  BY DEF ReadInv
<1> QED BY <1>1, ReadInvHolds, PTL

\* The assertions of transport_read and decrypt hold.
THEOREM PacketReadAssertions == Alike => (Spec => []AssertionsHold)
<1>1. ASSUME ReadInv PROVE AssertionsHold
  <2>1. InBuffer >= 0
    BY <1>1, Numbers DEF ReadInv, Buffered, InBuffer
  <2>2. at = "data" /\ total_num # 0 => DecryptMore \in 0 .. Numbytes
    BY <1>1, StretchFacts
  <2>3. /\ suite = "mac" /\ at = "data" /\ total_num # 0 => DecryptMore % Block = 0
        /\ at = "full" /\ Etm => (packet_length - Block) % Block = 0
    BY <1>1, WholeBlocks
  <2>4. at = "full" /\ Encrypted /\ suite = "gcm" => last_part >= Tag(TRUE)
    BY <1>1, WholeTag
  <2> HIDE DEF DecryptMore, Numbytes
  <2> QED BY <2>1, <2>2, <2>3, <2>4 DEF AssertionsHold
<1> QED BY <1>1, ReadInvHolds, PTL

\* What is encrypted goes through decryption, and the MAC does not.
THEOREM PacketReadMacIsRaw == Alike => (Spec => []MacIsRaw)
<1>1. ASSUME ReadInv, total_num # 0, Encrypted, ~Etm
      PROVE  /\ clear <= total_num - Skip
             /\ clear < data_num => clear = total_num - Skip
             /\ at = "full" => clear = total_num - Skip
  <2>1. /\ clear <= data_num
        /\ clear <= total_num - Skip
        /\ clear < data_num => clear = total_num - Skip
    BY <1>1 DEF ReadInv, Decrypted
  <2>2. at = "full" => data_num = total_num
    BY <1>1 DEF ReadInv, Waiting, Complete
  <2>3. clear \in Nat /\ data_num \in Nat /\ total_num \in Nat /\ Skip \in Nat
    BY <1>1, Numbers DEF ReadInv, Skip
  <2> QED BY <2>1, <2>2, <2>3
<1>2. ReadInv => MacIsRaw
  BY <1>1 DEF MacIsRaw
<1> QED BY <1>2, ReadInvHolds, PTL

\* A call that sends the program to wait for the server has no whole packet.
THEOREM PacketReadNothingHeldBack == Alike => (Spec => []NothingHeldBack)
<1>1. ASSUME ReadInv, at = "caller", blocked = "inbound", done < Len(sent)
      PROVE  received < EndOf(done + 1)
  <2> DEFINE n   == sent[done + 1].length
             tag == Tag(Encrypted)
  <2>1. /\ received \in Nat /\ taken \in Nat /\ total_num \in Nat /\ data_num \in Nat
        /\ Block \in Nat /\ MacLen \in Nat
    BY <1>1, Numbers DEF ReadInv
  <2>2. /\ n \in Nat /\ n >= 4 /\ EndOf(done) \in Nat
        /\ EndOf(done + 1) = EndOf(done) + 4 + n + tag
        /\ Encrypted => n + 4 >= Block
    BY <1>1, CurrentPacket
  <2>3. tag \in Nat
    BY <2>1 DEF Tag
  <2>4. ~Complete
    BY <1>1 DEF ReadInv, Waiting, Complete
  <2>5. CASE total_num = 0
    <3>1. InBuffer < BlockSize /\ taken = EndOf(done)
      BY <1>1, <2>5 DEF ReadInv, Waiting, InStep
    <3>2. BlockSize \in Nat /\ BlockSize <= n + 4
      BY <2>1, <2>2 DEF BlockSize
    <3>3. received - taken < BlockSize
      BY <3>1 DEF InBuffer
    <3>4. n \in Nat /\ EndOf(done) \in Nat /\ EndOf(done + 1) = EndOf(done) + 4 + n + tag
      BY <2>2
    <3> HIDE DEF n, tag
    <3> QED BY <2>1, <2>3, <3>1, <3>2, <3>3, <3>4
  <2>6. CASE total_num # 0
    <3>1. /\ data_num + InBuffer < total_num
          /\ taken = EndOf(done) + Header + data_num
          /\ EndOf(done) + Header + total_num = EndOf(done + 1)
      BY <1>1, <2>4, <2>6 DEF ReadInv, Waiting, InStep
    <3>2. Header \in Nat /\ EndOf(done) \in Nat
      BY <2>2 DEF Header
    <3>3. data_num + (received - taken) < total_num
      BY <3>1 DEF InBuffer
    <3> QED BY <2>1, <3>1, <3>2, <3>3
  <2> QED BY <2>5, <2>6
<1>2. ReadInv => NothingHeldBack
  BY <1>1 DEF NothingHeldBack
<1> QED BY <1>2, ReadInvHolds, PTL
=============================================================================
