--------------------------- MODULE TransportProofs ---------------------------
(***************************************************************************)
(* Proofs about Transport.  A server that asks for replies only while the   *)
(* program waits (~AskAlways) never gets two packets mixed up; what is      *)
(* typed and what stays in the window holds for every server.               *)
(***************************************************************************)
EXTENDS Transport, TLAPS

(* The inductive invariant, part by part *)

\* A request is read by a program that waits: it precedes the last answer.
RequestsMeetWait ==
    /\ kex # "none" => request = 0
    /\ request # 0 => app \in {"wait", "failed"}
    /\ \A i \in 1 .. Len(inbox) : inbox[i].kind = "request"
          => /\ app \in {"wait", "failed"}
             /\ \A j \in 1 .. i - 1 : inbox[j] # Pkt("answer", reported)

\* Requests are numbered as the server sends them, and the replies follow.
RequestsNumbered ==
    /\ request <= asked
    /\ \A i \in 1 .. Len(inbox) : inbox[i].kind = "request"
          => /\ request < inbox[i].n /\ inbox[i].n <= asked
             /\ \A j \in 1 .. i - 1 : inbox[j].kind = "request"
                   => inbox[j].n < inbox[i].n
    /\ \A k \in 1 .. Len(sent) : sent[k].kind = "reply"
          => /\ sent[k].n <= asked
             /\ request # 0 => sent[k].n < request
             /\ \A i \in 1 .. Len(inbox) : inbox[i].kind = "request"
                   => sent[k].n < inbox[i].n

\* A KEXINIT without its NEWKEYS belongs to the exchange that goes on.
ExchangeOpen ==
    ~kexFailed =>
        \A i \in 1 .. Len(sent) : sent[i].kind = "kexinit"
            => \/ \E m \in i .. Len(sent) : sent[m] = Pkt("newkeys", sent[i].n)
               \/ /\ kex \in {"dh", "reply", "newkeys"}
                  /\ sent[i].n = round
                  /\ \A j \in i .. Len(sent) : sent[j].kind \in KexKinds

\* window + reported - Window counts the adjusts that were read.
AdjustsNumbered ==
    /\ window + reported <= Window + granted
    /\ app = "send" => window > 0
    /\ \A i \in 1 .. Len(inbox) : inbox[i].kind = "adjust"
          => /\ window + reported < Window + inbox[i].n
             /\ inbox[i].n <= granted
             /\ \A j \in 1 .. i - 1 : inbox[j].kind = "adjust"
                   => inbox[j].n < inbox[i].n

-----------------------------------------------------------------------------
(* A call of transport_send *)

\* transport_send moves the current packet on or finishes it.
LEMMA SendResult ==
    ASSUME TypeOK, NEW p \in Packet, NEW o \in SendOutcomes(p)
    PROVE  /\ o.ok \in BOOLEAN
           /\ o.pend \in Pending
           /\ Current(p).what \in Packet
           /\ o.sent \in Seq(Packet)
           /\ Len(o.sent) \in {Len(sent), Len(sent) + 1}
           /\ o.ok => /\ o.pend = Nothing
                      /\ o.sent = Append(sent, Current(p).what)
           /\ ~o.ok => /\ o.pend # Nothing
                       /\ o.pend.what = Current(p).what
                       /\ o.sent = sent
<1>1. Current(p) \in [what : Packet, at : 0 .. PacketLen - 1]
  BY TransportAssumption DEF TypeOK, Pending, Current
<1>2. CASE o = [ok |-> TRUE, sent |-> Append(sent, Current(p).what),
                pend |-> Nothing]
  <2>1. o.ok = TRUE /\ o.pend = Nothing /\ o.sent = Append(sent, Current(p).what)
    BY <1>2
  <2>2. Append(sent, Current(p).what) \in Seq(Packet)
        /\ Len(Append(sent, Current(p).what)) = Len(sent) + 1
    BY <1>1 DEF TypeOK
  <2> QED BY <1>1, <2>1, <2>2 DEF Pending
<1>3. ASSUME NEW i \in Current(p).at .. PacketLen - 1,
             o = [ok |-> FALSE, sent |-> sent, pend |-> [Current(p) EXCEPT !.at = i]]
      PROVE  /\ o.ok = FALSE /\ o.sent = sent
             /\ o.pend \in Pending /\ o.pend # Nothing
             /\ o.pend.what = Current(p).what
  <2>1. o.ok = FALSE /\ o.sent = sent /\ o.pend = [Current(p) EXCEPT !.at = i]
    BY <1>3
  <2>2. i \in 0 .. PacketLen - 1
    BY <1>1
  <2>3. /\ o.pend \in [what : Packet, at : 0 .. PacketLen - 1]
        /\ o.pend.at = i /\ o.pend.what = Current(p).what
    BY <1>1, <2>1, <2>2
  <2>4. o.pend # Nothing
    BY <2>2, <2>3 DEF Nothing
  <2> QED BY <2>1, <2>3, <2>4 DEF Pending
<1>4. \/ o = [ok |-> TRUE, sent |-> Append(sent, Current(p).what), pend |-> Nothing]
      \/ \E i \in Current(p).at .. PacketLen - 1 :
            o = [ok |-> FALSE, sent |-> sent, pend |-> [Current(p) EXCEPT !.at = i]]
  BY DEF SendOutcomes
<1>5. CASE \E i \in Current(p).at .. PacketLen - 1 :
            o = [ok |-> FALSE, sent |-> sent, pend |-> [Current(p) EXCEPT !.at = i]]
  BY <1>1, <1>3, <1>5 DEF TypeOK
<1> QED BY <1>2, <1>4, <1>5

\* The numbers among the state, as the steps below use them
Counted ==
    /\ Len(inbox) \in Nat /\ Len(sent) \in Nat
    /\ reported \in Nat /\ window \in Nat /\ request \in Nat /\ round \in Nat
    /\ granted \in Nat /\ asked \in Nat
    /\ \A i \in 1 .. Len(inbox) : inbox[i].n \in Nat
    /\ \A i \in 1 .. Len(sent) : sent[i].n \in Nat

LEMMA TypedIsCounted == (TypeOK => Counted) /\ (TypeOK' => Counted')
<1>1. ASSUME NEW s \in Seq(Message)
      PROVE  Len(s) \in Nat /\ \A i \in 1 .. Len(s) : s[i].n \in Nat
  <2>1. ASSUME NEW i \in 1 .. Len(s) PROVE s[i].n \in Nat
    <3>1. s[i] \in Message
      OBVIOUS
    <3> QED BY <3>1 DEF Message
  <2> QED BY <2>1
<1>2. ASSUME NEW s \in Seq(Packet)
      PROVE  Len(s) \in Nat /\ \A i \in 1 .. Len(s) : s[i].n \in Nat
  <2>1. ASSUME NEW i \in 1 .. Len(s) PROVE s[i].n \in Nat
    <3>1. s[i] \in Packet
      OBVIOUS
    <3> QED BY <3>1 DEF Packet
  <2> QED BY <2>1
<1>3. ASSUME TypeOK PROVE Counted
  <2>1. inbox \in Seq(Message) /\ sent \in Seq(Packet)
    BY <1>3 DEF TypeOK
  <2>2. /\ reported \in Nat /\ window \in Nat /\ request \in Nat /\ round \in Nat
        /\ granted \in Nat /\ asked \in Nat
    BY <1>3 DEF TypeOK
  <2> QED BY <1>1, <1>2, <2>1, <2>2 DEF Counted
<1>4. ASSUME TypeOK' PROVE Counted'
  <2>1. inbox' \in Seq(Message) /\ sent' \in Seq(Packet)
    BY <1>4 DEF TypeOK
  <2>2. /\ reported' \in Nat /\ window' \in Nat /\ request' \in Nat
        /\ round' \in Nat /\ granted' \in Nat /\ asked' \in Nat
    BY <1>4 DEF TypeOK
  <2> QED BY <1>1, <1>2, <2>1, <2>2 DEF Counted
<1> QED BY <1>3, <1>4

LEMMA PacketsTyped ==
    /\ \A n \in Nat : Pkt("data", n) \in Packet /\ Pkt("reply", n) \in Packet
    /\ TypeOK /\ Sending => KexPacket \in Packet
BY DEF Pkt, Packet, TypeOK, Sending, KexPacket, KexKind, KexKinds

\* Reading a message takes it from the front of the inbox.
LEMMA Arrival ==
    ASSUME TypeOK, NEW kind, Arrives(kind)
    PROVE  /\ inbox' \in Seq(Message)
           /\ Len(inbox') = Len(inbox) - 1
           /\ Head(inbox) \in Message /\ Head(inbox) = inbox[1]
           /\ inbox[1].kind = kind /\ Len(inbox) >= 1
           /\ \A i \in 1 .. Len(inbox') : inbox'[i] = inbox[i + 1]
BY DEF Arrives, TypeOK

-----------------------------------------------------------------------------
(* Typing *)

LEMMA InitIsTyped == ASSUME Init PROVE TypeOK
<1>1. /\ sent \in Seq(Packet) /\ inbox \in Seq(Message) /\ owed \in Seq(Nat)
      /\ Len(sent) = 0
  BY DEF Init
<1>2. /\ app \in Calls /\ kex \in KexSteps /\ pend \in Pending
      /\ nested \in BOOLEAN /\ kexFailed \in BOOLEAN /\ srvKex \in BOOLEAN
  BY DEF Init, Calls, KexSteps, Pending
<1>3. /\ reported \in Nat /\ answered \in Nat /\ window \in Nat
      /\ request \in Nat /\ round \in Nat /\ seen = 0 /\ granted \in Nat
      /\ asked \in 0 .. Requests /\ srvRound \in 0 .. Rekeys
  BY TransportAssumption DEF Init
<1> QED BY <1>1, <1>2, <1>3 DEF TypeOK

LEMMA ClientIsTyped ==
    ASSUME TypeOK, app = "send" => window > 0,
           ClientMoves \/ KexFails \/ ConnectionLost
    PROVE  TypeOK'
<1> USE DEF serverVars
<1>1. CASE NothingArrived
  BY <1>1 DEF NothingArrived, TypeOK, Calls
<1>2. CASE ReadAdjust
  <2>1. inbox' \in Seq(Message)
    BY <1>2, Arrival DEF ReadAdjust
  <2> QED BY <1>2, <2>1 DEF ReadAdjust, TypeOK
<1>3. CASE ReadAnswer
  <2>1. inbox' \in Seq(Message) /\ Head(inbox).n \in Nat
    BY <1>3, Arrival DEF ReadAnswer, Message
  <2>2. app' \in Calls
    BY <1>3 DEF ReadAnswer, TypeOK, Calls
  <2> QED BY <1>3, <2>1, <2>2 DEF ReadAnswer, TypeOK
<1>4. ASSUME NEW n \in Nat, NEW o \in SendOutcomes(Pkt("reply", n)),
             ReplyWith(n, o)
      PROVE  /\ pend' \in Pending /\ sent' \in Seq(Packet)
             /\ Len(sent') >= Len(sent)
             /\ request' \in Nat /\ app' \in Calls /\ nested' \in BOOLEAN
  <2>1. /\ pend' \in Pending /\ sent' \in Seq(Packet)
        /\ Len(sent') \in {Len(sent), Len(sent) + 1}
    BY <1>4, SendResult, PacketsTyped DEF ReplyWith
  <2>2. request' \in Nat /\ app' \in Calls /\ nested' \in BOOLEAN
    BY <1>4 DEF ReplyWith, RequestAfter, Unwind, TypeOK, Calls
  <2>3. Len(sent) \in Nat
    BY DEF TypeOK
  <2> QED BY <2>1, <2>2, <2>3
<1>5. CASE ReadRequest
  <2>1. inbox' \in Seq(Message) /\ Head(inbox).n \in Nat
    BY <1>5, Arrival DEF ReadRequest, Message
  <2> QED BY <1>4, <1>5, <2>1 DEF ReadRequest, TypeOK
<1>6. CASE ResumeReply
  BY <1>4, <1>6 DEF ResumeReply, TypeOK
<1>7. CASE ReadKexInit
  <2>1. inbox' \in Seq(Message) /\ Head(inbox).n \in Nat
    BY <1>7, Arrival DEF ReadKexInit, Message
  <2> QED BY <1>7, <2>1 DEF ReadKexInit, TypeOK, KexSteps
<1>8. CASE KexSend
  <2>1. PICK o \in SendOutcomes(KexPacket) :
          /\ pend' = o.pend /\ sent' = o.sent
          /\ kex' = IF o.ok THEN AfterSend[kex] ELSE kex
          /\ IF o.ok THEN UNCHANGED <<app, nested>> ELSE Unwind
    BY <1>8 DEF KexSend
  <2>2. /\ pend' \in Pending /\ sent' \in Seq(Packet)
        /\ Len(sent') \in {Len(sent), Len(sent) + 1}
    BY <1>8, <2>1, SendResult, PacketsTyped DEF KexSend
  <2>3. kex' \in KexSteps
    BY <1>8, <2>1 DEF KexSend, Sending, KexKind, AfterSend, KexSteps
  <2>4. app' \in Calls /\ nested' \in BOOLEAN
    BY <2>1 DEF Unwind, TypeOK, Calls
  <2> QED BY <1>8, <2>2, <2>3, <2>4 DEF KexSend, TypeOK
<1>9. CASE KexRead
  <2>1. inbox' \in Seq(Message)
    BY <1>9, Arrival DEF KexRead
  <2>2. nested' \in BOOLEAN
    BY <1>9 DEF KexRead, TypeOK
  <2> QED BY <1>9, <2>1, <2>2 DEF KexRead, TypeOK, KexSteps, AfterNewKeys
<1>10. CASE KexNothingArrived
  BY <1>10 DEF KexNothingArrived, Unwind, TypeOK, Calls
<1>11. CASE SendData
  <2>1. PICK o \in SendOutcomes(Pkt("data", reported + 1)) :
          /\ pend' = o.pend /\ sent' = o.sent
          /\ \/ /\ o.ok
                /\ reported' = reported + 1
                /\ window' = WindowAfterSend
                /\ \/ app' = "wait"
                   \/ reported' < Chunks /\ app' = "drain"
             \/ ~o.ok /\ UNCHANGED <<app, reported, window>>
    BY <1>11 DEF SendData
  <2>2. /\ pend' \in Pending /\ sent' \in Seq(Packet)
        /\ Len(sent') \in {Len(sent), Len(sent) + 1}
    BY <2>1, SendResult, PacketsTyped DEF TypeOK
  <2>3. window' \in Nat /\ app' \in Calls
    BY <1>11, <2>1 DEF SendData, WindowAfterSend, TypeOK, Calls
  <2>4. reported' \in Nat
    BY <2>1 DEF TypeOK
  <2> QED BY <1>11, <2>2, <2>3, <2>4 DEF SendData, TypeOK
<1>12. CASE KexFails
  BY <1>12 DEF KexFails, TypeOK, Calls, KexSteps
<1>13. CASE ConnectionLost
  BY <1>13 DEF ConnectionLost, TypeOK, Calls
<1> QED BY <1>1, <1>2, <1>3, <1>5, <1>6, <1>7, <1>8, <1>9, <1>10, <1>11, <1>12,
           <1>13 DEF ClientMoves

LEMMA ServerIsTyped ==
    ASSUME TypeOK, ServerMoves \/ ServerAsks \/ ServerRekeys
    PROVE  TypeOK'
<1> USE DEF clientVars
<1>1. \A k \in {"adjust", "answer", "request", "kexinit", "kexreply", "newkeys"},
       n \in Nat : Pkt(k, n) \in Message
  BY DEF Pkt, Message
<1>2. CASE ServerReads
  <2>1. sent[seen + 1] \in Packet /\ seen + 1 <= Len(sent)
    BY <1>2 DEF ServerReads, TypeOK
  <2>2. sent[seen + 1].n \in Nat
    BY <2>1 DEF Packet
  <2>3. inbox' \in Seq(Message)
    <3>1. inbox' = inbox \/ inbox' = inbox \o <<Pkt("kexreply", sent[seen + 1].n),
                                               Pkt("newkeys", sent[seen + 1].n)>>
      BY <1>2 DEF ServerReads
    <3>2. /\ Pkt("kexreply", sent[seen + 1].n) \in Message
          /\ Pkt("newkeys", sent[seen + 1].n) \in Message
      BY <1>1, <2>2
    <3>3. ASSUME NEW a \in Message, NEW b \in Message
          PROVE  inbox \o <<a, b>> \in Seq(Message)
      <4>1. <<a, b>> \in Seq(Message)
        OBVIOUS
      <4> QED BY <4>1 DEF TypeOK
    <3>4. inbox \in Seq(Message)
      BY DEF TypeOK
    <3> QED BY <3>1, <3>2, <3>3, <3>4
  <2>4. owed' \in Seq(Nat)
    BY <1>2, <2>2 DEF ServerReads, TypeOK
  <2>5. srvKex' \in BOOLEAN /\ seen' \in 0 .. Len(sent)
    BY <1>2, <2>1 DEF ServerReads, TypeOK
  <2> QED BY <1>2, <2>3, <2>4, <2>5 DEF ServerReads, TypeOK
<1>3. CASE ServerAnswers
  <2>1. Head(owed) \in Nat /\ Tail(owed) \in Seq(Nat)
    BY <1>3 DEF ServerAnswers, TypeOK
  <2> QED BY <1>1, <1>3, <2>1 DEF ServerAnswers, Deliver, TypeOK
<1>4. CASE ServerAdjusts
  BY <1>1, <1>4 DEF ServerAdjusts, Deliver, TypeOK
<1>5. CASE ServerAsks
  BY <1>1, <1>5, TransportAssumption DEF ServerAsks, Deliver, TypeOK
<1>6. CASE ServerRekeys
  BY <1>1, <1>6, TransportAssumption DEF ServerRekeys, Deliver, TypeOK
<1> QED BY <1>2, <1>3, <1>4, <1>5, <1>6 DEF ServerMoves

-----------------------------------------------------------------------------
(* The window *)

\* What an exchange or a reply does to app and window
LEMMA UnwindToSend ==
    ASSUME AdjustsNumbered, Unwind, window' = window
    PROVE  app' = "send" => window' > 0
BY DEF Unwind, AdjustsNumbered

\* What the server appends to the inbox
LEMMA ServerDelivers ==
    ASSUME TypeOK, NEW m \in Message, Deliver(m)
    PROVE  /\ Len(inbox') = Len(inbox) + 1
           /\ inbox'[Len(inbox) + 1] = m
           /\ \A i \in 1 .. Len(inbox) : inbox'[i] = inbox[i]
BY DEF TypeOK, Deliver

LEMMA MessagesTyped ==
    \A k \in {"adjust", "answer", "request", "kexinit", "kexreply", "newkeys"},
       n \in Nat : Pkt(k, n) \in Message
BY DEF Pkt, Message

\* After the packet of a client the inbox is the same, or two messages of the
\* exchange follow.
LEMMA ServerReadsKex ==
    ASSUME TypeOK, ServerReads
    PROVE  /\ Len(inbox') \in Nat /\ Len(inbox) \in Nat
           /\ Len(inbox') >= Len(inbox)
           /\ \A i \in 1 .. Len(inbox) : inbox'[i] = inbox[i]
           /\ \A i \in 1 .. Len(inbox') :
                 i > Len(inbox) => inbox'[i].kind \in {"kexreply", "newkeys"}
<1>1. CASE inbox' = inbox
  BY <1>1 DEF TypeOK
<1>2. CASE inbox' # inbox
  <2>1. PICK n \in Nat :
          inbox' = inbox \o <<Pkt("kexreply", n), Pkt("newkeys", n)>>
    <3>1. sent[seen + 1] \in Packet
      BY DEF ServerReads, TypeOK
    <3>2. sent[seen + 1].n \in Nat
      BY <3>1 DEF Packet
    <3> QED BY <1>2, <3>2 DEF ServerReads
  <2>2. /\ Pkt("kexreply", n).kind = "kexreply"
        /\ Pkt("newkeys", n).kind = "newkeys"
    BY DEF Pkt
  <2>3. ASSUME NEW a, NEW b
        PROVE  /\ Len(<<a, b>>) = 2
               /\ <<a, b>>[1] = a /\ <<a, b>>[2] = b
    OBVIOUS
  <2>4. ASSUME NEW a \in Message, NEW b \in Message, inbox' = inbox \o <<a, b>>
        PROVE  /\ Len(inbox') = Len(inbox) + 2
               /\ \A i \in 1 .. Len(inbox) : inbox'[i] = inbox[i]
               /\ inbox'[Len(inbox) + 1] = a /\ inbox'[Len(inbox) + 2] = b
    <3>1. <<a, b>> \in Seq(Message) /\ inbox \in Seq(Message)
      BY DEF TypeOK
    <3> QED BY <2>3, <2>4, <3>1
  <2>5. Pkt("kexreply", n) \in Message /\ Pkt("newkeys", n) \in Message
    BY MessagesTyped
  <2>6. /\ Len(inbox') = Len(inbox) + 2
        /\ \A i \in 1 .. Len(inbox) : inbox'[i] = inbox[i]
        /\ inbox'[Len(inbox) + 1].kind = "kexreply"
        /\ inbox'[Len(inbox) + 2].kind = "newkeys"
    BY <2>1, <2>2, <2>4, <2>5
  <2>7. Len(inbox) \in Nat
    BY DEF TypeOK
  <2> QED BY <2>6, <2>7
<1> QED BY <1>1, <1>2

LEMMA AdjustsNext ==
    ASSUME TypeOK, TypeOK', AdjustsNumbered, [Next]_vars
    PROVE  AdjustsNumbered'
<1> USE DEF serverVars, clientVars
<1>0. Counted /\ Counted'
  BY TypedIsCounted
<1>1. CASE NothingArrived
  BY <1>1 DEF NothingArrived, AdjustsNumbered
<1>2. CASE ReadAdjust
  <2>1. /\ Len(inbox') = Len(inbox) - 1 /\ inbox[1].kind = "adjust"
        /\ Len(inbox) >= 1
        /\ \A i \in 1 .. Len(inbox') : inbox'[i] = inbox[i + 1]
    BY <1>2, Arrival DEF ReadAdjust
  <2>2. Len(inbox) \in Nat
    BY <1>0 DEF Counted
  <2>3. \A i \in 2 .. Len(inbox) : inbox[i].kind = "adjust"
          => /\ window + reported < Window + inbox[1].n
             /\ inbox[1].n < inbox[i].n /\ inbox[i].n <= granted
    BY <2>1, <2>2 DEF AdjustsNumbered
  <2>4. inbox[1].n <= granted /\ window + reported < Window + inbox[1].n
    BY <2>1, <2>2 DEF AdjustsNumbered
  <2>5. \A i \in 1 .. Len(inbox) : inbox[i].n \in Nat
    BY <1>0 DEF Counted
  <2>6. UNCHANGED <<app, reported, granted>> /\ window' = window + 1
        /\ app # "send"
    BY <1>2 DEF ReadAdjust, Reading
  <2>a. window \in Nat /\ reported \in Nat
    BY <1>0 DEF Counted
  <2>7. window' + reported' <= Window + granted'
    BY <1>0, <2>1, <2>2, <2>4, <2>6, TransportAssumption DEF Counted
  <2>8. ASSUME NEW i \in 1 .. Len(inbox'), inbox'[i].kind = "adjust"
        PROVE  /\ window' + reported' < Window + inbox'[i].n
               /\ inbox'[i].n <= granted'
               /\ \A j \in 1 .. i - 1 : inbox'[j].kind = "adjust"
                   => inbox'[j].n < inbox'[i].n
    <3>1. i + 1 \in 2 .. Len(inbox) /\ inbox'[i] = inbox[i + 1]
      BY <2>1, <2>2
    <3>2. inbox[1].n \in Nat /\ inbox[i + 1].n \in Nat
      BY <2>1, <2>2, <2>5, <3>1
    <3>3. \A j \in 1 .. i - 1 : inbox'[j] = inbox[j + 1] /\ j + 1 \in 1 .. i
      BY <2>1, <2>2
    <3>4. \A j \in 1 .. i : inbox[j].kind = "adjust" => inbox[j].n < inbox[i + 1].n
      BY <2>8, <3>1 DEF AdjustsNumbered
    <3>5. /\ window + reported < Window + inbox[1].n
          /\ inbox[1].n < inbox[i + 1].n /\ inbox[i + 1].n <= granted
      BY <2>3, <2>8, <3>1
    <3>6. window' + reported' < Window + inbox[i + 1].n
      BY <2>6, <3>2, <3>5, <2>a, TransportAssumption
    <3> QED BY <2>6, <3>1, <3>3, <3>4, <3>5, <3>6
  <2> QED BY <2>6, <2>7, <2>8 DEF AdjustsNumbered
<1>3. ASSUME NEW kind, Arrives(kind), UNCHANGED <<window, reported, granted>>,
             app' = "send" => window > 0
      PROVE  AdjustsNumbered'
  <2>1. /\ Len(inbox') = Len(inbox) - 1
        /\ \A i \in 1 .. Len(inbox') : inbox'[i] = inbox[i + 1]
    BY <1>3, Arrival
  <2>2. Len(inbox) \in Nat /\ Len(inbox') \in Nat
    BY <1>0 DEF Counted
  <2>3. ASSUME NEW i \in 1 .. Len(inbox'), inbox'[i].kind = "adjust"
        PROVE  /\ window' + reported' < Window + inbox'[i].n
               /\ inbox'[i].n <= granted'
               /\ \A j \in 1 .. i - 1 : inbox'[j].kind = "adjust"
                   => inbox'[j].n < inbox'[i].n
    <3>1. i + 1 \in 1 .. Len(inbox) /\ inbox'[i] = inbox[i + 1]
      BY <2>1, <2>2
    <3>2. \A j \in 1 .. i - 1 : inbox'[j] = inbox[j + 1] /\ j + 1 \in 1 .. i
      BY <2>1, <2>2
    <3>3. \A j \in 1 .. i : inbox[j].kind = "adjust" => inbox[j].n < inbox[i + 1].n
      BY <2>3, <3>1 DEF AdjustsNumbered
    <3> QED BY <1>3, <2>3, <3>1, <3>2, <3>3 DEF AdjustsNumbered
  <2> QED BY <1>3, <2>3 DEF AdjustsNumbered
<1>4. CASE ReadAnswer
  BY <1>3, <1>4 DEF ReadAnswer, Reading
<1>5. CASE ReadRequest
  BY <1>3, <1>5, UnwindToSend
     DEF ReadRequest, ReplyWith, Reading
<1>6. ASSUME UNCHANGED <<window, reported, granted, inbox>>,
             app' = "send" => window > 0
      PROVE  AdjustsNumbered'
  BY <1>6 DEF AdjustsNumbered
<1>7. CASE ResumeReply
  BY <1>6, <1>7, UnwindToSend DEF ResumeReply, ReplyWith
<1>8. CASE ReadKexInit
  BY <1>3, <1>8 DEF ReadKexInit, Reading
<1>9. CASE KexSend
  <2>1. app' = "send" => window > 0
    BY <1>9, UnwindToSend DEF KexSend, AdjustsNumbered
  <2> QED BY <1>6, <1>9, <2>1 DEF KexSend
<1>10. CASE KexRead
  <2>1. app' = "send" => window > 0
    BY <1>10 DEF KexRead, AdjustsNumbered
  <2> QED BY <1>3, <1>10, <2>1 DEF KexRead
<1>11. CASE KexNothingArrived
  BY <1>6, <1>11, UnwindToSend DEF KexNothingArrived
<1>12. CASE SendData
  <2>1. \/ window' = window - 1 /\ reported' = reported + 1 /\ app' # "send"
        \/ UNCHANGED <<app, window, reported>>
    BY <1>12 DEF SendData, WindowAfterSend
  <2>2. UNCHANGED <<inbox, granted>>
    BY <1>12 DEF SendData
  <2>a. window \in Nat /\ reported \in Nat
    BY <1>0 DEF Counted
  <2>3. window' + reported' = window + reported
    BY <2>1, <2>a
  <2> QED BY <2>1, <2>2, <2>3 DEF AdjustsNumbered
<1>13. CASE KexFails
  <2>1. app' = "send" => window > 0
    BY <1>13 DEF KexFails, AdjustsNumbered
  <2> QED BY <1>6, <1>13, <2>1 DEF KexFails
<1>14. CASE ConnectionLost
  BY <1>6, <1>14 DEF ConnectionLost
<1>15. ASSUME UNCHANGED clientVars, granted' >= granted,
              Len(inbox') >= Len(inbox),
              \A i \in 1 .. Len(inbox) : inbox'[i] = inbox[i],
              \A i \in 1 .. Len(inbox') : i > Len(inbox) =>
                 (inbox'[i].kind = "adjust" =>
                    i = Len(inbox) + 1 /\ inbox'[i].n = granted + 1
                    /\ granted' = granted + 1)
      PROVE  AdjustsNumbered'
  <2>1. Len(inbox) \in Nat /\ Len(inbox') \in Nat /\ granted \in Nat
        /\ granted' \in Nat /\ window \in Nat /\ reported \in Nat
    BY <1>0 DEF Counted
  <2>2. \A i \in 1 .. Len(inbox) : inbox[i].n \in Nat
    BY <1>0 DEF Counted
  <2>3. window' + reported' <= Window + granted' /\ (app' = "send" => window' > 0)
    <3>1. /\ window' = window /\ reported' = reported /\ app' = app
          /\ granted' >= granted
      BY <1>15
    <3>2. /\ window + reported <= Window + granted
          /\ app = "send" => window > 0
      BY DEF AdjustsNumbered
    <3>3. Window \in Nat
      BY TransportAssumption
    <3>4. window + reported \in Nat /\ granted \in Nat /\ granted' \in Nat
      BY <2>1
    <3>5. granted' >= granted /\ window + reported <= Window + granted
      BY <3>1, <3>2
    <3>6. window + reported <= Window + granted'
      BY <3>3, <3>4, <3>5
    <3> QED BY <3>1, <3>2, <3>6
  <2>4. ASSUME NEW i \in 1 .. Len(inbox'), inbox'[i].kind = "adjust"
        PROVE  /\ window' + reported' < Window + inbox'[i].n
               /\ inbox'[i].n <= granted'
               /\ \A j \in 1 .. i - 1 : inbox'[j].kind = "adjust"
                   => inbox'[j].n < inbox'[i].n
    <3>1. CASE i \in 1 .. Len(inbox)
      <4>1. \A j \in 1 .. i : inbox'[j] = inbox[j]
        BY <1>15, <2>1, <3>1
      <4> QED BY <1>15, <2>1, <2>2, <2>4, <3>1, <4>1 DEF AdjustsNumbered
    <3>2. CASE i \notin 1 .. Len(inbox)
      <4>1. i = Len(inbox) + 1 /\ inbox'[i].n = granted + 1 /\ granted' = granted + 1
        BY <1>15, <2>1, <2>4, <3>2
      <4>2. \A j \in 1 .. i - 1 : inbox'[j] = inbox[j] /\ j \in 1 .. Len(inbox)
        BY <1>15, <2>1, <4>1
      <4>3. \A j \in 1 .. i - 1 : inbox'[j].kind = "adjust" => inbox'[j].n <= granted
        BY <4>2 DEF AdjustsNumbered
      <4> QED BY <1>15, <2>1, <2>2, <4>1, <4>2, <4>3, TransportAssumption
              DEF AdjustsNumbered
    <3> QED BY <3>1, <3>2
  <2> QED BY <2>3, <2>4 DEF AdjustsNumbered
<1>16. CASE ServerReads
  <2>1. granted' = granted /\ UNCHANGED clientVars
    BY <1>16 DEF ServerReads
  <2>2. \A i \in 1 .. Len(inbox') : i > Len(inbox) => inbox'[i].kind # "adjust"
    BY <1>16, ServerReadsKex
  <2> QED BY <1>15, <1>16, <2>1, <2>2, ServerReadsKex DEF TypeOK
<1>17. ASSUME NEW k \in {"answer", "request", "kexinit"}, NEW n \in Nat,
              Deliver(Pkt(k, n)), UNCHANGED clientVars, granted' = granted
       PROVE  AdjustsNumbered'
  <2>1. Pkt(k, n) \in Message /\ Pkt(k, n).kind # "adjust"
    BY MessagesTyped DEF Pkt
  <2>2. /\ Len(inbox') = Len(inbox) + 1
        /\ inbox'[Len(inbox) + 1].kind # "adjust"
        /\ \A i \in 1 .. Len(inbox) : inbox'[i] = inbox[i]
    BY <1>17, <2>1, ServerDelivers
  <2>3. Len(inbox) \in Nat /\ granted \in Nat
    BY <1>0 DEF Counted
  <2>4. \A i \in 1 .. Len(inbox') : i > Len(inbox) => i = Len(inbox) + 1
    BY <2>2, <2>3
  <2> QED BY <1>15, <1>17, <2>2, <2>3, <2>4
<1>18. CASE ServerAnswers
  <2>1. Head(owed) \in Nat
    BY <1>18 DEF ServerAnswers, TypeOK
  <2> QED BY <1>17, <1>18, <2>1 DEF ServerAnswers
<1>19. CASE ServerAdjusts
  <2>1. Pkt("adjust", granted + 1) \in Message /\ Pkt("adjust", granted + 1).n = granted + 1
    BY MessagesTyped DEF Pkt, TypeOK
  <2>2. /\ Len(inbox') = Len(inbox) + 1
        /\ inbox'[Len(inbox) + 1].n = granted + 1
        /\ \A i \in 1 .. Len(inbox) : inbox'[i] = inbox[i]
        /\ granted' = granted + 1 /\ UNCHANGED clientVars
    BY <1>19, <2>1, ServerDelivers DEF ServerAdjusts
  <2>3. Len(inbox) \in Nat /\ granted \in Nat
    BY <1>0 DEF Counted
  <2>4. \A i \in 1 .. Len(inbox') : i > Len(inbox) => i = Len(inbox) + 1
    BY <2>2, <2>3
  <2> QED BY <1>15, <2>2, <2>3, <2>4
<1>20. CASE ServerAsks
  BY <1>17, <1>20 DEF ServerAsks, TypeOK
<1>21. CASE ServerRekeys
  BY <1>17, <1>21 DEF ServerRekeys, TypeOK
<1>22. CASE UNCHANGED vars
  BY <1>6, <1>22 DEF vars, AdjustsNumbered
<1> QED BY <1>1, <1>2, <1>4, <1>5, <1>7, <1>8, <1>9, <1>10, <1>11, <1>12, <1>13,
           <1>14, <1>16, <1>18, <1>19, <1>20, <1>21, <1>22
        DEF Next, ClientMoves, ServerMoves

\* granted only grows.
LEMMA GrantedGrows ==
    ASSUME TypeOK, [Next]_vars
    PROVE  granted' \in {granted, granted + 1}
BY DEF Next, ClientMoves, ServerMoves, vars, clientVars, serverVars,
       NothingArrived, ReadAdjust, ReadAnswer, ReadRequest, ResumeReply,
       ReadKexInit, KexSend, KexRead, KexNothingArrived, SendData, KexFails,
       ConnectionLost, ServerReads, ServerAnswers, ServerAdjusts, ServerAsks,
       ServerRekeys

\* What a step does to the socket: nothing, or it calls transport_send with a
\* reply, a packet of the exchange or the data of channel_write.
LEMMA SendOrStay ==
    ASSUME TypeOK, [Next]_vars
    PROVE  \/ UNCHANGED <<sent, pend>>
           \/ \E p \in Packet : \E o \in SendOutcomes(p) :
                 /\ pend' = o.pend /\ sent' = o.sent
                 /\ p.kind = "data"
                       => app = "send" /\ p = Pkt("data", reported + 1)
<1> USE DEF clientVars, serverVars
<1>1. ASSUME ReadRequest \/ ResumeReply
      PROVE  \E n \in Nat : \E o \in SendOutcomes(Pkt("reply", n)) :
                pend' = o.pend /\ sent' = o.sent
  <2>1. ReadRequest => Head(inbox).n \in Nat
    BY Arrival DEF ReadRequest, Message
  <2>2. request \in Nat
    BY DEF TypeOK
  <2> QED BY <1>1, <2>1, <2>2 DEF ReadRequest, ResumeReply, ReplyWith
<1>2. CASE ReadRequest \/ ResumeReply
  <2>1. \A n \in Nat : Pkt("reply", n) \in Packet /\ Pkt("reply", n).kind # "data"
    BY PacketsTyped DEF Pkt
  <2> QED BY <1>1, <1>2, <2>1
<1>3. CASE KexSend
  <2>1. KexPacket \in Packet /\ KexPacket.kind # "data"
    BY <1>3, PacketsTyped DEF KexSend, KexPacket, KexKind, Sending, Pkt
  <2> QED BY <1>3, <2>1 DEF KexSend
<1>4. CASE SendData
  <2>1. Pkt("data", reported + 1) \in Packet
    BY PacketsTyped DEF TypeOK
  <2> QED BY <1>4, <2>1 DEF SendData
<1>5. CASE UNCHANGED <<sent, pend>>
  BY <1>5
<1> QED BY <1>2, <1>3, <1>4, <1>5
        DEF Next, ClientMoves, ServerMoves, vars, NothingArrived, ReadAdjust,
            ReadAnswer, ReadKexInit, KexRead, KexNothingArrived, KexFails,
            ConnectionLost, ServerReads, ServerAnswers, ServerAdjusts,
            ServerAsks, ServerRekeys

\* One more packet at the end
LEMMA Appended ==
    ASSUME TypeOK, NEW p \in Packet, sent' = Append(sent, p)
    PROVE  /\ Len(sent') = Len(sent) + 1
           /\ sent'[Len(sent) + 1] = p
           /\ \A i \in 1 .. Len(sent) : sent'[i] = sent[i]
           /\ \A i \in 1 .. Len(sent') :
                 \/ i = Len(sent) + 1 /\ sent'[i] = p
                 \/ i \in 1 .. Len(sent) /\ sent'[i] = sent[i]
<1>1. /\ Len(sent') = Len(sent) + 1
      /\ sent'[Len(sent) + 1] = p
      /\ \A i \in 1 .. Len(sent) : sent'[i] = sent[i]
  BY DEF TypeOK
<1>2. Len(sent) \in Nat
  BY DEF TypeOK
<1>3. ASSUME NEW i \in 1 .. Len(sent')
      PROVE  \/ i = Len(sent) + 1 /\ sent'[i] = p
             \/ i \in 1 .. Len(sent) /\ sent'[i] = sent[i]
  <2>1. i = Len(sent) + 1 \/ i \in 1 .. Len(sent)
    BY <1>1, <1>2
  <2> QED BY <1>1, <2>1
<1> QED BY <1>1, <1>3

LEMMA WithinNext ==
    ASSUME TypeOK, AdjustsNumbered, WithinWindow, [Next]_vars
    PROVE  WithinWindow'
<1>0. Counted
  BY TypedIsCounted
<1>1. /\ granted \in Nat /\ granted' \in {granted, granted + 1}
      /\ Window \in Nat /\ Window + granted <= Window + granted'
  <2>1. granted \in Nat /\ Window \in Nat
    BY <1>0, TransportAssumption DEF Counted
  <2>2. CASE granted' = granted
    BY <2>1, <2>2
  <2>3. CASE granted' = granted + 1
    BY <2>1, <2>3
  <2> QED BY <2>1, <2>2, <2>3, GrantedGrows
<1>2. CASE UNCHANGED <<sent, pend>>
  <2>1. pend # Nothing => pend.what.n \in Nat
    BY DEF TypeOK, Pending, Packet
  <2>2. \A i \in 1 .. Len(sent) : sent[i].n \in Nat
    BY <1>0 DEF Counted
  <2> QED BY <1>1, <1>2, <2>1, <2>2 DEF WithinWindow
<1>3. ASSUME NEW p \in Packet, NEW o \in SendOutcomes(p),
             pend' = o.pend, sent' = o.sent,
             p.kind = "data" => app = "send" /\ p = Pkt("data", reported + 1)
      PROVE  WithinWindow'
  <2>1. Current(p).what.kind = "data" => Current(p).what.n <= Window + granted
    <3>1. CASE pend # Nothing
      BY <3>1 DEF Current, WithinWindow
    <3>2. CASE pend = Nothing /\ p.kind = "data"
      <4>1. reported \in Nat /\ window \in Nat
        BY <1>0 DEF Counted
      <4>2. window > 0 /\ window + reported <= Window + granted
        BY <1>3, <3>2 DEF AdjustsNumbered
      <4>3. reported + 1 <= Window + granted
        BY <1>1, <4>1, <4>2
      <4> QED BY <1>3, <3>2, <4>3 DEF Current, Pkt
    <3> QED BY <3>1, <3>2 DEF Current
  <2>2. /\ Current(p).what \in Packet
        /\ o.ok => pend' = Nothing /\ sent' = Append(sent, Current(p).what)
        /\ ~o.ok => pend'.what = Current(p).what /\ sent' = sent
    BY <1>3, SendResult
  <2>3. Current(p).what.n \in Nat /\ Len(sent) \in Nat
        /\ \A i \in 1 .. Len(sent) : sent[i].n \in Nat
    BY <1>0, <2>2 DEF Counted, Packet
  <2>4. Current(p).what.kind = "data" => Current(p).what.n <= Window + granted'
    BY <1>1, <2>1, <2>3
  <2>5. \A i \in 1 .. Len(sent) :
           sent[i].kind = "data" => sent[i].n <= Window + granted'
    BY <1>1, <2>3 DEF WithinWindow
  <2>6. CASE o.ok
    <3>1. \A i \in 1 .. Len(sent') :
             \/ sent'[i] = Current(p).what
             \/ i \in 1 .. Len(sent) /\ sent'[i] = sent[i]
      <4>1. sent' = Append(sent, Current(p).what) /\ Current(p).what \in Packet
        BY <2>2, <2>6
      <4> QED BY <4>1, Appended
    <3> QED BY <2>2, <2>4, <2>5, <2>6, <3>1 DEF WithinWindow
  <2>7. CASE ~o.ok
    BY <2>2, <2>4, <2>5, <2>7 DEF WithinWindow
  <2> QED BY <2>6, <2>7
<1> QED BY <1>2, <1>3, SendOrStay

\* The window part of the invariant, for every server
WindowInv == TypeOK /\ AdjustsNumbered /\ WithinWindow

LEMMA WindowInvNext ==
    ASSUME WindowInv, [Next]_vars PROVE WindowInv'
<1>1. CASE UNCHANGED vars
  BY <1>1 DEF WindowInv, TypeOK, AdjustsNumbered, WithinWindow, vars, clientVars,
              serverVars
<1>2. CASE Next
  <2>1. TypeOK'
    BY <1>2, ClientIsTyped, ServerIsTyped DEF Next, WindowInv, AdjustsNumbered
  <2> QED BY <2>1, AdjustsNext, WithinNext DEF WindowInv
<1> QED BY <1>1, <1>2

LEMMA WindowInvInit == ASSUME Init PROVE WindowInv
<1>1. TypeOK
  BY InitIsTyped
<1>2. AdjustsNumbered /\ WithinWindow
  BY TransportAssumption DEF Init, AdjustsNumbered, WithinWindow
<1> QED BY <1>1, <1>2 DEF WindowInv

LEMMA WindowInvHolds == Spec => []WindowInv
<1> QED BY WindowInvInit, WindowInvNext, PTL DEF Spec

\* Every variable of the packet layer keeps its type.
THEOREM TransportTyped == Spec => []TypeOK
BY WindowInvHolds, PTL DEF WindowInv

\* Whatever the server asks and whenever it changes keys, libssh2 never sends
\* data that the peer has no room for (channel.c, Don't exceed the remote
\* end's limits).
THEOREM TransportWithinWindow == Spec => []WithinWindow
BY WindowInvHolds, PTL DEF WindowInv

-----------------------------------------------------------------------------
(* One packet at a time: a server that asks only a program that waits       *)

\* What the server adds to the inbox leaves what is there alone.
ServerAdds ==
    /\ UNCHANGED clientVars
    /\ Len(inbox') >= Len(inbox)
    /\ \A i \in 1 .. Len(inbox) : inbox'[i] = inbox[i]

\* Only ServerAsks adds a request, and it adds it at the end.
LEMMA ServerStep ==
    ASSUME TypeOK, ServerMoves \/ ServerAsks \/ ServerRekeys
    PROVE  /\ ServerAdds
           /\ \/ /\ asked' = asked
                 /\ \A i \in 1 .. Len(inbox') :
                       i > Len(inbox) => inbox'[i].kind # "request"
              \/ /\ ServerAsks /\ asked' = asked + 1
                 /\ Len(inbox') = Len(inbox) + 1
                 /\ inbox'[Len(inbox) + 1] = Pkt("request", asked + 1)
<1>0. Len(inbox) \in Nat /\ asked \in Nat /\ granted \in Nat /\ srvRound \in Nat
  BY DEF TypeOK
<1>1. CASE ServerReads
  <2>1. UNCHANGED clientVars /\ asked' = asked
    BY <1>1 DEF ServerReads
  <2> QED BY <1>1, <2>1, ServerReadsKex DEF ServerAdds
<1>2. ASSUME NEW k \in {"adjust", "answer", "kexinit", "request"}, NEW n \in Nat,
             Deliver(Pkt(k, n)), UNCHANGED clientVars
      PROVE  /\ ServerAdds
             /\ Len(inbox') = Len(inbox) + 1
             /\ inbox'[Len(inbox) + 1] = Pkt(k, n)
             /\ \A i \in 1 .. Len(inbox') : i > Len(inbox) => inbox'[i].kind = k
  <2>1. Pkt(k, n) \in Message /\ Pkt(k, n).kind = k
    BY MessagesTyped DEF Pkt
  <2>2. /\ Len(inbox') = Len(inbox) + 1
        /\ inbox'[Len(inbox) + 1] = Pkt(k, n)
        /\ \A i \in 1 .. Len(inbox) : inbox'[i] = inbox[i]
    BY <1>2, <2>1, ServerDelivers
  <2>3. \A i \in 1 .. Len(inbox') : i > Len(inbox) => i = Len(inbox) + 1
    BY <1>0, <2>2
  <2>4. Len(inbox') >= Len(inbox)
    BY <1>0, <2>2
  <2> QED BY <1>2, <2>1, <2>2, <2>3, <2>4 DEF ServerAdds
<1>3. CASE ServerAnswers
  <2>1. Head(owed) \in Nat
    BY <1>3 DEF ServerAnswers, TypeOK
  <2> QED BY <1>2, <1>3, <2>1 DEF ServerAnswers
<1>4. CASE ServerAdjusts
  BY <1>0, <1>2, <1>4 DEF ServerAdjusts
<1>5. CASE ServerAsks
  BY <1>0, <1>2, <1>5 DEF ServerAsks
<1>6. CASE ServerRekeys
  BY <1>0, <1>2, <1>6 DEF ServerRekeys
<1> QED BY <1>1, <1>3, <1>4, <1>5, <1>6 DEF ServerMoves

LEMMA MeetWaitNext ==
    ASSUME ~AskAlways, TypeOK, RequestsMeetWait, [Next]_vars
    PROVE  RequestsMeetWait'
<1> USE DEF serverVars
<1>0. Len(inbox) \in Nat
  BY DEF TypeOK
<1>1. ASSUME NEW kind, Arrives(kind), app' \in {app, "failed"}, reported' = reported,
             kex' # "none" => request' = 0,
             request' # 0 => app' \in {"wait", "failed"}
      PROVE  RequestsMeetWait'
  <2>1. /\ Len(inbox') = Len(inbox) - 1
        /\ \A i \in 1 .. Len(inbox') : inbox'[i] = inbox[i + 1]
    BY <1>1, Arrival
  <2>2. ASSUME NEW i \in 1 .. Len(inbox'), inbox'[i].kind = "request"
        PROVE  /\ app' \in {"wait", "failed"}
               /\ \A j \in 1 .. i - 1 : inbox'[j] # Pkt("answer", reported')
    <3>1. i + 1 \in 1 .. Len(inbox) /\ inbox'[i] = inbox[i + 1]
      BY <1>0, <2>1
    <3>2. \A j \in 1 .. i - 1 : inbox'[j] = inbox[j + 1] /\ j + 1 \in 1 .. i
      BY <1>0, <2>1
    <3>3. /\ app \in {"wait", "failed"}
          /\ \A j \in 1 .. i : inbox[j] # Pkt("answer", reported)
      BY <2>2, <3>1 DEF RequestsMeetWait
    <3> QED BY <1>1, <3>2, <3>3
  <2> QED BY <1>1, <2>2 DEF RequestsMeetWait
<1>2. ASSUME inbox' = inbox,
             reported' = reported \/ app = "send",
             app \in {"wait", "failed"} => app' \in {"wait", "failed"},
             kex' # "none" => request' = 0,
             request' # 0 => app' \in {"wait", "failed"}
      PROVE  RequestsMeetWait'
  BY <1>2 DEF RequestsMeetWait
<1>3. CASE NothingArrived
  BY <1>2, <1>3 DEF NothingArrived, Reading
<1>4. CASE ReadAdjust
  BY <1>1, <1>4 DEF ReadAdjust, Reading
<1>5. CASE ReadAnswer
  <2>1. CASE app = "wait" /\ answered' = reported
    <3>1. /\ Len(inbox') = Len(inbox) - 1 /\ Len(inbox) >= 1
          /\ Head(inbox) \in Message /\ Head(inbox) = inbox[1]
          /\ inbox[1].kind = "answer"
          /\ \A i \in 1 .. Len(inbox') : inbox'[i] = inbox[i + 1]
      BY <1>5, Arrival DEF ReadAnswer
    <3>2. inbox[1] = Pkt("answer", reported)
      BY <1>5, <2>1, <3>1 DEF ReadAnswer, Message, Pkt
    <3>3. \A i \in 2 .. Len(inbox) : inbox[i].kind # "request"
      BY <1>0, <3>2 DEF RequestsMeetWait
    <3>4. \A i \in 1 .. Len(inbox') : inbox'[i].kind # "request"
      BY <1>0, <3>1, <3>3
    <3>5. request' = 0 /\ kex' = "none"
      BY <1>5 DEF ReadAnswer, Reading
    <3> QED BY <3>4, <3>5 DEF RequestsMeetWait
  <2>2. CASE ~(app = "wait" /\ answered' = reported)
    BY <1>1, <1>5, <2>2 DEF ReadAnswer, Reading
  <2> QED BY <2>1, <2>2
<1>6. CASE ReadRequest
  <2>1. app = "wait"
    BY <1>0, <1>6, Arrival DEF ReadRequest, Reading, RequestsMeetWait
  <2>2. app' = "wait" /\ kex' = "none" /\ reported' = reported
    BY <1>6, <2>1 DEF ReadRequest, ReplyWith, Unwind, Reading
  <2>3. Arrives("request")
    BY <1>6 DEF ReadRequest
  <2> QED BY <1>1, <2>1, <2>2, <2>3
<1>7. CASE ResumeReply
  <2>1. app = "wait"
    BY <1>7 DEF ResumeReply, RequestsMeetWait
  <2>2. app' = "wait" /\ kex' = "none" /\ reported' = reported /\ inbox' = inbox
    BY <1>7, <2>1 DEF ResumeReply, ReplyWith, Unwind
  <2> QED BY <1>2, <2>1, <2>2
<1>8. CASE ReadKexInit
  BY <1>1, <1>8 DEF ReadKexInit, Reading
<1>9. CASE KexSend
  <2>1. request' = 0 /\ inbox' = inbox /\ reported' = reported
    BY <1>9 DEF KexSend, Sending, KexKind, RequestsMeetWait
  <2>2. app \in {"wait", "failed"} => app' = app
    BY <1>9 DEF KexSend, Unwind
  <2> QED BY <1>2, <2>1, <2>2
<1>10. CASE KexRead
  <2>1. request' = 0
    BY <1>10 DEF KexRead, RequestsMeetWait
  <2> QED BY <1>1, <1>10, <2>1 DEF KexRead
<1>11. CASE KexNothingArrived
  <2>1. request' = 0 /\ inbox' = inbox /\ reported' = reported
    BY <1>11 DEF KexNothingArrived, RequestsMeetWait
  <2>2. app \in {"wait", "failed"} => app' = app
    BY <1>11 DEF KexNothingArrived, Unwind
  <2> QED BY <1>2, <2>1, <2>2
<1>12. CASE SendData
  <2>1. request = 0
    BY <1>12 DEF SendData, RequestsMeetWait
  <2> QED BY <1>2, <1>12, <2>1 DEF SendData
<1>13. CASE KexFails
  <2>1. request' = 0
    BY <1>13 DEF KexFails, RequestsMeetWait
  <2> QED BY <1>2, <1>13, <2>1 DEF KexFails
<1>14. CASE ConnectionLost
  <2>1. kex' # "none" => request' = 0
    BY <1>14 DEF ConnectionLost, RequestsMeetWait
  <2> QED BY <1>2, <1>14, <2>1 DEF ConnectionLost
<1>15. CASE ServerMoves \/ ServerAsks \/ ServerRekeys
  <2>1. /\ app' = app /\ reported' = reported /\ kex' = kex /\ request' = request
        /\ Len(inbox') >= Len(inbox)
        /\ \A i \in 1 .. Len(inbox) : inbox'[i] = inbox[i]
    BY <1>15, ServerStep DEF ServerAdds, clientVars
  <2>2. Len(inbox') \in Nat
    BY <1>15, ServerIsTyped DEF TypeOK
  <2>3. ASSUME NEW i \in 1 .. Len(inbox'), inbox'[i].kind = "request"
        PROVE  /\ app \in {"wait", "failed"}
               /\ \A j \in 1 .. i - 1 : inbox'[j] # Pkt("answer", reported)
    <3>1. CASE i \in 1 .. Len(inbox)
      <4>1. \A j \in 1 .. i : inbox'[j] = inbox[j]
        BY <1>0, <2>1, <3>1
      <4> QED BY <1>0, <2>1, <2>3, <3>1, <4>1 DEF RequestsMeetWait
    <3>2. CASE i \notin 1 .. Len(inbox)
      <4>1. ServerAsks /\ i = Len(inbox) + 1
        BY <1>0, <1>15, <2>2, <2>3, <3>2, ServerStep
      <4>2. \A j \in 1 .. i - 1 : j \in 1 .. Len(inbox) /\ inbox'[j] = inbox[j]
        BY <1>0, <2>1, <4>1
      <4> QED BY <4>1, <4>2 DEF ServerAsks, ProgramWaits
    <3> QED BY <3>1, <3>2
  <2> QED BY <2>1, <2>3 DEF RequestsMeetWait
<1>16. CASE UNCHANGED vars
  BY <1>16 DEF vars, clientVars, RequestsMeetWait
<1> QED BY <1>3, <1>4, <1>5, <1>6, <1>7, <1>8, <1>9, <1>10, <1>11, <1>12, <1>13,
           <1>14, <1>15, <1>16 DEF Next, ClientMoves

\* The packet a call of transport_send moves on is the packet it was called
\* with.
LEMMA OwnPacket ==
    ASSUME PendingIsWanted, app # "failed", HasSender
    PROVE  Current(Wanted).what = Wanted
BY DEF PendingIsWanted, Current

\* A read starts with nothing left to send.
LEMMA ReadingIsFree ==
    ASSUME PendingIsWanted, Reading PROVE pend = Nothing
BY DEF PendingIsWanted, Reading, HasSender, MaySend, Sending, KexKind

LEMMA PendingNext ==
    ASSUME TypeOK, RequestsMeetWait, RequestsNumbered, PendingIsWanted, [Next]_vars
    PROVE  PendingIsWanted'
<1> USE DEF serverVars
<1>1. CASE pend' = Nothing
  BY <1>1 DEF PendingIsWanted
<1>2. ASSUME NEW n \in Nat, NEW o \in SendOutcomes(Pkt("reply", n)),
             ReplyWith(n, o), n # 0, kex = "none", kex' = "none", app \notin {"failed"},
             pend # Nothing => pend.what = Pkt("reply", n)
      PROVE  PendingIsWanted'
  <2>1. Pkt("reply", n) \in Packet
    BY PacketsTyped
  <2>2. CASE o.ok
    BY <1>2, <2>1, <2>2, SendResult DEF ReplyWith, PendingIsWanted
  <2>3. CASE ~o.ok
    <3>1. pend'.what = Pkt("reply", n)
      BY <1>2, <2>1, <2>3, SendResult DEF ReplyWith, Current
    <3>2. request' = n
      BY <1>2, <2>3 DEF ReplyWith, RequestAfter
    <3> QED BY <1>2, <3>1, <3>2
            DEF PendingIsWanted, HasSender, MaySend, Wanted, Sending, KexKind
  <2> QED BY <2>2, <2>3
<1>3. CASE ReadRequest
  <2>1. /\ Head(inbox) = inbox[1] /\ inbox[1].kind = "request"
        /\ Head(inbox) \in Message /\ Len(inbox) >= 1 /\ Len(inbox) \in Nat
    BY <1>3, Arrival DEF ReadRequest, TypeOK
  <2>2. Head(inbox).n \in Nat
    BY <2>1 DEF Message
  <2>3. request = 0 /\ kex = "none" /\ app # "failed"
    BY <1>3 DEF ReadRequest, Reading
  <2>4. request < inbox[1].n
    BY <2>1 DEF RequestsNumbered
  <2>5. Head(inbox).n # 0
    BY <2>1, <2>2, <2>3, <2>4
  <2>6. pend = Nothing
    BY <1>3, ReadingIsFree DEF ReadRequest
  <2> QED BY <1>2, <1>3, <2>2, <2>3, <2>5, <2>6 DEF ReadRequest
<1>4. CASE ResumeReply
  <2>1. pend # Nothing => pend.what = Pkt("reply", request)
    BY <1>4 DEF ResumeReply, PendingIsWanted, Wanted, Sending, KexKind
  <2>2. request \in Nat
    BY DEF TypeOK
  <2> QED BY <1>2, <1>4, <2>1, <2>2 DEF ResumeReply
<1>5. CASE KexSend
  <2>1. PICK o \in SendOutcomes(KexPacket) :
          /\ pend' = o.pend
          /\ kex' = IF o.ok THEN AfterSend[kex] ELSE kex
    BY <1>5 DEF KexSend
  <2>2. KexPacket \in Packet /\ Sending /\ app # "failed" /\ round' = round
    BY <1>5, PacketsTyped DEF KexSend, KexRunning
  <2>3. CASE o.ok
    BY <1>1, <2>1, <2>2, <2>3, SendResult
  <2>4. CASE ~o.ok
    <3>1. Current(KexPacket).what = KexPacket
      BY <2>2, OwnPacket DEF HasSender, Wanted
    <3>2. pend'.what = KexPacket
      BY <2>1, <2>2, <2>4, <3>1, SendResult
    <3>3. kex' = kex
      BY <2>1, <2>4
    <3> QED BY <2>2, <3>2, <3>3
            DEF PendingIsWanted, HasSender, MaySend, Wanted, Sending, KexPacket
  <2> QED BY <2>3, <2>4
<1>6. CASE SendData
  <2>1. PICK o \in SendOutcomes(Pkt("data", reported + 1)) :
          /\ pend' = o.pend
          /\ o.ok \/ UNCHANGED <<app, reported>>
    BY <1>6 DEF SendData
  <2>2. /\ Pkt("data", reported + 1) \in Packet
        /\ app = "send" /\ kex = "none" /\ request = 0
        /\ kex' = "none" /\ request' = 0
    BY <1>6, PacketsTyped DEF SendData, MaySend, RequestsMeetWait, TypeOK
  <2>3. CASE o.ok
    BY <1>1, <2>1, <2>2, <2>3, SendResult
  <2>4. CASE ~o.ok
    <3>1. Current(Pkt("data", reported + 1)).what = Pkt("data", reported + 1)
      BY <2>2, OwnPacket DEF HasSender, MaySend, Wanted, Sending, KexKind
    <3>2. pend'.what = Pkt("data", reported + 1)
      BY <2>1, <2>2, <2>4, <3>1, SendResult
    <3>3. app' = "send" /\ reported' = reported
      BY <2>1, <2>2, <2>4, SendResult
    <3> QED BY <2>2, <3>2, <3>3
            DEF PendingIsWanted, HasSender, MaySend, Wanted, Sending, KexKind
  <2> QED BY <2>3, <2>4
<1>7. CASE Reading /\ pend' = pend
  BY <1>1, <1>7, ReadingIsFree
<1>8. CASE KexRead \/ KexNothingArrived
  <2>1. pend = Nothing
    BY <1>8 DEF KexRead, KexNothingArrived, KexRunning, PendingIsWanted, HasSender,
                MaySend, Sending, KexKind, RequestsMeetWait, Wanted
  <2> QED BY <1>1, <1>8, <2>1 DEF KexRead, KexNothingArrived
<1>9. CASE KexFails
  BY <1>1, <1>9 DEF KexFails
<1>10. CASE ConnectionLost
  BY <1>10 DEF ConnectionLost, PendingIsWanted
<1>11. CASE UNCHANGED clientVars
  BY <1>11 DEF clientVars, PendingIsWanted, HasSender, MaySend, Wanted, Sending,
               KexPacket
<1>12. UNCHANGED vars => UNCHANGED clientVars
  BY DEF vars
<1>13. ServerMoves \/ ServerAsks \/ ServerRekeys => UNCHANGED clientVars
  BY ServerStep DEF ServerAdds
<1>14. NothingArrived \/ ReadAdjust \/ ReadAnswer \/ ReadKexInit
          => Reading /\ pend' = pend
  BY DEF NothingArrived, ReadAdjust, ReadAnswer, ReadKexInit
<1> QED BY <1>3, <1>4, <1>5, <1>6, <1>7, <1>8, <1>9, <1>10, <1>11, <1>12, <1>13,
           <1>14 DEF Next, ClientMoves

\* Every packet that gets through is the one its sender asked for.
LEMMA SentGrows ==
    ASSUME TypeOK, RequestsMeetWait, RequestsNumbered, PendingIsWanted, [Next]_vars
    PROVE  \/ sent' = sent /\ reported' = reported
           \/ /\ ReadRequest /\ request' = 0 /\ reported' = reported
              /\ sent' = Append(sent, Pkt("reply", inbox[1].n))
           \/ /\ ResumeReply /\ request' = 0 /\ reported' = reported
              /\ sent' = Append(sent, Pkt("reply", request))
           \/ /\ KexSend /\ kex' = AfterSend[kex] /\ reported' = reported
              /\ sent' = Append(sent, KexPacket)
           \/ /\ SendData /\ reported' = reported + 1
              /\ sent' = Append(sent, Pkt("data", reported + 1))
<1>1. CASE ReadRequest
  <2>1. Head(inbox) = inbox[1] /\ Head(inbox) \in Message
    BY <1>1, Arrival DEF ReadRequest
  <2>2. inbox[1].n \in Nat
    BY <2>1 DEF Message
  <2>3. PICK o \in SendOutcomes(Pkt("reply", inbox[1].n)) :
          ReplyWith(inbox[1].n, o)
    BY <1>1, <2>1 DEF ReadRequest
  <2>4. Current(Pkt("reply", inbox[1].n)).what = Pkt("reply", inbox[1].n)
    BY <1>1, ReadingIsFree DEF ReadRequest, Current
  <2>5. Pkt("reply", inbox[1].n) \in Packet
    BY <2>2, PacketsTyped
  <2>6. CASE o.ok
    BY <1>1, <2>3, <2>4, <2>5, <2>6, SendResult
       DEF ReadRequest, ReplyWith, RequestAfter
  <2>7. CASE ~o.ok
    BY <1>1, <2>3, <2>5, <2>7, SendResult DEF ReadRequest, ReplyWith
  <2> QED BY <2>6, <2>7
<1>2. CASE ResumeReply
  <2>1. PICK o \in SendOutcomes(Pkt("reply", request)) : ReplyWith(request, o)
    BY <1>2 DEF ResumeReply
  <2>2. Current(Pkt("reply", request)).what = Pkt("reply", request)
    BY <1>2, OwnPacket DEF ResumeReply, HasSender, Wanted, Sending, KexKind
  <2>3. Pkt("reply", request) \in Packet
    BY PacketsTyped DEF TypeOK
  <2>4. CASE o.ok
    BY <1>2, <2>1, <2>2, <2>3, <2>4, SendResult
       DEF ResumeReply, ReplyWith, RequestAfter
  <2>5. CASE ~o.ok
    BY <1>2, <2>1, <2>3, <2>5, SendResult DEF ResumeReply, ReplyWith
  <2> QED BY <2>4, <2>5
<1>3. CASE KexSend
  <2>1. PICK o \in SendOutcomes(KexPacket) :
          /\ sent' = o.sent
          /\ kex' = IF o.ok THEN AfterSend[kex] ELSE kex
    BY <1>3 DEF KexSend
  <2>2. Current(KexPacket).what = KexPacket /\ KexPacket \in Packet
    BY <1>3, OwnPacket, PacketsTyped DEF KexSend, KexRunning, HasSender, Wanted
  <2> QED BY <1>3, <2>1, <2>2, SendResult DEF KexSend
<1>4. CASE SendData
  <2>1. PICK o \in SendOutcomes(Pkt("data", reported + 1)) :
          /\ sent' = o.sent
          /\ \/ o.ok /\ reported' = reported + 1
             \/ ~o.ok /\ reported' = reported
    BY <1>4 DEF SendData
  <2>2. Pkt("data", reported + 1) \in Packet
    BY PacketsTyped DEF TypeOK
  <2>3. Current(Pkt("data", reported + 1)).what = Pkt("data", reported + 1)
    BY <1>4, OwnPacket DEF SendData, HasSender, MaySend, Wanted, Sending, KexKind,
                           RequestsMeetWait
  <2> QED BY <1>4, <2>1, <2>2, <2>3, SendResult
<1>5. CASE UNCHANGED <<sent, reported>>
  BY <1>5
<1>6. ServerMoves \/ ServerAsks \/ ServerRekeys => UNCHANGED <<sent, reported>>
  BY ServerStep DEF ServerAdds, clientVars
<1>7. UNCHANGED vars => UNCHANGED <<sent, reported>>
  BY DEF vars, clientVars
<1> QED BY <1>1, <1>2, <1>3, <1>4, <1>5, <1>6, <1>7
        DEF Next, ClientMoves, NothingArrived, ReadAdjust, ReadAnswer, ReadKexInit,
            KexRead, KexNothingArrived, KexFails, ConnectionLost

LEMMA ReportedNext ==
    ASSUME TypeOK, RequestsMeetWait, RequestsNumbered, PendingIsWanted,
           ReportedIsSent, [Next]_vars
    PROVE  ReportedIsSent'
<1>0. reported \in Nat /\ Len(sent) \in Nat
  BY DEF TypeOK
<1>1. CASE sent' = sent /\ reported' = reported
  BY <1>1 DEF ReportedIsSent
<1>2. ASSUME NEW p \in Packet, sent' = Append(sent, p),
             \/ p.kind # "data" /\ reported' = reported
             \/ p = Pkt("data", reported + 1) /\ reported' = reported + 1
      PROVE  ReportedIsSent'
  <2>1. /\ Len(sent') = Len(sent) + 1
        /\ sent'[Len(sent) + 1] = p
        /\ \A i \in 1 .. Len(sent) : sent'[i] = sent[i]
        /\ \A i \in 1 .. Len(sent') :
              \/ i = Len(sent) + 1 /\ sent'[i] = p
              \/ i \in 1 .. Len(sent) /\ sent'[i] = sent[i]
    BY <1>2, Appended
  <2>2. \A i \in 1 .. Len(sent) : sent[i].n \in Nat
    BY TypedIsCounted DEF Counted
  <2>3. Len(sent) + 1 \in 1 .. Len(sent') /\ 1 .. Len(sent) \subseteq 1 .. Len(sent')
    BY <1>0, <2>1
  <2>4. p.kind = "data" => /\ p = Pkt("data", reported + 1) /\ p.n = reported + 1
                           /\ reported' = reported + 1
    BY <1>2 DEF Pkt
  <2>5. reported' \in {reported, reported + 1}
    BY <1>2
  <2>6. ASSUME NEW n \in 1 .. reported'
        PROVE  \E i \in 1 .. Len(sent') : sent'[i] = Pkt("data", n)
    <3>1. CASE n \in 1 .. reported
      <4>1. PICK i \in 1 .. Len(sent) : sent[i] = Pkt("data", n)
        BY <3>1 DEF ReportedIsSent
      <4> QED BY <2>1, <2>3, <4>1
    <3>2. CASE n \notin 1 .. reported
      <4>1. n = reported + 1 /\ reported' = reported + 1
        BY <1>0, <2>5, <3>2
      <4>2. reported' # reported
        BY <1>0, <4>1
      <4>3. p = Pkt("data", n)
        BY <1>2, <4>1, <4>2
      <4> QED BY <2>1, <2>3, <4>3
    <3> QED BY <3>1, <3>2
  <2>7. ASSUME NEW i \in 1 .. Len(sent'), sent'[i].kind = "data"
        PROVE  sent'[i].n <= reported'
    <3>1. CASE i = Len(sent) + 1 /\ sent'[i] = p
      BY <1>0, <2>4, <2>7, <3>1
    <3>2. CASE i \in 1 .. Len(sent) /\ sent'[i] = sent[i]
      <4>1. sent'[i].n <= reported /\ sent'[i].n \in Nat
        BY <2>2, <2>7, <3>2 DEF ReportedIsSent
      <4> QED BY <1>0, <2>5, <4>1
    <3> QED BY <2>1, <3>1, <3>2
  <2>8. ASSUME NEW i \in 1 .. Len(sent'), NEW j \in 1 .. Len(sent'),
               i < j, sent'[i].kind = "data", sent'[j].kind = "data"
        PROVE  sent'[i].n < sent'[j].n
    <3>1. i \in 1 .. Len(sent) /\ sent'[i] = sent[i]
      BY <1>0, <2>1, <2>8
    <3>2. CASE j = Len(sent) + 1 /\ sent'[j] = p
      <4>1. sent'[i].n <= reported /\ sent'[i].n \in Nat
        BY <2>2, <2>8, <3>1 DEF ReportedIsSent
      <4>2. sent'[j].n = reported + 1
        BY <2>4, <2>8, <3>2
      <4> QED BY <1>0, <4>1, <4>2
    <3>3. CASE j \in 1 .. Len(sent) /\ sent'[j] = sent[j]
      BY <2>8, <3>1, <3>3 DEF ReportedIsSent
    <3> QED BY <2>1, <3>2, <3>3
  <2> QED BY <2>6, <2>7, <2>8 DEF ReportedIsSent
<1>3. \A n \in Nat : Pkt("reply", n) \in Packet /\ Pkt("reply", n).kind # "data"
  BY PacketsTyped DEF Pkt
<1>4. ASSUME KexSend PROVE KexPacket \in Packet /\ KexPacket.kind # "data"
  BY <1>4, PacketsTyped DEF KexSend, KexPacket, KexKind, Sending, Pkt
<1>5. Pkt("data", reported + 1) \in Packet
  BY <1>0, PacketsTyped
<1>6. ReadRequest => inbox[1].n \in Nat
  BY Arrival DEF ReadRequest, Message
<1>7. request \in Nat
  BY DEF TypeOK
<1> QED BY <1>1, <1>2, <1>3, <1>4, <1>5, <1>6, <1>7, SentGrows

\* The inbox after a client step: as before, or without its first message
Shifted(d) ==
    /\ Len(inbox') = Len(inbox) - d
    /\ \A i \in 1 .. Len(inbox') : inbox'[i] = inbox[i + d]

LEMMA ArrivalShifts ==
    ASSUME TypeOK, NEW kind, Arrives(kind) PROVE Shifted(1)
BY Arrival DEF Shifted

LEMMA SameInbox ==
    ASSUME TypeOK, inbox' = inbox PROVE Shifted(0)
BY DEF Shifted, TypeOK

\* Requests that stay in the inbox stay numbered.
LEMMA NumbersStay ==
    ASSUME TypeOK, TypeOK', RequestsNumbered, NEW d \in {0, 1}, Shifted(d),
           NEW i \in 1 .. Len(inbox'), inbox'[i].kind = "request"
    PROVE  /\ i + d \in 1 .. Len(inbox) /\ inbox'[i] = inbox[i + d]
           /\ request < inbox'[i].n /\ inbox'[i].n <= asked
           /\ \A j \in 1 .. i - 1 : inbox'[j].kind = "request"
                 => inbox'[j].n < inbox'[i].n
           /\ \A k \in 1 .. Len(sent) : sent[k].kind = "reply"
                 => sent[k].n < inbox'[i].n
           /\ d = 1 /\ inbox[1].kind = "request" => inbox[1].n < inbox'[i].n
<1>1. Len(inbox) \in Nat
  BY DEF TypeOK
<1>2. Len(inbox') \in Nat
  BY DEF TypeOK
<1>3. i + d \in 1 .. Len(inbox) /\ inbox'[i] = inbox[i + d]
  BY <1>1, <1>2 DEF Shifted
<1>4. \A j \in 1 .. i - 1 : j + d \in 1 .. i + d - 1 /\ inbox'[j] = inbox[j + d]
  BY <1>1, <1>2 DEF Shifted
<1>5. d = 1 => 1 \in 1 .. i + d - 1
  BY <1>2
<1>6. /\ request < inbox[i + d].n /\ inbox[i + d].n <= asked
      /\ \A j \in 1 .. i + d - 1 : inbox[j].kind = "request"
            => inbox[j].n < inbox[i + d].n
      /\ \A k \in 1 .. Len(sent) : sent[k].kind = "reply"
            => sent[k].n < inbox[i + d].n
  BY <1>3 DEF RequestsNumbered
<1>7. \A j \in 1 .. i - 1 : inbox'[j].kind = "request" => inbox'[j].n < inbox'[i].n
  BY <1>3, <1>4, <1>6
<1>8. d = 1 /\ inbox[1].kind = "request" => inbox[1].n < inbox'[i].n
  BY <1>3, <1>5, <1>6
<1> QED BY <1>3, <1>6, <1>7, <1>8

\* A request leaves the inbox for request, and that for the replies.
LEMMA KeptThrough ==
    ASSUME TypeOK, RequestsKept, NEW d \in {0, 1}, Shifted(d), Len(inbox') \in Nat,
           asked' = asked, Len(sent') \in Nat, Len(sent') >= Len(sent),
           \A k \in 1 .. Len(sent) : sent'[k] = sent[k],
           \A n \in Nat \ {0} : request = n => request' = n \/ RepliedTo(n)',
           \A n \in Nat : d = 1 /\ inbox[1] = Pkt("request", n)
                           => request' = n \/ RepliedTo(n)'
    PROVE  RequestsKept'
<1>0. Len(inbox) \in Nat /\ Len(sent) \in Nat /\ asked \in Nat
  BY DEF TypeOK
<1> SUFFICES ASSUME NEW n \in 1 .. asked
             PROVE  Unread(n)' \/ request' = n \/ RepliedTo(n)'
  BY DEF RequestsKept
<1>1. n \in Nat \ {0}
  BY <1>0
<1>2. RepliedTo(n) => RepliedTo(n)'
  <2>1. \A k \in 1 .. Len(sent) : k \in 1 .. Len(sent')
    BY <1>0
  <2> QED BY <2>1 DEF RepliedTo
<1>3. ASSUME NEW i \in 1 .. Len(inbox), inbox[i] = Pkt("request", n)
      PROVE  Unread(n)' \/ request' = n \/ RepliedTo(n)'
  <2>1. CASE d = 1 /\ i = 1
    BY <1>1, <1>3, <2>1
  <2>2. CASE d = 0 \/ i # 1
    <3>1. i - d \in 1 .. Len(inbox') /\ inbox'[i - d] = inbox[(i - d) + d]
      BY <1>0, <2>2 DEF Shifted
    <3>2. (i - d) + d = i
      BY <1>0
    <3> QED BY <1>3, <3>1, <3>2 DEF Unread
  <2> QED BY <2>1, <2>2
<1> QED BY <1>1, <1>2, <1>3 DEF RequestsKept, Unread

LEMMA NumberedNext ==
    ASSUME TypeOK, TypeOK', RequestsMeetWait, RequestsNumbered, PendingIsWanted,
           RepliesOrdered, RequestsKept, [Next]_vars
    PROVE  RequestsNumbered' /\ RepliesOrdered' /\ RequestsKept'
<1> USE DEF serverVars
<1>b. Counted
  BY TypedIsCounted
<1>0. Len(inbox) \in Nat /\ Len(sent) \in Nat /\ request \in Nat /\ asked \in Nat
  BY <1>b DEF Counted
<1>a. /\ \A i \in 1 .. Len(inbox) : inbox[i].n \in Nat
      /\ \A i \in 1 .. Len(sent) : sent[i].n \in Nat
  BY <1>b DEF Counted
<1>c. Len(inbox') \in Nat /\ Len(sent') \in Nat
  BY TypedIsCounted DEF Counted
<1>1. ASSUME NEW d \in {0, 1}, Shifted(d), asked' = asked, sent' = sent,
             \/ request' = request /\ (d = 1 => inbox[1].kind # "request")
             \/ d = 1 /\ inbox[1].kind = "request" /\ request' = inbox[1].n
                /\ Len(inbox) >= 1 /\ request = 0
      PROVE  RequestsNumbered' /\ RepliesOrdered' /\ RequestsKept'
  <2>1. request' <= asked'
    BY <1>0, <1>1 DEF RequestsNumbered
  <2>2. ASSUME NEW i \in 1 .. Len(inbox'), inbox'[i].kind = "request"
        PROVE  /\ request' < inbox'[i].n /\ inbox'[i].n <= asked'
               /\ \A j \in 1 .. i - 1 : inbox'[j].kind = "request"
                     => inbox'[j].n < inbox'[i].n
               /\ \A k \in 1 .. Len(sent) : sent[k].kind = "reply"
                     => sent[k].n < inbox'[i].n
    BY <1>1, <2>2, NumbersStay
  <2>3. ASSUME NEW k \in 1 .. Len(sent), sent[k].kind = "reply"
        PROVE  sent[k].n <= asked' /\ (request' # 0 => sent[k].n < request')
    BY <1>0, <1>1, <2>3 DEF RequestsNumbered
  <2>4. RepliesOrdered'
    BY <1>1 DEF RepliesOrdered
  <2>5. RequestsKept'
    <3>1. Len(sent') >= Len(sent) /\ \A k \in 1 .. Len(sent) : sent'[k] = sent[k]
      BY <1>0, <1>1
    <3>2. \A n \in Nat \ {0} : request = n => request' = n \/ RepliedTo(n)'
      BY <1>1
    <3>3. \A n \in Nat : d = 1 /\ inbox[1] = Pkt("request", n)
                           => request' = n \/ RepliedTo(n)'
      BY <1>1 DEF Pkt
    <3> QED BY <1>1, <3>1, <3>2, <3>3, <1>c, KeptThrough
  <2> QED BY <1>1, <2>1, <2>2, <2>3, <2>4, <2>5 DEF RequestsNumbered
<1>2. ASSUME NEW d \in {0, 1}, Shifted(d), asked' = asked, request' = 0,
             NEW n \in Nat, sent' = Append(sent, Pkt("reply", n)),
             \/ d = 0 /\ request # 0 /\ n = request
             \/ d = 1 /\ inbox[1].kind = "request" /\ n = inbox[1].n
                /\ Len(inbox) >= 1 /\ request = 0
      PROVE  RequestsNumbered' /\ RepliesOrdered' /\ RequestsKept'
  <2>1. /\ \A i \in 1 .. Len(sent') :
              \/ i = Len(sent) + 1 /\ sent'[i] = Pkt("reply", n)
              \/ i \in 1 .. Len(sent) /\ sent'[i] = sent[i]
        /\ Len(sent') = Len(sent) + 1
    BY <1>2, Appended, PacketsTyped
  <2>2. n <= asked /\ \A k \in 1 .. Len(sent) : sent[k].kind = "reply" => sent[k].n < n
    BY <1>0, <1>2 DEF RequestsNumbered
  <2>3. Pkt("reply", n).n = n
    BY DEF Pkt
  <2>4. ASSUME NEW i \in 1 .. Len(inbox'), inbox'[i].kind = "request"
        PROVE  /\ 0 < inbox'[i].n /\ inbox'[i].n <= asked' /\ n < inbox'[i].n
               /\ \A j \in 1 .. i - 1 : inbox'[j].kind = "request"
                     => inbox'[j].n < inbox'[i].n
               /\ \A k \in 1 .. Len(sent) : sent[k].kind = "reply"
                     => sent[k].n < inbox'[i].n
    <3>1. n < inbox'[i].n
      BY <1>2, <2>4, NumbersStay
    <3>2. inbox'[i].n \in Nat
      BY <1>a, <1>2, <2>4, NumbersStay
    <3>3. 0 < inbox'[i].n
      BY <3>1, <3>2
    <3> QED BY <1>2, <2>4, <3>1, <3>3, NumbersStay
  <2>5. ASSUME NEW k \in 1 .. Len(sent'), sent'[k].kind = "reply"
        PROVE  /\ sent'[k].n <= asked
               /\ \A i \in 1 .. Len(inbox') : inbox'[i].kind = "request"
                     => sent'[k].n < inbox'[i].n
    <3>1. CASE k = Len(sent) + 1 /\ sent'[k] = Pkt("reply", n)
      BY <2>2, <2>3, <2>4, <3>1
    <3>2. CASE k \in 1 .. Len(sent) /\ sent'[k] = sent[k]
      BY <2>4, <2>5, <3>2 DEF RequestsNumbered
    <3> QED BY <2>1, <3>1, <3>2
  <2>6. ASSUME NEW i \in 1 .. Len(sent'), NEW j \in 1 .. Len(sent'),
               i < j, sent'[i].kind = "reply", sent'[j].kind = "reply"
        PROVE  sent'[i].n < sent'[j].n
    <3>1. i \in 1 .. Len(sent) /\ sent'[i] = sent[i]
      BY <1>0, <2>1, <2>6
    <3>2. CASE j = Len(sent) + 1 /\ sent'[j] = Pkt("reply", n)
      BY <2>2, <2>3, <2>6, <3>1, <3>2
    <3>3. CASE j \in 1 .. Len(sent) /\ sent'[j] = sent[j]
      BY <2>6, <3>1, <3>3 DEF RepliesOrdered
    <3> QED BY <2>1, <3>2, <3>3
  <2>7. RepliesOrdered'
    BY <2>6 DEF RepliesOrdered
  <2>8. request' <= asked'
    BY <1>0, <1>2
  <2>9. RequestsKept'
    <3>1. Len(sent') >= Len(sent) /\ \A k \in 1 .. Len(sent) : sent'[k] = sent[k]
      BY <1>0, <1>2, <2>1, Appended, PacketsTyped
    <3>2. Len(sent') \in 1 .. Len(sent') /\ sent'[Len(sent')] = Pkt("reply", n)
      BY <1>0, <1>2, <2>1, Appended, PacketsTyped
    <3>3. RepliedTo(n)'
      BY <3>2 DEF RepliedTo
    <3>4. \A m \in Nat \ {0} : request = m => request' = m \/ RepliedTo(m)'
      BY <1>2, <3>3
    <3>5. \A m \in Nat : d = 1 /\ inbox[1] = Pkt("request", m)
                           => request' = m \/ RepliedTo(m)'
      BY <1>2, <3>3 DEF Pkt
    <3> QED BY <1>2, <3>1, <3>4, <3>5, <1>c, KeptThrough
  <2> QED BY <1>2, <2>4, <2>5, <2>7, <2>8, <2>9 DEF RequestsNumbered
<1>3. ASSUME inbox' = inbox, asked' = asked, request' = request,
             NEW p \in Packet, p.kind # "reply", sent' = Append(sent, p)
      PROVE  RequestsNumbered' /\ RepliesOrdered' /\ RequestsKept'
  <2>1. \A i \in 1 .. Len(sent') :
              \/ i = Len(sent) + 1 /\ sent'[i] = p
              \/ i \in 1 .. Len(sent) /\ sent'[i] = sent[i]
    BY <1>3, Appended
  <2>2. \A i \in 1 .. Len(sent') : sent'[i].kind = "reply"
           => i \in 1 .. Len(sent) /\ sent'[i] = sent[i]
    BY <1>3, <2>1
  <2>3. RepliesOrdered'
    BY <2>2 DEF RepliesOrdered
  <2>4. RequestsNumbered'
    BY <1>3, <2>2 DEF RequestsNumbered
  <2>5. RequestsKept'
    <3>1. Len(sent') >= Len(sent) /\ \A k \in 1 .. Len(sent) : sent'[k] = sent[k]
      BY <1>0, <1>3, Appended
    <3>2. Shifted(0)
      BY <1>3, SameInbox
    <3> QED BY <1>3, <3>1, <3>2, <1>c, KeptThrough
  <2> QED BY <2>3, <2>4, <2>5
<1>4. CASE NothingArrived \/ KexNothingArrived \/ ConnectionLost \/ KexFails
           \/ UNCHANGED vars
  <2>1. inbox' = inbox /\ asked' = asked /\ sent' = sent /\ request' = request
    BY <1>4 DEF NothingArrived, KexNothingArrived, ConnectionLost, KexFails, vars,
                clientVars
  <2> QED BY <1>1, <2>1, SameInbox
<1>5. CASE ReadAdjust \/ ReadAnswer \/ ReadKexInit \/ KexRead
  <2>1. asked' = asked /\ sent' = sent /\ request' = request
    BY <1>5 DEF ReadAdjust, ReadAnswer, ReadKexInit, KexRead
  <2>2. Shifted(1)
    BY <1>5, ArrivalShifts DEF ReadAdjust, ReadAnswer, ReadKexInit, KexRead
  <2>3. inbox[1].kind # "request"
    BY <1>5, Arrival DEF ReadAdjust, ReadAnswer, ReadKexInit, KexRead
  <2> QED BY <1>1, <2>1, <2>2, <2>3
<1>6. CASE ReadRequest
  <2>1. /\ Shifted(1) /\ asked' = asked /\ inbox[1].kind = "request"
        /\ Len(inbox) >= 1 /\ Head(inbox) = inbox[1] /\ inbox[1] \in Message
        /\ request = 0
    BY <1>6, Arrival, ArrivalShifts DEF ReadRequest, Reading
  <2>2. inbox[1].n \in Nat
    BY <2>1 DEF Message
  <2>3. CASE sent' = sent
    <3>1. PICK o \in SendOutcomes(Pkt("reply", inbox[1].n)) :
            ReplyWith(inbox[1].n, o)
      BY <1>6, <2>1 DEF ReadRequest
    <3>2. ~o.ok
      <4>1. o.ok => o.sent = Append(sent, Current(Pkt("reply", inbox[1].n)).what)
        BY <2>2, <3>1, SendResult, PacketsTyped
      <4>2. o.sent = sent
        BY <2>3, <3>1 DEF ReplyWith
      <4>3. ASSUME NEW p \in Packet, sent = Append(sent, p) PROVE FALSE
        BY <1>0, <4>3, Appended
      <4> QED BY <2>2, <4>1, <4>2, <4>3, SendResult, PacketsTyped
    <3>3. request' = inbox[1].n
      BY <3>1, <3>2 DEF ReplyWith, RequestAfter
    <3> QED BY <1>1, <2>1, <2>3, <3>3
  <2>4. CASE sent' # sent
    <3>1. request' = 0 /\ sent' = Append(sent, Pkt("reply", inbox[1].n))
      BY <1>6, <2>4, SentGrows DEF ReadRequest, ResumeReply, KexSend, SendData,
                                   Reading, Sending, KexKind
    <3> QED BY <1>2, <2>1, <2>2, <3>1
  <2> QED BY <2>3, <2>4
<1>7. CASE ResumeReply
  <2>1. Shifted(0) /\ asked' = asked /\ inbox' = inbox /\ request # 0
    BY <1>7, SameInbox DEF ResumeReply
  <2>2. PICK o \in SendOutcomes(Pkt("reply", request)) : ReplyWith(request, o)
    BY <1>7 DEF ResumeReply
  <2>3. Current(Pkt("reply", request)).what = Pkt("reply", request)
    BY <1>7, OwnPacket DEF ResumeReply, HasSender, Wanted, Sending, KexKind
  <2>4. CASE o.ok
    <3>1. request' = 0 /\ sent' = Append(sent, Pkt("reply", request))
      BY <1>0, <2>2, <2>3, <2>4, SendResult, PacketsTyped DEF ReplyWith, RequestAfter
    <3> QED BY <1>0, <1>2, <2>1, <3>1
  <2>5. CASE ~o.ok
    <3>1. request' = request /\ sent' = sent
      BY <1>0, <2>2, <2>5, SendResult, PacketsTyped DEF ReplyWith, RequestAfter
    <3> QED BY <1>1, <2>1, <3>1
  <2> QED BY <2>4, <2>5
<1>8. CASE KexSend \/ SendData
  <2>1. inbox' = inbox /\ asked' = asked /\ request' = request
    BY <1>8 DEF KexSend, SendData
  <2>2. CASE sent' = sent
    BY <1>1, <2>1, <2>2, SameInbox
  <2>3. CASE sent' # sent
    <3>1. \/ KexSend /\ sent' = Append(sent, KexPacket)
          \/ sent' = Append(sent, Pkt("data", reported + 1))
      BY <1>8, <2>3, SentGrows DEF ReadRequest, ResumeReply, KexSend, SendData,
                                   Reading, Sending, KexKind, MaySend
    <3>2. KexSend => KexPacket \in Packet /\ KexPacket.kind # "reply"
      BY PacketsTyped DEF KexSend, KexPacket, KexKind, Sending, Pkt
    <3>3. reported + 1 \in Nat
      BY <1>b DEF Counted
    <3>4. Pkt("data", reported + 1) \in Packet
          /\ Pkt("data", reported + 1).kind # "reply"
      BY <3>3, PacketsTyped DEF Pkt
    <3> QED BY <1>3, <2>1, <3>1, <3>2, <3>4
  <2> QED BY <2>2, <2>3
<1>9. CASE ServerMoves \/ ServerAsks \/ ServerRekeys
  <2>1. /\ sent' = sent /\ request' = request
        /\ Len(inbox') >= Len(inbox)
        /\ \A i \in 1 .. Len(inbox) : inbox'[i] = inbox[i]
    BY <1>9, ServerStep DEF ServerAdds, clientVars
  <2>2. \/ /\ asked' = asked
           /\ \A i \in 1 .. Len(inbox') :
                 i > Len(inbox) => inbox'[i].kind # "request"
        \/ /\ asked' = asked + 1
           /\ Len(inbox') = Len(inbox) + 1
           /\ inbox'[Len(inbox) + 1].n = asked + 1
    BY <1>9, ServerStep DEF Pkt
  <2>3. Counted'
    BY TypedIsCounted
  <2>4. Len(inbox') \in Nat
    BY <2>3 DEF Counted
  <2>5. asked <= asked'
    BY <1>0, <2>2
  <2>6. ASSUME NEW i \in 1 .. Len(inbox'), inbox'[i].kind = "request"
        PROVE  \/ i \in 1 .. Len(inbox) /\ inbox'[i] = inbox[i]
               \/ i = Len(inbox) + 1 /\ inbox'[i].n = asked + 1
                  /\ asked' = asked + 1
    BY <1>0, <2>1, <2>2, <2>4, <2>6
  <2>7. ASSUME NEW i \in 1 .. Len(inbox'), inbox'[i].kind = "request"
        PROVE  /\ request < inbox'[i].n /\ inbox'[i].n <= asked'
               /\ \A j \in 1 .. i - 1 : inbox'[j].kind = "request"
                     => inbox'[j].n < inbox'[i].n
               /\ \A k \in 1 .. Len(sent) : sent[k].kind = "reply"
                     => sent[k].n < inbox'[i].n
    <3>1. CASE i \in 1 .. Len(inbox) /\ inbox'[i] = inbox[i]
      <4>1. \A j \in 1 .. i - 1 : j \in 1 .. Len(inbox) /\ inbox'[j] = inbox[j]
        BY <1>0, <2>1, <3>1
      <4>2. inbox[i].n <= asked /\ inbox[i].n \in Nat
        BY <1>a, <2>7, <3>1 DEF RequestsNumbered
      <4>3. inbox[i].n <= asked'
        BY <1>0, <2>2, <4>2
      <4> QED BY <2>7, <3>1, <4>1, <4>3 DEF RequestsNumbered
    <3>2. CASE i = Len(inbox) + 1 /\ inbox'[i].n = asked + 1 /\ asked' = asked + 1
      <4>1. \A j \in 1 .. i - 1 : j \in 1 .. Len(inbox) /\ inbox'[j] = inbox[j]
        BY <1>0, <2>1, <3>2
      <4>2. \A n \in Nat : n <= asked => n < asked + 1
        BY <1>0
      <4>3. request <= asked
        BY DEF RequestsNumbered
      <4>4. \A j \in 1 .. i - 1 : inbox'[j].kind = "request"
               => inbox'[j].n < inbox'[i].n
        BY <1>a, <3>2, <4>1, <4>2 DEF RequestsNumbered
      <4>5. \A k \in 1 .. Len(sent) : sent[k].kind = "reply"
               => sent[k].n < inbox'[i].n
        BY <1>a, <3>2, <4>2 DEF RequestsNumbered
      <4> QED BY <1>0, <3>2, <4>2, <4>3, <4>4, <4>5
    <3> QED BY <2>6, <2>7, <3>1, <3>2
  <2>8. request' <= asked'
    BY <1>0, <2>1, <2>2 DEF RequestsNumbered
  <2>9. ASSUME NEW k \in 1 .. Len(sent), sent[k].kind = "reply"
        PROVE  sent[k].n <= asked' /\ (request # 0 => sent[k].n < request)
    <3>1. sent[k].n <= asked /\ (request # 0 => sent[k].n < request)
      BY <2>9 DEF RequestsNumbered
    <3>2. sent[k].n \in Nat
      BY <1>a
    <3> QED BY <1>0, <2>2, <3>1, <3>2
  <2>10. RepliesOrdered'
    BY <2>1 DEF RepliesOrdered
  <2>11. RequestsKept'
    <3>1. ASSUME NEW n \in 1 .. asked
          PROVE  (Unread(n) \/ request = n \/ RepliedTo(n))'
      <4>1. Unread(n) \/ request = n \/ RepliedTo(n)
        BY DEF RequestsKept
      <4>2. Unread(n) => Unread(n)'
        <5>1. \A i \in 1 .. Len(inbox) : i \in 1 .. Len(inbox') /\ inbox'[i] = inbox[i]
          BY <1>0, <2>1, <2>4
        <5> QED BY <5>1 DEF Unread
      <4>3. RepliedTo(n) => RepliedTo(n)'
        BY <2>1 DEF RepliedTo
      <4> QED BY <2>1, <4>1, <4>2, <4>3
    <3>2. ASSUME asked' = asked + 1, Len(inbox') = Len(inbox) + 1,
                 inbox'[Len(inbox) + 1] = Pkt("request", asked + 1),
                 NEW n, n = asked + 1
          PROVE  Unread(n)'
      <4>1. Len(inbox) + 1 \in 1 .. Len(inbox')
        BY <1>0, <3>2
      <4> QED BY <3>2, <4>1 DEF Unread
    <3>3. \/ asked' = asked
          \/ /\ asked' = asked + 1 /\ Len(inbox') = Len(inbox) + 1
             /\ inbox'[Len(inbox) + 1] = Pkt("request", asked + 1)
      BY <1>9, ServerStep
    <3>4. \A n \in 1 .. asked' : n \in 1 .. asked \/ (asked' # asked /\ n = asked + 1)
      BY <1>0, <3>3
    <3> QED BY <3>1, <3>2, <3>3, <3>4 DEF RequestsKept
  <2> QED BY <2>1, <2>7, <2>8, <2>9, <2>10, <2>11 DEF RequestsNumbered
<1> QED BY <1>4, <1>5, <1>6, <1>7, <1>8, <1>9 DEF Next, ClientMoves

-----------------------------------------------------------------------------
(* The exchange of keys *)

\* While nothing is sent an exchange that has begun goes on, or it has failed.
LEMMA ExchangeGoesOn ==
    ASSUME TypeOK, RequestsMeetWait, RequestsNumbered, PendingIsWanted,
           [Next]_vars, sent' = sent, ~kexFailed'
    PROVE  /\ ~kexFailed
           /\ kex \in {"dh", "reply", "newkeys"}
                 => kex' \in {"dh", "reply", "newkeys"} /\ round' = round
<1>1. CASE KexSend
  <2>1. PICK o \in SendOutcomes(KexPacket) :
          /\ sent' = o.sent
          /\ kex' = IF o.ok THEN AfterSend[kex] ELSE kex
    BY <1>1 DEF KexSend
  <2>2. KexPacket \in Packet
    BY <1>1, PacketsTyped DEF KexSend
  <2>3. ~o.ok
    <3>1. o.ok => sent' = Append(sent, Current(KexPacket).what)
      BY <2>1, <2>2, SendResult
    <3>2. Current(KexPacket).what \in Packet
      BY <2>1, <2>2, SendResult
    <3>3. Len(sent) \in Nat
      BY DEF TypeOK
    <3>4. o.ok => Len(sent') = Len(sent) + 1
      BY <3>1, <3>2, Appended
    <3> QED BY <3>3, <3>4
  <2> QED BY <1>1, <2>1, <2>3 DEF KexSend
<1>2. CASE KexRead
  BY <1>2 DEF KexRead
<1>3. CASE UNCHANGED clientVars
  BY <1>3 DEF clientVars
<1>4. ServerMoves \/ ServerAsks \/ ServerRekeys => UNCHANGED clientVars
  BY ServerStep DEF ServerAdds
<1>5. UNCHANGED vars => UNCHANGED clientVars
  BY DEF vars
<1>6. ~KexFails
  BY DEF KexFails
<1> QED BY <1>1, <1>2, <1>3, <1>4, <1>5, <1>6
        DEF Next, ClientMoves, NothingArrived, ReadAdjust, ReadAnswer, ReadRequest,
            ResumeReply, ReadKexInit, KexNothingArrived, SendData, ConnectionLost,
            Reading

LEMMA ExchangeNext ==
    ASSUME TypeOK, RequestsMeetWait, RequestsNumbered, PendingIsWanted,
           ExchangeOpen, KexUndisturbed, [Next]_vars
    PROVE  ExchangeOpen' /\ KexUndisturbed'
<1>0. Len(sent) \in Nat
  BY DEF TypeOK
<1>1. CASE kexFailed'
  BY <1>1 DEF ExchangeOpen, KexUndisturbed
<1>2. CASE ~kexFailed' /\ sent' = sent
  <2>1. /\ ~kexFailed
        /\ kex \in {"dh", "reply", "newkeys"}
              => kex' \in {"dh", "reply", "newkeys"} /\ round' = round
    BY <1>2, ExchangeGoesOn
  <2>2. KexUndisturbed'
    BY <1>2, <2>1 DEF KexUndisturbed
  <2>3. ExchangeOpen'
    BY <1>2, <2>1 DEF ExchangeOpen
  <2> QED BY <2>2, <2>3
<1>3. ASSUME NEW p \in Packet, sent' = Append(sent, p), ~kexFailed, ~kexFailed',
             \/ p.kind \notin KexKinds /\ kex = "none"
             \/ /\ kex \in {"init", "dh", "newkeys"}
                /\ p = Pkt(KexKind[kex], round)
                /\ kex' = AfterSend[kex] /\ round' = round
      PROVE  ExchangeOpen' /\ KexUndisturbed'
  <2>1. /\ Len(sent') = Len(sent) + 1
        /\ sent'[Len(sent) + 1] = p
        /\ \A i \in 1 .. Len(sent) : sent'[i] = sent[i]
        /\ \A i \in 1 .. Len(sent') :
              \/ i = Len(sent) + 1 /\ sent'[i] = p
              \/ i \in 1 .. Len(sent) /\ sent'[i] = sent[i]
    BY <1>3, Appended
  <2>2. \/ p.kind \notin KexKinds
        \/ kex = "init" /\ p.kind = "kexinit" /\ p.n = round /\ kex' = "dh"
        \/ kex = "dh" /\ p.kind = "dh" /\ kex' = "reply"
        \/ kex = "newkeys" /\ p = Pkt("newkeys", round)
    BY <1>3 DEF Pkt, KexKind, AfterSend
  \* A KEXINIT that has been answered by NEWKEYS stays so.
  <2>3. ASSUME NEW i \in 1 .. Len(sent), sent[i].kind = "kexinit",
               \E m \in i .. Len(sent) : sent[m] = Pkt("newkeys", sent[i].n)
        PROVE  \E m \in i .. Len(sent) : sent'[m] = Pkt("newkeys", sent'[i].n)
    <3>1. PICK m \in i .. Len(sent) : sent[m] = Pkt("newkeys", sent[i].n)
      BY <2>3
    <3>2. m \in 1 .. Len(sent) /\ sent'[m] = sent[m] /\ sent'[i] = sent[i]
      BY <1>0, <2>1, <3>1
    <3> QED BY <3>1, <3>2
  <2>4. ASSUME NEW i \in 1 .. Len(sent), sent[i].kind = "kexinit",
               ~ \E m \in i .. Len(sent) : sent[m] = Pkt("newkeys", sent[i].n)
        PROVE  /\ p.kind \in KexKinds /\ sent[i].n = round
               /\ kex \in {"dh", "newkeys"}
               /\ \A j \in i .. Len(sent) : sent[j].kind \in KexKinds
    <3>1. /\ kex \in {"dh", "reply", "newkeys"} /\ sent[i].n = round
          /\ \A j \in i .. Len(sent) : sent[j].kind \in KexKinds
      BY <1>3, <2>4 DEF ExchangeOpen
    <3>2. kex \in {"dh", "newkeys"} /\ p = Pkt(KexKind[kex], round)
      BY <1>3, <3>1
    <3>3. p.kind \in KexKinds
      BY <3>2 DEF KexKinds, Pkt, KexKind
    <3> QED BY <3>1, <3>2, <3>3
  <2>5. ASSUME NEW i \in 1 .. Len(sent'), NEW j \in 1 .. Len(sent'), i < j,
               sent'[i].kind = "kexinit", sent'[j].kind \notin KexKinds
        PROVE  \E m \in i .. j : sent'[m] = Pkt("newkeys", sent'[i].n)
    <3>1. i \in 1 .. Len(sent) /\ sent'[i] = sent[i]
      BY <1>0, <2>1, <2>5
    <3>2. CASE j = Len(sent) + 1 /\ sent'[j] = p
      <4>1. \E m \in i .. Len(sent) : sent[m] = Pkt("newkeys", sent[i].n)
        BY <2>4, <2>5, <3>1, <3>2
      <4>2. PICK m \in i .. Len(sent) : sent'[m] = Pkt("newkeys", sent'[i].n)
        BY <2>3, <2>5, <3>1, <4>1
      <4>3. m \in i .. j
        BY <1>0, <3>2
      <4> QED BY <4>2, <4>3
    <3>3. CASE j \in 1 .. Len(sent) /\ sent'[j] = sent[j]
      <4>1. PICK m \in i .. j : sent[m] = Pkt("newkeys", sent[i].n)
        BY <1>3, <2>5, <3>1, <3>3 DEF KexUndisturbed
      <4>2. m \in 1 .. Len(sent) /\ sent'[m] = sent[m]
        BY <1>0, <2>1, <3>1, <3>3
      <4> QED BY <3>1, <4>1, <4>2
    <3> QED BY <2>1, <3>2, <3>3
  <2>6. ASSUME NEW i \in 1 .. Len(sent'), sent'[i].kind = "kexinit"
        PROVE  \/ \E m \in i .. Len(sent') : sent'[m] = Pkt("newkeys", sent'[i].n)
               \/ /\ kex' \in {"dh", "reply", "newkeys"}
                  /\ sent'[i].n = round'
                  /\ \A j \in i .. Len(sent') : sent'[j].kind \in KexKinds
    <3>1. CASE i = Len(sent) + 1 /\ sent'[i] = p
      <4>1. /\ kex' = "dh" /\ p.kind \in KexKinds /\ p.n = round /\ round' = round
        BY <1>3, <2>2, <2>6, <3>1 DEF KexKinds, Pkt
      <4>2. \A j \in i .. Len(sent') : sent'[j] = p
        BY <1>0, <2>1, <3>1
      <4> QED BY <3>1, <4>1, <4>2
    <3>2. CASE i \in 1 .. Len(sent) /\ sent'[i] = sent[i]
      <4>1. CASE \E m \in i .. Len(sent) : sent[m] = Pkt("newkeys", sent[i].n)
        <5>1. PICK m \in i .. Len(sent) : sent'[m] = Pkt("newkeys", sent'[i].n)
          BY <2>3, <2>6, <3>2, <4>1
        <5>2. m \in i .. Len(sent')
          BY <1>0, <2>1
        <5> QED BY <5>1, <5>2
      <4>2. CASE ~ \E m \in i .. Len(sent) : sent[m] = Pkt("newkeys", sent[i].n)
        <5>1. /\ p.kind \in KexKinds /\ sent[i].n = round
              /\ kex \in {"dh", "newkeys"}
              /\ \A j \in i .. Len(sent) : sent[j].kind \in KexKinds
          BY <2>4, <2>6, <3>2, <4>2
        <5>2. round' = round
          BY <1>3, <5>1
        <5>3. \A j \in i .. Len(sent') : sent'[j].kind \in KexKinds
          <6>1. ASSUME NEW j \in i .. Len(sent') PROVE sent'[j].kind \in KexKinds
            <7>1. j \in 1 .. Len(sent')
              BY <1>0, <2>1, <3>2
            <7>2. j # Len(sent) + 1 => j \in i .. Len(sent) /\ j \in 1 .. Len(sent)
              BY <1>0, <2>1, <3>2
            <7> QED BY <2>1, <5>1, <7>1, <7>2
          <6> QED BY <6>1
        <5>4. CASE kex = "dh"
          BY <2>2, <3>2, <5>1, <5>2, <5>3, <5>4
        <5>5. CASE kex = "newkeys"
          <6>1. p = Pkt("newkeys", sent'[i].n)
            BY <2>2, <3>2, <5>1, <5>5
          <6>2. Len(sent) + 1 \in i .. Len(sent')
            BY <1>0, <2>1, <3>2
          <6> QED BY <2>1, <6>1, <6>2
        <5> QED BY <5>1, <5>4, <5>5
      <4> QED BY <4>1, <4>2
    <3> QED BY <2>1, <3>1, <3>2
  <2>7. KexUndisturbed'
    BY <2>5 DEF KexUndisturbed
  <2>8. ExchangeOpen'
    BY <2>6 DEF ExchangeOpen
  <2> QED BY <2>7, <2>8
<1>4. CASE sent' # sent /\ ~kexFailed'
  <2>1. CASE KexSend /\ kex' = AfterSend[kex] /\ sent' = Append(sent, KexPacket)
    <3>1. KexPacket \in Packet /\ kex \in {"init", "dh", "newkeys"}
      BY <2>1, PacketsTyped DEF KexSend, Sending, KexKind
    <3>2. ~kexFailed /\ round' = round
      BY <1>4, <2>1 DEF KexSend
    <3> QED BY <1>3, <1>4, <2>1, <3>1, <3>2 DEF KexPacket
  <2>2. CASE ReadRequest /\ sent' = Append(sent, Pkt("reply", inbox[1].n))
    <3>1. inbox[1].n \in Nat
      BY <2>2, Arrival DEF ReadRequest, Message
    <3>2. Pkt("reply", inbox[1].n) \in Packet
          /\ Pkt("reply", inbox[1].n).kind \notin KexKinds
      BY <3>1, PacketsTyped DEF Pkt, KexKinds
    <3>3. ~kexFailed /\ kex = "none"
      BY <1>4, <2>2 DEF ReadRequest, Reading
    <3> QED BY <1>3, <1>4, <2>2, <3>2, <3>3
  <2>3. CASE ResumeReply /\ sent' = Append(sent, Pkt("reply", request))
    <3>1. request \in Nat
      BY DEF TypeOK
    <3>2. Pkt("reply", request) \in Packet
          /\ Pkt("reply", request).kind \notin KexKinds
      BY <3>1, PacketsTyped DEF Pkt, KexKinds
    <3>3. ~kexFailed /\ kex = "none"
      BY <1>4, <2>3 DEF ResumeReply
    <3> QED BY <1>3, <1>4, <2>3, <3>2, <3>3
  <2>4. CASE SendData /\ sent' = Append(sent, Pkt("data", reported + 1))
    <3>1. reported + 1 \in Nat
      BY DEF TypeOK
    <3>2. Pkt("data", reported + 1) \in Packet
          /\ Pkt("data", reported + 1).kind \notin KexKinds
      BY <3>1, PacketsTyped DEF Pkt, KexKinds
    <3>3. ~kexFailed /\ kex = "none"
      BY <1>4, <2>4 DEF SendData, MaySend
    <3> QED BY <1>3, <1>4, <2>4, <3>2, <3>3
  <2> QED BY <1>4, <2>1, <2>2, <2>3, <2>4, SentGrows
<1> QED BY <1>1, <1>2, <1>4

-----------------------------------------------------------------------------
(* The whole invariant *)

PacketInv ==
    /\ TypeOK
    /\ RequestsMeetWait /\ RequestsNumbered /\ ExchangeOpen
    /\ PendingIsWanted /\ ReportedIsSent /\ KexUndisturbed
    /\ RepliesOrdered /\ RequestsKept

LEMMA PacketInvInit == ASSUME Init PROVE PacketInv
<1>1. TypeOK
  BY InitIsTyped
<1>2. Len(inbox) = 0 /\ Len(sent) = 0 /\ reported = 0
  BY DEF Init
<1>3. RequestsMeetWait /\ RequestsNumbered
  BY <1>2 DEF Init, RequestsMeetWait, RequestsNumbered
<1>4. /\ ExchangeOpen /\ KexUndisturbed /\ ReportedIsSent
      /\ RepliesOrdered /\ RequestsKept
  BY <1>2 DEF Init, ExchangeOpen, KexUndisturbed, ReportedIsSent, RepliesOrdered,
              RequestsKept
<1>5. PendingIsWanted
  BY DEF Init, PendingIsWanted
<1> QED BY <1>1, <1>3, <1>4, <1>5 DEF PacketInv

LEMMA PacketInvNext ==
    ASSUME ~AskAlways, PacketInv, WindowInv, [Next]_vars PROVE PacketInv'
<1>1. TypeOK'
  BY WindowInvNext DEF WindowInv
<1>2. RequestsMeetWait'
  BY MeetWaitNext DEF PacketInv
<1>3. PendingIsWanted'
  BY PendingNext DEF PacketInv
<1>4. RequestsNumbered' /\ RepliesOrdered' /\ RequestsKept'
  BY <1>1, NumberedNext DEF PacketInv
<1>5. ReportedIsSent'
  BY ReportedNext DEF PacketInv
<1>6. ExchangeOpen' /\ KexUndisturbed'
  BY ExchangeNext DEF PacketInv
<1> QED BY <1>1, <1>2, <1>3, <1>4, <1>5, <1>6 DEF PacketInv

LEMMA PacketInvHolds == ASSUME ~AskAlways PROVE Spec => []PacketInv
<1>1. PacketInv /\ WindowInv /\ [Next]_vars => PacketInv'
  BY PacketInvNext
<1> QED BY <1>1, PacketInvInit, WindowInvHolds, PTL DEF Spec

\* When the server asks for replies only while the program waits, the packet
\* the socket took in part always has a sender that comes back with it.
THEOREM TransportPendingIsWanted == ~AskAlways => (Spec => []PendingIsWanted)
<1> SUFFICES ASSUME ~AskAlways PROVE Spec => []PendingIsWanted
  OBVIOUS
<1>1. PacketInv => PendingIsWanted
  BY DEF PacketInv
<1> QED BY <1>1, PacketInvHolds, PTL

\* Under the same condition what channel_write reported is what was sent.
THEOREM TransportReportedIsSent == ~AskAlways => (Spec => []ReportedIsSent)
<1> SUFFICES ASSUME ~AskAlways PROVE Spec => []ReportedIsSent
  OBVIOUS
<1>1. PacketInv => ReportedIsSent
  BY DEF PacketInv
<1> QED BY <1>1, PacketInvHolds, PTL

\* Under the same condition every request has one reply, in order: it is still
\* to be read, or being replied to, or its reply is among what was sent.
THEOREM TransportRepliesInOrder == ~AskAlways => (Spec => []RepliesInOrder)
<1> SUFFICES ASSUME ~AskAlways PROVE Spec => []RepliesInOrder
  OBVIOUS
<1>1. PacketInv => RepliesInOrder
  BY DEF PacketInv, RepliesInOrder
<1> QED BY <1>1, PacketInvHolds, PTL

\* Under the same condition nothing slips into an exchange of keys.
THEOREM TransportKexUndisturbed == ~AskAlways => (Spec => []KexUndisturbed)
<1> SUFFICES ASSUME ~AskAlways PROVE Spec => []KexUndisturbed
  OBVIOUS
<1>1. PacketInv => KexUndisturbed
  BY DEF PacketInv
<1> QED BY <1>1, PacketInvHolds, PTL

-----------------------------------------------------------------------------
(* The calls never stand still                                              *)

\* Messages that are no part of an exchange of keys
PlainKinds == {"adjust", "answer", "request"}

\* Packets of a kind that the server has still to handle
Unseen(kind) == {i \in seen + 1 .. Len(sent) : sent[i].kind = kind}

One(kind) == \E i \in Unseen(kind) : Unseen(kind) = {i}

\* Nothing is on its way to the server that would change its part of the
\* exchange.
Quiet == Unseen("dh") = {} /\ Unseen("newkeys") = {}

\* From a on nothing but plain messages arrives, and last the KEXINIT of an
\* exchange that the server has started.
Open(a) ==
    /\ srvKex => Len(inbox) >= a /\ inbox[Len(inbox)].kind = "kexinit"
    /\ \A i \in a .. Len(inbox) :
          (srvKex => i < Len(inbox)) => inbox[i].kind \in PlainKinds

\* The stages of an exchange, as the two ends and the messages and packets
\* between them show it
Between == kex = "none" /\ Quiet /\ Open(1)

Begun == kex \in {"init", "dh"} /\ srvKex /\ Quiet /\ Len(inbox) = 0

Offered ==
    /\ kex = "reply" /\ srvKex
    /\ One("dh") /\ Unseen("newkeys") = {}
    /\ Len(inbox) = 0

Replied ==
    /\ kex = "reply" /\ srvKex /\ Quiet
    /\ Len(inbox) = 2 /\ inbox[1].kind = "kexreply" /\ inbox[2].kind = "newkeys"

Agreed ==
    /\ kex = "newkeys" /\ srvKex /\ Quiet
    /\ Len(inbox) = 1 /\ inbox[1].kind = "newkeys"

\* The NEWKEYS of the client is on its way,
Switching ==
    /\ kex = "finish" /\ srvKex
    /\ Unseen("dh") = {} /\ One("newkeys")
    /\ Len(inbox) = 1 /\ inbox[1].kind = "newkeys"

\* or has arrived before the client read that of the server,
Switched ==
    /\ kex = "finish" /\ Quiet
    /\ Len(inbox) >= 1 /\ inbox[1].kind = "newkeys" /\ Open(2)

\* or is still on its way when the client is through.
Ahead ==
    /\ kex = "none" /\ srvKex
    /\ Unseen("dh") = {} /\ One("newkeys")
    /\ Len(inbox) = 0

Stage ==
    \/ Between \/ Begun \/ Offered \/ Replied \/ Agreed
    \/ Switching \/ Switched \/ Ahead

ExchangeStage == ~kexFailed => Stage

\* The answer to data packet n is on its way to the program, or the data it
\* answers are on theirs.
OnItsWay(n) ==
    \/ \E i \in 1 .. Len(inbox) : inbox[i] = Pkt("answer", n)
    \/ \E i \in 1 .. Len(owed) : owed[i] = n
    \/ \E i \in seen + 1 .. Len(sent) : sent[i] = Pkt("data", n)

AnswerOnItsWay == app = "wait" => OnItsWay(reported)

\* An adjust that was granted and not counted has still to be read.
AdjustsOnTheirWay ==
    /\ window + reported >= Window
    /\ \A g \in 1 .. granted :
          window + reported < Window + g
              => \E i \in 1 .. Len(inbox) : inbox[i] = Pkt("adjust", g)

\* A call of the client gets on: there is something to send, or what has
\* arrived is what it reads next.
ClientMay ==
    \/ Sending /\ ~Deaf
    \/ kex = "reply" /\ inbox # <<>> /\ Head(inbox).kind = "kexreply"
    \/ kex = "finish" /\ inbox # <<>> /\ Head(inbox).kind = "newkeys"
    \/ /\ kex = "none"
       /\ \/ app = "send"
          \/ request # 0 /\ ~Deaf
          \/ app = "drain" /\ window > 0 /\ inbox = <<>>
          \/ inbox # <<>> /\ Head(inbox).kind \in PlainKinds \cup {"kexinit"}

\* The server gets on with what it has received.
ServerMay ==
    \/ seen < Len(sent)
    \/ ~srvKex /\ owed # <<>>
    \/ ~srvKex /\ \E i \in 1 .. seen : sent[i] = Pkt("data", granted + 1)

\* The one standstill: what is left of a packet of the exchange waits for a
\* call that waits for input.
DeafInExchange == Deaf /\ Sending

NoStandstill ==
    KexRunning /\ ~kexFailed => ClientMay \/ ServerMay \/ DeafInExchange

\* What a step does to the packets the server has not handled
LEMMA UnseenStays ==
    ASSUME NEW k, sent' = sent, seen' = seen
    PROVE  Unseen(k)' = Unseen(k)
BY DEF Unseen

LEMMA UnseenAdded ==
    ASSUME TypeOK, NEW k, NEW p \in Packet, sent' = Append(sent, p), seen' = seen
    PROVE  Unseen(k)' = IF p.kind = k THEN Unseen(k) \cup {Len(sent) + 1}
                        ELSE Unseen(k)
<1>0. Len(sent) \in Nat /\ seen \in 0 .. Len(sent)
  BY DEF TypeOK
<1>1. /\ Len(sent') = Len(sent) + 1
      /\ sent'[Len(sent) + 1] = p
      /\ \A i \in 1 .. Len(sent) : sent'[i] = sent[i]
  BY Appended
<1>2. ASSUME NEW i
      PROVE  i \in seen' + 1 .. Len(sent')
                <=> i \in seen + 1 .. Len(sent) \/ i = Len(sent) + 1
  BY <1>0, <1>1
<1>3. ASSUME NEW i
      PROVE  i \in Unseen(k)'
                <=> i \in Unseen(k) \/ (i = Len(sent) + 1 /\ p.kind = k)
  <2>1. i \in Unseen(k)' <=> i \in seen' + 1 .. Len(sent') /\ sent'[i].kind = k
    BY DEF Unseen
  <2>2. i \in Unseen(k) <=> i \in seen + 1 .. Len(sent) /\ sent[i].kind = k
    BY DEF Unseen
  <2>3. CASE i \in seen + 1 .. Len(sent)
    <3>1. i # Len(sent) + 1 /\ sent'[i] = sent[i]
      BY <1>0, <1>1, <2>3
    <3> QED BY <1>2, <2>1, <2>2, <2>3, <3>1
  <2>4. CASE i \notin seen + 1 .. Len(sent)
    BY <1>1, <1>2, <2>1, <2>2, <2>4
  <2> QED BY <2>3, <2>4
<1> QED BY <1>3

LEMMA UnseenRead ==
    ASSUME TypeOK, NEW k, ServerReads
    PROVE  /\ Unseen(k)' = Unseen(k) \ {seen + 1}
           /\ seen + 1 \in Unseen(k) <=> sent[seen + 1].kind = k
<1>0. /\ Len(sent) \in Nat /\ seen \in 0 .. Len(sent) /\ seen < Len(sent)
      /\ seen' = seen + 1 /\ sent' = sent
  BY DEF TypeOK, ServerReads, clientVars
<1>1. ASSUME NEW i
      PROVE  i \in seen' + 1 .. Len(sent')
                <=> i \in seen + 1 .. Len(sent) /\ i # seen + 1
  BY <1>0
<1> QED BY <1>0, <1>1 DEF Unseen

\* Reading a message and adding one
LEMMA OpenShifts ==
    ASSUME TypeOK, NEW kind, Arrives(kind), NEW a \in {1, 2}, Open(a),
           a = 1 => kind # "kexinit", srvKex' = srvKex
    PROVE  Open(1)'
<1>0. Len(inbox) \in Nat /\ Len(inbox') \in Nat
  BY Arrival DEF TypeOK
<1>1. /\ Len(inbox') = Len(inbox) - 1 /\ Len(inbox) >= 1
      /\ inbox[1].kind = kind
      /\ \A i \in 1 .. Len(inbox') : inbox'[i] = inbox[i + 1]
  BY Arrival
<1>2. ASSUME srvKex'
      PROVE  Len(inbox') >= 1 /\ inbox'[Len(inbox')].kind = "kexinit"
  <2>1. Len(inbox) >= a /\ inbox[Len(inbox)].kind = "kexinit"
    BY <1>2 DEF Open
  <2>2. Len(inbox) # 1
    BY <1>1, <2>1
  <2>3. Len(inbox') \in 1 .. Len(inbox') /\ Len(inbox') + 1 = Len(inbox)
    BY <1>0, <1>1, <2>2
  <2> QED BY <1>0, <1>1, <2>1, <2>3
<1>3. ASSUME NEW i \in 1 .. Len(inbox'), srvKex' => i < Len(inbox')
      PROVE  inbox'[i].kind \in PlainKinds
  <2>1. i + 1 \in a .. Len(inbox) /\ (srvKex => i + 1 < Len(inbox))
    BY <1>0, <1>1, <1>3
  <2> QED BY <1>1, <2>1 DEF Open
<1> QED BY <1>2, <1>3 DEF Open

LEMMA OpenGrows ==
    ASSUME TypeOK, NEW m \in Message, Deliver(m), NEW a \in {1, 2}, Open(a),
           Len(inbox) >= a - 1, ~srvKex,
           srvKex' => m.kind = "kexinit", ~srvKex' => m.kind \in PlainKinds
    PROVE  Open(a)'
<1>0. Len(inbox) \in Nat
  BY DEF TypeOK
<1>1. /\ Len(inbox') = Len(inbox) + 1
      /\ inbox'[Len(inbox) + 1] = m
      /\ \A i \in 1 .. Len(inbox) : inbox'[i] = inbox[i]
  BY ServerDelivers
<1>2. srvKex' => Len(inbox') >= a /\ inbox'[Len(inbox')].kind = "kexinit"
  BY <1>0, <1>1
<1>3. ASSUME NEW i \in a .. Len(inbox'), srvKex' => i < Len(inbox')
      PROVE  inbox'[i].kind \in PlainKinds
  <2>1. CASE i \in a .. Len(inbox)
    BY <1>0, <1>1, <2>1 DEF Open
  <2>2. CASE i \notin a .. Len(inbox)
    <3>1. i = Len(inbox) + 1 /\ ~srvKex'
      BY <1>0, <1>1, <1>3, <2>2
    <3> QED BY <1>1, <3>1
  <2> QED BY <2>1, <2>2
<1> QED BY <1>2, <1>3 DEF Open

\* A call of transport_send with a reply or data changes no stage.
LEMMA StageKept ==
    ASSUME TypeOK, Stage, UNCHANGED <<kex, srvKex, inbox, seen>>,
           \/ sent' = sent
           \/ \E p \in Packet : /\ sent' = Append(sent, p)
                                /\ p.kind \in {"reply", "data"}
    PROVE  Stage'
<1>1. Unseen("dh")' = Unseen("dh") /\ Unseen("newkeys")' = Unseen("newkeys")
  <2>1. CASE sent' = sent
    BY <2>1, UnseenStays
  <2>2. ASSUME NEW p \in Packet, sent' = Append(sent, p),
               p.kind \in {"reply", "data"}
        PROVE  Unseen("dh")' = Unseen("dh") /\ Unseen("newkeys")' = Unseen("newkeys")
    BY <2>2, UnseenAdded
  <2> QED BY <2>1, <2>2
<1>2. /\ Quiet' <=> Quiet
      /\ One("dh")' <=> One("dh")
      /\ One("newkeys")' <=> One("newkeys")
  BY <1>1 DEF Quiet, One
<1>3. /\ Open(1)' <=> Open(1)
      /\ Open(2)' <=> Open(2)
  BY DEF Open
<1> QED BY <1>1, <1>2, <1>3
        DEF Stage, Between, Begun, Offered, Replied, Agreed, Switching, Switched,
            Ahead

LEMMA StageOfReads ==
    ASSUME TypeOK, PacketInv, ~kexFailed, Stage,
           ReadAdjust \/ ReadAnswer \/ ReadRequest \/ ReadKexInit
    PROVE  Stage'
<1> USE DEF serverVars
<1>1. Reading /\ kex = "none" /\ UNCHANGED <<srvKex, seen>>
  BY DEF ReadAdjust, ReadAnswer, ReadRequest, ReadKexInit, Reading
<1>2. PICK kind \in PlainKinds \cup {"kexinit"} :
        /\ Arrives(kind)
        /\ kind = "kexinit" <=> ReadKexInit
  <2>1. ReadKexInit => Arrives("kexinit")
    BY DEF ReadKexInit
  <2>2. ~ReadKexInit
           => Arrives("adjust") \/ Arrives("answer") \/ Arrives("request")
    BY DEF ReadAdjust, ReadAnswer, ReadRequest
  <2> QED BY <2>1, <2>2 DEF PlainKinds
<1>3. /\ Len(inbox) \in Nat /\ Len(inbox) >= 1 /\ inbox[1].kind = kind
      /\ Len(inbox') = Len(inbox) - 1
  BY <1>2, Arrival DEF TypeOK
<1>4. Between
  BY <1>1, <1>3 DEF Stage, Between, Begun, Offered, Replied, Agreed, Switching,
                    Switched, Ahead
<1>5. Quiet'
  <2>1. CASE sent' = sent
    BY <1>1, <1>4, <2>1, UnseenStays DEF Between, Quiet
  <2>2. CASE sent' # sent
    <3>1. ReadRequest /\ sent' = Append(sent, Pkt("reply", inbox[1].n))
      <4>1. ReadRequest
        BY <2>2 DEF ReadAdjust, ReadAnswer, ReadKexInit
      <4>2. ~ResumeReply /\ ~KexSend /\ ~SendData
        BY <4>1 DEF ReadRequest, Reading, ResumeReply, KexSend, Sending, KexKind,
                    SendData
      <4>3. Next
        BY <4>1 DEF Next, ClientMoves
      <4> QED BY <2>2, <4>1, <4>2, <4>3, SentGrows DEF PacketInv
    <3>2. inbox[1].n \in Nat
      BY <1>2, Arrival DEF Message
    <3>3. Pkt("reply", inbox[1].n) \in Packet
          /\ Pkt("reply", inbox[1].n).kind = "reply"
      BY <3>2, PacketsTyped DEF Pkt
    <3> QED BY <1>1, <1>4, <3>1, <3>3, UnseenAdded DEF Between, Quiet
  <2> QED BY <2>1, <2>2
<1>6. CASE ReadKexInit
  <2>1. kex' = "init" /\ kind = "kexinit"
    BY <1>2, <1>6 DEF ReadKexInit
  <2>2. Open(1)
    BY <1>4 DEF Between
  <2>3. "kexinit" \notin PlainKinds
    BY DEF PlainKinds
  <2>4. ~((srvKex => 1 < Len(inbox)))
    BY <1>3, <2>1, <2>2, <2>3 DEF Open
  <2>5. srvKex /\ Len(inbox) = 1
    BY <1>3, <2>4
  <2> QED BY <1>1, <1>3, <1>5, <2>1, <2>5 DEF Stage, Begun
<1>7. CASE ~ReadKexInit
  <2>1. kex' = "none"
    BY <1>1, <1>7 DEF ReadAdjust, ReadAnswer, ReadRequest
  <2>2. Open(1)'
    BY <1>1, <1>2, <1>4, <1>7, OpenShifts DEF Between
  <2> QED BY <1>5, <2>1, <2>2 DEF Stage, Between
<1> QED BY <1>6, <1>7

LEMMA StageOfKexSend ==
    ASSUME TypeOK, PacketInv, Stage, KexSend
    PROVE  Stage'
<1>1. UNCHANGED <<srvKex, seen, inbox>> /\ kex \in {"init", "dh", "newkeys"}
  BY DEF KexSend, Sending, KexKind, serverVars
<1>2. CASE sent' = sent
  <2>1. kex' = kex
    <3>1. PICK o \in SendOutcomes(KexPacket) :
            /\ sent' = o.sent
            /\ kex' = IF o.ok THEN AfterSend[kex] ELSE kex
      BY DEF KexSend
    <3>2. KexPacket \in Packet
      BY PacketsTyped DEF KexSend
    <3>3. /\ o.ok \in BOOLEAN
          /\ o.ok => o.sent = Append(sent, Current(KexPacket).what)
          /\ Current(KexPacket).what \in Packet
      BY <3>2, SendResult
    <3>4. Append(sent, Current(KexPacket).what) # sent
      BY <3>3 DEF TypeOK
    <3> QED BY <1>2, <3>1, <3>3, <3>4
  <2> QED BY <1>1, <1>2, <2>1, StageKept
<1>3. CASE sent' # sent
  <2>1. kex' = AfterSend[kex] /\ sent' = Append(sent, KexPacket)
    <3>1. ~ReadRequest /\ ~ResumeReply /\ ~SendData
      BY DEF KexSend, Sending, KexKind, ReadRequest, Reading, ResumeReply,
             SendData, MaySend
    <3>2. Next
      BY DEF Next, ClientMoves
    <3> QED BY <1>3, <3>1, <3>2, SentGrows DEF PacketInv
  <2>2. KexPacket \in Packet /\ KexPacket.kind = KexKind[kex]
    BY PacketsTyped DEF KexSend, KexPacket, Pkt
  <2>3. ASSUME NEW k
        PROVE  Unseen(k)' = IF KexKind[kex] = k THEN Unseen(k) \cup {Len(sent) + 1}
                            ELSE Unseen(k)
    BY <1>1, <2>1, <2>2, UnseenAdded
  <2>4. CASE kex = "init"
    <3>1. Begun
      BY <2>4 DEF Stage, Between, Begun, Offered, Replied, Agreed, Switching,
                  Switched, Ahead
    <3>2. Quiet' /\ kex' = "dh"
      BY <2>1, <2>3, <2>4, <3>1 DEF KexKind, AfterSend, Begun, Quiet
    <3> QED BY <1>1, <3>1, <3>2 DEF Stage, Begun
  <2>5. CASE kex = "dh"
    <3>1. Begun
      BY <2>5 DEF Stage, Between, Begun, Offered, Replied, Agreed, Switching,
                  Switched, Ahead
    <3>2. /\ Unseen("dh")' = {Len(sent) + 1} /\ Unseen("newkeys")' = {}
          /\ kex' = "reply"
      BY <2>1, <2>3, <2>5, <3>1 DEF KexKind, AfterSend, Begun, Quiet
    <3>3. One("dh")'
      BY <3>2 DEF One
    <3> QED BY <1>1, <3>1, <3>2, <3>3 DEF Stage, Begun, Offered
  <2>6. CASE kex = "newkeys"
    <3>1. Agreed
      BY <2>6 DEF Stage, Between, Begun, Offered, Replied, Agreed, Switching,
                  Switched, Ahead
    <3>2. /\ Unseen("newkeys")' = {Len(sent) + 1} /\ Unseen("dh")' = {}
          /\ kex' = "finish"
      BY <2>1, <2>3, <2>6, <3>1 DEF KexKind, AfterSend, Agreed, Quiet
    <3>3. One("newkeys")'
      BY <3>2 DEF One
    <3> QED BY <1>1, <3>1, <3>2, <3>3 DEF Stage, Agreed, Switching
  <2> QED BY <1>1, <2>4, <2>5, <2>6
<1> QED BY <1>2, <1>3

LEMMA StageOfKexRead ==
    ASSUME TypeOK, Stage, KexRead
    PROVE  Stage'
<1>1. UNCHANGED <<srvKex, seen, sent>>
  BY DEF KexRead, serverVars
<1>2. /\ Unseen("dh")' = Unseen("dh") /\ Unseen("newkeys")' = Unseen("newkeys")
      /\ Quiet' <=> Quiet
      /\ One("newkeys")' <=> One("newkeys")
  BY <1>1, UnseenStays DEF Quiet, One
<1>3. CASE kex = "reply" /\ Arrives("kexreply") /\ kex' = "newkeys"
  <2>1. /\ Len(inbox') = Len(inbox) - 1 /\ Len(inbox) >= 1
        /\ \A i \in 1 .. Len(inbox') : inbox'[i] = inbox[i + 1]
    BY <1>3, Arrival
  <2>2. Replied
    BY <1>3, <2>1 DEF Stage, Between, Begun, Offered, Replied, Agreed, Switching,
                      Switched, Ahead
  <2>3. Len(inbox') = 1 /\ inbox'[1].kind = "newkeys"
    BY <2>1, <2>2 DEF Replied
  <2> QED BY <1>1, <1>2, <1>3, <2>2, <2>3 DEF Stage, Replied, Agreed
<1>4. CASE kex = "finish" /\ Arrives("newkeys") /\ kex' = "none"
  <2>1. Len(inbox') = Len(inbox) - 1
    BY <1>4, Arrival
  <2>2. Switching \/ Switched
    BY <1>4 DEF Stage, Between, Begun, Offered, Replied, Agreed, Switching,
                Switched, Ahead
  <2>3. CASE Switching
    <3>1. Len(inbox') = 0
      BY <2>1, <2>3 DEF Switching
    <3> QED BY <1>1, <1>2, <1>4, <2>3, <3>1 DEF Stage, Switching, Ahead
  <2>4. CASE Switched
    <3>1. Open(1)'
      BY <1>1, <1>4, <2>4, OpenShifts DEF Switched
    <3> QED BY <1>2, <1>4, <2>4, <3>1 DEF Stage, Switched, Between
  <2> QED BY <2>2, <2>3, <2>4
<1> QED BY <1>3, <1>4 DEF KexRead, AfterNewKeys

LEMMA StageOfServerReads ==
    ASSUME TypeOK, Stage, ServerReads
    PROVE  Stage'
<1>0. /\ seen < Len(sent) /\ seen \in 0 .. Len(sent) /\ Len(sent) \in Nat
      /\ Len(inbox) \in Nat /\ kex' = kex
      /\ inbox \in Seq(Message)
  BY DEF ServerReads, TypeOK, clientVars
<1> DEFINE kind == sent[seen + 1].kind
<1>1. ASSUME NEW k
      PROVE  /\ Unseen(k)' = Unseen(k) \ {seen + 1}
             /\ seen + 1 \in Unseen(k) <=> kind = k
  BY UnseenRead
<1>2. srvKex' = (srvKex /\ kind # "newkeys") /\ (kind # "dh" => inbox' = inbox)
  BY DEF ServerReads
<1>3. CASE kind \notin {"dh", "newkeys"}
  <2>1. /\ Unseen("dh")' = Unseen("dh")
        /\ Unseen("newkeys")' = Unseen("newkeys")
    BY <1>1, <1>3
  <2>2. /\ Quiet' <=> Quiet
        /\ One("dh")' <=> One("dh")
        /\ One("newkeys")' <=> One("newkeys")
    BY <2>1 DEF Quiet, One
  <2>3. srvKex' = srvKex /\ inbox' = inbox
    BY <1>2, <1>3 DEF TypeOK
  <2>4. /\ Open(1)' <=> Open(1)
        /\ Open(2)' <=> Open(2)
    BY <2>3 DEF Open
  <2> QED BY <1>0, <2>1, <2>2, <2>3, <2>4
          DEF Stage, Between, Begun, Offered, Replied, Agreed, Switching,
              Switched, Ahead
<1>4. CASE kind = "dh"
  <2>1. seen + 1 \in Unseen("dh")
    BY <1>1, <1>4
  <2>2. Offered
    BY <2>1 DEF Stage, Between, Begun, Offered, Replied, Agreed, Switching,
                Switched, Ahead, Quiet
  <2>3. Quiet'
    BY <1>1, <2>1, <2>2 DEF Offered, One, Quiet
  <2>4. /\ Len(inbox') = 2
        /\ inbox'[1].kind = "kexreply" /\ inbox'[2].kind = "newkeys"
    <3>1. PICK n : inbox' = inbox \o <<Pkt("kexreply", n), Pkt("newkeys", n)>>
      BY <1>4 DEF ServerReads
    <3>2. inbox = <<>>
      BY <1>0, <2>2 DEF Offered
    <3>3. inbox' = <<Pkt("kexreply", n), Pkt("newkeys", n)>>
      BY <3>1, <3>2
    <3> QED BY <3>3 DEF Pkt
  <2>5. srvKex'
    BY <1>2, <1>4, <2>2 DEF Offered
  <2> QED BY <1>0, <2>2, <2>3, <2>4, <2>5 DEF Stage, Offered, Replied
<1>5. CASE kind = "newkeys"
  <2>1. seen + 1 \in Unseen("newkeys") /\ ~srvKex' /\ inbox' = inbox
    BY <1>1, <1>2, <1>5
  <2>2. Switching \/ Ahead
    BY <2>1 DEF Stage, Between, Begun, Offered, Replied, Agreed, Switching,
                Switched, Ahead, Quiet
  <2>3. Quiet'
    BY <1>1, <2>1, <2>2 DEF Switching, Ahead, One, Quiet
  <2>4. CASE Switching
    <3>1. Open(2)'
      BY <2>1, <2>4 DEF Switching, Open
    <3> QED BY <1>0, <2>1, <2>3, <2>4, <3>1 DEF Stage, Switching, Switched
  <2>5. CASE Ahead
    <3>1. Open(1)'
      BY <2>1, <2>5 DEF Ahead, Open
    <3> QED BY <1>0, <2>3, <2>5, <3>1 DEF Stage, Ahead, Between
  <2> QED BY <2>2, <2>4, <2>5
<1> QED BY <1>3, <1>4, <1>5

LEMMA StageOfServer ==
    ASSUME TypeOK, Stage,
           ServerAnswers \/ ServerAdjusts \/ ServerAsks \/ ServerRekeys
    PROVE  Stage'
<1>1. UNCHANGED <<kex, sent, seen>> /\ ~srvKex /\ Len(inbox) \in Nat
  BY DEF ServerAnswers, ServerAdjusts, ServerAsks, ServerRekeys, clientVars, TypeOK
<1>2. Quiet' <=> Quiet
  BY <1>1, UnseenStays DEF Quiet
<1>3. PICK m \in Message :
        /\ Deliver(m)
        /\ srvKex' => m.kind = "kexinit"
        /\ ~srvKex' => m.kind \in PlainKinds
  <2>1. ASSUME NEW n \in Nat
        PROVE  /\ Pkt("answer", n) \in Message /\ Pkt("answer", n).kind = "answer"
               /\ Pkt("adjust", n) \in Message /\ Pkt("adjust", n).kind = "adjust"
               /\ Pkt("request", n) \in Message /\ Pkt("request", n).kind = "request"
               /\ Pkt("kexinit", n) \in Message /\ Pkt("kexinit", n).kind = "kexinit"
    BY MessagesTyped DEF Pkt
  <2>2. CASE ServerAnswers
    <3>1. Head(owed) \in Nat
      BY <2>2 DEF ServerAnswers, TypeOK
    <3> QED BY <2>1, <2>2, <3>1 DEF ServerAnswers, PlainKinds
  <2>3. CASE ServerAdjusts
    <3>1. granted + 1 \in Nat
      BY DEF TypeOK
    <3> QED BY <2>1, <2>3, <3>1 DEF ServerAdjusts, PlainKinds
  <2>4. CASE ServerAsks
    <3>1. asked + 1 \in Nat
      BY TransportAssumption DEF TypeOK
    <3> QED BY <2>1, <2>4, <3>1 DEF ServerAsks, PlainKinds
  <2>5. CASE ServerRekeys
    <3>1. srvRound + 1 \in Nat
      BY TransportAssumption DEF TypeOK
    <3> QED BY <2>1, <2>5, <3>1 DEF ServerRekeys
  <2> QED BY <2>2, <2>3, <2>4, <2>5
<1>4. Between \/ Switched
  BY <1>1 DEF Stage, Between, Begun, Offered, Replied, Agreed, Switching,
              Switched, Ahead
<1>5. CASE Between
  <2>1. Open(1)'
    BY <1>1, <1>3, <1>5, OpenGrows DEF Between
  <2> QED BY <1>1, <1>2, <1>5, <2>1 DEF Stage, Between
<1>6. CASE Switched
  <2>1. Open(2)'
    BY <1>1, <1>3, <1>6, OpenGrows DEF Switched
  <2>2. Len(inbox') = Len(inbox) + 1 /\ inbox'[1] = inbox[1]
    BY <1>1, <1>3, <1>6, ServerDelivers DEF Switched
  <2> QED BY <1>1, <1>2, <1>6, <2>1, <2>2 DEF Stage, Switched
<1> QED BY <1>4, <1>5, <1>6

LEMMA StageNext ==
    ASSUME PacketInv, ExchangeStage, [Next]_vars
    PROVE  ExchangeStage'
<1> USE DEF serverVars, clientVars
<1> SUFFICES ASSUME ~kexFailed' PROVE Stage'
  BY DEF ExchangeStage
<1>0. TypeOK
  BY DEF PacketInv
<1>1. ~KexFails
  BY DEF KexFails
<1>2. ~kexFailed /\ Stage
  <2>1. ~kexFailed
    BY <1>1 DEF Next, ClientMoves, ServerMoves, vars, NothingArrived, ReadAdjust,
       ReadAnswer, ReadRequest, ResumeReply, ReadKexInit, KexSend, KexRead,
       KexNothingArrived, SendData, ConnectionLost, ServerReads, ServerAnswers,
       ServerAdjusts, ServerAsks, ServerRekeys
  <2> QED BY <2>1 DEF ExchangeStage
<1>3. CASE NothingArrived \/ KexNothingArrived \/ ConnectionLost \/ UNCHANGED vars
  <2>1. UNCHANGED <<kex, srvKex, inbox, seen, sent>>
    BY <1>3 DEF NothingArrived, KexNothingArrived, ConnectionLost, vars
  <2> QED BY <1>0, <1>2, <2>1, StageKept
<1>4. CASE ResumeReply \/ SendData
  <2>1. UNCHANGED <<kex, srvKex, inbox, seen>>
    BY <1>4 DEF ResumeReply, SendData
  <2>2. ~ReadRequest /\ ~KexSend
    BY <1>4 DEF ResumeReply, SendData, MaySend, ReadRequest, Reading, KexSend,
                Sending, KexKind
  <2>3. \/ sent' = sent
        \/ sent' = Append(sent, Pkt("reply", request))
        \/ sent' = Append(sent, Pkt("data", reported + 1))
    BY <2>2, SentGrows DEF PacketInv
  <2>4. request \in Nat /\ reported + 1 \in Nat
    BY <1>0 DEF TypeOK
  <2>5. /\ Pkt("reply", request) \in Packet /\ Pkt("reply", request).kind = "reply"
        /\ Pkt("data", reported + 1) \in Packet
        /\ Pkt("data", reported + 1).kind = "data"
    BY <2>4, PacketsTyped DEF Pkt
  <2> QED BY <1>0, <1>2, <2>1, <2>3, <2>5, StageKept
<1>5. CASE ReadAdjust \/ ReadAnswer \/ ReadRequest \/ ReadKexInit
  BY <1>0, <1>2, <1>5, StageOfReads
<1>6. CASE KexSend
  BY <1>0, <1>2, <1>6, StageOfKexSend
<1>7. CASE KexRead
  BY <1>0, <1>2, <1>7, StageOfKexRead
<1>8. CASE ServerReads
  BY <1>0, <1>2, <1>8, StageOfServerReads
<1>9. CASE ServerAnswers \/ ServerAdjusts \/ ServerAsks \/ ServerRekeys
  BY <1>0, <1>2, <1>9, StageOfServer
<1> QED BY <1>1, <1>3, <1>4, <1>5, <1>6, <1>7, <1>8, <1>9
        DEF Next, ClientMoves, ServerMoves

\* A message stays in the inbox until it is the first and is read.
LEMMA MessageStays ==
    ASSUME TypeOK, [Next]_vars, NEW i \in 1 .. Len(inbox)
    PROVE  \/ \E j \in 1 .. Len(inbox') : inbox'[j] = inbox[i]
           \/ /\ i = 1 /\ Head(inbox) = inbox[1]
              /\ \/ ReadAdjust \/ ReadAnswer \/ ReadRequest \/ ReadKexInit
                 \/ KexRead
<1>0. Len(inbox) \in Nat
  BY DEF TypeOK
<1>1. ASSUME NEW kind, Arrives(kind)
      PROVE  \/ \E j \in 1 .. Len(inbox') : inbox'[j] = inbox[i]
             \/ i = 1 /\ Head(inbox) = inbox[1]
  <2>1. /\ Len(inbox') = Len(inbox) - 1 /\ Head(inbox) = inbox[1]
        /\ \A j \in 1 .. Len(inbox') : inbox'[j] = inbox[j + 1]
    BY <1>1, Arrival
  <2>2. CASE i # 1
    <3>1. i - 1 \in 1 .. Len(inbox') /\ (i - 1) + 1 = i
      BY <1>0, <2>1, <2>2
    <3>2. inbox'[i - 1] = inbox[i]
      BY <2>1, <3>1
    <3> QED BY <3>1, <3>2
  <2> QED BY <2>1, <2>2
<1>2. CASE ReadAdjust \/ ReadAnswer \/ ReadRequest \/ ReadKexInit \/ KexRead
  <2>1. \E kind : Arrives(kind)
    BY <1>2 DEF ReadAdjust, ReadAnswer, ReadRequest, ReadKexInit, KexRead
  <2> QED BY <1>1, <1>2, <2>1
<1>3. CASE inbox' = inbox
  BY <1>3
<1>4. CASE ServerMoves \/ ServerAsks \/ ServerRekeys
  <2>1. Len(inbox') >= Len(inbox) /\ inbox'[i] = inbox[i]
    BY <1>4, ServerStep DEF ServerAdds
  <2>2. Len(inbox') \in Nat
    BY <1>4, ServerIsTyped DEF TypeOK
  <2>3. i \in 1 .. Len(inbox')
    BY <1>0, <2>1, <2>2
  <2> QED BY <2>1, <2>3
<1> QED BY <1>2, <1>3, <1>4
        DEF Next, ClientMoves, vars, NothingArrived, ResumeReply, KexSend,
            KexNothingArrived, SendData, KexFails, ConnectionLost

\* What was sent stays where it is.
LEMMA SentStays ==
    ASSUME PacketInv, [Next]_vars, NEW i \in 1 .. Len(sent)
    PROVE  /\ Len(sent') \in Nat /\ i \in 1 .. Len(sent')
           /\ sent'[i] = sent[i]
<1>0. TypeOK /\ Len(sent) \in Nat
  BY DEF PacketInv, TypeOK
<1>1. CASE sent' = sent
  BY <1>0, <1>1
<1>2. ASSUME NEW p \in Packet, sent' = Append(sent, p)
      PROVE  /\ Len(sent') \in Nat /\ i \in 1 .. Len(sent')
             /\ sent'[i] = sent[i]
  BY <1>0, <1>2, Appended
<1>3. \/ sent' = sent
      \/ \E p \in Packet : sent' = Append(sent, p)
  <2>1. request \in Nat /\ reported + 1 \in Nat
    BY <1>0 DEF TypeOK
  <2>2. Pkt("reply", request) \in Packet /\ Pkt("data", reported + 1) \in Packet
    BY <2>1, PacketsTyped
  <2>3. ReadRequest => Pkt("reply", inbox[1].n) \in Packet
    <3>1. ReadRequest => inbox[1].n \in Nat
      BY <1>0, Arrival DEF ReadRequest, Message
    <3> QED BY <3>1, PacketsTyped
  <2>4. KexSend => KexPacket \in Packet
    BY <1>0, PacketsTyped DEF KexSend
  <2> QED BY <2>2, <2>3, <2>4, SentGrows DEF PacketInv
<1> QED BY <1>1, <1>2, <1>3

\* An answer stays on its way until the program reads it.
LEMMA StaysOnItsWay ==
    ASSUME PacketInv, [Next]_vars, NEW n \in Nat, OnItsWay(n),
           ~(ReadAnswer /\ Head(inbox).n = n)
    PROVE  OnItsWay(n)'
<1> USE DEF clientVars, serverVars
<1>0. /\ TypeOK /\ Len(inbox) \in Nat /\ Len(sent) \in Nat /\ Len(owed) \in Nat
      /\ seen \in 0 .. Len(sent) /\ owed \in Seq(Nat)
  BY DEF PacketInv, TypeOK
<1>a. Pkt("answer", n).kind = "answer" /\ Pkt("answer", n).n = n
      /\ Pkt("data", n).kind = "data" /\ Pkt("data", n).n = n
  BY DEF Pkt
<1>1. ASSUME NEW i \in 1 .. Len(inbox), inbox[i] = Pkt("answer", n)
      PROVE  OnItsWay(n)'
  <2>1. CASE \E j \in 1 .. Len(inbox') : inbox'[j] = inbox[i]
    BY <1>1, <2>1 DEF OnItsWay
  <2>2. CASE /\ i = 1 /\ Head(inbox) = inbox[1]
             /\ \/ ReadAdjust \/ ReadAnswer \/ ReadRequest \/ ReadKexInit
                \/ KexRead
    <3>1. Head(inbox).kind = "answer" /\ Head(inbox).n = n
      BY <1>1, <1>a, <2>2
    <3> QED BY <2>2, <3>1
            DEF ReadAdjust, ReadRequest, ReadKexInit, KexRead, Arrives
  <2> QED BY <1>0, <2>1, <2>2, MessageStays
<1>2. ASSUME NEW i \in 1 .. Len(owed), owed[i] = n
      PROVE  OnItsWay(n)'
  <2>1. CASE ServerReads
    <3>0. sent[seen + 1].n \in Nat
      <4>1. seen + 1 \in 1 .. Len(sent)
        BY <1>0, <2>1 DEF ServerReads
      <4> QED BY <1>0, <4>1, TypedIsCounted DEF Counted
    <3>1. owed' = owed \/ owed' = Append(owed, sent[seen + 1].n)
      BY <2>1 DEF ServerReads
    <3>2. Len(owed') >= Len(owed) /\ owed'[i] = owed[i] /\ Len(owed') \in Nat
      <4> DEFINE x == sent[seen + 1].n
      <4> HIDE DEF x
      <4>1. CASE owed' = owed
        BY <1>0, <4>1
      <4>2. CASE owed' = Append(owed, x)
        <5>1. x \in Nat /\ owed \in Seq(Nat) /\ i \in 1 .. Len(owed)
          BY <1>0, <1>2, <3>0 DEF x
        <5>2. /\ Len(Append(owed, x)) = Len(owed) + 1
              /\ Append(owed, x)[i] = owed[i]
          BY <5>1
        <5> QED BY <1>0, <4>2, <5>2
      <4> QED BY <3>1, <4>1, <4>2 DEF x
    <3>3. i \in 1 .. Len(owed')
      BY <1>0, <3>2
    <3> QED BY <1>2, <3>2, <3>3 DEF OnItsWay
  <2>2. CASE ServerAnswers
    <3>1. /\ owed' = Tail(owed) /\ Deliver(Pkt("answer", Head(owed)))
          /\ owed # <<>> /\ Head(owed) = owed[1] /\ Head(owed) \in Nat
      BY <1>0, <2>2 DEF ServerAnswers
    <3>2. CASE i = 1
      <4>1. Pkt("answer", n) \in Message /\ Deliver(Pkt("answer", n))
        BY <1>2, <3>1, <3>2, MessagesTyped
      <4>2. /\ Len(inbox') = Len(inbox) + 1
            /\ inbox'[Len(inbox) + 1] = Pkt("answer", n)
        BY <1>0, <4>1, ServerDelivers
      <4>3. Len(inbox) + 1 \in 1 .. Len(inbox')
        BY <1>0, <4>2
      <4> QED BY <4>2, <4>3 DEF OnItsWay
    <3>3. CASE i # 1
      <4>1. i - 1 \in 1 .. Len(owed') /\ owed'[i - 1] = owed[i]
        BY <1>0, <3>1, <3>3
      <4> QED BY <1>2, <4>1 DEF OnItsWay
    <3> QED BY <3>2, <3>3
  <2>3. CASE owed' = owed
    BY <1>2, <2>3 DEF OnItsWay
  <2> QED BY <2>1, <2>2, <2>3
          DEF Next, ClientMoves, ServerMoves, vars, NothingArrived, ReadAdjust,
              ReadAnswer, ReadRequest, ResumeReply, ReadKexInit, KexSend, KexRead,
              KexNothingArrived, SendData, KexFails, ConnectionLost,
              ServerAdjusts, ServerAsks, ServerRekeys
<1>3. ASSUME NEW i \in seen + 1 .. Len(sent), sent[i] = Pkt("data", n)
      PROVE  OnItsWay(n)'
  <2>0. i \in 1 .. Len(sent)
    BY <1>0
  <2>1. i \in 1 .. Len(sent') /\ sent'[i] = sent[i] /\ Len(sent') \in Nat
    BY <2>0, SentStays
  <2>2. CASE ServerReads
    <3>1. seen' = seen + 1
      BY <2>2 DEF ServerReads
    <3>2. CASE i = seen + 1
      <4>1. owed' = Append(owed, n)
        BY <1>3, <1>a, <2>2, <3>2 DEF ServerReads
      <4>2. Len(owed') = Len(owed) + 1 /\ owed'[Len(owed) + 1] = n
        BY <1>0, <4>1
      <4>3. Len(owed) + 1 \in 1 .. Len(owed')
        BY <1>0, <4>2
      <4> QED BY <4>2, <4>3 DEF OnItsWay
    <3>3. CASE i # seen + 1
      <4>1. i \in seen' + 1 .. Len(sent')
        BY <1>0, <2>1, <3>1, <3>3
      <4> QED BY <1>3, <2>1, <4>1 DEF OnItsWay
    <3> QED BY <3>2, <3>3
  <2>3. CASE seen' = seen
    <3>1. i \in seen' + 1 .. Len(sent')
      BY <1>0, <2>1, <2>3
    <3> QED BY <1>3, <2>1, <3>1 DEF OnItsWay
  <2> QED BY <2>2, <2>3
          DEF Next, ClientMoves, ServerMoves, vars, NothingArrived, ReadAdjust,
              ReadAnswer, ReadRequest, ResumeReply, ReadKexInit, KexSend, KexRead,
              KexNothingArrived, SendData, KexFails, ConnectionLost,
              ServerAnswers, ServerAdjusts, ServerAsks, ServerRekeys
<1> QED BY <1>1, <1>2, <1>3 DEF OnItsWay

LEMMA AnswerOnItsWayNext ==
    ASSUME PacketInv, AnswerOnItsWay, [Next]_vars
    PROVE  AnswerOnItsWay'
<1> SUFFICES ASSUME app' = "wait" PROVE OnItsWay(reported)'
  BY DEF AnswerOnItsWay
<1>0. TypeOK /\ Len(sent) \in Nat /\ seen \in 0 .. Len(sent) /\ reported \in Nat
  BY DEF PacketInv, TypeOK
<1>1. CASE app = "wait"
  <2>1. PICK n \in Nat : n = reported
    BY <1>0
  <2>2. reported' = n
    BY <1>1, <2>1, SentGrows DEF PacketInv, SendData
  <2>3. ~(ReadAnswer /\ Head(inbox).n = n)
    BY <1>1, <2>1 DEF ReadAnswer
  <2>4. OnItsWay(n)
    BY <1>1, <2>1 DEF AnswerOnItsWay, OnItsWay
  <2>5. OnItsWay(n)'
    BY <2>3, <2>4, StaysOnItsWay
  <2> QED BY <2>2, <2>5 DEF OnItsWay
<1>2. CASE app # "wait"
  <2>1. SendData
    BY <1>2 DEF Next, ClientMoves, ServerMoves, vars, clientVars, NothingArrived,
        ReadAdjust, ReadAnswer, ReadRequest, ResumeReply, ReplyWith, Unwind,
        ReadKexInit, KexSend, KexRead, KexNothingArrived, KexFails,
        ConnectionLost, ServerReads, ServerAnswers, ServerAdjusts, ServerAsks,
        ServerRekeys
  <2>2. reported' = reported + 1
    BY <1>2, <2>1 DEF SendData
  <2>3. sent' = Append(sent, Pkt("data", reported + 1))
    <3>1. reported' # reported
      BY <1>0, <2>2
    <3> QED BY <3>1, SentGrows DEF PacketInv
  <2>4. Pkt("data", reported + 1) \in Packet
    BY <1>0, PacketsTyped
  <2>5. /\ Len(sent') = Len(sent) + 1
        /\ sent'[Len(sent) + 1] = Pkt("data", reported')
    BY <1>0, <2>2, <2>3, <2>4, Appended
  <2>6. seen' = seen
    BY <2>1 DEF SendData, serverVars
  <2>7. Len(sent) + 1 \in seen' + 1 .. Len(sent')
    BY <1>0, <2>5, <2>6
  <2> QED BY <2>5, <2>7 DEF OnItsWay
<1> QED BY <1>1, <1>2

LEMMA AdjustsOnTheirWayNext ==
    ASSUME TypeOK, TypeOK', AdjustsNumbered, AdjustsOnTheirWay, [Next]_vars
    PROVE  AdjustsOnTheirWay'
<1> USE DEF clientVars, serverVars
<1>0. /\ Len(inbox) \in Nat /\ granted \in Nat /\ granted' \in Nat
      /\ window \in Nat /\ reported \in Nat /\ Window \in Nat
      /\ window + reported \in Nat
  BY TransportAssumption DEF TypeOK
<1>1. \/ window' + reported' = window + reported
      \/ ReadAdjust /\ window' + reported' = window + reported + 1
  <2>1. CASE SendData
    <3>1. \/ window' = window - 1 /\ reported' = reported + 1
          \/ window' = window /\ reported' = reported
      BY <2>1 DEF SendData, WindowAfterSend
    <3> QED BY <1>0, <3>1
  <2>2. CASE ReadAdjust
    BY <1>0, <2>2 DEF ReadAdjust
  <2>3. CASE UNCHANGED <<window, reported>>
    BY <2>3
  <2> QED BY <2>1, <2>2, <2>3
          DEF Next, ClientMoves, ServerMoves, vars, NothingArrived, ReadAnswer,
              ReadRequest, ResumeReply, ReadKexInit, KexSend, KexRead,
              KexNothingArrived, KexFails, ConnectionLost, ServerReads,
              ServerAnswers, ServerAdjusts, ServerAsks, ServerRekeys
<1>2. ASSUME NEW g \in 1 .. granted', window' + reported' < Window + g
      PROVE  \E i \in 1 .. Len(inbox') : inbox'[i] = Pkt("adjust", g)
  <2>0. Pkt("adjust", g).kind = "adjust" /\ Pkt("adjust", g).n = g
    BY DEF Pkt
  <2>1. window + reported < Window + g
    BY <1>0, <1>1, <1>2
  <2>2. CASE g \in 1 .. granted
    <3>1. PICK i \in 1 .. Len(inbox) : inbox[i] = Pkt("adjust", g)
      BY <2>1, <2>2 DEF AdjustsOnTheirWay
    <3>2. CASE \E j \in 1 .. Len(inbox') : inbox'[j] = inbox[i]
      BY <3>1, <3>2
    <3>3. CASE i = 1 /\ Head(inbox) = inbox[1] /\ ReadAdjust
      <4>1. window' + reported' = window + reported + 1
        BY <1>0, <3>3 DEF ReadAdjust
      <4> DEFINE h == window + reported + 1 - Window
      <4>2. g > h
        BY <1>0, <1>2, <4>1
      <4>3. CASE h >= 1
        <5>1. h \in 1 .. granted /\ window + reported < Window + h
          BY <1>0, <2>2, <4>2, <4>3
        <5>2. PICK j \in 1 .. Len(inbox) : inbox[j] = Pkt("adjust", h)
          BY <5>1 DEF AdjustsOnTheirWay
        <5>3. Pkt("adjust", h).kind = "adjust" /\ Pkt("adjust", h).n = h
          BY DEF Pkt
        <5>4. j # 1
          BY <2>0, <3>1, <3>3, <4>2, <5>2, <5>3, <1>0, <5>1
        <5>5. 1 \in 1 .. j - 1
          BY <1>0, <5>4
        <5>6. inbox[1].n < inbox[j].n
          BY <2>0, <3>1, <3>3, <5>2, <5>3, <5>5 DEF AdjustsNumbered
        <5>7. g < h
          BY <2>0, <3>1, <3>3, <5>2, <5>3, <5>6
        <5> QED BY <1>0, <4>2, <5>7
      <4>4. CASE ~(h >= 1)
        <5>1. window + reported >= Window
          BY DEF AdjustsOnTheirWay
        <5> QED BY <1>0, <4>4, <5>1
      <4> QED BY <4>3, <4>4
    <3>4. CASE i = 1 /\ Head(inbox) = inbox[1]
               /\ (ReadAnswer \/ ReadRequest \/ ReadKexInit \/ KexRead)
      BY <2>0, <3>1, <3>4 DEF ReadAnswer, ReadRequest, ReadKexInit, KexRead, Arrives
    <3> QED BY <3>2, <3>3, <3>4, MessageStays
  <2>3. CASE g \notin 1 .. granted
    <3>1. g = granted + 1 /\ granted' # granted
      BY <1>0, <2>3, GrantedGrows
    <3>2. ServerAdjusts
      BY <3>1 DEF Next, ClientMoves, ServerMoves, vars, NothingArrived, ReadAdjust,
         ReadAnswer, ReadRequest, ResumeReply, ReadKexInit, KexSend, KexRead,
         KexNothingArrived, SendData, KexFails, ConnectionLost, ServerReads,
         ServerAnswers, ServerAsks, ServerRekeys
    <3>3. Deliver(Pkt("adjust", g)) /\ Pkt("adjust", g) \in Message
      BY <1>0, <3>1, <3>2, MessagesTyped DEF ServerAdjusts
    <3>4. /\ Len(inbox') = Len(inbox) + 1
          /\ inbox'[Len(inbox) + 1] = Pkt("adjust", g)
      BY <3>3, ServerDelivers
    <3>5. Len(inbox) + 1 \in 1 .. Len(inbox')
      BY <1>0, <3>4
    <3> QED BY <3>4, <3>5
  <2> QED BY <2>2, <2>3
<1>3. window' + reported' >= Window
  BY <1>0, <1>1 DEF AdjustsOnTheirWay
<1> QED BY <1>2, <1>3 DEF AdjustsOnTheirWay

\* What keeps the calls going, and why it does
MotionInv == ExchangeStage /\ AnswerOnItsWay /\ AdjustsOnTheirWay

LEMMA MotionInvInit == ASSUME Init PROVE MotionInv
<1>1. /\ Len(sent) = 0 /\ Len(inbox) = 0 /\ seen = 0 /\ granted = 0
      /\ app = "drain" /\ kex = "none" /\ ~srvKex
      /\ window + reported >= Window
  BY TransportAssumption DEF Init
<1>2. Quiet /\ Open(1)
  BY <1>1 DEF Quiet, Unseen, Open
<1>3. ExchangeStage
  BY <1>1, <1>2 DEF ExchangeStage, Stage, Between
<1>4. AnswerOnItsWay /\ AdjustsOnTheirWay
  BY <1>1 DEF AnswerOnItsWay, AdjustsOnTheirWay
<1> QED BY <1>3, <1>4 DEF MotionInv

LEMMA MotionInvHolds == ASSUME ~AskAlways PROVE Spec => []MotionInv
<1>1. PacketInv /\ WindowInv /\ MotionInv /\ [Next]_vars => MotionInv'
  <2> SUFFICES ASSUME PacketInv, WindowInv, MotionInv, [Next]_vars
               PROVE  MotionInv'
    OBVIOUS
  <2>1. TypeOK /\ AdjustsNumbered /\ TypeOK'
    BY WindowInvNext DEF WindowInv
  <2>2. ExchangeStage'
    BY StageNext DEF MotionInv
  <2>3. AnswerOnItsWay'
    BY AnswerOnItsWayNext DEF MotionInv
  <2>4. AdjustsOnTheirWay'
    BY <2>1, AdjustsOnTheirWayNext DEF MotionInv
  <2> QED BY <2>2, <2>3, <2>4 DEF MotionInv
<1> QED BY <1>1, MotionInvInit, PacketInvHolds, WindowInvHolds, PTL DEF Spec

LEMMA NoneOneMore == \A n \in Nat : n = 0 \/ n = 1 \/ n > 1
OBVIOUS

LEMMA MotionIsNoStandstill ==
    ASSUME PacketInv, WindowInv, MotionInv
    PROVE  NoStandstill
<1> SUFFICES ASSUME KexRunning, ~kexFailed, ~ClientMay, ~ServerMay,
                    ~DeafInExchange
             PROVE  FALSE
  BY DEF NoStandstill
<1>0. /\ TypeOK /\ Len(inbox) \in Nat /\ Len(sent) \in Nat
      /\ inbox \in Seq(Message) /\ seen \in 0 .. Len(sent)
      /\ app \in {"drain", "send", "wait"}
      /\ window \in Nat /\ reported \in Nat /\ granted \in Nat
  BY DEF PacketInv, TypeOK, KexRunning
<1>1. seen = Len(sent)
  BY <1>0 DEF ServerMay
<1>2. Unseen("dh") = {} /\ Unseen("newkeys") = {} /\ Quiet
      /\ ~One("dh") /\ ~One("newkeys")
  <2>1. seen + 1 .. Len(sent) = {}
    BY <1>0, <1>1
  <2> QED BY <2>1 DEF Unseen, Quiet, One
<1>3. Len(inbox) >= 1 => inbox # <<>> /\ Head(inbox) = inbox[1]
  BY <1>0
<1>4. Between \/ Switched \/ Replied
  BY <1>2 DEF MotionInv, ExchangeStage, Stage, Begun, Offered, Agreed, Switching,
              Ahead, ClientMay, DeafInExchange, Sending, KexKind
<1>5. Between
  BY <1>3, <1>4 DEF Switched, Replied, ClientMay
<1>6. /\ kex = "none" /\ app \in {"drain", "wait"} /\ request = 0
      /\ app = "drain" => window = 0 \/ inbox # <<>>
  <2>1. request # 0 => ~Deaf
    BY <1>0 DEF PacketInv, RequestsMeetWait, Deaf
  <2> QED BY <1>0, <1>5, <2>1 DEF Between, ClientMay
<1>7. Len(inbox) = 0
  <2>1. ASSUME Len(inbox) = 1 \/ Len(inbox) > 1
        PROVE  FALSE
    <3>0. Len(inbox) >= 1 /\ 1 \in 1 .. Len(inbox)
      BY <1>0, <2>1
    <3>1. inbox[1].kind \notin PlainKinds \cup {"kexinit"}
      BY <1>3, <1>6, <3>0 DEF ClientMay
    <3>2. Open(1)
      BY <1>5 DEF Between
    <3>3. CASE srvKex /\ Len(inbox) = 1
      BY <3>1, <3>2, <3>3 DEF Open
    <3>4. CASE ~srvKex
      BY <3>0, <3>1, <3>2, <3>4 DEF Open
    <3>5. CASE Len(inbox) > 1
      BY <3>0, <3>1, <3>2, <3>5 DEF Open
    <3> QED BY <2>1, <3>3, <3>4, <3>5
  <2>2. Len(inbox) = 0 \/ Len(inbox) = 1 \/ Len(inbox) > 1
    BY <1>0, NoneOneMore
  <2> QED BY <2>1, <2>2
<1>8. ~srvKex
  BY <1>5, <1>7 DEF Between, Open
<1>9. owed = <<>> /\ Len(owed) = 0
  BY <1>8 DEF ServerMay
<1>10. CASE app = "wait"
  <2>1. OnItsWay(reported)
    BY <1>10 DEF MotionInv, AnswerOnItsWay
  <2> QED BY <1>0, <1>1, <1>7, <1>9, <2>1 DEF OnItsWay
<1>11. CASE app = "drain"
  <2>1. window = 0
    BY <1>0, <1>6, <1>7, <1>11
  <2>2. Window \in Nat /\ Window >= 1
    BY TransportAssumption
  <2>3. \A g \in 1 .. granted : ~(window + reported < Window + g)
    BY <1>0, <1>7 DEF MotionInv, AdjustsOnTheirWay
  <2>4. granted + 1 <= reported
    <3>0. reported >= Window
      BY <1>0, <2>1, <2>2 DEF MotionInv, AdjustsOnTheirWay
    <3>1. CASE granted = 0
      BY <1>0, <2>2, <3>0, <3>1
    <3>2. CASE granted >= 1
      <4>1. ~(window + reported < Window + granted)
        BY <1>0, <2>3, <3>2
      <4> QED BY <1>0, <2>1, <2>2, <4>1
    <3> QED BY <1>0, <3>1, <3>2
  <2>5. PICK i \in 1 .. Len(sent) : sent[i] = Pkt("data", granted + 1)
    <3>1. granted + 1 \in 1 .. reported
      BY <1>0, <2>4
    <3> QED BY <3>1 DEF PacketInv, ReportedIsSent
  <2> QED BY <1>1, <1>8, <2>5 DEF ServerMay
<1> QED BY <1>6, <1>10, <1>11

\* The drain, the exchange of keys, the window and the answers wait for one
\* another in one place only: as long as a call of the program runs and no
\* exchange has failed, either that call can get on, or the server has something
\* to handle, or the call waits for input with a packet of the exchange half
\* sent.  It is the safety half of Finishes, for every window, every number of
\* exchanges and every number of requests.
THEOREM TransportNoStandstill == ~AskAlways => (Spec => []NoStandstill)
<1> SUFFICES ASSUME ~AskAlways PROVE Spec => []NoStandstill
  OBVIOUS
<1>1. PacketInv /\ WindowInv /\ MotionInv => NoStandstill
  BY MotionIsNoStandstill
<1> QED BY <1>1, PacketInvHolds, WindowInvHolds, MotionInvHolds, PTL
=============================================================================
