------------------------------ MODULE Transport ------------------------------
(***************************************************************************)
(* How libssh2 shares one socket between the data the program writes, the   *)
(* answers libssh2 itself owes to the server and the exchange of new keys   *)
(* that the server may ask for at any time                                  *)
(* (ext/lib/libssh2/src/transport.c, packet.c, kex.c and channel.c).        *)
(*                                                                          *)
(* The program writes data packets with _libssh2_channel_write and now and  *)
(* then waits for the answers.  Everything runs in the calls the program    *)
(* makes: channel_write first reads what has arrived, and what it reads may *)
(* have to be answered at once.  A packet the socket takes only in part is  *)
(* kept in session->packet, and whoever calls _libssh2_transport_send next  *)
(* moves that packet on.                                                    *)
(*                                                                          *)
(* One action is one call of _libssh2_transport_read or                     *)
(* _libssh2_transport_send, with what its callers do with the result up to  *)
(* the next such call.  A call that returns EAGAIN to the program is made   *)
(* again when the socket is ready (BLOCK_ADJUST in session.h).              *)
(***************************************************************************)
EXTENDS Integers, Sequences

CONSTANTS Chunks,    \* data packets the program writes
          PacketLen, \* parts in which the socket may take a packet
          Window,    \* data packets the channel takes at first
          Rekeys,    \* bound: exchanges of keys the server starts
          Requests,  \* bound: requests of the server that want a reply
          AskAlways  \* the server sends these also while the program writes;
                     \* otherwise only while it waits for an answer

ASSUME TransportAssumption ==
    /\ Chunks \in Nat \ {0}
    /\ PacketLen \in Nat \ {0}
    /\ Window \in Nat \ {0}
    /\ Rekeys \in Nat
    /\ Requests \in Nat
    /\ AskAlways \in BOOLEAN

VARIABLES
    app,       \* the call of the program that runs, see Calls
    reported,  \* data packets that channel_write reported as written
    answered,  \* the last data packet whose answer was read
    window,    \* channel->local.window_size
    pend,      \* session->packet: what the socket has not taken yet
    request,   \* the request packet_add is about to reply to
               \* (packAdd_state is jump4 or jump5), 0 when it is idle
    kex,       \* what is next in the exchange of keys, see KexSteps
    round,     \* number of the last exchange
    nested,    \* kex_exchange runs inside the packet_add of the KEXINIT
    kexFailed, \* an exchange ended in an error
    sent,      \* packets the socket took whole, in order
    inbox,     \* messages of the server that were not read
    seen,      \* server: packets of sent it has handled
    owed,      \* server: data packets it has not answered
    granted,   \* server: window adjusts sent
    asked,     \* server: requests sent
    srvRound,  \* server: exchanges started
    srvKex     \* server: an exchange is going on

clientVars == <<app, reported, answered, window, pend, request,
                kex, round, nested, kexFailed, sent>>
serverVars == <<seen, owed, granted, asked, srvRound, srvKex>>
vars       == <<clientVars, inbox, serverVars>>

\* drain: channel_write reads what has arrived;
\* send: channel_write has a packet to send (write_state is created);
\* wait: packet_require waits for the answers
Calls == {"drain", "send", "wait", "done", "failed"}

\* init, dh, newkeys: a packet to send; reply, finish: a packet to read
KexSteps == {"none", "init", "dh", "reply", "newkeys", "finish"}

KexKinds == {"kexinit", "dh", "newkeys"}

Packet  == [kind : {"data", "reply"} \cup KexKinds, n : Nat]
Message == [kind : {"adjust", "answer", "request", "kexinit", "kexreply",
                    "newkeys"}, n : Nat]

Pkt(kind, n) == [kind |-> kind, n |-> n]

Nothing == [what |-> Pkt("data", 0), at |-> -1]   \* p->olen is 0

Pending == [what : Packet, at : 0 .. PacketLen - 1] \cup {Nothing}

TypeOK ==
    /\ app \in Calls
    /\ reported \in Nat /\ answered \in Nat /\ window \in Nat
    /\ pend \in Pending
    /\ request \in Nat
    /\ kex \in KexSteps /\ round \in Nat
    /\ nested \in BOOLEAN /\ kexFailed \in BOOLEAN
    /\ sent \in Seq(Packet) /\ inbox \in Seq(Message)
    /\ seen \in 0 .. Len(sent) /\ owed \in Seq(Nat)
    /\ granted \in Nat /\ asked \in 0 .. Requests
    /\ srvRound \in 0 .. Rekeys /\ srvKex \in BOOLEAN

Init ==
    /\ app = "drain"
    /\ reported = 0 /\ answered = 0 /\ window = Window
    /\ pend = Nothing /\ request = 0
    /\ kex = "none" /\ round = 0 /\ nested = FALSE /\ kexFailed = FALSE
    /\ sent = <<>> /\ inbox = <<>>
    /\ seen = 0 /\ owed = <<>> /\ granted = 0 /\ asked = 0
    /\ srvRound = 0 /\ srvKex = FALSE

-----------------------------------------------------------------------------
(* _libssh2_transport_send                                                  *)

\* send_existing: a packet the socket took in part goes on in place of p.
Current(p) == IF pend = Nothing THEN [what |-> p, at |-> 0] ELSE pend

\* What may come of a call with packet p; it returns success when the current
\* packet is through.
SendOutcomes(p) ==
    {[ok |-> TRUE, sent |-> Append(sent, Current(p).what), pend |-> Nothing]}
    \cup {[ok |-> FALSE, sent |-> sent, pend |-> [Current(p) EXCEPT !.at = i]] :
              i \in Current(p).at .. PacketLen - 1}

\* A call ends in EAGAIN.  For channel_write this is the end of what has
\* arrived, whatever the reason was; it goes on when there is window.  When
\* there is none, it returns to the program to wait for the socket.
Unwind ==
    /\ nested' = FALSE
    /\ app' = IF app = "drain" /\ window > 0 THEN "send" ELSE app

\* There it sets session->socket_block_directions to INBOUND, whatever
\* transport_send had asked for: with a packet half sent, the wait is for
\* input alone.
Deaf == app = "drain" /\ window <= 0 /\ pend # Nothing

\* poll returns when the socket takes more, or else when there is input.  What
\* has arrived need not wake it: it may be in the buffer of the session.
MayWake == Deaf => inbox # <<>>

-----------------------------------------------------------------------------
(* _libssh2_transport_read and packet_add                                   *)

Reading == app \in {"drain", "wait"} /\ kex = "none" /\ request = 0

Arrives(kind) ==
    /\ inbox # <<>>
    /\ Head(inbox).kind = kind
    /\ inbox' = Tail(inbox)

\* Nothing has arrived; channel_write takes the next packet.
NothingArrived ==
    /\ Reading
    /\ app = "drain" /\ window > 0
    /\ inbox = <<>>
    /\ app' = "send"
    /\ UNCHANGED <<reported, answered, window, pend, request, kex, round,
                   nested, kexFailed, sent, inbox, serverVars>>

ReadAdjust ==
    /\ Reading
    /\ Arrives("adjust")
    /\ window' = window + 1
    /\ UNCHANGED <<app, reported, answered, pend, request, kex, round, nested,
                   kexFailed, sent, serverVars>>

\* The answer goes to the brigade; packet_require takes it from there.
ReadAnswer ==
    /\ Reading
    /\ Arrives("answer")
    /\ answered' = Head(inbox).n
    /\ app' = IF app = "wait" /\ answered' = reported
              THEN IF reported < Chunks THEN "drain" ELSE "done"
              ELSE app
    /\ UNCHANGED <<reported, window, pend, request, kex, round, nested,
                   kexFailed, sent, serverVars>>

\* Mutant of RequestAfter: packAdd_state is idle also after EAGAIN.
RequestDropped(n, ok) == 0

\* Mutant of RequestAfter: packAdd_state stays when a later attempt succeeds.
RequestStays(n, ok) == IF ok /\ request = 0 THEN 0 ELSE n

\* packAdd_state after an attempt to send the reply to request n
RequestAfter(n, ok) == IF ok THEN 0 ELSE n

ReplyWith(n, o) ==
    /\ pend' = o.pend /\ sent' = o.sent
    /\ request' = RequestAfter(n, o.ok)
    /\ IF o.ok THEN UNCHANGED <<app, nested>> ELSE Unwind

\* GLOBAL_REQUEST or CHANNEL_REQUEST with want_reply
ReadRequest ==
    /\ Reading
    /\ Arrives("request")
    /\ \E o \in SendOutcomes(Pkt("reply", Head(inbox).n)) :
          ReplyWith(Head(inbox).n, o)
    /\ UNCHANGED <<reported, answered, window, kex, round, kexFailed,
                   serverVars>>

\* readPack_state is jump1: the read goes on in the middle of packet_add.
ResumeReply ==
    /\ app \in {"drain", "wait"}
    /\ kex = "none"
    /\ request # 0
    /\ MayWake
    /\ \E o \in SendOutcomes(Pkt("reply", request)) : ReplyWith(request, o)
    /\ UNCHANGED <<reported, answered, window, kex, round, kexFailed, inbox,
                   serverVars>>

ReadKexInit ==
    /\ Reading
    /\ Arrives("kexinit")
    /\ kex' = "init"
    /\ round' = Head(inbox).n
    /\ nested' = TRUE
    /\ UNCHANGED <<app, reported, answered, window, pend, request, kexFailed,
                   sent, serverVars>>

-----------------------------------------------------------------------------
(* kex_exchange: called by packet_add, later by any read or send            *)

KexRunning == app \in {"drain", "send", "wait"}

\* The kind of packet that a step sends, and the step after it
KexKind == [init |-> "kexinit", dh |-> "dh", newkeys |-> "newkeys"]

AfterSend == [init |-> "dh", dh |-> "reply", newkeys |-> "finish"]

Sending == kex \in DOMAIN KexKind

KexPacket == Pkt(KexKind[kex], round)

KexSend ==
    /\ KexRunning
    /\ Sending
    /\ MayWake
    /\ \E o \in SendOutcomes(KexPacket) :
          /\ pend' = o.pend /\ sent' = o.sent
          /\ kex' = IF o.ok THEN AfterSend[kex] ELSE kex
          /\ IF o.ok THEN UNCHANGED <<app, nested>> ELSE Unwind
    /\ UNCHANGED <<reported, answered, window, request, round, kexFailed,
                   inbox, serverVars>>

\* Mutant of AfterNewKeys: the bit EXCHANGING_KEYS is left set.
ExchangingStays == "finish"

\* The step after NEWKEYS was read: both bits of the state are cleared.
AfterNewKeys == "none"

\* packet_require in exchange_keys
KexRead ==
    /\ KexRunning
    /\ \/ kex = "reply" /\ Arrives("kexreply") /\ kex' = "newkeys"
       \/ kex = "finish" /\ Arrives("newkeys") /\ kex' = AfterNewKeys
    /\ nested' = (nested /\ kex' # "none")
    /\ UNCHANGED <<app, reported, answered, window, pend, request, round,
                   kexFailed, sent, serverVars>>

KexNothingArrived ==
    /\ KexRunning
    /\ kex \in {"reply", "finish"}
    /\ inbox = <<>>
    /\ Unwind
    /\ UNCHANGED <<reported, answered, window, pend, request, kex, round,
                   kexFailed, sent, inbox, serverVars>>

\* No common method, a bad signature, no memory: both bits are cleared.
\* packet_add drops the error; a read or send that came back to the exchange
\* returns it, and the program gives up.
KexFails ==
    /\ KexRunning
    /\ kex # "none"
    /\ pend = Nothing
    /\ kex' = "none"
    /\ kexFailed' = TRUE
    /\ nested' = FALSE
    /\ app' = IF nested THEN app ELSE "failed"
    /\ UNCHANGED <<reported, answered, window, pend, request, round, sent,
                   inbox, serverVars>>

-----------------------------------------------------------------------------
(* _libssh2_channel_write sends its packet                                  *)

\* Mutant of MaySend: it does not while the exchange waits for the server.
MaySendDuringKex == kex \in {"none", "reply", "finish"}

\* transport_send turns to an exchange that is going on before anything else.
MaySend == kex = "none"

\* Mutant of WindowAfterSend: the window does not shrink.
WindowKept == window

\* Mutant of WindowAfterSend: every data packet is counted twice.
WindowCountedTwice == window - 2

WindowAfterSend == window - 1

\* After a packet the program goes on with the next or waits for answers.
SendData ==
    /\ app = "send"
    /\ MaySend
    /\ \E o \in SendOutcomes(Pkt("data", reported + 1)) :
          /\ pend' = o.pend /\ sent' = o.sent
          /\ \/ /\ o.ok
                /\ reported' = reported + 1
                /\ window' = WindowAfterSend
                /\ \/ app' = "wait"
                   \/ reported' < Chunks /\ app' = "drain"
             \/ ~o.ok /\ UNCHANGED <<app, reported, window>>
    /\ UNCHANGED <<answered, request, kex, round, nested, kexFailed, inbox,
                   serverVars>>

\* send or recv fails, or the server disconnects; the program gives up.
ConnectionLost ==
    /\ KexRunning
    /\ app' = "failed"
    /\ UNCHANGED <<reported, answered, window, pend, request, kex, round,
                   nested, kexFailed, sent, inbox, serverVars>>

-----------------------------------------------------------------------------
(* The server, as far as libssh2 relies on it                               *)

Deliver(m) == inbox' = Append(inbox, m)

\* It handles the next packet.  During an exchange its answers wait.
ServerReads ==
    /\ seen < Len(sent)
    /\ seen' = seen + 1
    /\ LET p == sent[seen + 1] IN
          /\ owed' = IF p.kind = "data" THEN Append(owed, p.n) ELSE owed
          /\ inbox' = IF p.kind = "dh"
                      THEN inbox \o <<Pkt("kexreply", p.n), Pkt("newkeys", p.n)>>
                      ELSE inbox
          /\ srvKex' = (srvKex /\ p.kind # "newkeys")
    /\ UNCHANGED <<clientVars, granted, asked, srvRound>>

ServerAnswers ==
    /\ ~srvKex
    /\ owed # <<>>
    /\ owed' = Tail(owed)
    /\ Deliver(Pkt("answer", Head(owed)))
    /\ UNCHANGED <<clientVars, seen, granted, asked, srvRound, srvKex>>

\* It makes room for a data packet it has handled.
ServerAdjusts ==
    /\ ~srvKex
    /\ \E i \in 1 .. seen : sent[i] = Pkt("data", granted + 1)
    /\ granted' = granted + 1
    /\ Deliver(Pkt("adjust", granted'))
    /\ UNCHANGED <<clientVars, seen, owed, asked, srvRound, srvKex>>

\* The program waits for an answer that is not on its way.
ProgramWaits ==
    /\ app = "wait"
    /\ \A i \in 1 .. Len(inbox) : inbox[i] # Pkt("answer", reported)

\* For example keepalive@openssh.com
ServerAsks ==
    /\ ~srvKex
    /\ asked < Requests
    /\ AskAlways \/ ProgramWaits
    /\ asked' = asked + 1
    /\ Deliver(Pkt("request", asked'))
    /\ UNCHANGED <<clientVars, seen, owed, granted, srvRound, srvKex>>

ServerRekeys ==
    /\ ~srvKex
    /\ srvRound < Rekeys
    /\ srvRound' = srvRound + 1
    /\ srvKex' = TRUE
    /\ Deliver(Pkt("kexinit", srvRound'))
    /\ UNCHANGED <<clientVars, seen, owed, granted, asked>>

-----------------------------------------------------------------------------
ClientMoves ==
    \/ NothingArrived \/ ReadAdjust \/ ReadAnswer \/ ReadRequest \/ ResumeReply
    \/ ReadKexInit \/ KexSend \/ KexRead \/ KexNothingArrived \/ SendData

ServerMoves == ServerReads \/ ServerAnswers \/ ServerAdjusts

Next ==
    \/ ClientMoves \/ KexFails \/ ConnectionLost
    \/ ServerMoves \/ ServerAsks \/ ServerRekeys

Spec == Init /\ [][Next]_vars

\* The program repeats its call as soon as poll lets it, which for a call that
\* waits for input alone may be never, and the server handles what it receives.
Fairness ==
    /\ WF_vars(~Deaf /\ ClientMoves)
    /\ WF_vars(ServerReads) /\ WF_vars(ServerAnswers) /\ WF_vars(ServerAdjusts)

FairSpec == Spec /\ Fairness

-----------------------------------------------------------------------------
(* Properties                                                               *)

\* Somebody is to call transport_send next, and the packet to be passed
HasSender == Sending \/ request # 0 \/ (app = "send" /\ MaySend)

Wanted ==
    IF Sending THEN KexPacket
    ELSE IF request # 0 THEN Pkt("reply", request)
    ELSE Pkt("data", reported + 1)

\* "MUST then be called with the same argument set": the packet the socket
\* took in part has a sender that comes back with it, so no other packet is
\* taken for it.
PendingIsWanted ==
    pend # Nothing /\ app # "failed" => HasSender /\ pend.what = Wanted

\* "To make the caller really notice his/hers flaw, we return error for this
\* case": data that meet another packet in session->packet are not reported
\* as written.
ForeignSendIsRefused ==
    [][pend # Nothing /\ pend.what.kind # "data" => reported' = reported]_vars

\* What channel_write reported as written reached the socket: every data
\* packet once, in the order of the calls, and none that was not reported.
ReportedIsSent ==
    /\ \A n \in 1 .. reported : \E i \in 1 .. Len(sent) : sent[i] = Pkt("data", n)
    /\ \A i \in 1 .. Len(sent) : sent[i].kind = "data" => sent[i].n <= reported
    /\ \A i, j \in 1 .. Len(sent) :
          i < j /\ sent[i].kind = "data" /\ sent[j].kind = "data"
              => sent[i].n < sent[j].n

Unread(n)    == \E i \in 1 .. Len(inbox) : inbox[i] = Pkt("request", n)
RepliedTo(n) == \E i \in 1 .. Len(sent) : sent[i] = Pkt("reply", n)

\* A request that was read and is not being replied to has its reply in what
\* the socket took.
RequestsKept == \A n \in 1 .. asked : Unread(n) \/ request = n \/ RepliedTo(n)

\* No two replies are to the same request, and none overtakes another.
RepliesOrdered ==
    \A i, j \in 1 .. Len(sent) :
        i < j /\ sent[i].kind = "reply" /\ sent[j].kind = "reply"
            => sent[i].n < sent[j].n

\* A request that wants a reply gets one, and only one: SSH matches replies
\* to requests by their order alone.
RepliesInOrder == RequestsKept /\ RepliesOrdered

\* "Don't write any new packets if we're still in the middle of a key
\* exchange": from its KEXINIT to its NEWKEYS the client sends nothing else,
\* whichever call carried the exchange on.
KexUndisturbed ==
    ~kexFailed =>
        \A i, j \in 1 .. Len(sent) :
            i < j /\ sent[i].kind = "kexinit" /\ sent[j].kind \notin KexKinds
                => \E m \in i .. j : sent[m] = Pkt("newkeys", sent[i].n)

\* The peer has room for every data packet, one that is on its way included.
WithinWindow ==
    /\ \A i \in 1 .. Len(sent) :
          sent[i].kind = "data" => sent[i].n <= Window + granted
    /\ pend # Nothing /\ pend.what.kind = "data"
          => pend.what.n <= Window + granted

\* The calls come to an end: the drain, the exchange of keys, the window and
\* the replies never wait for one another, but for a call that went to wait for
\* input alone with a packet of the exchange half sent.  After a failed exchange
\* it is up to the server to disconnect.
Finishes ==
    \/ <>(app \in {"done", "failed"} \/ kexFailed)
    \/ <>[](Deaf /\ Sending)

\* "the caller should call this function again as soon as it is likely that
\* more data can be sent": a packet that the socket took in part is sent in
\* the end.
HalfSentGoesOn == pend # Nothing ~> pend = Nothing \/ app = "failed"
=============================================================================
