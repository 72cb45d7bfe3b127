------------------------------ MODULE SshSession ------------------------------
(***************************************************************************)
(* The calls by which main makes an SSH session and an SFTP session and     *)
(* gives them back: libssh2_session_handshake, libssh2_userauth_password,   *)
(* libssh2_sftp_init, libssh2_sftp_shutdown, libssh2_session_disconnect and *)
(* libssh2_session_free (ext/lib/libssh2/src/session.c, userauth.c,         *)
(* channel.c, sftp.c).                                                      *)
(*                                                                          *)
(* A call goes from one place where it may have to wait for the server to   *)
(* the next.  It can end at each of them: the connection fails, the server  *)
(* refuses or disconnects, there is no memory, or the wait itself fails     *)
(* (BLOCK_ADJUST in session.h), which leaves everything as it is.  What the *)
(* call had allocated by then is found again through the pointers in the    *)
(* session and in the channel, which session_free follows; it does not      *)
(* follow those of the SFTP session.                                        *)
(***************************************************************************)
EXTENDS Integers

CONSTANT ClosesEarly   \* the server may close the channel in place of an answer

ASSUME SshSessionAssumption == ClosesEarly \in BOOLEAN

VARIABLES
    pc,           \* place in the call; "ok" and "failed": it has returned
    back,         \* where _libssh2_channel_free returns to
    socket_state,
    listed,       \* the channel is on session->channels
    close_cb,     \* channel->close_cb is libssh2_sftp_dtor, for the SFTP session
    close_sent,   \* channel->close_state is sent
    remote_close, \* channel->remote.close
    held,         \* pointers of the session, the channel and the SFTP session
                  \* that are not null; "sftp" is session->sftpInit_sftp
    live,         \* blocks allocated and not freed yet, since session_init
    abandoned     \* the wait for the rest of the version was given up;
                  \* only properties read it

channelVars == <<listed, close_cb, close_sent, remote_close>>
blockVars   == <<held, live, abandoned>>
sessionVars == <<pc, back, socket_state, channelVars, blockVars>>

Pointers == {"banner", "startup_data", "userauth_pswd_data", "open_packet",
             "process_packet", "sftp", "partial_packet"}
Blocks == Pointers \cup {"session", "channel"}

HandshakePlaces == {"send_banner", "banner", "keys", "send_service", "service"}
LoginPlaces     == {"login", "send_login", "login_reply"}
SftpPlaces      == {"open", "send_open", "open_reply", "send_subsystem",
                    "subsystem_reply", "send_init", "version"}
ClosePlaces     == {"channel_free", "send_eof", "send_close", "end"}
FreePlaces      == {"send_disconnect", "free"}
Returned        == {"ok", "failed"}
CallPlaces      == HandshakePlaces \cup LoginPlaces \cup SftpPlaces \cup ClosePlaces
                       \cup FreePlaces \cup Returned

SessionTypeOK ==
    /\ pc \in CallPlaces
    /\ back \in {"ok", "free"}
    /\ socket_state \in {"connected", "disconnected"}
    /\ listed \in BOOLEAN /\ close_cb \in BOOLEAN
    /\ close_sent \in BOOLEAN /\ remote_close \in BOOLEAN
    /\ held \subseteq Pointers
    /\ live \in [Blocks -> Int]
    /\ abandoned \in BOOLEAN

SessionInit ==
    /\ pc = "ok" /\ back = "ok"
    /\ socket_state = "connected"
    /\ listed = FALSE /\ close_cb = FALSE
    /\ close_sent = FALSE /\ remote_close = FALSE
    /\ held = {} /\ live = [b \in Blocks |-> 0] /\ abandoned = FALSE

-----------------------------------------------------------------------------
\* LIBSSH2_ALLOC of some blocks and LIBSSH2_FREE of others
Memory(got, freed) ==
    /\ live' = [b \in Blocks |-> live[b] + (IF b \in got THEN 1 ELSE 0)
                                         - (IF b \in freed THEN 1 ELSE 0)]
    /\ UNCHANGED abandoned

\* Keeps the pointers to what it gets, and sets those to what it frees to null.
Holds(got, freed) == held' = (held \ freed) \cup got /\ Memory(got, freed)

Goes(place) == pc' = place /\ UNCHANGED socket_state

\* send or recv fails, or an SSH_MSG_DISCONNECT of the server is read.
Lost(place) == pc' = place /\ socket_state' \in {socket_state, "disconnected"}

\* A send or a read ends, r tells how; then the call goes on, or is over.
Ends(r, place) == IF r = "done" THEN Goes(place) ELSE Lost("failed")

Outcomes == {"done", "lost"}

\* libssh2_session_init
NewSession ==
    /\ pc' = "send_banner"
    /\ back' = "ok"
    /\ socket_state' = "connected"
    /\ listed' = FALSE /\ close_cb' = FALSE
    /\ close_sent' = FALSE /\ remote_close' = FALSE
    /\ held' = {}
    /\ live' = [b \in Blocks |-> IF b = "session" THEN 1 ELSE 0]
    /\ abandoned' = FALSE

-----------------------------------------------------------------------------
(* libssh2_session_handshake: session_startup                               *)

\* Sends, and the exchange of keys; what that allocates is left out.
After == [send_banner |-> "banner", keys |-> "send_service",
          send_service |-> "service", send_init |-> "version"]

Advance(r) ==
    /\ pc \in DOMAIN After
    /\ Ends(r, After[pc])
    /\ UNCHANGED <<back, channelVars, blockVars>>

\* Lines before the one with "SSH-" replace each other.
ReadBanner(r) ==
    /\ pc = "banner"
    /\ \/ /\ r = "done"
          /\ \/ Goes("banner") \/ Goes("keys")
          /\ held' = held \cup {"banner"}
          /\ Memory({"banner"}, held \cap {"banner"})
       \/ /\ r = "lost"
          /\ Goes("failed")             \* no memory for the next line
          /\ Holds({}, held \cap {"banner"})
       \/ r = "lost" /\ Lost("failed") /\ UNCHANGED blockVars
    /\ UNCHANGED <<back, channelVars>>

\* An answer that is too short is kept; of another service it is freed.
ReadService(r) ==
    /\ pc = "service"
    /\ \/ Ends(r, "ok") /\ UNCHANGED blockVars
       \/ r = "done" /\ Goes("failed") /\ UNCHANGED blockVars
       \/ r = "done" /\ Goes("failed") /\ Holds({"startup_data"}, {})
    /\ UNCHANGED <<back, channelVars>>

-----------------------------------------------------------------------------
(* libssh2_userauth_password                                                *)

BeginLogin(r) ==
    /\ pc = "login"
    /\ IF r = "done"
       THEN Goes("send_login") /\ Holds({"userauth_pswd_data"}, {})
       ELSE Goes("failed") /\ UNCHANGED blockVars
    /\ UNCHANGED <<back, channelVars>>

SendLogin(r) ==
    /\ pc = "send_login"
    /\ Ends(r, "login_reply")
    /\ Holds({}, {"userauth_pswd_data"})
    /\ UNCHANGED <<back, channelVars>>

\* Success, failure, or a new password is wanted; the reply is freed.
ReadLogin(r) ==
    /\ pc = "login_reply"
    /\ \/ Ends(r, "ok")
       \/ r = "done" /\ Goes("failed")
    /\ UNCHANGED <<back, channelVars, blockVars>>

-----------------------------------------------------------------------------
(* libssh2_sftp_init: the channel, the subsystem, the version               *)

\* _libssh2_channel_open; without memory for its packet the channel is freed.
BeginOpen(r) ==
    /\ pc = "open"
    /\ IF r = "done"
       THEN /\ Goes("send_open")
            /\ listed' = TRUE
            /\ held' = held \cup {"open_packet"}
            /\ Memory({"channel", "open_packet"}, {})
       ELSE Goes("failed") /\ UNCHANGED <<listed, blockVars>>
    /\ UNCHANGED <<back, close_cb, close_sent, remote_close>>

\* channel_error
DropChannel ==
    /\ listed' = FALSE
    /\ held' = held \ {"open_packet"}
    /\ Memory({}, {"channel", "open_packet"})

SendOpen(r) ==
    /\ pc = "send_open"
    /\ Ends(r, "open_reply")
    /\ IF r = "done" THEN UNCHANGED <<listed, blockVars>> ELSE DropChannel
    /\ UNCHANGED <<back, close_cb, close_sent, remote_close>>

\* Confirmed, and the request for the subsystem is made; or refused.
ReadOpen(r) ==
    /\ pc = "open_reply"
    /\ \/ /\ r = "done"
          /\ Goes("send_subsystem")
          /\ Holds({"process_packet"}, {"open_packet"})
          /\ UNCHANGED listed
       \/ /\ r = "lost"
          /\ Goes("failed")             \* no memory for the request
          /\ Holds({}, {"open_packet"})
          /\ UNCHANGED listed
       \/ r = "done" /\ Goes("failed") /\ DropChannel
       \/ r = "lost" /\ Lost("failed") /\ DropChannel
    /\ UNCHANGED <<back, close_cb, close_sent, remote_close>>

SendSubsystem(r) ==
    /\ pc = "send_subsystem"
    /\ Ends(r, "subsystem_reply")
    /\ Holds({}, {"process_packet"})
    /\ UNCHANGED <<back, channelVars>>

\* No answer comes on a channel that the server has closed.
Answered(r) == r = "done" => ~remote_close

ReadSubsystem(r) ==
    /\ pc = "subsystem_reply"
    /\ Answered(r)
    /\ \/ r = "done" /\ Goes("send_init") /\ Holds({"sftp"}, {})
       \/ r = "done" /\ Goes("failed") /\ UNCHANGED blockVars
       \/ r = "lost" /\ Lost("failed") /\ UNCHANGED blockVars
    /\ UNCHANGED <<back, channelVars>>

\* sftp_packet_read has the head of the version and waits for the rest: the next call
\* finds the packet where this one leaves it.
ReadHead(r) ==
    /\ pc = "version" /\ "partial_packet" \notin held
    /\ r = "done"
    /\ Answered(r)
    /\ Goes("version")
    /\ Holds({"partial_packet"}, {})
    /\ UNCHANGED <<back, channelVars>>

\* Used or not, the packet is freed, also when its rest cannot be read.  The SFTP
\* session goes from sftpInit_sftp to main and to the channel.
ReadVersion(r) ==
    /\ pc = "version"
    /\ Answered(r)
    /\ \/ /\ r = "done"
          /\ Goes("ok")
          /\ close_cb' = TRUE
          /\ held' = held \ {"sftp", "partial_packet"}
          /\ Memory({}, held \cap {"partial_packet"})
       \/ /\ \/ r = "done" /\ Goes("failed")
             \/ r = "lost" /\ Lost("failed")
          /\ Holds({}, held \cap {"partial_packet"})
          /\ UNCHANGED close_cb
    /\ UNCHANGED <<back, listed, close_sent, remote_close>>

-----------------------------------------------------------------------------
(* _libssh2_channel_free, for libssh2_sftp_shutdown and session_free        *)

\* Mutant of FreeChannel: process_packet stays.
FreeWithoutPacket(with) ==
    /\ pc' = back
    /\ listed' = FALSE /\ close_cb' = FALSE
    /\ Holds({}, {"channel"} \cup with)
    /\ UNCHANGED <<back, close_sent, remote_close>>

\* What comes after the channel is closed: process_packet goes with it.
FreeChannel(with) ==
    /\ pc' = back
    /\ listed' = FALSE /\ close_cb' = FALSE
    /\ Holds({}, {"channel"} \cup (held \cap {"process_packet"}) \cup with)
    /\ UNCHANGED <<back, close_sent, remote_close>>

\* The SFTP session, which libssh2_sftp_dtor frees when the channel is closed
Abstract == IF close_cb THEN {"sftp"} ELSE {}

\* A channel on a lost connection is not closed first, nor the callback called.
EnterFree ==
    /\ pc = "channel_free"
    /\ \/ /\ socket_state = "connected"
          /\ pc' = IF close_sent THEN "end" ELSE "send_eof"
          /\ UNCHANGED <<back, channelVars, blockVars>>
       \/ /\ socket_state = "disconnected"
          /\ FreeChannel({})
    /\ UNCHANGED socket_state

\* Mutant of SendEof: the callback is called before the call may have to wait.
SendEofAndClose(r) ==
    /\ pc = "send_eof"
    /\ IF r = "done" THEN Goes("send_close") ELSE Lost("send_close")
    /\ close_cb' = FALSE /\ Memory({}, Abstract)
    /\ UNCHANGED <<back, listed, close_sent, remote_close, held>>

\* An EOF that cannot be sent is passed over.
SendEof(r) ==
    /\ pc = "send_eof"
    /\ IF r = "done" THEN Goes("send_close") ELSE Lost("send_close")
    /\ UNCHANGED <<back, channelVars, blockVars>>

\* Without the close there is nothing to wait for.  When it has to wait,
\* and the server has disconnected, channel_free starts from the top.
SendClose(r) ==
    /\ pc = "send_close"
    /\ \/ /\ r = "done"
          /\ Goes("end")
          /\ close_sent' = TRUE
          /\ UNCHANGED <<back, listed, close_cb, remote_close, blockVars>>
       \/ /\ r = "lost"
          /\ FreeChannel(Abstract)
          /\ socket_state' \in {socket_state, "disconnected"}
       \/ /\ r = "lost"
          /\ socket_state = "disconnected"
          /\ FreeChannel({})
          /\ UNCHANGED socket_state

\* Mutant of ReadEnd: the server's close is waited for although it was read.
ReadOneMore(r) ==
    /\ pc = "end"
    /\ ~remote_close
    /\ FreeChannel(Abstract)
    /\ IF r = "done" THEN UNCHANGED socket_state
       ELSE socket_state' \in {socket_state, "disconnected"}

\* When the server's close was read before, nothing is waited for.  Otherwise any
\* packet ends the wait; the server answers the close with its own.
ReadEnd(r) ==
    /\ pc = "end"
    /\ FreeChannel(Abstract)
    /\ IF remote_close \/ r = "done" THEN UNCHANGED socket_state
       ELSE socket_state' \in {socket_state, "disconnected"}

-----------------------------------------------------------------------------
(* libssh2_session_disconnect and libssh2_session_free                      *)

\* What libssh2_session_disconnect returns is not looked at.
SendDisconnect(r) ==
    /\ pc = "send_disconnect"
    /\ IF r = "done" THEN Goes("free") ELSE Lost("free")
    /\ UNCHANGED <<back, channelVars, blockVars>>

FreeChannels ==
    /\ pc = "free"
    /\ listed
    /\ Goes("channel_free")
    /\ back' = "free"
    /\ UNCHANGED <<channelVars, blockVars>>

\* Of an SFTP session that was not finished only the structure is freed.
FreeRest ==
    /\ pc = "free"
    /\ ~listed
    /\ Goes("ok")
    /\ held' = held \cap {"process_packet", "partial_packet"}
    /\ Memory({}, (held \ {"process_packet", "partial_packet"}) \cup {"session"})
    /\ UNCHANGED <<back, channelVars>>

-----------------------------------------------------------------------------
\* Everywhere but in these places a call may have to wait.
Busy == {"login", "open", "channel_free", "free"} \cup Returned

\* select fails, or there was nothing to wait for; the state of the call stays.
\* On a closed channel the rest of a packet is asked for again and again, without a wait.
WaitFails ==
    /\ pc \notin Busy
    /\ pc = "end" => ~remote_close
    /\ pc = "version" /\ "partial_packet" \in held => ~remote_close
    /\ pc' = IF pc = "send_disconnect" THEN "free" ELSE "failed"
    /\ abandoned' = (abandoned \/ (pc = "version" /\ "partial_packet" \in held))
    /\ UNCHANGED <<back, socket_state, channelVars, held, live>>

\* The server closes the channel, or disconnects, while the commands run.
ServerCloses ==
    /\ \/ pc = "ok" /\ listed
       \/ ClosesEarly /\ pc \in {"subsystem_reply", "send_init", "version"}
    /\ ~remote_close
    /\ remote_close' = TRUE
    /\ UNCHANGED <<pc, back, socket_state, listed, close_cb, close_sent, blockVars>>

ServerDisconnects ==
    /\ pc = "ok" /\ listed
    /\ socket_state' = "disconnected"
    /\ UNCHANGED <<pc, back, channelVars, blockVars>>

Library(r) ==
    \/ Advance(r) \/ ReadBanner(r) \/ ReadService(r)
    \/ BeginLogin(r) \/ SendLogin(r) \/ ReadLogin(r)
    \/ BeginOpen(r) \/ SendOpen(r) \/ ReadOpen(r)
    \/ SendSubsystem(r) \/ ReadSubsystem(r) \/ ReadHead(r) \/ ReadVersion(r)
    \/ EnterFree \/ SendEof(r) \/ SendClose(r) \/ ReadEnd(r)
    \/ SendDisconnect(r) \/ FreeChannels \/ FreeRest
=============================================================================
