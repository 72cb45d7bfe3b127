----------------------------- MODULE SshExecProofs -----------------------------
(***************************************************************************)
(* Proofs about SshExec.tla, for documents of any length with lists of any  *)
(* length.  The invariant says for each place of the program which rungs of *)
(* the ladder are made, what is initialised, what was done so far, and      *)
(* where a call of libssh2 may be.                                          *)
(***************************************************************************)
EXTENDS SshExec, SshSessionProofs

\* Places between the initialisation of the library and its exit; with a remote's turn
Turn == {"socket", "connect", "session", "handshake", "login", "sftp", "commands",
         "shutdown", "shut", "free", "freed", "close"}
Inside == Turn \cup {"remote", "exit"}
Ground == Places \ (Turn \ {"socket"})

\* The rungs that are made at each place.  On the way down any of them may be
\* missing, but only from the top.
LadderInv ==
    /\ at \in Ground => sock = "none"
    /\ at = "connect" => sock \in {"created", "invalid"}
    /\ at \in {"session", "handshake", "login", "sftp", "commands"} => sock = "connected"
    /\ at \in Ground \cup {"connect", "session", "close"} => ssh_session = "null"
    /\ at \in {"sftp", "commands"} => ssh_session = "logged_in"
    /\ ssh_session # "null" => sock = "connected"
    /\ at \notin {"commands", "shutdown", "shut"} => ~sftp_session
    /\ at \in {"commands", "shut"} => sftp_session
    /\ at \in {"handshake", "login", "freed"} => ssh_session # "null"
    /\ sftp_session => ssh_session = "logged_in"
    /\ at # "commands" => phase = "idle"

\* What is initialised: once, and only where the flags say so.
InitInv ==
    /\ is_libssh2_inited <=> at \in Inside
    /\ libssh2_initialized = IF is_libssh2_inited THEN 1 ELSE 0
    /\ wsa = IF is_wsa_inited THEN 1 ELSE 0
    /\ at \in Inside \cup {"library"} => is_wsa_inited
    /\ at = "ended" => ~is_wsa_inited

\* The remotes before this one were tried, and this one from its connect on; on those
\* that were opened all commands were begun, but for the one whose commands run.
TurnInv ==
    /\ at \in {"network", "library"} => remote = 0 /\ tried = {} /\ opened = {} /\ begun = {}
    /\ at \in Turn => remote # 0
    /\ at \in {"socket", "connect"} => tried = 1 .. remote - 1
    /\ at \in Inside \ {"socket", "connect"} => tried = 1 .. remote
    /\ at = "exit" => remote = remotes
    /\ at \in Inside => opened \subseteq 1 .. remote
    /\ at \in {"socket", "connect", "session", "handshake", "login", "sftp"} =>
           remote \notin opened
    /\ at \in Inside \ {"commands"} => begun = opened \X (1 .. commands)
    /\ at = "commands" =>
           /\ remote \in opened
           /\ todo <= commands
           /\ begun = ((opened \ {remote}) \X (1 .. commands))
                      \cup ({remote} \X (1 .. commands - todo))

\* A call of libssh2 that runs is one that main makes at this place, and main has the
\* SFTP session and the SSH session until the call that releases them has returned.
CallInv ==
    /\ at = "handshake" => pc \in HandshakePlaces \cup Returned
    /\ at = "login" => pc \in LoginPlaces \cup Returned
    /\ at = "sftp" => pc \in SftpPlaces \cup Returned
    /\ at = "shut" => pc \in ClosePlaces \cup Returned
    /\ at = "freed" => pc \in ClosePlaces \cup FreePlaces \cup Returned
    /\ at \notin {"handshake", "login", "sftp", "shut", "freed"} => pc \in Returned
    /\ pc \in ClosePlaces => back = IF at = "shut" THEN "ok" ELSE "free"
    /\ at \in {"handshake", "login"} =>
           ~listed /\ ~close_cb /\ (pc = "ok" => socket_state = "connected")
    /\ at = "sftp" /\ pc = "ok" => close_cb
    /\ at = "commands" \/ (at = "shutdown" /\ sftp_session) => pc = "ok"
    /\ sftp_session /\ ~Released("shut") => close_cb
    /\ ssh_session # "null" /\ ~Released("freed") => live["session"] = 1
    /\ (ssh_session = "null" \/ at = "freed") /\ pc = "ok" => live["session"] = 0

ExecInv == ExecTypeOK /\ SessionInv /\ LadderInv /\ InitInv /\ TurnInv /\ CallInv

-----------------------------------------------------------------------------
\* At the start of main nothing is made and nothing is initialised.
LEMMA InitHolds == ASSUME Init PROVE ExecInv
<1>1. /\ at = "file" /\ ret = 0 /\ keys \in 0 .. MaxKeys /\ remotes = 0 /\ commands = 0
      /\ is_wsa_inited = FALSE /\ wsa = 0 /\ is_libssh2_inited = FALSE
      /\ libssh2_initialized = 0 /\ sock = "none" /\ ssh_session = "null"
      /\ sftp_session = FALSE /\ remote = 0 /\ tried = {} /\ opened = {} /\ begun = {}
      /\ todo = 0 /\ phase = "idle" /\ SessionInit
    BY DEF Init
<1>s. SessionInv /\ live["session"] = 0
    BY <1>1, SessionInitHolds
<1>2. ExecTypeOK
    <2> USE LoopAssumption, SshExecAssumption
    <2>1. LoopTypeOK
        BY <1>1 DEF LoopTypeOK, Phases
    <2>2. at \in Places /\ ret \in 0 .. 4 /\ keys \in 0 .. MaxKeys
        BY <1>1 DEF Places
    <2>3. remotes \in 0 .. MaxRemotes /\ remote \in 0 .. remotes /\ commands \in 0 .. MaxCommands
        BY <1>1
    <2>4. is_wsa_inited \in BOOLEAN /\ is_libssh2_inited \in BOOLEAN /\ sftp_session \in BOOLEAN
        BY <1>1
    <2>5. wsa \in Nat /\ libssh2_initialized \in Nat
        BY <1>1
    <2>6. sock \in {"none", "invalid", "created", "connected"}
         /\ ssh_session \in {"null", "created", "keyed", "logged_in"}
        BY <1>1
    <2>7. tried \subseteq 1 .. remotes /\ opened \subseteq 1 .. remotes
        BY <1>1
    <2>8. begun \subseteq (1 .. remotes) \X (1 .. commands)
        BY <1>1
    <2> QED
        BY <1>s, <2>1, <2>2, <2>3, <2>4, <2>5, <2>6, <2>7, <2>8 DEF ExecTypeOK, SessionInv
<1>3. LadderInv /\ InitInv /\ TurnInv
    BY DEF Init, LadderInv, InitInv, TurnInv, Inside, Turn, Ground, Places
<1>4. CallInv
    <2>1. pc = "ok" /\ at = "file" /\ ssh_session = "null" /\ sftp_session = FALSE
        BY <1>1 DEF SessionInit
    <2> QED
        BY <1>s, <2>1 DEF CallInv, Returned, ClosePlaces, Released
<1> QED
    BY <1>s, <1>2, <1>3, <1>4 DEF ExecInv

\* A step of a call, and of the server, is none of the program.
LEMMA CallsAreInside ==
    ASSUME \/ \E r \in Outcomes : CallProceeds(r)
           \/ CallStops \/ ServerLeaves
    PROVE  UNCHANGED <<at, mainVars, ladderVars, turnVars, loopVars>>
BY DEF CallProceeds, CallStops, ServerLeaves

\* Each step makes or releases the rung that is due.
LEMMA LadderKeeps ==
    ASSUME ExecTypeOK, LadderInv, [Next]_vars
    PROVE  LadderInv'
<1> USE DEF LadderInv, Turn, Inside, Ground, Places,
           documentVars, wsaVars, libVars, ladderVars, observers, turnVars, loopVars
<1>1. CASE ReadFile
    BY <1>1 DEF ReadFile, Leave
<1>2. CASE RemotesKey
    BY <1>2 DEF RemotesKey, Leave, NewTurns
<1>3. CASE ExecKey
    BY <1>3 DEF ExecKey, Leave, NewTurns
<1>4. CASE DocumentEnds
    BY <1>4 DEF DocumentEnds, Leave
<1>5. CASE StartNetwork
    BY <1>5 DEF StartNetwork, Leave
<1>6. CASE InitLibrary
    BY <1>6 DEF InitLibrary
<1>7. CASE NextRemote
    BY <1>7 DEF NextRemote
<1>8. CASE RemotesEnd
    BY <1>8 DEF RemotesEnd
<1>9. CASE ExitLibrary
    BY <1>9 DEF ExitLibrary
<1>10. CASE CleanUp
    BY <1>10 DEF CleanUp
<1>11. CASE CreateSocket
    BY <1>11 DEF CreateSocket, Climbs
<1>12. CASE Connect
    BY <1>12 DEF Connect, Climbs, GiveUp
<1>13. CASE CreateSession
    BY <1>13 DEF CreateSession, Climbs, GiveUp
<1>14. CASE Handshake
    BY <1>14 DEF Handshake, Climbs, GiveUp
<1>15. CASE Login
    BY <1>15 DEF Login, Climbs, GiveUp
<1>16. CASE StartSftp
    BY <1>16 DEF StartSftp, Climbs, GiveUp
<1>17. CASE RunCommands
    BY <1>17 DEF RunCommands, mainVars, LoopNext, BeginCommand, OpenHandle, Release, EndCommand
<1>18. CASE CommandsEnd
    BY <1>18 DEF CommandsEnd, Climbs, GiveUp
<1>19. CASE ShutdownSftp \/ DropSftp
    BY <1>19 DEF ShutdownSftp, DropSftp, mainVars
<1>20. CASE FreeSession \/ DropSession
    BY <1>20 DEF FreeSession, DropSession, mainVars
<1>21. CASE CloseSocket
    BY <1>21 DEF CloseSocket, mainVars
<1>22. CASE UNCHANGED <<at, mainVars, ladderVars, turnVars, loopVars>>
    BY <1>22 DEF mainVars
<1> QED
    BY <1>1, <1>2, <1>3, <1>4, <1>5, <1>6, <1>7, <1>8, <1>9, <1>10, <1>11, <1>12,
       <1>13, <1>14, <1>15, <1>16, <1>17, <1>18, <1>19, <1>20, <1>21, <1>22,
       CallsAreInside DEF Next, MainSteps, vars

\* Each step keeps the counts of initialisations.
LEMMA InitKeeps ==
    ASSUME ExecTypeOK, InitInv, [Next]_vars
    PROVE  InitInv'
<1> USE DEF ExecTypeOK, InitInv, Turn, Inside,
           documentVars, wsaVars, libVars, ladderVars, observers, turnVars, loopVars
<1>1. CASE ReadFile
    BY <1>1 DEF ReadFile, Leave
<1>2. CASE RemotesKey
    BY <1>2 DEF RemotesKey, Leave, NewTurns
<1>3. CASE ExecKey
    BY <1>3 DEF ExecKey, Leave, NewTurns
<1>4. CASE DocumentEnds
    BY <1>4 DEF DocumentEnds, Leave
<1>5. CASE StartNetwork
    BY <1>5 DEF StartNetwork, Leave
<1>6. CASE InitLibrary
    BY <1>6 DEF InitLibrary
<1>7. CASE NextRemote
    BY <1>7 DEF NextRemote
<1>8. CASE RemotesEnd
    BY <1>8 DEF RemotesEnd
<1>9. CASE ExitLibrary
    BY <1>9 DEF ExitLibrary
<1>10. CASE CleanUp
    BY <1>10 DEF CleanUp
<1>11. CASE CreateSocket
    BY <1>11 DEF CreateSocket, Climbs
<1>12. CASE Connect
    BY <1>12 DEF Connect, Climbs, GiveUp
<1>13. CASE CreateSession
    BY <1>13 DEF CreateSession, Climbs, GiveUp
<1>14. CASE Handshake
    BY <1>14 DEF Handshake, Climbs, GiveUp
<1>15. CASE Login
    BY <1>15 DEF Login, Climbs, GiveUp
<1>16. CASE StartSftp
    BY <1>16 DEF StartSftp, Climbs, GiveUp
<1>17. CASE RunCommands
    BY <1>17 DEF RunCommands, mainVars, LoopNext, BeginCommand, OpenHandle, Release, EndCommand
<1>18. CASE CommandsEnd
    BY <1>18 DEF CommandsEnd, Climbs, GiveUp
<1>19. CASE ShutdownSftp \/ DropSftp
    BY <1>19 DEF ShutdownSftp, DropSftp, mainVars
<1>20. CASE FreeSession \/ DropSession
    BY <1>20 DEF FreeSession, DropSession, mainVars
<1>21. CASE CloseSocket
    BY <1>21 DEF CloseSocket, mainVars
<1>22. CASE UNCHANGED <<at, mainVars, ladderVars, turnVars, loopVars>>
    BY <1>22 DEF mainVars
<1> QED
    BY <1>1, <1>2, <1>3, <1>4, <1>5, <1>6, <1>7, <1>8, <1>9, <1>10, <1>11, <1>12,
       <1>13, <1>14, <1>15, <1>16, <1>17, <1>18, <1>19, <1>20, <1>21, <1>22,
       CallsAreInside DEF Next, MainSteps, vars

\* The types, but for the set of begun commands
OwnTypeOK ==
    /\ LoopTypeOK
    /\ at \in Places
    /\ ret \in 0 .. 4
    /\ keys \in 0 .. MaxKeys
    /\ remotes \in 0 .. MaxRemotes /\ remote \in 0 .. remotes
    /\ commands \in 0 .. MaxCommands
    /\ is_wsa_inited \in BOOLEAN /\ is_libssh2_inited \in BOOLEAN
    /\ wsa \in Nat /\ libssh2_initialized \in Nat
    /\ sock \in {"none", "invalid", "created", "connected"}
    /\ ssh_session \in {"null", "created", "keyed", "logged_in"}
    /\ sftp_session \in BOOLEAN
    /\ tried \subseteq 1 .. remotes /\ opened \subseteq 1 .. remotes

\* Each step keeps the types of all but the begun commands.
LEMMA OwnTypeKeeps ==
    ASSUME OwnTypeOK, InitInv, TurnInv, [Next]_vars
    PROVE  OwnTypeOK'
<1> USE DEF OwnTypeOK, LoopTypeOK, Places, Phases,
           documentVars, wsaVars, libVars, ladderVars, observers, turnVars, loopVars
<1> USE LoopAssumption, SshExecAssumption
<1>1. CASE ReadFile
    BY <1>1 DEF ReadFile, Leave
<1>2. CASE RemotesKey
    BY <1>2, SshExecAssumption DEF RemotesKey, Leave, NewTurns
<1>3. CASE ExecKey
    BY <1>3, LoopAssumption DEF ExecKey, Leave, NewTurns
<1>4. CASE DocumentEnds
    BY <1>4 DEF DocumentEnds, Leave
<1>5. CASE StartNetwork
    <2>1. is_wsa_inited' \in BOOLEAN
        BY <1>5 DEF StartNetwork
    <2>2. wsa' \in Nat /\ ret' \in 0 .. 4 /\ at' \in Places
        BY <1>5 DEF StartNetwork, Leave
    <2>3. UNCHANGED <<keys, remotes, commands, libVars, ladderVars, turnVars, loopVars>>
        BY <1>5 DEF StartNetwork
    <2> QED
        BY <2>1, <2>2, <2>3
<1>6. CASE InitLibrary
    BY <1>6 DEF InitLibrary
<1>7. CASE NextRemote
    BY <1>7 DEF NextRemote
<1>8. CASE RemotesEnd
    BY <1>8 DEF RemotesEnd
<1>9. CASE ExitLibrary
    <2>1. is_libssh2_inited' \in BOOLEAN
        BY <1>9 DEF ExitLibrary
    <2>2. libssh2_initialized' \in Nat
        BY <1>9 DEF ExitLibrary
    <2>3. at' \in Places /\ UNCHANGED <<documentVars, wsaVars, ladderVars, turnVars, loopVars>>
        BY <1>9 DEF ExitLibrary
    <2> QED
        BY <2>1, <2>2, <2>3
<1>10. CASE CleanUp
    <2>1. is_wsa_inited' \in BOOLEAN
        BY <1>10 DEF CleanUp
    <2>2. wsa' \in Nat
        <3>1. CASE is_wsa_inited
            <4>1. wsa = 1 /\ wsa' = wsa - 1
                BY <1>10, <3>1 DEF CleanUp, InitInv
            <4> QED
                BY <4>1
        <3>2. CASE ~is_wsa_inited
            BY <1>10, <3>2 DEF CleanUp
        <3> QED
            BY <3>1, <3>2
    <2>3. at' \in Places /\ UNCHANGED <<documentVars, libVars, ladderVars, turnVars, loopVars>>
        BY <1>10 DEF CleanUp
    <2> QED
        BY <2>1, <2>2, <2>3
<1>11. CASE CreateSocket
    BY <1>11 DEF CreateSocket, Climbs
<1>12. CASE Connect
    <2>1. remote \in 1 .. remotes
        BY <1>12 DEF Connect, TurnInv, Turn
    <2>2. tried' \subseteq 1 .. remotes
        BY <1>12, <2>1 DEF Connect
    <2>3. UNCHANGED <<documentVars, wsaVars, libVars, ssh_session, sftp_session, remote,
                      opened, todo, phase>>
        BY <1>12 DEF Connect, Climbs, GiveUp
    <2>4. at' \in Places /\ sock' \in {"none", "invalid", "created", "connected"}
        BY <1>12 DEF Connect, GiveUp
    <2> QED
        BY <2>2, <2>3, <2>4
<1>13. CASE CreateSession
    BY <1>13 DEF CreateSession, Climbs, GiveUp, InitInv, Inside, Turn
<1>14. CASE Handshake
    <2>1. UNCHANGED <<documentVars, wsaVars, libVars, sock, sftp_session, turnVars, loopVars>>
        BY <1>14 DEF Handshake, Climbs, GiveUp
    <2>2. at' \in Places /\ ssh_session' \in {"null", "created", "keyed", "logged_in"}
        BY <1>14 DEF Handshake, GiveUp
    <2> QED
        BY <2>1, <2>2
<1>15. CASE Login
    <2>1. UNCHANGED <<documentVars, wsaVars, libVars, sock, sftp_session, turnVars, loopVars>>
        BY <1>15 DEF Login, Climbs, GiveUp
    <2>2. at' \in Places /\ ssh_session' \in {"null", "created", "keyed", "logged_in"}
        BY <1>15 DEF Login, GiveUp
    <2> QED
        BY <2>1, <2>2
<1>16. CASE StartSftp
    <2>1. remote \in 1 .. remotes
        BY <1>16 DEF StartSftp, TurnInv, Turn
    <2>2. opened' \subseteq 1 .. remotes
        BY <1>16, <2>1 DEF StartSftp, GiveUp
    <2>3. UNCHANGED <<documentVars, wsaVars, libVars, sock, ssh_session, remote, tried, phase>>
        BY <1>16 DEF StartSftp, Climbs, GiveUp
    <2>4. at' \in Places /\ todo' \in 0 .. MaxCommands
        BY <1>16 DEF StartSftp, GiveUp
    <2>5. sftp_session' \in BOOLEAN
        BY <1>16 DEF StartSftp, GiveUp
    <2> QED
        BY <2>2, <2>3, <2>4, <2>5
<1>17. CASE RunCommands
    BY <1>17 DEF RunCommands, mainVars, LoopNext, BeginCommand, OpenHandle, Release, EndCommand
<1>18. CASE CommandsEnd
    BY <1>18 DEF CommandsEnd, Climbs, GiveUp
<1>19. CASE ShutdownSftp \/ DropSftp
    BY <1>19 DEF ShutdownSftp, DropSftp, mainVars
<1>20. CASE FreeSession \/ DropSession
    BY <1>20 DEF FreeSession, DropSession, mainVars
<1>21. CASE CloseSocket
    BY <1>21 DEF CloseSocket, mainVars
<1>22. CASE UNCHANGED <<at, mainVars, ladderVars, turnVars, loopVars>>
    BY <1>22 DEF mainVars
<1> QED
    BY <1>1, <1>2, <1>3, <1>4, <1>5, <1>6, <1>7, <1>8, <1>9, <1>10, <1>11, <1>12,
       <1>13, <1>14, <1>15, <1>16, <1>17, <1>18, <1>19, <1>20, <1>21, <1>22,
       CallsAreInside DEF Next, MainSteps, vars

\* A command is begun on one of the remotes of the list.
LEMMA BegunKeeps ==
    ASSUME ExecTypeOK, TurnInv, [Next]_vars
    PROVE  (begun \subseteq (1 .. remotes) \X (1 .. commands))'
<1>1. CASE RunCommands
    <2>1. UNCHANGED <<remotes, commands, remote>>
          /\ begun' = IF todo' < todo THEN begun \cup {<<remote, commands - todo'>>} ELSE begun
        BY <1>1 DEF RunCommands, mainVars, documentVars
    <2>2. todo <= commands /\ remote \in 1 .. remotes
        BY <1>1 DEF RunCommands, TurnInv, Turn, ExecTypeOK
    <2>3. todo' < todo => commands - todo' \in 1 .. commands
        BY <1>1, <2>2 DEF RunCommands, ExecTypeOK, LoopTypeOK,
                          LoopNext, BeginCommand, OpenHandle, Release, EndCommand
    <2>4. begun \subseteq (1 .. remotes) \X (1 .. commands)
        BY DEF ExecTypeOK
    <2> QED
        BY <2>1, <2>2, <2>3, <2>4
<1>2. CASE RemotesKey \/ ExecKey
    BY <1>2 DEF RemotesKey, ExecKey, NewTurns
<1>3. CASE ~(RunCommands \/ RemotesKey \/ ExecKey)
    <2>1. UNCHANGED <<remotes, commands, begun>>
        BY <1>3, CallsAreInside DEF Next, MainSteps, vars, mainVars, ReadFile, DocumentEnds, StartNetwork, InitLibrary, NextRemote,
           RemotesEnd, ExitLibrary, CleanUp, CreateSocket, Connect, CreateSession, Handshake,
           Login, StartSftp, CommandsEnd, ShutdownSftp, DropSftp, FreeSession, DropSession,
           CloseSocket, Climbs,
           documentVars, observers, turnVars
    <2> QED
        BY <2>1 DEF ExecTypeOK
<1> QED
    BY <1>1, <1>2, <1>3

\* Steps at which no call of libssh2 begins or is about to
DocumentSteps == ReadFile \/ RemotesKey \/ ExecKey \/ DocumentEnds \/ StartNetwork \/ InitLibrary
                     \/ NextRemote \/ RemotesEnd \/ ExitLibrary \/ CleanUp \/ CreateSocket
                     \/ CloseSocket

\* In these steps there is no session, and none of its state changes.
LEMMA DocumentFacts ==
    ASSUME DocumentSteps, LadderInv
    PROVE  /\ UNCHANGED <<sessionVars, ssh_session, sftp_session>>
           /\ at \notin {"handshake", "login", "sftp", "commands", "shutdown", "shut", "freed"}
           /\ at' \notin {"handshake", "login", "sftp", "commands", "shutdown", "shut", "freed"}
           /\ ssh_session = "null" /\ ~sftp_session
<1> USE DEF LadderInv, Ground, Turn, Places, ladderVars
<1>1. CASE ReadFile \/ RemotesKey \/ ExecKey \/ DocumentEnds
    BY <1>1 DEF ReadFile, RemotesKey, ExecKey, DocumentEnds, Leave
<1>2. CASE StartNetwork \/ InitLibrary \/ NextRemote \/ RemotesEnd
    BY <1>2 DEF StartNetwork, InitLibrary, NextRemote, RemotesEnd, Leave
<1>3. CASE ExitLibrary \/ CleanUp \/ CreateSocket \/ CloseSocket
    BY <1>3 DEF ExitLibrary, CleanUp, CreateSocket, CloseSocket
<1> QED
    BY <1>1, <1>2, <1>3 DEF DocumentSteps

\* Each step keeps what a call of libssh2 holds; a call begins where it may.
LEMMA SessionKeeps ==
    ASSUME SessionInv, LadderInv, CallInv, [Next]_vars
    PROVE  SessionInv'
<1>1. CASE UNCHANGED sessionVars
    <2>1. UNCHANGED <<pc, back, socket_state, listed, close_cb, close_sent, remote_close, held, live,
                     abandoned>>
        BY <1>1 DEF sessionVars, channelVars, blockVars
    <2>2. SessionTypeOK'
        BY <2>1 DEF SessionInv, SessionTypeOK
    <2>3. Counted' /\ HeldHere'
        BY <2>1 DEF SessionInv, Counted, HeldHere, SftpKnown
    <2> QED
        BY <2>2, <2>3 DEF SessionInv
<1>2. CASE CreateSession
    BY <1>1, <1>2, NewSessionHolds DEF CreateSession, GiveUp
<1>3. CASE Handshake \/ Login
    <2>1. CASE Calls("login") \/ Calls("open")
        <3>1. /\ pc = "ok" /\ ~listed /\ ~close_cb /\ socket_state = "connected"
              /\ live["session"] = 1
            BY <1>3, <2>1 DEF Handshake, Login, Calls, GiveUp, sessionVars, CallInv, LadderInv, Released
        <3>2. pc' \in {"login", "open"} /\ UNCHANGED <<back, socket_state, channelVars, blockVars>>
            BY <2>1 DEF Calls
        <3>3. SessionTypeOK'
            BY <3>2 DEF SessionInv, SessionTypeOK, channelVars, blockVars, CallPlaces, LoginPlaces, SftpPlaces
        <3>4. Counted'
            BY <3>2, QuietKeeps DEF blockVars
        <3>5. HeldHere'
            BY <3>1, <3>2 DEF SessionInv, HeldHere, Carried, Up, Unopened, HandshakePlaces, LoginPlaces,
               SftpPlaces, ClosePlaces, Returned, channelVars, blockVars
        <3> QED
            BY <3>3, <3>4, <3>5 DEF SessionInv
    <2>2. CASE UNCHANGED sessionVars
        BY <1>1, <2>2
    <2> QED
        BY <1>3, <2>1, <2>2 DEF Handshake, Login, GiveUp
<1>4. CASE ShutdownSftp
    <2>1. CASE sftp_session
        <3>1. pc = "ok" /\ close_cb /\ live["session"] = 1
            BY <1>4, <2>1 DEF ShutdownSftp, CallInv, LadderInv, Released
        <3>2. pc' = "channel_free" /\ back' = "ok" /\ UNCHANGED <<socket_state, channelVars, blockVars>>
            BY <1>4, <2>1 DEF ShutdownSftp
        <3>3. SessionTypeOK'
            BY <3>2 DEF SessionInv, SessionTypeOK, channelVars, blockVars, CallPlaces, ClosePlaces
        <3>4. Counted'
            BY <3>2, QuietKeeps DEF blockVars
        <3>5. HeldHere'
            BY <3>1, <3>2 DEF SessionInv, HeldHere, Up, HandshakePlaces, LoginPlaces,
               SftpPlaces, ClosePlaces, Returned, channelVars, blockVars
        <3> QED
            BY <3>3, <3>4, <3>5 DEF SessionInv
    <2>2. CASE ~sftp_session
        BY <1>1, <1>4, <2>2 DEF ShutdownSftp
    <2> QED
        BY <2>1, <2>2
<1>5. CASE FreeSession
    <2>1. CASE ssh_session # "null"
        <3>1. live["session"] = 1 /\ pc \in Returned
            BY <1>5, <2>1 DEF FreeSession, CallInv, Released
        <3>2. pc' = "send_disconnect" /\ UNCHANGED <<back, socket_state, channelVars, blockVars>>
            BY <1>5, <2>1 DEF FreeSession, Calls
        <3>3. SessionTypeOK'
            BY <3>2 DEF SessionInv, SessionTypeOK, channelVars, blockVars, CallPlaces, FreePlaces
        <3>4. Counted'
            BY <3>2, QuietKeeps DEF blockVars
        <3>5. HeldHere'
            BY <3>1, <3>2 DEF SessionInv, HeldHere, Up, HandshakePlaces, LoginPlaces,
               SftpPlaces, ClosePlaces, Returned, channelVars, blockVars
        <3> QED
            BY <3>3, <3>4, <3>5 DEF SessionInv
    <2>2. CASE ssh_session = "null"
        BY <1>1, <1>5, <2>2 DEF FreeSession
    <2> QED
        BY <2>1, <2>2
<1>6. CASE \E r \in Outcomes : CallProceeds(r)
    BY <1>6, LibraryKeeps DEF CallProceeds
<1>7. CASE CallStops \/ ServerLeaves
    BY <1>7, StopKeeps DEF CallStops, ServerLeaves
<1>8. CASE DocumentSteps
    BY <1>1, <1>8, DocumentFacts
<1>9. CASE Connect \/ StartSftp \/ RunCommands \/ CommandsEnd \/ DropSftp \/ DropSession
    BY <1>1, <1>9 DEF Connect, StartSftp, RunCommands, CommandsEnd, DropSftp, DropSession, GiveUp
<1>10. CASE UNCHANGED vars
    BY <1>1, <1>10 DEF vars
<1> QED
    BY <1>2, <1>3, <1>4, <1>5, <1>6, <1>7, <1>8, <1>9, <1>10 DEF Next, MainSteps, DocumentSteps

\* Each step leaves a call where main waits for it, and no session is lost sight of.
LEMMA CallKeeps ==
    ASSUME SessionInv, LadderInv, LadderInv', CallInv, [Next]_vars
    PROVE  CallInv'
<1> USE DEF Released
<1>1. CASE DocumentSteps
    <2>1. UNCHANGED <<pc, back, socket_state, listed, close_cb, live, ssh_session, sftp_session>>
        BY <1>1, DocumentFacts DEF sessionVars, channelVars, blockVars
    <2> HIDE DEF Released
    <2>2. pc \in Returned /\ pc' \notin ClosePlaces /\ (pc = "ok" => live["session"] = 0)
        BY <1>1, <2>1, DocumentFacts DEF CallInv, Returned, ClosePlaces
    <2> QED
        BY <1>1, <2>1, <2>2, DocumentFacts DEF CallInv
<1>2. CASE Connect
    <2>1. UNCHANGED <<sessionVars, ssh_session, sftp_session>> /\ at = "connect"
          /\ at' \in {"session", "shutdown"} /\ ssh_session = "null" /\ ~sftp_session
        BY <1>2 DEF Connect, GiveUp, Climbs, ladderVars, LadderInv
    <2> QED
        BY <2>1 DEF CallInv, sessionVars, channelVars, blockVars, Returned, ClosePlaces
<1>3. CASE CreateSession
    <2>1. CASE NewSession /\ at' = "handshake"
        <3>1. /\ pc' = "send_banner" /\ ~listed' /\ ~close_cb' /\ live'["session"] = 1
              /\ sftp_session' = sftp_session /\ ~sftp_session
            BY <1>3, <2>1, NewSessionHolds DEF CreateSession, NewSession, LadderInv, GiveUp, ladderVars
        <3> QED
            BY <2>1, <3>1 DEF CallInv, HandshakePlaces, ClosePlaces, LadderInv
    <2>2. CASE GiveUp
        <3>1. UNCHANGED <<sessionVars, ssh_session, sftp_session>> /\ at = "session"
              /\ at' = "shutdown" /\ ssh_session = "null" /\ ~sftp_session
            BY <1>3, <2>2 DEF CreateSession, GiveUp, ladderVars, LadderInv
        <3> QED
            BY <3>1 DEF CallInv, sessionVars, channelVars, blockVars, Returned, ClosePlaces
    <2> QED
        BY <1>3, <2>1, <2>2 DEF CreateSession
<1>4. CASE Handshake \/ Login
    <2>1. /\ at \in {"handshake", "login"} /\ UNCHANGED sftp_session /\ ~sftp_session
          /\ ssh_session # "null" /\ pc \in Returned /\ live["session"] = 1
          /\ UNCHANGED <<listed, close_cb, live, back, socket_state>>
        BY <1>4 DEF Handshake, Login, Calls, GiveUp, ladderVars, sessionVars, channelVars, blockVars,
           LadderInv, CallInv, Returned
    <2>2. CASE GiveUp
        <3>1. at' = "shutdown" /\ UNCHANGED <<pc, ssh_session>>
            BY <2>2 DEF GiveUp, ladderVars, sessionVars
        <3> QED
            BY <2>1, <3>1 DEF CallInv, Returned, ClosePlaces
    <2>3. CASE at' = "login" /\ Calls("login")
        <3>1. pc' = "login" /\ ssh_session' # "null" /\ pc = "ok"
            BY <1>4, <2>1, <2>3 DEF Handshake, Login, Calls, GiveUp
        <3> QED
            BY <2>1, <2>3, <3>1 DEF CallInv, LoginPlaces, Returned, ClosePlaces
    <2>4. CASE at' = "sftp" /\ Calls("open")
        <3>1. pc' = "open" /\ ssh_session' # "null"
            BY <1>4, <2>1, <2>4 DEF Handshake, Login, Calls, GiveUp
        <3> QED
            BY <2>1, <2>4, <3>1 DEF CallInv, SftpPlaces, Returned, ClosePlaces
    <2> QED
        BY <1>4, <2>2, <2>3, <2>4 DEF Handshake, Login
<1>5. CASE StartSftp \/ RunCommands \/ CommandsEnd
    <2>1. /\ at \in {"sftp", "commands"} /\ at' \in {"commands", "shutdown"}
          /\ UNCHANGED <<pc, close_cb, live, back, ssh_session>>
          /\ pc \in Returned
        BY <1>5 DEF StartSftp, RunCommands, CommandsEnd, Climbs, GiveUp, ladderVars, sessionVars, channelVars,
           blockVars, CallInv, Returned
    <2>2. CASE sftp_session'
        <3>1. pc = "ok" /\ close_cb
            BY <1>5, <2>1, <2>2 DEF StartSftp, RunCommands, CommandsEnd, GiveUp, ladderVars,
               CallInv, LadderInv
        <3> QED
            BY <2>1, <2>2, <3>1 DEF CallInv, LadderInv, Returned, ClosePlaces
    <2>3. CASE ~sftp_session'
        <3>1. at' = "shutdown"
            BY <2>1, <2>3 DEF LadderInv
        <3> QED
            BY <2>1, <2>3, <3>1 DEF CallInv, LadderInv, Returned, ClosePlaces
    <2> QED
        BY <2>2, <2>3
<1>6. CASE ShutdownSftp
    <2>1. at = "shutdown" /\ UNCHANGED <<close_cb, live, ssh_session, sftp_session>>
        BY <1>6 DEF ShutdownSftp, ladderVars, sessionVars, channelVars, blockVars
    <2>2. CASE sftp_session
        <3>1. at' = "shut" /\ pc' = "channel_free" /\ back' = "ok" /\ pc = "ok"
            BY <1>6, <2>1, <2>2 DEF ShutdownSftp, CallInv
        <3> QED
            BY <2>1, <2>2, <3>1 DEF CallInv, LadderInv, Returned, ClosePlaces
    <2>3. CASE ~sftp_session
        <3>1. at' = "free" /\ UNCHANGED <<pc, back>>
            BY <1>6, <2>3 DEF ShutdownSftp, sessionVars
        <3> QED
            BY <2>1, <2>3, <3>1 DEF CallInv, Returned, ClosePlaces
    <2> QED
        BY <2>2, <2>3
<1>7. CASE DropSftp
    <2>1. at = "shut" /\ at' = "free" /\ ~sftp_session' /\ pc \in Returned
          /\ UNCHANGED <<pc, live, ssh_session>> /\ ssh_session # "null"
        BY <1>7 DEF DropSftp, sessionVars, blockVars, LadderInv
    <2> QED
        BY <2>1 DEF CallInv, Returned, ClosePlaces
<1>8. CASE FreeSession
    <2>1. at = "free" /\ UNCHANGED <<live, ssh_session, sftp_session>> /\ ~sftp_session
        BY <1>8 DEF FreeSession, Calls, ladderVars, sessionVars, blockVars, LadderInv
    <2>2. CASE ssh_session # "null"
        <3>1. at' = "freed" /\ pc' = "send_disconnect"
            BY <1>8, <2>2 DEF FreeSession, Calls
        <3> QED
            BY <2>1, <2>2, <3>1 DEF CallInv, FreePlaces, ClosePlaces
    <2>3. CASE ssh_session = "null"
        <3>1. at' = "close" /\ UNCHANGED pc
            BY <1>8, <2>3 DEF FreeSession, sessionVars
        <3> QED
            BY <2>1, <2>3, <3>1 DEF CallInv, Returned, ClosePlaces
    <2> QED
        BY <2>2, <2>3
<1>9. CASE DropSession
    <2>1. at = "freed" /\ at' = "close" /\ ~sftp_session /\ UNCHANGED <<pc, live, sftp_session>>
          /\ ssh_session' = "null" /\ pc \in Returned
        BY <1>9 DEF DropSession, sessionVars, blockVars, LadderInv
    <2> QED
        BY <2>1 DEF CallInv, Returned, ClosePlaces
<1>10. CASE (\E r \in Outcomes : CallProceeds(r)) \/ CallStops
    <2>1. PICK r : Library(r) \/ WaitFails
        BY <1>10 DEF CallProceeds, CallStops
    <2>2. at \in {"handshake", "login", "sftp", "shut", "freed"} /\ pc \notin Returned
          /\ UNCHANGED <<at, ssh_session, sftp_session>>
        BY <1>10 DEF CallProceeds, CallStops, Calling, ladderVars
    <2> HIDE DEF Released
    <2>3. ssh_session # "null" /\ live["session"] = 1
        <3>1. ssh_session # "null"
            BY <2>2 DEF LadderInv
        <3> QED
            BY <2>2, <3>1 DEF CallInv, Released, Returned
    <2>4. CASE at \in {"handshake", "login", "sftp"}
        <3>1. ~sftp_session
            BY <2>4 DEF LadderInv
        <3>2. pc \in Up /\ ~FreeRest
            BY <2>2, <2>4 DEF CallInv, Up, FreeRest, HandshakePlaces, LoginPlaces, SftpPlaces
        <3>3. live'["session"] = 1
            BY <2>1, <2>3, <3>2, CallStays
        <3>4. pc' = "ok" => socket_state' = "connected"
            BY <2>1, <3>2, CallStays
        <3>5. CASE at = "handshake"
            <4>1. pc \in HandshakePlaces /\ ~listed /\ ~close_cb
                BY <2>2, <3>5 DEF CallInv
            <4>2. pc' \in HandshakePlaces \cup Returned /\ ~listed' /\ ~close_cb'
                BY <2>1, <4>1, CallStays
            <4> QED
                BY <2>2, <2>3, <3>1, <3>3, <3>4, <3>5, <4>2
                   DEF CallInv, Released, HandshakePlaces, ClosePlaces, Returned
        <3>6. CASE at = "login"
            <4>1. pc \in LoginPlaces /\ ~listed /\ ~close_cb
                BY <2>2, <3>6 DEF CallInv
            <4>2. pc' \in LoginPlaces \cup Returned /\ ~listed' /\ ~close_cb'
                BY <2>1, <4>1, CallStays
            <4> QED
                BY <2>2, <2>3, <3>1, <3>3, <3>4, <3>6, <4>2
                   DEF CallInv, Released, LoginPlaces, ClosePlaces, Returned
        <3>7. CASE at = "sftp"
            <4>1. pc \in SftpPlaces
                BY <2>2, <3>7 DEF CallInv
            <4>2. pc' \in SftpPlaces \cup Returned /\ (pc' = "ok" => close_cb')
                BY <2>1, <4>1, CallStays
            <4> QED
                BY <2>2, <2>3, <3>1, <3>3, <3>7, <4>2
                   DEF CallInv, Released, SftpPlaces, ClosePlaces, Returned
        <3> QED
            BY <2>4, <3>5, <3>6, <3>7
    <2>5. CASE at = "shut"
        <3>1. pc \in ClosePlaces /\ back = "ok" /\ close_cb
            BY <2>2, <2>5 DEF CallInv, LadderInv, Released, Returned
        <3>2. /\ pc' \in ClosePlaces \cup {"ok", "failed"} /\ back' = "ok"
              /\ pc' # "ok" => close_cb'
              /\ live'["session"] = 1
            BY <2>1, <2>3, <3>1, CallStays DEF FreeRest, ClosePlaces
        <3> QED
            BY <2>2, <2>3, <2>5, <3>2 DEF CallInv, Released, Returned
    <2>6. CASE at = "freed"
        <3>1. pc \in ClosePlaces \cup FreePlaces /\ ~sftp_session /\ (pc \in ClosePlaces => back = "free")
            BY <2>2, <2>6 DEF CallInv, LadderInv
        <3>2. pc' \in ClosePlaces \cup FreePlaces \cup Returned
              /\ (pc' \in ClosePlaces => back' = "free")
            BY <2>1, <3>1, CallStays DEF FreePlaces, Returned
        <3>3. pc' = "ok" => live'["session"] = 0
            BY <2>1, <2>3, <3>1, CallStays DEF ClosePlaces
        <3>4. pc' # "ok" => live'["session"] = 1
            BY <2>1, <2>3, CallStays
        <3> QED
            BY <2>2, <2>3, <2>6, <3>1, <3>2, <3>3, <3>4 DEF CallInv, Released
    <2> QED
        BY <2>2, <2>4, <2>5, <2>6
<1>11. CASE ServerLeaves
    <2>1. at \in {"sftp", "commands"} /\ UNCHANGED <<at, ssh_session, sftp_session>>
          /\ UNCHANGED <<pc, back, close_cb, live>>
        BY <1>11 DEF ServerLeaves, ServerCloses, ServerDisconnects, ladderVars, channelVars, blockVars
    <2> QED
        BY <2>1 DEF CallInv, Returned, ClosePlaces
<1>12. CASE UNCHANGED vars
    BY <1>12 DEF vars, CallInv, ladderVars, sessionVars, channelVars, blockVars
<1> QED
    BY <1>1, <1>2, <1>3, <1>4, <1>5, <1>6, <1>7, <1>8, <1>9, <1>10, <1>11, <1>12
       DEF Next, MainSteps, DocumentSteps

\* Each step keeps the types.
LEMMA TypeKeeps ==
    ASSUME ExecTypeOK, InitInv, TurnInv, [Next]_vars, SessionInv'
    PROVE  ExecTypeOK'
<1>1. OwnTypeOK
    BY DEF ExecTypeOK, OwnTypeOK
<1>2. OwnTypeOK'
    BY <1>1, OwnTypeKeeps
<1>3. (begun \subseteq (1 .. remotes) \X (1 .. commands))'
    BY BegunKeeps
<1> QED
    BY <1>2, <1>3 DEF OwnTypeOK, ExecTypeOK, SessionInv

\* Each step does what is due in the turn of a remote.
LEMMA TurnKeeps ==
    ASSUME ExecTypeOK, LadderInv, TurnInv, [Next]_vars
    PROVE  TurnInv'
<1> USE DEF ExecTypeOK, LoopTypeOK, TurnInv, Turn, Inside,
           documentVars, wsaVars, libVars, ladderVars, observers, turnVars, loopVars
<1>1. CASE ReadFile
    BY <1>1 DEF ReadFile, Leave
<1>2. CASE RemotesKey
    BY <1>2 DEF RemotesKey, Leave, NewTurns
<1>3. CASE ExecKey
    BY <1>3 DEF ExecKey, Leave, NewTurns
<1>4. CASE DocumentEnds
    BY <1>4 DEF DocumentEnds, Leave
<1>5. CASE StartNetwork
    BY <1>5 DEF StartNetwork, Leave
<1>6. CASE InitLibrary
    <2>1. /\ at' = "remote" /\ remote' = 0 /\ tried' = {} /\ opened' = {} /\ begun' = {}
          /\ remotes' = remotes /\ commands' = commands
        BY <1>6 DEF InitLibrary
    <2>2. 1 .. 0 = {} /\ {} \X (1 .. commands) = {}
        OBVIOUS
    <2> QED
        BY <2>1, <2>2
<1>7. CASE NextRemote
    BY <1>7 DEF NextRemote
<1>8. CASE RemotesEnd
    BY <1>8 DEF RemotesEnd
<1>9. CASE ExitLibrary
    BY <1>9 DEF ExitLibrary
<1>10. CASE CleanUp
    BY <1>10 DEF CleanUp
<1>11. CASE CreateSocket
    BY <1>11 DEF CreateSocket, Climbs
<1>12. CASE Connect
    <2>1. 1 .. remote = (1 .. remote - 1) \cup {remote}
        BY <1>12 DEF Connect
    <2> QED
        BY <1>12, <2>1 DEF Connect, Climbs, GiveUp
<1>13. CASE CreateSession
    BY <1>13 DEF CreateSession, Climbs, GiveUp
<1>14. CASE Handshake
    BY <1>14 DEF Handshake, Climbs, GiveUp
<1>15. CASE Login
    BY <1>15 DEF Login, Climbs, GiveUp
<1>16. CASE StartSftp
    <2>1. CASE GiveUp
        BY <1>16, <2>1 DEF StartSftp, Climbs, GiveUp
    <2>2. CASE ~GiveUp
        <3>1. /\ at' = "commands" /\ todo' = commands /\ opened' = opened \cup {remote}
              /\ UNCHANGED <<remote, remotes, commands, begun, tried>>
            BY <1>16, <2>2 DEF StartSftp, Climbs
        <3>2. remote \notin opened /\ begun = opened \X (1 .. commands) /\ tried = 1 .. remote
              /\ opened \subseteq 1 .. remote /\ remote \in 1 .. remote
            BY <1>16 DEF StartSftp
        <3>3. opened' \ {remote} = opened
            BY <3>1, <3>2
        <3>4. 1 .. commands' - todo' = {}
            BY <3>1
        <3>5. {remote} \X (1 .. commands' - todo') = {}
            BY <3>4
        <3>6. begun' = ((opened' \ {remote'}) \X (1 .. commands'))
                       \cup ({remote'} \X (1 .. commands' - todo'))
            BY <3>1, <3>2, <3>3, <3>5
        <3>7. opened' \subseteq 1 .. remote'
            BY <3>1, <3>2
        <3> QED
            BY <3>1, <3>2, <3>6, <3>7
    <2> QED
        BY <2>1, <2>2
<1>17. CASE RunCommands
    <2>1. /\ at = "commands" /\ at' = "commands"
          /\ UNCHANGED <<remote, remotes, commands, tried, opened>>
          /\ begun' = IF todo' < todo THEN begun \cup {<<remote, commands - todo'>>} ELSE begun
        BY <1>17 DEF RunCommands, mainVars
    <2>2. todo' = todo \/ (todo > 0 /\ todo' = todo - 1)
        BY <1>17 DEF RunCommands, mainVars, LoopNext, BeginCommand, OpenHandle, Release, EndCommand
    <2>3. CASE todo' = todo
        BY <2>1, <2>3
    <2>4. CASE todo > 0 /\ todo' = todo - 1
        <3>1. 1 .. commands - todo' = (1 .. commands - todo) \cup {commands - todo'}
            BY <2>1, <2>4
        <3>2. begun' = begun \cup {<<remote, commands - todo'>>}
            BY <2>1, <2>4
        <3>3. {remote} \X (1 .. commands - todo')
              = ({remote} \X (1 .. commands - todo)) \cup {<<remote, commands - todo'>>}
            BY <3>1
        <3>4. begun = ((opened \ {remote}) \X (1 .. commands))
                      \cup ({remote} \X (1 .. commands - todo))
            BY <2>1
        <3>5. begun' = ((opened \ {remote}) \X (1 .. commands))
                       \cup ({remote} \X (1 .. commands - todo'))
            BY <3>2, <3>3, <3>4
        <3> QED
            BY <2>1, <2>4, <3>5
    <2> QED
        BY <2>2, <2>3, <2>4
<1>18. CASE CommandsEnd
    <2>1. /\ at = "commands" /\ todo = 0 /\ at' = "shutdown"
          /\ UNCHANGED <<remote, remotes, commands, tried, opened, begun>>
        BY <1>18 DEF CommandsEnd, Climbs, GiveUp
    <2>2. begun = ((opened \ {remote}) \X (1 .. commands)) \cup ({remote} \X (1 .. commands))
        BY <2>1
    <2>3. remote \in opened
        BY <2>1
    <2>4. begun = opened \X (1 .. commands)
        BY <2>2, <2>3
    <2> QED
        BY <2>1, <2>4
<1>19. CASE ShutdownSftp \/ DropSftp
    BY <1>19 DEF ShutdownSftp, DropSftp, mainVars
<1>20. CASE FreeSession \/ DropSession
    BY <1>20 DEF FreeSession, DropSession, mainVars
<1>21. CASE CloseSocket
    BY <1>21 DEF CloseSocket, mainVars
<1>22. CASE UNCHANGED <<at, mainVars, ladderVars, turnVars, loopVars>>
    BY <1>22 DEF mainVars
<1> QED
    BY <1>1, <1>2, <1>3, <1>4, <1>5, <1>6, <1>7, <1>8, <1>9, <1>10, <1>11, <1>12,
       <1>13, <1>14, <1>15, <1>16, <1>17, <1>18, <1>19, <1>20, <1>21, <1>22,
       CallsAreInside DEF Next, MainSteps, vars

-----------------------------------------------------------------------------
\* The invariant of the program, for all documents.
THEOREM Invariance == Spec => []ExecInv
<1>1. Init => ExecInv
    BY InitHolds
<1>2. ExecInv /\ [Next]_vars => ExecInv'
    BY LadderKeeps, InitKeeps, TypeKeeps, TurnKeeps, SessionKeeps, CallKeeps DEF ExecInv
<1> QED
    BY <1>1, <1>2, PTL DEF Spec

\* Type correctness of main.
THEOREM TypeCorrect == Spec => []ExecTypeOK
<1>1. ExecInv => ExecTypeOK
    BY DEF ExecInv
<1> QED
    BY <1>1, Invariance, PTL

\* No resource is used or released without the one it stands on.
THEOREM ResourcesAreNested == Spec => []ResourcesNest
<1>1. ExecInv => ResourcesNest
    <2> SUFFICES ASSUME ExecInv PROVE ResourcesNest
        OBVIOUS
    <2>1. /\ phase # "idle" => sftp_session
          /\ sftp_session => ssh_session = "logged_in"
          /\ ssh_session # "null" => sock = "connected"
        BY DEF ExecInv, LadderInv
    <2>2. ssh_session # "null" => libssh2_initialized > 0
        BY DEF ExecInv, LadderInv, InitInv, ExecTypeOK, Ground, Inside, Turn, Places
    <2>3. sock # "none" => wsa > 0
        BY DEF ExecInv, LadderInv, InitInv, ExecTypeOK, Ground, Inside, Turn, Places
    <2>4. Counted /\ HeldHere /\ SessionTypeOK
        BY DEF ExecInv, SessionInv
    <2>5. \A b \in Blocks : live[b] \in {0, 1}
        BY <2>4 DEF Counted, Blocks
    <2>6. \A b \in held : live[b] = 1
        BY <2>4 DEF Counted, SftpKnown, SessionTypeOK
    <2>7. (listed => live["channel"] = 1) /\ (close_cb => live["sftp"] = 1)
        BY <2>4 DEF Counted, SftpKnown
    <2>8. sftp_session /\ ~Released("shut") => live["sftp"] = 1
        BY <2>7 DEF ExecInv, CallInv
    <2>9. ssh_session # "null" /\ ~Released("freed") => live["session"] = 1
        BY DEF ExecInv, CallInv
    <2> QED
        BY <2>1, <2>2, <2>3, <2>5, <2>6, <2>7, <2>8, <2>9 DEF ResourcesNest
<1> QED
    BY <1>1, Invariance, PTL

\* Nothing is left on any way out of main, and of a session that is freed nothing but
\* what a server that disconnected, or a wait for the version that failed, left behind.
THEOREM NothingIsLeft == Spec => []NothingLeft
<1>1. ExecInv => NothingLeft
    <2> SUFFICES ASSUME ExecInv PROVE NothingLeft
        OBVIOUS
    <2>1. at = "ended" =>
              /\ sock = "none" /\ ssh_session = "null" /\ ~sftp_session /\ phase = "idle"
              /\ wsa = 0 /\ libssh2_initialized = 0
        BY DEF ExecInv, LadderInv, InitInv, Ground, Inside, Turn, Places
    <2>2. ASSUME at = "close", pc = "ok", NEW b \in Blocks
          PROVE  \/ live[b] = 0
                 \/ b = "sftp" /\ socket_state = "disconnected"
                 \/ b = "partial_packet" /\ abandoned
        <3>1. ssh_session = "null"
            BY <2>2 DEF ExecInv, LadderInv
        <3>2. live["session"] = 0
            BY <2>2, <3>1 DEF ExecInv, CallInv
        <3>3. Counted /\ HeldHere /\ SessionTypeOK
            BY DEF ExecInv, SessionInv
        <3>4. /\ held \subseteq {"partial_packet"} /\ ~listed /\ ~close_cb
              /\ "partial_packet" \in held => abandoned
            BY <2>2, <3>2, <3>3 DEF HeldHere
        <3>5. CASE b \in Pointers \ {"sftp"}
            BY <3>3, <3>4, <3>5 DEF Counted
        <3>6. CASE b \in {"sftp", "session", "channel"}
            BY <3>2, <3>3, <3>4, <3>6 DEF Counted, SftpKnown, SessionTypeOK
        <3> QED
            BY <3>5, <3>6 DEF Blocks
    <2> QED
        BY <2>1, <2>2 DEF NothingLeft
<1> QED
    BY <1>1, Invariance, PTL

\* Every remote of a list is tried, and every command begun where it can be.
THEOREM NothingIsSkipped == Spec => []NothingSkipped
<1>1. ExecInv => NothingSkipped
    BY DEF ExecInv, TurnInv, NothingSkipped, Inside
<1> QED
    BY <1>1, Invariance, PTL

-----------------------------------------------------------------------------
(* The program runs down: what is left to do, from the keys of the document *)
(* down to the steps of one call and the moves of the server.               *)

\* What main does with one key, and what it does with one remote
KeyPlaces == [file |-> 7, network |-> 6, library |-> 5, exit |-> 3, document |-> 2,
              leave |-> 1, ended |-> 0, undefined |-> 0]
TurnPlaces == [socket |-> 12, connect |-> 11, session |-> 10, handshake |-> 9, login |-> 8,
               sftp |-> 7, commands |-> 6, shutdown |-> 5, shut |-> 4, free |-> 3,
               freed |-> 2, close |-> 1]
CommandPlaces == [begun |-> 3, open |-> 2, released |-> 1, idle |-> 0]
StepsOfCall == [send_banner |-> 6, banner |-> 4, keys |-> 3, send_service |-> 2, service |-> 1,
                login |-> 3, send_login |-> 2, login_reply |-> 1,
                open |-> 8, send_open |-> 7, open_reply |-> 6, send_subsystem |-> 5,
                subsystem_reply |-> 4, send_init |-> 3, version |-> 1,
                send_disconnect |-> 7, channel_free |-> 5, send_eof |-> 4,
                send_close |-> 3, end |-> 2, free |-> 1, ok |-> 0, failed |-> 0]

KeyStepsLeft     == IF at \in Turn \cup {"remote"} THEN 4 ELSE KeyPlaces[at]
RemotesLeft      == remotes - remote
TurnStepsLeft    == IF at \in Turn THEN TurnPlaces[at] ELSE 0
CommandStepsLeft == CommandPlaces[phase]

\* The first line of a banner is kept, the head of the version, and session_free first
\* frees the channel.
CallStepsLeft ==
    StepsOfCall[pc] + (IF pc = "banner" /\ "banner" \notin held THEN 1 ELSE 0)
                    + (IF pc = "version" /\ "partial_packet" \notin held THEN 1 ELSE 0)
                    + (IF pc = "free" /\ listed THEN 5 ELSE 0)

ServerMovesLeft ==
    (IF remote_close THEN 0 ELSE 1) + (IF socket_state = "connected" THEN 1 ELSE 0)

LeftInNat ==
    /\ keys \in Nat /\ KeyStepsLeft \in Nat /\ RemotesLeft \in Nat /\ TurnStepsLeft \in Nat
    /\ todo \in Nat /\ CommandStepsLeft \in Nat /\ CallStepsLeft \in Nat
    /\ ServerMovesLeft \in Nat

\* The lexicographic order
Below(new, old, rest) == new < old \/ (new = old /\ rest)

LessIsLeft ==
    Below(keys', keys,
    Below(KeyStepsLeft', KeyStepsLeft,
    Below(RemotesLeft', RemotesLeft,
    Below(TurnStepsLeft', TurnStepsLeft,
    Below(todo', todo,
    Below(CommandStepsLeft', CommandStepsLeft,
    Below(CallStepsLeft', CallStepsLeft, ServerMovesLeft' < ServerMovesLeft)))))))

RunsDown == [][LessIsLeft]_vars

LEMMA LeftIsNat == ASSUME ExecInv PROVE LeftInNat
<1>1. /\ at \in Places /\ phase \in Phases /\ pc \in CallPlaces
      /\ todo \in Nat /\ keys \in Nat /\ remotes \in Nat /\ remote \in 0 .. remotes
    BY LoopAssumption, SshExecAssumption DEF ExecInv, ExecTypeOK, LoopTypeOK, SessionTypeOK
<1>2. KeyStepsLeft \in Nat /\ TurnStepsLeft \in Nat
    BY <1>1 DEF Places, Turn, KeyStepsLeft, TurnStepsLeft, KeyPlaces, TurnPlaces
<1>3. CommandStepsLeft \in Nat
    BY <1>1 DEF Phases, CommandStepsLeft, CommandPlaces
<1>4. StepsOfCall[pc] \in Nat
    BY <1>1 DEF CallPlaces, HandshakePlaces, LoginPlaces, SftpPlaces, ClosePlaces, FreePlaces,
       Returned, StepsOfCall
<1>5. CallStepsLeft \in Nat /\ ServerMovesLeft \in Nat
    BY <1>4 DEF CallStepsLeft, ServerMovesLeft
<1>6. RemotesLeft \in Nat
    BY <1>1 DEF RemotesLeft
<1> QED
    BY <1>1, <1>2, <1>3, <1>5, <1>6 DEF LeftInNat

\* A call never goes back: it may only read another line in front of the banner, and
\* that leaves everything as it is.
LEMMA CallRunsDown ==
    ASSUME SessionInv, NEW r, Library(r) \/ WaitFails
    PROVE  CallStepsLeft' < CallStepsLeft \/ UNCHANGED sessionVars
<1> USE DEF CallStepsLeft, StepsOfCall, Goes, Lost, Ends
<1>1. SessionTypeOK
    BY DEF SessionInv
<1>2. CASE WaitFails
    <2>1. pc \in CallPlaces \ Busy
        BY <1>1, <1>2 DEF WaitFails, SessionTypeOK
    <2> QED
        BY <1>2, <2>1 DEF WaitFails, Busy, CallPlaces, HandshakePlaces, LoginPlaces, SftpPlaces,
           ClosePlaces, FreePlaces, Returned, channelVars, blockVars
<1>3. CASE Advance(r) \/ ReadService(r)
    BY <1>3 DEF Advance, ReadService, After, blockVars
<1>4. CASE ReadBanner(r)
    <2>1. CASE pc' = "banner"
        <3>1. /\ held' = held \cup {"banner"} /\ Memory({"banner"}, held \cap {"banner"})
              /\ pc = "banner" /\ UNCHANGED <<back, socket_state, channelVars>>
            BY <1>4, <2>1 DEF ReadBanner
        <3>2. CASE "banner" \in held
            <4>1. held' = held
                BY <3>1, <3>2
            <4>2. live' = live /\ abandoned' = abandoned
                BY <1>1, <3>1, <3>2 DEF Memory, SessionTypeOK
            <4> QED
                BY <2>1, <3>1, <4>1, <4>2 DEF sessionVars, blockVars
        <3>3. CASE "banner" \notin held
            BY <2>1, <3>1, <3>3
        <3> QED
            BY <3>2, <3>3
    <2>2. CASE pc' # "banner"
        BY <1>4, <2>2 DEF ReadBanner
    <2> QED
        BY <2>1, <2>2
<1>5. CASE BeginLogin(r) \/ SendLogin(r) \/ ReadLogin(r)
    BY <1>5 DEF BeginLogin, SendLogin, ReadLogin
<1>6. CASE BeginOpen(r) \/ SendOpen(r) \/ ReadOpen(r)
    BY <1>6 DEF BeginOpen, SendOpen, ReadOpen
<1>7. CASE SendSubsystem(r) \/ ReadSubsystem(r) \/ ReadHead(r) \/ ReadVersion(r)
    BY <1>7 DEF SendSubsystem, ReadSubsystem, ReadHead, ReadVersion, Holds
<1>8. CASE EnterFree \/ SendEof(r) \/ SendClose(r) \/ ReadEnd(r)
    BY <1>1, <1>8 DEF EnterFree, SendEof, SendClose, ReadEnd, FreeChannel, SessionTypeOK
<1>9. CASE SendDisconnect(r) \/ FreeChannels \/ FreeRest
    BY <1>1, <1>9 DEF SendDisconnect, FreeChannels, FreeRest, channelVars, SessionTypeOK
<1> QED
    BY <1>2, <1>3, <1>4, <1>5, <1>6, <1>7, <1>8, <1>9 DEF Library

\* The steps in the order in which they are compared
LEMMA KeyFalls == ASSUME keys' < keys PROVE LessIsLeft
BY DEF LessIsLeft, Below

LEMMA KeyStepFalls ==
    ASSUME UNCHANGED keys, KeyStepsLeft' < KeyStepsLeft
    PROVE  LessIsLeft
BY DEF LessIsLeft, Below

LEMMA TurnStepFalls ==
    ASSUME UNCHANGED <<keys, KeyStepsLeft, RemotesLeft>>, TurnStepsLeft' < TurnStepsLeft
    PROVE  LessIsLeft
BY DEF LessIsLeft, Below

\* Steps between the remotes
KeySteps ==
    \/ ReadFile \/ RemotesKey \/ ExecKey \/ DocumentEnds \/ StartNetwork \/ InitLibrary
    \/ NextRemote \/ RemotesEnd \/ ExitLibrary \/ CleanUp

LEMMA KeyRunsDown == ASSUME ExecInv, KeySteps PROVE LessIsLeft
<1>1. keys \in Nat /\ remotes \in Nat /\ remote \in 0 .. remotes
    BY SshExecAssumption DEF ExecInv, ExecTypeOK
<1>2. CASE RemotesKey \/ ExecKey
    <2>1. keys' = keys - 1
        BY <1>2 DEF RemotesKey, ExecKey
    <2> QED
        BY <1>1, <2>1, KeyFalls
<1>3. CASE \/ ReadFile \/ DocumentEnds \/ StartNetwork \/ InitLibrary
           \/ RemotesEnd \/ ExitLibrary \/ CleanUp
    <2>1. UNCHANGED keys
        BY <1>3 DEF ReadFile, DocumentEnds, StartNetwork, InitLibrary, RemotesEnd, ExitLibrary,
           CleanUp, documentVars
    <2>2. KeyStepsLeft' < KeyStepsLeft
        BY <1>3 DEF ReadFile, DocumentEnds, StartNetwork, InitLibrary, RemotesEnd, ExitLibrary,
           CleanUp, Leave, KeyStepsLeft, KeyPlaces, Turn
    <2> QED
        BY <2>1, <2>2, KeyStepFalls
<1>4. CASE NextRemote
    <2>1. UNCHANGED <<keys, KeyStepsLeft>>
        BY <1>4 DEF NextRemote, documentVars, KeyStepsLeft, Turn
    <2>2. RemotesLeft' < RemotesLeft
        BY <1>1, <1>4 DEF NextRemote, documentVars, RemotesLeft
    <2> QED
        BY <2>1, <2>2 DEF LessIsLeft, Below
<1> QED
    BY <1>2, <1>3, <1>4 DEF KeySteps

\* The ladder up and down
LEMMA TurnRunsDown ==
    ASSUME ExecInv,
           \/ CreateSocket \/ Connect \/ CreateSession \/ Handshake \/ Login \/ StartSftp
           \/ CommandsEnd \/ ShutdownSftp \/ DropSftp \/ FreeSession \/ DropSession
           \/ CloseSocket
    PROVE  LessIsLeft
<1>1. UNCHANGED <<keys, remotes, remote>>
    BY DEF CreateSocket, Connect, CreateSession, Handshake, Login, StartSftp, CommandsEnd,
       ShutdownSftp, DropSftp, FreeSession, DropSession, CloseSocket, Climbs, mainVars,
       documentVars, turnVars
<1>2. at \in Turn /\ at' \in Turn \cup {"remote"} /\ TurnStepsLeft' < TurnStepsLeft
    BY DEF CreateSocket, Connect, CreateSession, Handshake, Login, StartSftp, CommandsEnd,
       ShutdownSftp, DropSftp, FreeSession, DropSession, CloseSocket, GiveUp,
       Turn, TurnStepsLeft, TurnPlaces
<1>3. UNCHANGED <<KeyStepsLeft, RemotesLeft>>
    BY <1>1, <1>2 DEF KeyStepsLeft, RemotesLeft
<1> QED
    BY <1>1, <1>2, <1>3, TurnStepFalls

\* The place of main stays: a command, a call of libssh2 or the server goes on.
LEMMA PlaceRunsDown ==
    ASSUME ExecInv,
           RunCommands \/ (\E r \in Outcomes : CallProceeds(r)) \/ CallStops \/ ServerLeaves
    PROVE  LessIsLeft \/ UNCHANGED vars
<1>1. UNCHANGED <<at, keys, remotes, remote>>
    BY DEF RunCommands, CallProceeds, CallStops, ServerLeaves, mainVars, documentVars, turnVars
<1>2. UNCHANGED <<keys, KeyStepsLeft, RemotesLeft, TurnStepsLeft>>
    BY <1>1 DEF KeyStepsLeft, RemotesLeft, TurnStepsLeft
<1>3. CASE RunCommands
    <2>1. todo \in Nat /\ phase \in Phases
        BY LoopAssumption DEF ExecInv, ExecTypeOK, LoopTypeOK
    <2>2. todo' < todo \/ (todo' = todo /\ CommandStepsLeft' < CommandStepsLeft)
        BY <1>3, <2>1 DEF RunCommands, LoopNext, BeginCommand, OpenHandle, Release, EndCommand,
           CommandStepsLeft, CommandPlaces
    <2> QED
        BY <1>2, <2>2 DEF LessIsLeft, Below
<1>4. CASE (\E r \in Outcomes : CallProceeds(r)) \/ CallStops
    <2>1. UNCHANGED <<at, mainVars, ladderVars, turnVars, loopVars>>
        BY <1>4 DEF CallProceeds, CallStops
    <2>2. CallStepsLeft' < CallStepsLeft \/ UNCHANGED sessionVars
        BY <1>4, CallRunsDown DEF CallProceeds, CallStops, ExecInv
    <2>3. UNCHANGED <<todo, CommandStepsLeft>>
        BY <2>1 DEF loopVars, CommandStepsLeft
    <2> QED
        BY <1>2, <2>1, <2>2, <2>3 DEF LessIsLeft, Below, vars
<1>5. CASE ServerLeaves
    <2>1. UNCHANGED <<at, mainVars, ladderVars, turnVars, loopVars>>
        BY <1>5 DEF ServerLeaves
    <2>2. UNCHANGED <<todo, CommandStepsLeft>>
        BY <2>1 DEF loopVars, CommandStepsLeft
    <2>3. UNCHANGED CallStepsLeft
        BY <1>5 DEF ServerLeaves, ServerCloses, ServerDisconnects, CallStepsLeft, channelVars,
           blockVars
    <2>4. remote_close \in BOOLEAN /\ socket_state \in {"connected", "disconnected"}
        BY DEF ExecInv, ExecTypeOK, SessionTypeOK
    <2>5. ServerMovesLeft' < ServerMovesLeft \/ UNCHANGED sessionVars
        BY <1>5, <2>4 DEF ServerLeaves, ServerCloses, ServerDisconnects, ServerMovesLeft,
           channelVars, blockVars, sessionVars
    <2> QED
        BY <1>2, <2>1, <2>2, <2>3, <2>5 DEF LessIsLeft, Below, vars
<1> QED
    BY <1>3, <1>4, <1>5

\* Whatever the server does and whatever fails, for every document: each step leaves
\* less to do, so that the program takes finitely many of them (ProgramEnds without
\* the part that it goes on at all).
THEOREM ProgramRunsDown == Spec => []LeftInNat /\ RunsDown
<1>1. ExecInv => LeftInNat
    BY LeftIsNat
<1>2. ExecInv /\ [Next]_vars => [LessIsLeft]_vars
    BY KeyRunsDown, TurnRunsDown, PlaceRunsDown DEF Next, MainSteps, KeySteps
<1> QED
    BY <1>1, <1>2, Invariance, PTL DEF Spec, RunsDown
=============================================================================
