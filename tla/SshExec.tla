-------------------------------- MODULE SshExec --------------------------------
(***************************************************************************)
(* The program as a whole: main in main.cpp, after the command line.  It    *)
(* goes through the keys of the document.  `remotes` replaces the list of   *)
(* remotes, `exec` replaces the list of commands and performs it at once:   *)
(* for each remote, the ladder socket - connection - SSH session -          *)
(* handshake - login - SFTP session, the commands, and down again.  The     *)
(* calls of libssh2 on this ladder are those of SshSession.tla.             *)
(*                                                                         *)
(* The blocks are lambdas with a `finally` part (LAMBDA_TRY_...): a return  *)
(* in one of them leaves only this one, and its value goes nowhere but from *)
(* the outermost.  The readers of the two lists are Remotes.tla and         *)
(* ExecConfig.tla, the commands are FileCopy.tla; here they are a list's    *)
(* length and CopyLoop.                                                     *)
(*                                                                         *)
(* This is the Windows build, the only one that README_EN.txt names and     *)
(* that main.cpp compiles for (SOCKET, closesocket).                        *)
(***************************************************************************)
EXTENDS CopyLoop, SshSession

CONSTANTS MaxRemotes,  \* bound: remotes in a list
          MaxKeys      \* bound: keys of the document

ASSUME SshExecAssumption == MaxRemotes \in Nat /\ MaxKeys \in Nat

VARIABLES
    at,                 \* where the program is
    ret,                \* the value it returns
    keys,               \* `remotes` and `exec` keys not read yet
    remotes,            \* length of remotes_stack.top(); 0: the stack is empty
    commands,           \* length of exec.commands
    is_wsa_inited,
    is_libssh2_inited,
    wsa,                \* calls of WSAStartup without a WSACleanup
    libssh2_initialized,
    remote,             \* the remote whose turn it is
    sock,
    ssh_session,
    sftp_session,       \* sftp_session is not null
    tried,              \* remotes that connect was called for; only properties
    opened,             \* remotes that got an SFTP session;    read these three
    begun               \* commands begun, each with its remote

documentVars == <<ret, keys, remotes, commands>>
wsaVars      == <<is_wsa_inited, wsa>>
libVars      == <<is_libssh2_inited, libssh2_initialized>>
ladderVars   == <<sock, ssh_session, sftp_session>>
observers    == <<tried, opened, begun>>
turnVars     == <<remote, observers>>
mainVars    == <<documentVars, wsaVars, libVars>>
vars == <<at, mainVars, ladderVars, turnVars, loopVars, sessionVars>>

Places == {"file", "document", "network", "library", "remote",
           "socket", "connect", "session", "handshake", "login", "sftp", "commands",
           "shutdown", "shut", "free", "freed", "close", "exit", "leave", "ended", "undefined"}

ExecTypeOK ==
    /\ LoopTypeOK /\ SessionTypeOK
    /\ at \in Places
    /\ ret \in 0 .. 4
    /\ keys \in 0 .. MaxKeys
    /\ remotes \in 0 .. MaxRemotes /\ remote \in 0 .. remotes
    /\ commands \in 0 .. MaxCommands
    /\ is_wsa_inited \in BOOLEAN /\ is_libssh2_inited \in BOOLEAN
    /\ wsa \in Nat /\ libssh2_initialized \in Nat
    /\ sock \in {"none", "invalid", "created", "connected"}
    /\ ssh_session \in {"null", "created", "keyed", "logged_in"}
    /\ sftp_session \in BOOLEAN
    /\ tried \subseteq 1 .. remotes /\ opened \subseteq 1 .. remotes
    /\ begun \subseteq (1 .. remotes) \X (1 .. commands)

Init ==
    /\ at = "file"
    /\ ret = 0 /\ keys \in 0 .. MaxKeys /\ remotes = 0 /\ commands = 0
    /\ is_wsa_inited = FALSE /\ wsa = 0
    /\ is_libssh2_inited = FALSE /\ libssh2_initialized = 0
    /\ sock = "none" /\ ssh_session = "null" /\ sftp_session = FALSE
    /\ remote = 0 /\ tried = {} /\ opened = {} /\ begun = {}
    /\ todo = 0 /\ phase = "idle"
    /\ SessionInit

-----------------------------------------------------------------------------
(* The document                                                            *)

NewTurns == remote' = 0 /\ tried' = {} /\ opened' = {} /\ begun' = {}

\* A return from the outermost block
Leave(code) == at' = "leave" /\ ret' = code

ReadFile ==
    /\ at = "file"
    /\ \/ at' = "document" /\ UNCHANGED ret
       \/ Leave(1)
    /\ UNCHANGED <<keys, remotes, commands, wsaVars, libVars, ladderVars, turnVars, loopVars, sessionVars>>

RemotesKey ==
    /\ at = "document"
    /\ keys > 0
    /\ keys' = keys - 1
    /\ \/ /\ remotes' \in 1 .. MaxRemotes
          /\ UNCHANGED <<at, ret>>
       \/ /\ remotes' \in 0 .. MaxRemotes   \* what was read before the error
          /\ Leave(2)
    /\ NewTurns
    /\ UNCHANGED <<commands, wsaVars, libVars, ladderVars, loopVars, sessionVars>>

\* A command takes its remotes from the top of the stack, which may not be there.
ExecKey ==
    /\ at = "document"
    /\ keys > 0
    /\ keys' = keys - 1
    /\ \/ commands' = 0 /\ Leave(3)
       \/ /\ commands' \in 1 .. MaxCommands
          /\ \/ Leave(3)
             \/ /\ at' = IF remotes = 0 THEN "undefined" ELSE "network"
                /\ UNCHANGED ret
    /\ NewTurns
    /\ UNCHANGED <<remotes, wsaVars, libVars, ladderVars, loopVars, sessionVars>>

DocumentEnds ==
    /\ at = "document"
    /\ keys = 0
    /\ Leave(0)
    /\ UNCHANGED <<keys, remotes, commands, wsaVars, libVars, ladderVars, turnVars, loopVars, sessionVars>>

StartNetwork ==
    /\ at = "network"
    /\ \/ /\ is_wsa_inited
          /\ at' = "library"
          /\ UNCHANGED <<ret, wsaVars>>
       \/ /\ ~is_wsa_inited
          /\ is_wsa_inited' = TRUE /\ wsa' = wsa + 1
          /\ at' = "library"
          /\ UNCHANGED ret
       \/ /\ ~is_wsa_inited
          /\ Leave(4)
          /\ UNCHANGED wsaVars
    /\ UNCHANGED <<keys, remotes, commands, libVars, ladderVars, turnVars, loopVars, sessionVars>>

\* libssh2_init never fails.
InitLibrary ==
    /\ at = "library"
    /\ at' = "remote"
    /\ is_libssh2_inited' = TRUE
    /\ libssh2_initialized' =
           IF is_libssh2_inited THEN libssh2_initialized ELSE libssh2_initialized + 1
    /\ UNCHANGED <<documentVars, wsaVars, ladderVars, turnVars, loopVars, sessionVars>>

\* Mutant of NextRemote: the loop goes one too far.
NextRemoteAndOneMore ==
    /\ at = "remote"
    /\ remote <= remotes
    /\ remote' = remote + 1
    /\ at' = "socket"
    /\ UNCHANGED <<documentVars, wsaVars, libVars, ladderVars, observers, loopVars, sessionVars>>

NextRemote ==
    /\ at = "remote"
    /\ remote < remotes
    /\ remote' = remote + 1
    /\ at' = "socket"
    /\ UNCHANGED <<documentVars, wsaVars, libVars, ladderVars, observers, loopVars, sessionVars>>

RemotesEnd ==
    /\ at = "remote"
    /\ remote = remotes
    /\ at' = "exit"
    /\ UNCHANGED <<documentVars, wsaVars, libVars, ladderVars, turnVars, loopVars, sessionVars>>

ExitLibrary ==
    /\ at = "exit"
    /\ libssh2_initialized' =
           IF libssh2_initialized = 0 THEN 0 ELSE libssh2_initialized - 1
    /\ is_libssh2_inited' = FALSE
    /\ at' = "document"
    /\ UNCHANGED <<documentVars, wsaVars, ladderVars, turnVars, loopVars, sessionVars>>

CleanUp ==
    /\ at = "leave"
    /\ wsa' = IF is_wsa_inited THEN wsa - 1 ELSE wsa
    /\ is_wsa_inited' = FALSE
    /\ at' = "ended"
    /\ UNCHANGED <<documentVars, libVars, ladderVars, turnVars, loopVars, sessionVars>>

-----------------------------------------------------------------------------
(* The ladder                                                              *)

\* A return from the block of a remote
GiveUp == at' = "shutdown" /\ UNCHANGED <<ladderVars, libVars, todo, opened, sessionVars>>

Climbs == UNCHANGED <<documentVars, wsaVars, remote, begun, phase>>

\* SOCKET is unsigned: `sock < 0` is never true, and INVALID_SOCKET is not noticed.
CreateSocket ==
    /\ at = "socket"
    /\ sock' \in {"created", "invalid"}
    /\ at' = "connect"
    /\ UNCHANGED <<ssh_session, sftp_session, libVars, todo, observers, sessionVars>>
    /\ Climbs

Connect ==
    /\ at = "connect"
    /\ tried' = tried \cup {remote}
    /\ \/ /\ sock = "created"
          /\ sock' = "connected"
          /\ at' = "session"
          /\ UNCHANGED <<ssh_session, sftp_session, libVars, todo, opened, sessionVars>>
       \/ GiveUp
    /\ Climbs

\* libssh2_session_init initialises the library where it is not yet.
CreateSession ==
    /\ at = "session"
    /\ \/ /\ ssh_session' = "created"
          /\ NewSession
          /\ libssh2_initialized' =
                 IF libssh2_initialized = 0 THEN 1 ELSE libssh2_initialized
          /\ at' = "handshake"
          /\ UNCHANGED <<sock, sftp_session, is_libssh2_inited, todo, opened>>
       \/ GiveUp
    /\ UNCHANGED tried
    /\ Climbs

\* A call of libssh2 runs.
Calling == at \in {"handshake", "login", "sftp", "shut", "freed"} /\ pc \notin Returned

CallProceeds(r) ==
    /\ Calling
    /\ Library(r)
    /\ UNCHANGED <<at, mainVars, ladderVars, turnVars, loopVars>>

CallStops ==
    /\ Calling
    /\ WaitFails
    /\ UNCHANGED <<at, mainVars, ladderVars, turnVars, loopVars>>

\* The next call of libssh2 begins.
Calls(place) ==
    /\ pc' = place
    /\ UNCHANGED <<back, socket_state, channelVars, blockVars>>

Handshake ==
    /\ at = "handshake"
    /\ \/ /\ pc = "ok"
          /\ ssh_session' = "keyed"
          /\ at' = "login" /\ Calls("login")
          /\ UNCHANGED <<sock, sftp_session, libVars, todo, opened>>
       \/ pc = "failed" /\ GiveUp
    /\ UNCHANGED tried
    /\ Climbs

Login ==
    /\ at = "login"
    /\ \/ /\ pc = "ok"
          /\ ssh_session' = "logged_in"
          /\ at' = "sftp" /\ Calls("open")
          /\ UNCHANGED <<sock, sftp_session, libVars, todo, opened>>
       \/ pc = "failed" /\ GiveUp
    /\ UNCHANGED tried
    /\ Climbs

StartSftp ==
    /\ at = "sftp"
    /\ \/ /\ pc = "ok"
          /\ sftp_session' = TRUE
          /\ todo' = commands
          /\ opened' = opened \cup {remote}
          /\ at' = "commands"
          /\ UNCHANGED <<sock, ssh_session, libVars, sessionVars>>
       \/ pc = "failed" /\ GiveUp
    /\ UNCHANGED tried
    /\ Climbs

\* The server may leave at any time while a call runs or the commands do.
ServerLeaves ==
    /\ at \in {"sftp", "commands"}
    /\ ServerCloses \/ ServerDisconnects
    /\ UNCHANGED <<at, mainVars, ladderVars, turnVars, loopVars>>

RunCommands ==
    /\ at = "commands"
    /\ LoopNext
    /\ begun' = IF todo' < todo THEN begun \cup {<<remote, commands - todo'>>} ELSE begun
    /\ UNCHANGED <<at, mainVars, ladderVars, remote, tried, opened, sessionVars>>

\* Mutant of CommandsEnd: the first command that is over ends the session.
CommandEnds ==
    /\ at = "commands"
    /\ phase = "idle"
    /\ GiveUp
    /\ UNCHANGED tried
    /\ Climbs

CommandsEnd ==
    /\ at = "commands"
    /\ todo = 0 /\ phase = "idle"
    /\ GiveUp
    /\ UNCHANGED tried
    /\ Climbs

-----------------------------------------------------------------------------
(* The finally part                                                        *)

ShutdownSftp ==
    /\ at = "shutdown"
    /\ \/ /\ sftp_session
          /\ at' = "shut"
          /\ pc' = "channel_free" /\ back' = "ok"
          /\ UNCHANGED <<socket_state, channelVars, blockVars>>
       \/ /\ ~sftp_session
          /\ at' = "free"
          /\ UNCHANGED sessionVars
    /\ UNCHANGED <<mainVars, ladderVars, turnVars, loopVars>>

\* What libssh2_sftp_shutdown returns is not looked at.
DropSftp ==
    /\ at = "shut"
    /\ pc \in Returned
    /\ sftp_session' = FALSE
    /\ at' = "free"
    /\ UNCHANGED <<sock, ssh_session, mainVars, turnVars, loopVars, sessionVars>>

\* libssh2_session_disconnect, then libssh2_session_free
FreeSession ==
    /\ at = "free"
    /\ \/ /\ ssh_session # "null"
          /\ at' = "freed"
          /\ Calls("send_disconnect")
       \/ /\ ssh_session = "null"
          /\ at' = "close"
          /\ UNCHANGED sessionVars
    /\ UNCHANGED <<mainVars, ladderVars, turnVars, loopVars>>

DropSession ==
    /\ at = "freed"
    /\ pc \in Returned
    /\ ssh_session' = "null"
    /\ at' = "close"
    /\ UNCHANGED <<sock, sftp_session, mainVars, turnVars, loopVars, sessionVars>>

CloseSocket ==
    /\ at = "close"
    /\ sock' = "none"
    /\ at' = "remote"
    /\ UNCHANGED <<ssh_session, sftp_session, mainVars, turnVars, loopVars, sessionVars>>

MainSteps ==
    \/ ReadFile \/ RemotesKey \/ ExecKey \/ DocumentEnds
    \/ StartNetwork \/ InitLibrary \/ NextRemote \/ RemotesEnd \/ ExitLibrary \/ CleanUp
    \/ CreateSocket \/ Connect \/ CreateSession \/ Handshake \/ Login \/ StartSftp
    \/ RunCommands \/ CommandsEnd \/ ShutdownSftp \/ DropSftp
    \/ FreeSession \/ DropSession \/ CloseSocket

Next ==
    \/ MainSteps
    \/ \E r \in Outcomes : CallProceeds(r)
    \/ CallStops
    \/ ServerLeaves

Spec == Init /\ [][Next]_vars

\* One thread, which runs on while it can, and a server that answers what it is
\* asked; nothing has to fail for the program to go on.
FairSpec == Spec /\ WF_vars(MainSteps \/ CallProceeds("done"))
-----------------------------------------------------------------------------
(* Properties                                                              *)

\* main lets go of what a call released only when it has returned.
Released(place) == at = place /\ pc = "ok"

\* What is made on one rung stands on the rung below, on the way up and, in the
\* finally parts, on the way down: a command runs in an SFTP session, that in
\* an SSH session with a login, that on a connected socket and an initialised
\* library, a socket under WSAStartup.  At each place where a call of libssh2
\* may wait, or may be given up, a pointer leads to a block that is there, and
\* nothing was freed twice ("make it keep the local data as long as EAGAIN is
\* returned", channel.c).
ResourcesNest ==
    /\ phase # "idle" => sftp_session
    /\ sftp_session => ssh_session = "logged_in"
    /\ ssh_session # "null" => sock = "connected" /\ libssh2_initialized > 0
    /\ sock # "none" => wsa > 0
    /\ \A b \in Blocks : live[b] \in {0, 1}
    /\ \A b \in held : live[b] = 1
    /\ listed => live["channel"] = 1
    /\ close_cb => live["sftp"] = 1
    /\ sftp_session /\ ~Released("shut") => live["sftp"] = 1
    /\ ssh_session # "null" /\ ~Released("freed") => live["session"] = 1

\* On every way out of main, whatever failed on which rung and for however many
\* lists and remotes, nothing is left: each handle is released, and WSAStartup and
\* libssh2_init have their counterparts.  When libssh2_session_free comes to its end,
\* every block of the session is freed, wherever the calls before it were given up,
\* with two exceptions, against libssh2_session_free.3, "Frees all resources associated
\* with a session instance".  The SFTP session is not when the server disconnected, for
\* then its channel is not closed; and a version that was read in part is not when
\* the wait for its rest was given up.  Read to the end, or up to an error, it is.
NothingLeft ==
    /\ at = "ended" =>
          /\ sock = "none" /\ ssh_session = "null" /\ ~sftp_session /\ phase = "idle"
          /\ wsa = 0 /\ libssh2_initialized = 0
    /\ at = "close" /\ pc = "ok" =>
          \A b \in Blocks :
              \/ live[b] = 0
              \/ b = "sftp" /\ socket_state = "disconnected"
              \/ b = "partial_packet" /\ abandoned

\* Whatever becomes of one remote or command, no other is passed over: every
\* remote is tried, and on each that could be logged in to, and on no other, all
\* commands are begun.
NothingSkipped ==
    at = "exit" =>
        /\ tried = 1 .. remotes
        /\ begun = opened \X (1 .. commands)

\* The program comes to its end.
ProgramEnds == <>(at \in {"ended", "undefined"})
=============================================================================
