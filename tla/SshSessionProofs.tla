--------------------------- MODULE SshSessionProofs ---------------------------
(***************************************************************************)
(* Proofs about SshSession.tla.  The invariant says for each place of a     *)
(* call which blocks are held, and that each of them was allocated once and *)
(* not freed, so that a call may be given up anywhere.                      *)
(***************************************************************************)
EXTENDS SshSession, TLAPS

\* Places on the way up, and those of them where the channel is not open yet
Up       == HandshakePlaces \cup LoginPlaces \cup SftpPlaces
Unopened == HandshakePlaces \cup LoginPlaces \cup {"open"}

\* What a call has in its hands at a place of it, besides the banner
Carried(place) ==
    IF place = "send_login" THEN {"userauth_pswd_data"}
    ELSE IF place \in {"send_open", "open_reply"} THEN {"open_packet"}
    ELSE IF place = "send_subsystem" THEN {"process_packet"}
    ELSE IF place \in {"send_init", "version"} THEN {"sftp"}
    ELSE {}

\* A pointer leads to the SFTP session.
SftpKnown == "sftp" \in held \/ close_cb

\* What a pointer leads to is there once, and what is there has a pointer to it,
\* but for an SFTP session that was left behind by a server that disconnected.
Counted ==
    /\ \A b \in Pointers \ {"sftp"} : live[b] = IF b \in held THEN 1 ELSE 0
    /\ live["channel"] = IF listed THEN 1 ELSE 0
    /\ live["sftp"] \in {0, 1}
    /\ SftpKnown => live["sftp"] = 1
    /\ socket_state = "connected" /\ ~SftpKnown => live["sftp"] = 0
    /\ live["session"] \in {0, 1}

\* What is held at each place
HeldHere ==
    /\ pc \in Up =>
          /\ socket_state = "connected"
          /\ held \ {"banner", "partial_packet"} = Carried(pc)
          /\ ~abandoned
          /\ ~close_cb
          /\ listed <=> pc \notin Unopened
    /\ pc \in ClosePlaces => listed
    /\ pc = "ok" /\ live["session"] = 1 => held \subseteq {"banner"} /\ ~abandoned
    /\ "partial_packet" \in held => pc = "version" \/ abandoned
    /\ pc \in ClosePlaces /\ back = "ok" => held \subseteq {"banner"} /\ ~abandoned
    /\ close_cb => listed /\ "sftp" \notin held
    /\ "process_packet" \in held => listed
    /\ pc \notin Returned => live["session"] = 1
    /\ live["session"] = 0 =>
          held \subseteq {"partial_packet"} /\ ~listed /\ ~close_cb

SessionInv == SessionTypeOK /\ Counted /\ HeldHere

-----------------------------------------------------------------------------
\* What Memory does to the count of a block, case by case.
LEMMA MemoryFacts ==
    ASSUME SessionTypeOK, NEW got, NEW freed, Memory(got, freed)
    PROVE  /\ live' \in [Blocks -> Int] /\ UNCHANGED abandoned
           /\ \A b \in Blocks : b \notin got /\ b \notin freed => live'[b] = live[b]
           /\ \A b \in Blocks : b \in got /\ b \notin freed => live'[b] = live[b] + 1
           /\ \A b \in Blocks : b \notin got /\ b \in freed => live'[b] = live[b] - 1
           /\ \A b \in Blocks : b \in got /\ b \in freed => live'[b] = live[b]
BY DEF SessionTypeOK, Memory

\* A pointer that is set when a block is allocated and reset when it is freed leads
\* to a block that is there.
LEMMA PointerCounts ==
    ASSUME SessionTypeOK, NEW got, NEW freed, Memory(got, freed),
           \A b \in Pointers \ {"sftp"} : live[b] = IF b \in held THEN 1 ELSE 0,
           \A b \in Pointers \ {"sftp"} :
               /\ b \in freed => b \in held
               /\ b \in got /\ b \in held => b \in freed
               /\ b \in held' <=> b \in got \/ (b \in held /\ b \notin freed)
    PROVE  \A b \in Pointers \ {"sftp"} : live'[b] = IF b \in held' THEN 1 ELSE 0
<1> SUFFICES ASSUME NEW b \in Pointers \ {"sftp"}
             PROVE  live'[b] = IF b \in held' THEN 1 ELSE 0
    OBVIOUS
<1>1. live'[b] = live[b] + (IF b \in got THEN 1 ELSE 0) - (IF b \in freed THEN 1 ELSE 0)
    BY DEF Memory, Blocks
<1>2. live[b] = IF b \in held THEN 1 ELSE 0
    OBVIOUS
<1> QED
    BY <1>1, <1>2

\* A session that begins holds nothing.
LEMMA NewSessionHolds == ASSUME NewSession PROVE SessionInv' /\ live'["session"] = 1
<1> USE DEF Blocks, Pointers
<1>0. live' \in [Blocks -> Int] /\ held' \subseteq Pointers
    BY DEF NewSession
<1>1. SessionTypeOK'
    BY <1>0, Zenon DEF NewSession, SessionTypeOK, CallPlaces, HandshakePlaces
<1>2. live'["session"] = 1 /\ live'["channel"] = 0 /\ live'["sftp"] = 0
      /\ \A b \in Pointers : live'[b] = 0
    BY DEF NewSession
<1>3. Counted'
    BY <1>2 DEF NewSession, Counted, SftpKnown
<1>4. HeldHere'
    BY <1>2 DEF NewSession, HeldHere, Carried, HandshakePlaces, LoginPlaces, SftpPlaces,
                ClosePlaces, Returned, Up, Unopened
<1> QED
    BY <1>1, <1>2, <1>3, <1>4 DEF SessionInv

\* When main starts there is no session.
LEMMA SessionInitHolds == ASSUME SessionInit PROVE SessionInv /\ live["session"] = 0
<1> USE DEF Blocks, Pointers
<1>0. live \in [Blocks -> Int] /\ held \subseteq Pointers
    BY DEF SessionInit
<1>1. SessionTypeOK
    BY <1>0, Zenon DEF SessionInit, SessionTypeOK, CallPlaces, Returned
<1>2. live["session"] = 0 /\ live["channel"] = 0 /\ live["sftp"] = 0
      /\ \A b \in Pointers : live[b] = 0
    BY DEF SessionInit
<1>3. Counted
    BY <1>2 DEF SessionInit, Counted, SftpKnown
<1>4. HeldHere
    BY <1>2 DEF SessionInit, HeldHere, Carried, HandshakePlaces, LoginPlaces, SftpPlaces,
                ClosePlaces, Returned, Up, Unopened
<1> QED
    BY <1>1, <1>2, <1>3, <1>4 DEF SessionInv

-----------------------------------------------------------------------------
\* A step that allocates and frees nothing keeps the counts; the socket may fail.
LEMMA QuietKeeps ==
    ASSUME SessionInv, UNCHANGED <<channelVars, held, live>>,
           socket_state' \in {socket_state, "disconnected"}
    PROVE  Counted'
BY DEF SessionInv, SessionTypeOK, Counted, SftpKnown, channelVars, blockVars

\* channel_error frees the channel and its packet.
LEMMA DropCounts ==
    ASSUME SessionInv, DropChannel, UNCHANGED close_cb, listed, "open_packet" \in held,
           socket_state' \in {socket_state, "disconnected"}
    PROVE  Counted' /\ live'["session"] = live["session"] /\ UNCHANGED abandoned
<1> DEFINE freed == {"channel", "open_packet"}
<1>1. SessionTypeOK /\ Counted /\ Memory({}, freed)
    BY DEF SessionInv, DropChannel
<1>2. live'["session"] = live["session"] /\ live'["sftp"] = live["sftp"]
      /\ UNCHANGED abandoned
      /\ live'["channel"] = live["channel"] - 1
    BY <1>1, MemoryFacts DEF Blocks, Pointers
<1>3. \A b \in Pointers \ {"sftp"} : live'[b] = IF b \in held' THEN 1 ELSE 0
    <2>1. /\ \A b \in Pointers \ {"sftp"} : live[b] = IF b \in held THEN 1 ELSE 0
          /\ \A b \in Pointers \ {"sftp"} :
               /\ b \in freed => b \in held
               /\ b \in {} /\ b \in held => b \in freed
               /\ b \in held' <=> b \in {} \/ (b \in held /\ b \notin freed)
        BY <1>1 DEF Counted, DropChannel, Pointers
    <2> QED
        BY <1>1, <2>1, PointerCounts
<1>4. ~listed' /\ ("sftp" \in held' <=> "sftp" \in held)
    BY DEF DropChannel
<1> QED
    BY <1>1, <1>2, <1>3, <1>4 DEF Counted, SftpKnown

\* Each step of the calls on the way up keeps what is held at its place.
LEMMA UpKeeps ==
    ASSUME SessionInv, NEW r,
           \/ Advance(r) \/ ReadBanner(r) \/ ReadService(r)
           \/ BeginLogin(r) \/ SendLogin(r) \/ ReadLogin(r)
           \/ BeginOpen(r) \/ SendOpen(r) \/ ReadOpen(r)
           \/ SendSubsystem(r) \/ ReadSubsystem(r) \/ ReadHead(r) \/ ReadVersion(r)
    PROVE  SessionInv'
<1>1. CASE Advance(r)
    <2>1. SessionTypeOK'
        BY <1>1, MemoryFacts DEF Advance, After, Goes, Lost, Ends, Holds, SessionInv, SessionTypeOK, channelVars, blockVars, Pointers,
           CallPlaces, HandshakePlaces, LoginPlaces, SftpPlaces, Returned
    <2>2. Counted'
        BY <1>1, MemoryFacts, QuietKeeps, PointerCounts DEF Advance, After, Goes, Lost, Ends, Holds, SessionInv, Counted, SftpKnown, HeldHere, Carried,
           Up, Unopened, HandshakePlaces, LoginPlaces, SftpPlaces, channelVars, blockVars, Pointers, Blocks
    <2>3. HeldHere'
        BY <1>1, MemoryFacts DEF Advance, After, Goes, Lost, Ends, Holds, SessionInv, SessionTypeOK, HeldHere, Carried, Up, Unopened,
           HandshakePlaces, LoginPlaces, SftpPlaces, ClosePlaces, Returned, channelVars, blockVars, Pointers, Blocks
    <2> QED
        BY <2>1, <2>2, <2>3 DEF SessionInv
<1>2. CASE ReadBanner(r)
    <2>1. SessionTypeOK'
        BY <1>2, MemoryFacts DEF ReadBanner, Goes, Lost, Ends, Holds, SessionInv, SessionTypeOK, channelVars, blockVars, Pointers,
           CallPlaces, HandshakePlaces, LoginPlaces, SftpPlaces, Returned
    <2>2. Counted'
        BY <1>2, MemoryFacts, QuietKeeps, PointerCounts DEF ReadBanner, Goes, Lost, Ends, Holds, SessionInv, Counted, SftpKnown, HeldHere, Carried,
           Up, Unopened, HandshakePlaces, LoginPlaces, SftpPlaces, channelVars, blockVars, Pointers, Blocks
    <2>3. HeldHere'
        <3>1. pc = "banner" /\ held \ {"banner"} = {} /\ ~listed /\ ~close_cb
              /\ live["session"] = 1 /\ "partial_packet" \notin held /\ ~abandoned
            BY <1>2 DEF ReadBanner, SessionInv, HeldHere, Carried, Up, Unopened,
               HandshakePlaces, LoginPlaces, SftpPlaces, Returned
        <3>2. live'["session"] = 1 /\ ~close_cb' /\ ~abandoned'
            BY <1>2, <3>1, MemoryFacts DEF ReadBanner, Holds, SessionInv, channelVars, blockVars,
               Blocks, Pointers
        <3> HIDE DEF Memory
        <3> QED
            BY <1>2, <3>1, <3>2 DEF ReadBanner, Goes, Lost, Ends, Holds, SessionInv, HeldHere, Carried,
               Up, Unopened, HandshakePlaces, LoginPlaces, SftpPlaces, ClosePlaces, Returned, channelVars,
               blockVars
    <2> QED
        BY <2>1, <2>2, <2>3 DEF SessionInv
<1>3. CASE ReadService(r)
    <2>1. SessionTypeOK'
        BY <1>3, MemoryFacts DEF ReadService, Goes, Lost, Ends, Holds, SessionInv, SessionTypeOK, channelVars, blockVars, Pointers,
           CallPlaces, HandshakePlaces, LoginPlaces, SftpPlaces, Returned
    <2>2. Counted'
        BY <1>3, MemoryFacts, QuietKeeps, PointerCounts DEF ReadService, Goes, Lost, Ends, Holds, SessionInv, Counted, SftpKnown, HeldHere, Carried,
           Up, Unopened, HandshakePlaces, LoginPlaces, SftpPlaces, channelVars, blockVars, Pointers, Blocks
    <2>3. HeldHere'
        <3>1. pc = "service" /\ held \ {"banner"} = {} /\ ~listed /\ ~close_cb
              /\ live["session"] = 1 /\ "partial_packet" \notin held /\ ~abandoned
            BY <1>3 DEF ReadService, SessionInv, HeldHere, Carried, Up, Unopened,
               HandshakePlaces, LoginPlaces, SftpPlaces, Returned
        <3>2. live'["session"] = 1 /\ ~close_cb' /\ ~abandoned'
            BY <1>3, <3>1, MemoryFacts DEF ReadService, Holds, SessionInv, channelVars, blockVars,
               Blocks, Pointers
        <3> HIDE DEF Memory
        <3> QED
            BY <1>3, <3>1, <3>2 DEF ReadService, Goes, Lost, Ends, Holds, SessionInv, HeldHere, Carried,
               Up, Unopened, HandshakePlaces, LoginPlaces, SftpPlaces, ClosePlaces, Returned, channelVars,
               blockVars
    <2> QED
        BY <2>1, <2>2, <2>3 DEF SessionInv
<1>4. CASE BeginLogin(r)
    <2>1. SessionTypeOK'
        BY <1>4, MemoryFacts DEF BeginLogin, Goes, Lost, Ends, Holds, SessionInv, SessionTypeOK, channelVars, blockVars, Pointers,
           CallPlaces, HandshakePlaces, LoginPlaces, SftpPlaces, Returned
    <2>2. Counted'
        BY <1>4, MemoryFacts, QuietKeeps, PointerCounts DEF BeginLogin, Goes, Lost, Ends, Holds, SessionInv, Counted, SftpKnown, HeldHere, Carried,
           Up, Unopened, HandshakePlaces, LoginPlaces, SftpPlaces, channelVars, blockVars, Pointers, Blocks
    <2>3. HeldHere'
        <3>1. pc = "login" /\ held \ {"banner"} = {} /\ ~listed /\ ~close_cb
              /\ live["session"] = 1 /\ "partial_packet" \notin held /\ ~abandoned
            BY <1>4 DEF BeginLogin, SessionInv, HeldHere, Carried, Up, Unopened,
               HandshakePlaces, LoginPlaces, SftpPlaces, Returned
        <3>2. live'["session"] = 1 /\ ~close_cb' /\ ~abandoned'
            BY <1>4, <3>1, MemoryFacts DEF BeginLogin, Holds, SessionInv, channelVars, blockVars,
               Blocks, Pointers
        <3> HIDE DEF Memory
        <3> QED
            BY <1>4, <3>1, <3>2 DEF BeginLogin, Goes, Lost, Ends, Holds, SessionInv, HeldHere, Carried,
               Up, Unopened, HandshakePlaces, LoginPlaces, SftpPlaces, ClosePlaces, Returned, channelVars,
               blockVars
    <2> QED
        BY <2>1, <2>2, <2>3 DEF SessionInv
<1>5. CASE SendLogin(r)
    <2>1. SessionTypeOK'
        BY <1>5, MemoryFacts DEF SendLogin, Goes, Lost, Ends, Holds, SessionInv, SessionTypeOK, channelVars, blockVars, Pointers,
           CallPlaces, HandshakePlaces, LoginPlaces, SftpPlaces, Returned
    <2>2. Counted'
        BY <1>5, MemoryFacts, QuietKeeps, PointerCounts DEF SendLogin, Goes, Lost, Ends, Holds, SessionInv, Counted, SftpKnown, HeldHere, Carried,
           Up, Unopened, HandshakePlaces, LoginPlaces, SftpPlaces, channelVars, blockVars, Pointers, Blocks
    <2>3. HeldHere'
        BY <1>5, MemoryFacts DEF SendLogin, Goes, Lost, Ends, Holds, SessionInv, SessionTypeOK, HeldHere, Carried, Up, Unopened,
           HandshakePlaces, LoginPlaces, SftpPlaces, ClosePlaces, Returned, channelVars, blockVars, Pointers, Blocks
    <2> QED
        BY <2>1, <2>2, <2>3 DEF SessionInv
<1>6. CASE ReadLogin(r)
    <2>1. SessionTypeOK'
        BY <1>6, MemoryFacts DEF ReadLogin, Goes, Lost, Ends, Holds, SessionInv, SessionTypeOK, channelVars, blockVars, Pointers,
           CallPlaces, HandshakePlaces, LoginPlaces, SftpPlaces, Returned
    <2>2. Counted'
        BY <1>6, MemoryFacts, QuietKeeps, PointerCounts DEF ReadLogin, Goes, Lost, Ends, Holds, SessionInv, Counted, SftpKnown, HeldHere, Carried,
           Up, Unopened, HandshakePlaces, LoginPlaces, SftpPlaces, channelVars, blockVars, Pointers, Blocks
    <2>3. HeldHere'
        BY <1>6, MemoryFacts DEF ReadLogin, Goes, Lost, Ends, Holds, SessionInv, SessionTypeOK, HeldHere, Carried, Up, Unopened,
           HandshakePlaces, LoginPlaces, SftpPlaces, ClosePlaces, Returned, channelVars, blockVars, Pointers, Blocks
    <2> QED
        BY <2>1, <2>2, <2>3 DEF SessionInv
<1>7. CASE BeginOpen(r)
    <2>1. SessionTypeOK'
        BY <1>7, MemoryFacts DEF BeginOpen, Goes, Lost, Ends, Holds, SessionInv, SessionTypeOK, channelVars, blockVars, Pointers,
           CallPlaces, HandshakePlaces, LoginPlaces, SftpPlaces, Returned
    <2>2. Counted'
        BY <1>7, MemoryFacts, QuietKeeps, PointerCounts DEF BeginOpen, Goes, Lost, Ends, Holds, SessionInv, Counted, SftpKnown, HeldHere, Carried,
           Up, Unopened, HandshakePlaces, LoginPlaces, SftpPlaces, channelVars, blockVars, Pointers, Blocks
    <2>3. HeldHere'
        <3>1. pc = "open" /\ held \ {"banner"} = {} /\ ~listed /\ ~close_cb
              /\ live["session"] = 1 /\ "partial_packet" \notin held /\ ~abandoned
            BY <1>7 DEF BeginOpen, SessionInv, HeldHere, Carried, Up, Unopened,
               HandshakePlaces, LoginPlaces, SftpPlaces, Returned
        <3>2. live'["session"] = 1 /\ ~close_cb' /\ ~abandoned'
            BY <1>7, <3>1, MemoryFacts DEF BeginOpen, Holds, SessionInv, channelVars, blockVars,
               Blocks, Pointers
        <3> HIDE DEF Memory
        <3> QED
            BY <1>7, <3>1, <3>2 DEF BeginOpen, Goes, Lost, Ends, Holds, SessionInv, HeldHere, Carried,
               Up, Unopened, HandshakePlaces, LoginPlaces, SftpPlaces, ClosePlaces, Returned, channelVars,
               blockVars
    <2> QED
        BY <2>1, <2>2, <2>3 DEF SessionInv
<1>8. CASE SendOpen(r)
    <2>1. SessionTypeOK'
        BY <1>8, MemoryFacts DEF SendOpen, DropChannel, Goes, Lost, Ends, Holds, SessionInv, SessionTypeOK, channelVars, blockVars, Pointers,
           CallPlaces, HandshakePlaces, LoginPlaces, SftpPlaces, Returned
    <2>2. pc = "send_open" /\ listed /\ "open_packet" \in held /\ live["session"] = 1
        BY <1>8 DEF SendOpen, SessionInv, HeldHere, Carried, Up, Unopened,
           HandshakePlaces, LoginPlaces, SftpPlaces, Returned
    <2>3. socket_state' \in {socket_state, "disconnected"} /\ UNCHANGED close_cb
        BY <1>8 DEF SendOpen, Goes, Lost, Ends
    <2>4. Counted' /\ live'["session"] = 1 /\ UNCHANGED abandoned
        <3>1. CASE DropChannel
            BY <2>2, <2>3, <3>1, DropCounts
        <3>2. CASE ~DropChannel
            BY <1>8, <2>2, <2>3, <3>2, MemoryFacts, QuietKeeps, PointerCounts
               DEF SendOpen, Holds, SessionInv, Counted, SftpKnown, channelVars, blockVars, Pointers, Blocks
        <3> QED
            BY <3>1, <3>2
    <2>5. HeldHere'
        <3>1. pc = "send_open" /\ held \ {"banner"} = {"open_packet"} /\ listed /\ ~close_cb
              /\ live["session"] = 1 /\ "partial_packet" \notin held /\ ~abandoned
            BY <1>8 DEF SendOpen, SessionInv, HeldHere, Carried, Up, Unopened,
               HandshakePlaces, LoginPlaces, SftpPlaces, Returned
        <3>2. live'["session"] = 1 /\ ~close_cb' /\ ~abandoned'
            BY <2>3, <2>4, <3>1
        <3> HIDE DEF Memory
        <3> QED
            BY <1>8, <3>1, <3>2 DEF SendOpen, DropChannel, Goes, Lost, Ends, Holds, SessionInv, HeldHere, Carried,
               Up, Unopened, HandshakePlaces, LoginPlaces, SftpPlaces, ClosePlaces, Returned, channelVars,
               blockVars
    <2> QED
        BY <2>1, <2>4, <2>5 DEF SessionInv
<1>9. CASE ReadOpen(r)
    <2>1. SessionTypeOK'
        BY <1>9, MemoryFacts DEF ReadOpen, DropChannel, Goes, Lost, Ends, Holds, SessionInv, SessionTypeOK, channelVars, blockVars, Pointers,
           CallPlaces, HandshakePlaces, LoginPlaces, SftpPlaces, Returned
    <2>2. pc = "open_reply" /\ listed /\ "open_packet" \in held /\ live["session"] = 1
        BY <1>9 DEF ReadOpen, SessionInv, HeldHere, Carried, Up, Unopened,
           HandshakePlaces, LoginPlaces, SftpPlaces, Returned
    <2>3. socket_state' \in {socket_state, "disconnected"} /\ UNCHANGED close_cb
        BY <1>9 DEF ReadOpen, Goes, Lost, Ends
    <2>4. Counted' /\ live'["session"] = 1 /\ UNCHANGED abandoned
        <3>1. CASE DropChannel
            BY <2>2, <2>3, <3>1, DropCounts
        <3>2. CASE ~DropChannel
            <4>1. PICK got \in SUBSET {"process_packet"} : Holds(got, {"open_packet"})
                BY <1>9, <3>2 DEF ReadOpen
            <4>2. SessionTypeOK /\ Counted /\ Memory(got, {"open_packet"}) /\ UNCHANGED listed
                BY <1>9, <3>2, <4>1 DEF ReadOpen, Holds, SessionInv
            <4>3. "process_packet" \notin held /\ "sftp" \notin held /\ ~close_cb
                BY <1>9 DEF ReadOpen, SessionInv, HeldHere, Carried, Up, Unopened,
                   HandshakePlaces, LoginPlaces, SftpPlaces
            <4>4. held' = (held \ {"open_packet"}) \cup got
                BY <4>1 DEF Holds
            <4>5. \A b \in Pointers \ {"sftp"} : live'[b] = IF b \in held' THEN 1 ELSE 0
                BY <2>2, <4>2, <4>3, <4>4, PointerCounts DEF Counted
            <4>6. live'["session"] = live["session"] /\ live'["channel"] = live["channel"]
                  /\ live'["sftp"] = live["sftp"] /\ UNCHANGED abandoned
                BY <4>2, MemoryFacts DEF Blocks, Pointers
            <4> QED
                BY <2>2, <2>3, <4>2, <4>3, <4>4, <4>5, <4>6 DEF Counted, SftpKnown
        <3> QED
            BY <3>1, <3>2
    <2>5. HeldHere'
        <3>1. pc = "open_reply" /\ held \ {"banner"} = {"open_packet"} /\ listed /\ ~close_cb
              /\ live["session"] = 1 /\ "partial_packet" \notin held /\ ~abandoned
            BY <1>9 DEF ReadOpen, SessionInv, HeldHere, Carried, Up, Unopened,
               HandshakePlaces, LoginPlaces, SftpPlaces, Returned
        <3>2. live'["session"] = 1 /\ ~close_cb' /\ ~abandoned'
            BY <2>3, <2>4, <3>1
        <3> HIDE DEF Memory
        <3> QED
            BY <1>9, <3>1, <3>2 DEF ReadOpen, DropChannel, Goes, Lost, Ends, Holds, SessionInv, HeldHere, Carried,
               Up, Unopened, HandshakePlaces, LoginPlaces, SftpPlaces, ClosePlaces, Returned, channelVars,
               blockVars
    <2> QED
        BY <2>1, <2>4, <2>5 DEF SessionInv
<1>10. CASE SendSubsystem(r)
    <2>1. SessionTypeOK'
        BY <1>10, MemoryFacts DEF SendSubsystem, Goes, Lost, Ends, Holds, SessionInv, SessionTypeOK, channelVars, blockVars, Pointers,
           CallPlaces, HandshakePlaces, LoginPlaces, SftpPlaces, Returned
    <2>2. Counted'
        BY <1>10, MemoryFacts, QuietKeeps, PointerCounts DEF SendSubsystem, Goes, Lost, Ends, Holds, SessionInv, Counted, SftpKnown, HeldHere, Carried,
           Up, Unopened, HandshakePlaces, LoginPlaces, SftpPlaces, channelVars, blockVars, Pointers, Blocks
    <2>3. HeldHere'
        BY <1>10, MemoryFacts DEF SendSubsystem, Goes, Lost, Ends, Holds, SessionInv, SessionTypeOK, HeldHere, Carried, Up, Unopened,
           HandshakePlaces, LoginPlaces, SftpPlaces, ClosePlaces, Returned, channelVars, blockVars, Pointers, Blocks
    <2> QED
        BY <2>1, <2>2, <2>3 DEF SessionInv
<1>11. CASE ReadSubsystem(r)
    <2>1. SessionTypeOK'
        BY <1>11, MemoryFacts DEF ReadSubsystem, Goes, Lost, Ends, Holds, SessionInv, SessionTypeOK, channelVars, blockVars, Pointers,
           CallPlaces, HandshakePlaces, LoginPlaces, SftpPlaces, Returned
    <2>2. Counted'
        BY <1>11, MemoryFacts, QuietKeeps, PointerCounts DEF ReadSubsystem, Goes, Lost, Ends, Holds, SessionInv, Counted, SftpKnown, HeldHere, Carried,
           Up, Unopened, HandshakePlaces, LoginPlaces, SftpPlaces, channelVars, blockVars, Pointers, Blocks
    <2>3. HeldHere'
        <3>1. pc = "subsystem_reply" /\ held \ {"banner"} = {} /\ listed /\ ~close_cb
              /\ live["session"] = 1 /\ "partial_packet" \notin held /\ ~abandoned
            BY <1>11 DEF ReadSubsystem, SessionInv, HeldHere, Carried, Up, Unopened,
               HandshakePlaces, LoginPlaces, SftpPlaces, Returned
        <3>2. live'["session"] = 1 /\ ~close_cb' /\ ~abandoned'
            BY <1>11, <3>1, MemoryFacts DEF ReadSubsystem, Holds, SessionInv, channelVars, blockVars,
               Blocks, Pointers
        <3> HIDE DEF Memory
        <3> QED
            BY <1>11, <3>1, <3>2 DEF ReadSubsystem, Goes, Lost, Ends, Holds, SessionInv, HeldHere, Carried,
               Up, Unopened, HandshakePlaces, LoginPlaces, SftpPlaces, ClosePlaces, Returned, channelVars,
               blockVars
    <2> QED
        BY <2>1, <2>2, <2>3 DEF SessionInv
<1>12. CASE ReadVersion(r)
    <2>1. SessionTypeOK'
        BY <1>12, MemoryFacts DEF ReadVersion, Goes, Lost, Ends, Holds, SessionInv, SessionTypeOK, channelVars, blockVars, Pointers,
           CallPlaces, HandshakePlaces, LoginPlaces, SftpPlaces, Returned
    <2>2. Counted'
        BY <1>12, MemoryFacts, QuietKeeps, PointerCounts DEF ReadVersion, Goes, Lost, Ends, Holds, SessionInv, Counted, SftpKnown, HeldHere, Carried,
           Up, Unopened, HandshakePlaces, LoginPlaces, SftpPlaces, channelVars, blockVars, Pointers, Blocks
    <2>3. HeldHere'
        BY <1>12, MemoryFacts DEF ReadVersion, Goes, Lost, Ends, Holds, SessionInv, SessionTypeOK, HeldHere, Carried, Up, Unopened,
           HandshakePlaces, LoginPlaces, SftpPlaces, ClosePlaces, Returned, channelVars, blockVars, Pointers, Blocks
    <2> QED
        BY <2>1, <2>2, <2>3 DEF SessionInv
<1>13. CASE ReadHead(r)
    <2>1. SessionTypeOK'
        BY <1>13, MemoryFacts DEF ReadHead, Goes, Holds, SessionInv, SessionTypeOK, channelVars,
           Pointers
    <2>2. Counted'
        <3>1. /\ SessionTypeOK /\ Counted /\ Memory({"partial_packet"}, {})
              /\ held' = (held \ {}) \cup {"partial_packet"} /\ "partial_packet" \notin held
              /\ UNCHANGED <<socket_state, channelVars>>
            BY <1>13 DEF ReadHead, Goes, Holds, SessionInv
        <3>2. live'["session"] = live["session"] /\ live'["channel"] = live["channel"]
              /\ live'["sftp"] = live["sftp"]
            BY <3>1, MemoryFacts DEF Blocks, Pointers
        <3>3. \A b \in Pointers \ {"sftp"} : live'[b] = IF b \in held' THEN 1 ELSE 0
            BY <3>1, PointerCounts DEF Counted
        <3> QED
            BY <3>1, <3>2, <3>3 DEF Counted, SftpKnown, channelVars
    <2>3. HeldHere'
        BY <1>13, MemoryFacts DEF ReadHead, Goes, Holds, SessionInv, SessionTypeOK, HeldHere, Carried,
           Up, Unopened, HandshakePlaces, LoginPlaces, SftpPlaces, ClosePlaces, Returned, channelVars,
           Pointers, Blocks
    <2> QED
        BY <2>1, <2>2, <2>3 DEF SessionInv
<1> QED
    BY <1>1, <1>2, <1>3, <1>4, <1>5, <1>6, <1>7, <1>8, <1>9, <1>10, <1>11, <1>12, <1>13

-----------------------------------------------------------------------------
\* _libssh2_channel_free leaves nothing of the channel; the SFTP session goes with it
\* when it is closed, and stays when the server has disconnected.
LEMMA FreeKeeps ==
    ASSUME SessionInv, pc \in ClosePlaces, NEW with, FreeChannel(with),
           socket_state' \in {socket_state, "disconnected"},
           with = Abstract \/ (with = {} /\ socket_state' = "disconnected")
    PROVE  SessionInv'
<1> DEFINE freed == {"channel"} \cup (held \cap {"process_packet"}) \cup with
<1>1. SessionTypeOK /\ Counted /\ HeldHere /\ Memory({}, freed)
    BY DEF SessionInv, FreeChannel, Holds
<1>2. /\ pc' = back /\ listed' = FALSE /\ close_cb' = FALSE /\ back' = back
      /\ held' = (held \ freed) \cup {} /\ UNCHANGED <<close_sent, remote_close>>
    BY DEF FreeChannel, Holds
<1>3. with = {} \/ (with = {"sftp"} /\ close_cb)
    BY DEF Abstract
<1>4. listed /\ live["session"] = 1 /\ (close_cb => "sftp" \notin held)
      /\ (back = "ok" => held \subseteq {"banner"} /\ ~abandoned)
    BY <1>1 DEF HeldHere, ClosePlaces, Returned
<1>5. SessionTypeOK'
    <2>1. live' \in [Blocks -> Int]
        BY <1>1, MemoryFacts
    <2>2. held' \subseteq Pointers /\ pc' \in CallPlaces /\ back' \in {"ok", "free"}
        BY <1>1, <1>2 DEF SessionTypeOK, CallPlaces, FreePlaces, Returned
    <2>3. socket_state' \in {"connected", "disconnected"}
        BY <1>1 DEF SessionTypeOK
    <2>4. listed' \in BOOLEAN /\ close_cb' \in BOOLEAN
        BY <1>2
    <2>5. close_sent' \in BOOLEAN /\ remote_close' \in BOOLEAN
        BY <1>1, <1>2 DEF SessionTypeOK
    <2>6. abandoned' \in BOOLEAN
        BY <1>1, MemoryFacts DEF SessionTypeOK
    <2> QED
        BY <2>1, <2>2, <2>3, <2>4, <2>5, <2>6 DEF SessionTypeOK
<1>6. live'["session"] = 1 /\ live'["channel"] = 0 /\ UNCHANGED abandoned
      /\ live'["sftp"] = live["sftp"] - (IF with = {} THEN 0 ELSE 1)
    BY <1>1, <1>3, <1>4, MemoryFacts DEF Counted, Blocks, Pointers
<1>7. \A b \in Pointers \ {"sftp"} : live'[b] = IF b \in held' THEN 1 ELSE 0
    <2>1. \A b \in Pointers \ {"sftp"} :
              /\ b \in freed => b \in held
              /\ b \in {} /\ b \in held => b \in freed
              /\ b \in held' <=> b \in {} \/ (b \in held /\ b \notin freed)
        BY <1>2, <1>3 DEF Pointers
    <2> QED
        BY <1>1, <2>1, PointerCounts DEF Counted
<1>8. "sftp" \in held' <=> "sftp" \in held /\ with = {}
    BY <1>2, <1>3
<1>9. Counted'
    BY <1>1, <1>2, <1>3, <1>4, <1>6, <1>7, <1>8 DEF Counted, SftpKnown, Abstract
<1>10. HeldHere'
    BY <1>1, <1>2, <1>3, <1>4, <1>6 DEF SessionTypeOK, HeldHere, Up, HandshakePlaces, LoginPlaces,
       SftpPlaces, ClosePlaces, Returned
<1> QED
    BY <1>5, <1>9, <1>10 DEF SessionInv

\* Each step of the calls on the way down keeps what is held at its place.
LEMMA DownKeeps ==
    ASSUME SessionInv, NEW r,
           EnterFree \/ SendEof(r) \/ SendClose(r) \/ ReadEnd(r) \/ SendDisconnect(r)
               \/ FreeChannels \/ FreeRest
    PROVE  SessionInv'
<1>1. CASE EnterFree
    <2>1. CASE socket_state = "connected"
        <3>1. SessionTypeOK'
            BY <1>1, <2>1 DEF EnterFree, SessionInv, SessionTypeOK, channelVars, blockVars,
               CallPlaces, ClosePlaces
        <3>2. Counted'
            BY <1>1, <2>1, QuietKeeps DEF blockVars, EnterFree
        <3>3. HeldHere'
            BY <1>1, <2>1 DEF EnterFree, SessionInv, HeldHere, Up, HandshakePlaces, LoginPlaces,
               SftpPlaces, ClosePlaces, Returned, channelVars, blockVars
        <3> QED
            BY <3>1, <3>2, <3>3 DEF SessionInv
    <2>2. CASE socket_state # "connected"
        BY <1>1, <2>2, FreeKeeps DEF EnterFree, ClosePlaces
    <2> QED
        BY <2>1, <2>2
<1>2. CASE SendEof(r)
    <2>1. SessionTypeOK'
        BY <1>2 DEF SendEof, Goes, Lost, SessionInv, SessionTypeOK, channelVars, blockVars,
           CallPlaces, ClosePlaces
    <2>2. Counted'
        BY <1>2, QuietKeeps DEF blockVars, SendEof, Goes, Lost
    <2>3. HeldHere'
        BY <1>2 DEF SendEof, Goes, Lost, SessionInv, HeldHere, Up, HandshakePlaces, LoginPlaces,
           SftpPlaces, ClosePlaces, Returned, channelVars, blockVars
    <2> QED
        BY <2>1, <2>2, <2>3 DEF SessionInv
<1>3. CASE SendClose(r)
    <2>0. pc \in ClosePlaces
        BY <1>3 DEF SendClose, ClosePlaces
    <2>1. CASE FreeChannel(Abstract) /\ socket_state' \in {socket_state, "disconnected"}
        BY <2>0, <2>1, FreeKeeps
    <2>2. CASE FreeChannel({}) /\ socket_state = "disconnected" /\ UNCHANGED socket_state
        BY <2>0, <2>2, FreeKeeps
    <2>3. CASE /\ Goes("end") /\ close_sent' = TRUE
               /\ UNCHANGED <<back, listed, close_cb, remote_close, blockVars>>
        <3>1. /\ pc = "send_close" /\ Goes("end") /\ close_sent' = TRUE
              /\ UNCHANGED <<back, listed, close_cb, remote_close, blockVars>>
            BY <1>3, <2>3 DEF SendClose
        <3>2. SessionTypeOK'
            BY <3>1 DEF Goes, SessionInv, SessionTypeOK, blockVars, CallPlaces, ClosePlaces
        <3>3. Counted'
            BY <3>1 DEF Goes, SessionInv, Counted, SftpKnown, blockVars
        <3>4. HeldHere'
            BY <3>1 DEF Goes, SessionInv, HeldHere, Up, HandshakePlaces, LoginPlaces,
               SftpPlaces, ClosePlaces, Returned, blockVars
        <3> QED
            BY <3>2, <3>3, <3>4 DEF SessionInv
    <2> QED
        BY <1>3, <2>1, <2>2, <2>3 DEF SendClose
<1>4. CASE ReadEnd(r)
    <2>1. socket_state' \in {socket_state, "disconnected"}
        BY <1>4 DEF ReadEnd
    <2> QED
        BY <1>4, <2>1, FreeKeeps DEF ReadEnd, ClosePlaces
<1>5. CASE SendDisconnect(r)
    <2>1. SessionTypeOK'
        BY <1>5 DEF SendDisconnect, Goes, Lost, SessionInv, SessionTypeOK, channelVars, blockVars,
           CallPlaces, FreePlaces
    <2>2. Counted'
        BY <1>5, QuietKeeps DEF blockVars, SendDisconnect, Goes, Lost
    <2>3. HeldHere'
        BY <1>5 DEF SendDisconnect, Goes, Lost, SessionInv, HeldHere, Up, HandshakePlaces, LoginPlaces,
           SftpPlaces, ClosePlaces, Returned, channelVars, blockVars
    <2> QED
        BY <2>1, <2>2, <2>3 DEF SessionInv
<1>6. CASE FreeChannels
    <2>1. SessionTypeOK'
        BY <1>6 DEF FreeChannels, Goes, SessionInv, SessionTypeOK, channelVars, blockVars,
           CallPlaces, ClosePlaces
    <2>2. Counted'
        BY <1>6, QuietKeeps DEF blockVars, FreeChannels, Goes
    <2>3. HeldHere'
        BY <1>6 DEF FreeChannels, Goes, SessionInv, HeldHere, Up, HandshakePlaces, LoginPlaces,
           SftpPlaces, ClosePlaces, Returned, channelVars, blockVars
    <2> QED
        BY <2>1, <2>2, <2>3 DEF SessionInv
<1>7. CASE FreeRest
    <2> DEFINE freed == (held \ {"process_packet", "partial_packet"}) \cup {"session"}
    <2>1. /\ pc = "free" /\ ~listed /\ pc' = "ok" /\ UNCHANGED <<socket_state, back, channelVars>>
          /\ held' = held \cap {"process_packet", "partial_packet"} /\ Memory({}, freed)
        BY <1>7 DEF FreeRest, Goes
    <2>2. SessionTypeOK /\ Counted /\ HeldHere
        BY DEF SessionInv
    <2>3. held' \subseteq {"partial_packet"} /\ ~close_cb /\ live["session"] = 1
        BY <2>1, <2>2 DEF HeldHere, Returned
    <2>4. "process_packet" \notin held
        BY <2>1, <2>2 DEF HeldHere
    <2>5. live' \in [Blocks -> Int] /\ live'["session"] = 0 /\ live'["channel"] = live["channel"]
          /\ UNCHANGED abandoned
          /\ live'["sftp"] = live["sftp"] - (IF "sftp" \in held THEN 1 ELSE 0)
        <3>1. /\ live' \in [Blocks -> Int] /\ UNCHANGED abandoned
              /\ \A b \in Blocks : b \notin freed => live'[b] = live[b]
              /\ \A b \in Blocks : b \in freed => live'[b] = live[b] - 1
            BY <2>1, <2>2, MemoryFacts
        <3>2. "session" \in freed /\ "channel" \notin freed
              /\ ("sftp" \in freed <=> "sftp" \in held)
            BY <2>2 DEF SessionTypeOK, Pointers
        <3>3. "session" \in Blocks /\ "channel" \in Blocks /\ "sftp" \in Blocks
            BY DEF Blocks, Pointers
        <3> HIDE DEF freed
        <3>4. live["sftp"] \in {0, 1}
            BY <2>2 DEF Counted
        <3> QED
            BY <2>3, <3>1, <3>2, <3>3, <3>4
    <2>6. \A b \in Pointers \ {"sftp"} : live'[b] = IF b \in held' THEN 1 ELSE 0
        <3>1. \A b \in Pointers \ {"sftp"} :
                  /\ b \in freed => b \in held
                  /\ b \in {} /\ b \in held => b \in freed
                  /\ b \in held' <=> b \in {} \/ (b \in held /\ b \notin freed)
            BY <2>1, <2>4 DEF Pointers
        <3> QED
            BY <2>1, <2>2, <3>1, PointerCounts DEF Counted
    <2>7. SessionTypeOK'
        BY <2>1, <2>2, <2>3, <2>5 DEF SessionTypeOK, CallPlaces, Returned, channelVars
    <2>8. Counted'
        BY <2>1, <2>2, <2>3, <2>5, <2>6 DEF Counted, SftpKnown, channelVars
    <2>9. HeldHere'
        BY <2>1, <2>2, <2>3, <2>5 DEF HeldHere, Up, HandshakePlaces, LoginPlaces,
           SftpPlaces, ClosePlaces, Returned, channelVars
    <2> QED
        BY <2>7, <2>8, <2>9 DEF SessionInv
<1> QED
    BY <1>1, <1>2, <1>3, <1>4, <1>5, <1>6, <1>7

\* A call that is given up, and a server that leaves, change nothing of that.
LEMMA StopKeeps ==
    ASSUME SessionInv, WaitFails \/ ServerCloses \/ ServerDisconnects
    PROVE  SessionInv'
<1>1. CASE WaitFails
    <2>1. SessionTypeOK'
        BY <1>1 DEF WaitFails, SessionInv, SessionTypeOK, channelVars, blockVars,
           CallPlaces, FreePlaces, Returned
    <2>2. Counted'
        BY <1>1, QuietKeeps DEF WaitFails
    <2>3. HeldHere'
        BY <1>1 DEF WaitFails, Busy, SessionInv, HeldHere, Up, HandshakePlaces, LoginPlaces,
           SftpPlaces, ClosePlaces, Returned, channelVars, blockVars
    <2> QED
        BY <2>1, <2>2, <2>3 DEF SessionInv
<1>2. CASE ServerCloses
    <2>1. UNCHANGED <<pc, back, socket_state, listed, close_cb, close_sent, blockVars>>
          /\ remote_close' = TRUE
        BY <1>2 DEF ServerCloses
    <2>2. SessionTypeOK'
        BY <2>1 DEF SessionInv, SessionTypeOK, blockVars
    <2>3. Counted' /\ HeldHere'
        BY <2>1 DEF SessionInv, Counted, HeldHere, SftpKnown, Carried, blockVars
    <2> QED
        BY <2>2, <2>3 DEF SessionInv
<1>3. CASE ServerDisconnects
    <2>1. SessionTypeOK'
        BY <1>3 DEF ServerDisconnects, SessionInv, SessionTypeOK, channelVars, blockVars
    <2>2. Counted'
        BY <1>3, QuietKeeps DEF blockVars, ServerDisconnects
    <2>3. HeldHere'
        BY <1>3 DEF ServerDisconnects, SessionInv, HeldHere, Up, HandshakePlaces, LoginPlaces,
           SftpPlaces, ClosePlaces, Returned, channelVars, blockVars
    <2> QED
        BY <2>1, <2>2, <2>3 DEF SessionInv
<1> QED
    BY <1>1, <1>2, <1>3

\* Every step of a call keeps the invariant of the session.
LEMMA LibraryKeeps == ASSUME SessionInv, NEW r, Library(r) PROVE SessionInv'
BY UpKeeps, DownKeeps DEF Library

\* A call stays among its own places until it returns.  On the way up it returns with
\* success only on a socket that is connected; the session is freed at the very end.
LEMMA CallStays ==
    ASSUME SessionInv, NEW r, Library(r) \/ WaitFails
    PROVE  /\ pc \in HandshakePlaces =>
                  pc' \in HandshakePlaces \cup Returned /\ UNCHANGED <<listed, close_cb>>
           /\ pc \in LoginPlaces =>
                  pc' \in LoginPlaces \cup Returned /\ UNCHANGED <<listed, close_cb>>
           /\ pc \in SftpPlaces => pc' \in SftpPlaces \cup Returned
           /\ pc \in SftpPlaces /\ pc' = "ok" => close_cb'
           /\ pc \in Up /\ pc' = "ok" => socket_state' = "connected"
           /\ pc \in ClosePlaces =>
                  /\ pc' \in ClosePlaces \cup {back, "failed"}
                  /\ back' = back
                  /\ pc' # back => close_cb' = close_cb
           /\ pc \in FreePlaces =>
                  /\ pc' \in ClosePlaces \cup FreePlaces \cup Returned
                  /\ pc' \in ClosePlaces => back' = "free"
           /\ ~FreeRest => live'["session"] = live["session"] /\ pc \notin Returned
                           /\ (pc \in FreePlaces => pc' # "ok")
           /\ FreeRest => live'["session"] = live["session"] - 1 /\ pc = "free" /\ pc' = "ok"
<1> USE DEF HandshakePlaces, LoginPlaces, SftpPlaces, ClosePlaces, FreePlaces, Returned
<1>1. SessionTypeOK /\ HeldHere
    BY DEF SessionInv
<1>2. CASE WaitFails
    <2>1. UNCHANGED <<back, socket_state, channelVars, held, live>> /\ pc \notin Busy
          /\ pc' = IF pc = "send_disconnect" THEN "free" ELSE "failed"
        BY <1>2 DEF WaitFails
    <2>2. ~FreeRest
        BY <2>1 DEF FreeRest, Goes
    <2> QED
        BY <2>1, <2>2 DEF channelVars, blockVars, Busy
<1>3. CASE Advance(r) \/ ReadBanner(r) \/ ReadService(r)
    <2>1. pc \in HandshakePlaces \cup {"send_init"} /\ ~FreeRest
        BY <1>3 DEF Advance, ReadBanner, ReadService, After, FreeRest
    <2>2. (pc = "send_init" /\ pc' \in {"version", "failed"})
          \/ (pc # "send_init" /\ pc' \in HandshakePlaces \cup Returned)
        BY <1>3, <2>1 DEF Advance, ReadBanner, ReadService, After, Goes, Lost, Ends
    <2>3. UNCHANGED <<listed, close_cb>> /\ (pc' = "ok" => UNCHANGED socket_state)
        BY <1>3 DEF Advance, ReadBanner, ReadService, After, Goes, Lost, Ends, channelVars
    <2>4. live'["session"] = live["session"]
        BY <1>1, <1>3, MemoryFacts DEF Advance, ReadBanner, ReadService, Holds, blockVars, Blocks, Pointers
    <2> QED
        BY <1>1, <2>1, <2>2, <2>3, <2>4 DEF HeldHere, Up
<1>4. CASE BeginLogin(r) \/ SendLogin(r) \/ ReadLogin(r)
    <2>1. pc \in LoginPlaces /\ ~FreeRest
        BY <1>4 DEF BeginLogin, SendLogin, ReadLogin, FreeRest
    <2>2. pc' \in LoginPlaces \cup Returned
        BY <1>4 DEF BeginLogin, SendLogin, ReadLogin, Goes, Lost, Ends
    <2>3. UNCHANGED <<listed, close_cb>> /\ (pc' = "ok" => UNCHANGED socket_state)
        BY <1>4 DEF BeginLogin, SendLogin, ReadLogin, Goes, Lost, Ends, channelVars
    <2>4. live'["session"] = live["session"]
        BY <1>1, <1>4, MemoryFacts DEF BeginLogin, SendLogin, ReadLogin, Holds, blockVars, Blocks, Pointers
    <2> QED
        BY <1>1, <2>1, <2>2, <2>3, <2>4 DEF HeldHere, Up
<1>5. CASE \/ BeginOpen(r) \/ SendOpen(r) \/ ReadOpen(r)
           \/ SendSubsystem(r) \/ ReadSubsystem(r) \/ ReadHead(r) \/ ReadVersion(r)
    <2>1. pc \in SftpPlaces /\ ~FreeRest
        BY <1>5 DEF BeginOpen, SendOpen, ReadOpen, SendSubsystem, ReadSubsystem, ReadHead, ReadVersion, FreeRest
    <2>2. pc' \in SftpPlaces \cup Returned /\ (pc' = "ok" => close_cb' /\ UNCHANGED socket_state)
        BY <1>5 DEF BeginOpen, SendOpen, ReadOpen, SendSubsystem, ReadSubsystem, ReadHead, ReadVersion,
           Goes, Lost, Ends
    <2>3. live'["session"] = live["session"]
        BY <1>1, <1>5, MemoryFacts DEF BeginOpen, SendOpen, ReadOpen, SendSubsystem, ReadSubsystem,
           ReadHead, ReadVersion, DropChannel, Holds, blockVars, Blocks, Pointers
    <2> QED
        BY <1>1, <2>1, <2>2, <2>3 DEF HeldHere, Up
<1>6. CASE EnterFree \/ SendEof(r) \/ SendClose(r) \/ ReadEnd(r)
    <2>1. pc \in ClosePlaces /\ ~FreeRest /\ back' = back
        BY <1>6 DEF EnterFree, SendEof, SendClose, ReadEnd, FreeRest, FreeChannel
    <2>2. pc' = back \/ (pc' \in ClosePlaces /\ UNCHANGED close_cb)
        BY <1>6 DEF EnterFree, SendEof, SendClose, ReadEnd, FreeChannel, Goes, Lost, channelVars
    <2>3. live'["session"] = live["session"]
        BY <1>1, <1>6, MemoryFacts DEF EnterFree, SendEof, SendClose, ReadEnd, FreeChannel, Abstract,
           Holds, blockVars, Blocks, Pointers
    <2> QED
        BY <2>1, <2>2, <2>3 DEF Up
<1>7. CASE SendDisconnect(r) \/ FreeChannels
    <2>1. pc \in FreePlaces /\ ~FreeRest /\ UNCHANGED live
        BY <1>7 DEF SendDisconnect, FreeChannels, FreeRest, blockVars, channelVars
    <2>2. pc' = "free" \/ (pc' = "channel_free" /\ back' = "free")
        BY <1>7 DEF SendDisconnect, FreeChannels, Goes, Lost
    <2> QED
        BY <2>1, <2>2 DEF Up
<1>8. CASE FreeRest
    <2>1. pc = "free" /\ pc' = "ok"
        BY <1>8 DEF FreeRest, Goes
    <2>2. live'["session"] = live["session"] - 1
        BY <1>1, <1>8, MemoryFacts DEF FreeRest, Blocks, Pointers
    <2> QED
        BY <1>8, <2>1, <2>2 DEF Up
<1> QED
    BY <1>2, <1>3, <1>4, <1>5, <1>6, <1>7, <1>8 DEF Library
=============================================================================
