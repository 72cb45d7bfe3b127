# Verification of ssh-exec

`ssh-exec` copies files to remote hosts over SSH: it reads a YAML file with a
list of `remotes` and a list of `exec` items (`copy` commands with files and
settings), connects to each remote in turn with libssh2 and performs the
commands through SFTP.  The program is `src/src/ssh-exec/main.cpp`; the parts of
libssh2 it depends on most are in `src/ext/lib/libssh2/src`.

This directory holds TLA+ models of that code, their TLC configurations, and
proofs checked by TLAPS.  `PROJECT.json` maps each definition to the lines it
models.

## The system

| part | where | state it keeps | operations | hard about it |
|---|---|---|---|---|
| command line | main.cpp 820-872 | path of the config file | read once | nothing |
| lambda-try macros | main.cpp 62-225 | - | a block with a `finally` part on every way out | values of inner blocks are dropped |
| remotes reader | main.cpp 264-275, 357-461 | the record being read, the list | `read_remotes_yaml`, `add_remote` | a record ends at the next key `name`, not with its list item; uninitialised address; width of ports |
| exec reader, copy settings | main.cpp 237-345, 463-818 | stack of inherited settings, list of commands | `read_exec_yaml`, `read_exec_copy_yaml`, `read_exec_copy_files_yaml`, `read_exec_copy_settings_yaml`, `update_inherited_stack` | which flag is in force for which file after any sequence of items |
| main driver | main.cpp 881-957, 1154-1176 | is WSA / libssh2 initialised, `remotes_stack`, `exec` | one pass over the keys of the document | `exec` before `remotes`; repeated keys; clean-up on every way out |
| session ladder | main.cpp 958-1040, 1120-1147 | socket, SSH session, SFTP session | connect, handshake, login, sftp_init, and back | partial failure on each rung; every remote is tried |
| session calls | libssh2 session.c 104-281, 568-1194, userauth.c 284-556, channel.c 129-349, 1524-1625, 2495-2891, sftp.c 773-1118 | where each call was when it had to wait, the blocks of memory it has, the channel | `session_startup`, `userauth_password`, `sftp_init`, `sftp_shutdown`, `session_disconnect`, `session_free` | a call may be given up at any wait, and others have to free what it held; the server may close or disconnect at any time |
| copy command | main.cpp 1041-1119 | local file, SFTP handle, block | open, read, write, compare, close | short counts; refused writes; a lost connection; what one file leaves on the wire for the next |
| write pipeline | libssh2 sftp.c 2035-2302, 184-563 | handle offsets, chunk list, request ids, zombies, packet queue | `libssh2_sftp_write` and its helpers | requests sent ahead of their answers; partial sends; retries with other lengths; late answers |
| SSH packet layer | libssh2 transport.c 759-1057, packet.c, kex.c 4015-4193, channel.c 2337-2445 | the one outgoing packet, the reply owed, the exchange of keys, the channel's window | `_libssh2_transport_send`, `packet_add`, `_libssh2_kex_exchange`, `_libssh2_channel_write` | data, replies and new keys share one packet that goes out in parts; any of them may stop half way |
| packet reader | libssh2 transport.c 120-756 | the buffer, the packet being read, `readPack_state` | `_libssh2_transport_read`, `decrypt`, `fullpacket` | recv cuts the stream anywhere; three ways of protection; what may go through decryption and when |
| rest of libssh2, rapidyaml | src/ext/lib | - | - | cryptography, parsing: third-party code, used as it is |

The exec reader turns the document into `exec.commands`.  The session ladder
goes through the remotes; for each, the copy commands run on one SFTP session,
and every block of a file is one call of the write pipeline.  The pipeline hands
its requests to the packet layer, one at a time, and takes answers from the
queue that the packet reader fills.  The program is
one thread.  The concurrency is between it and the server: requests and answers
are under way at the same time, the server makes room in the channel's window
when it likes, it may refuse, and the connection may die.

## Modules

| module | models | extends / uses |
|---|---|---|
| `Upload` | abstract: what a caller of `libssh2_sftp_write` may rely on | |
| `SftpWrite` | the write pipeline with its server | implements `Upload` |
| `SftpWriteProofs` | proofs about `SftpWrite` | |
| `FileCopy` | the loop over the copy commands on one session | extends `SftpWrite`, implements `CopyLoop` |
| `FileCopyProofs` | proofs about `FileCopy` | extends `SftpWriteProofs` |
| `Transport` | the SSH packet layer with its server | |
| `TransportProofs` | proofs about `Transport` | |
| `PacketRead` | the packet reader | |
| `PacketReadProofs` | proofs about `PacketRead` | |
| `ExecConfig` | the reader of the `exec` list | |
| `ExecConfigProofs` | proofs about `ExecConfig` | |
| `Remotes` | the reader of the `remotes` list | |
| `RemotesProofs` | proofs about `Remotes` | |
| `CopyLoop` | abstract: what a session may rely on while its commands run | implemented by `FileCopy` |
| `SshSession` | the calls of libssh2 that make and release a session | |
| `SshSessionProofs` | proofs about `SshSession` | |
| `SshExec` | main: the keys of the document, the session ladder, the clean-up | extends `CopyLoop` and `SshSession` |
| `SshExecProofs` | proofs about `SshExec` | extends `SshSessionProofs` |
| `MC...` | values for TLC | |

### SftpWrite

State: the fields of the handle (`offset`, `offset_sent`, `file_acked` for
`u.file.acked`, `packet_list`), of the SFTP session (`write_state`, `next_id`
for `request_id`, `zombies` for `zombie_requests`), of the running call (`pc`,
`org_count`, `count`, `acked`), of its caller (`pos`, `ret`), and the network:
`window`, the requests on the `wire`, the `replies` (on their way or in
`sftp->packets`), the server's file `remote`.

`remote` holds for each offset which source byte was written there, so a byte
is its own position in the source; `Garbage` is a byte of another packet.  One
action per step of `sftp_write`: `Enter` (skip what is in chunks or kept),
`MakeChunk`/`ChunksMade`/`AllocFails`, `SendChunk`/`SendStops`/`AllSent`,
`TakeAck`/`TakeRejection`/`NoAnswer`/`Report`, and `WaitEnds`/`WaitFails` for
the loop of `BLOCK_ADJUST`.  `Flush` is `sftp_packetlist_flush`, `Answer` the
zombie test of `sftp_packet_add`.

Left out: SSH transport packets and encryption below `_libssh2_channel_write`
(a full socket buffer looks like a closed window), answers that are not well
formed, the headers of requests (a packet is as long as its data), the wrap of
the 32-bit request id.  The server works on requests in the order of their
arrival, as the protocol demands; refused writes may store a part.  A request
whose end is never sent is completed by the server with the bytes that follow
(`ServerLosesFraming`); after that the server makes nothing of what it gets.

The caller in this module is the one the manual page describes: it passes any
number of the bytes that were not reported yet and calls again, also after an
error.  `FileCopy` puts the program's own caller in its place.  `InitSize` is
what `libssh2_sftp_init` used of the window before: the pipeline begins with
the rest.

### FileCopy

Adds the place `at` of the command loop, the local file (`from_len`,
`from_pos`), the block (`read_bytes`), whether `sftp_handle` is open, and what
the command came to (`outcome`, which only properties read).  Actions:
`StartCommand`, `OpenLocal`, `ReadAndWrite` (`fread`, then the call),
`ReadEnds`, `WriteReturned` (the comparison of main.cpp:1092), `CloseLocal` (the
end of the finally part), `SessionStops`.  `CopiedIsWhole` says that a copy
without an error is whole up to where reading ended: the end of the file, or the
first failed `fread`, which the loop cannot tell from it (`read_failed`).

Opening a remote file is `sftp_open` with its waits.  `open_state` is
`sftp->open_state`, `open_left` the rest of its packet, `open_for` the command
whose file the packet names.  `OpenBegins` makes the request,
`OpenSends` passes to the channel what the window takes, `OpenRemote` and
`OpenRemoteFails` are the answer; `OpenNotBegun` and `OpenSendFails` are the
errors that forget the request, `OpenWaitFails` and a part sent
(`OpenLeavesRequest`) those that keep it in the SFTP session.  `abandoned` has
the commands that left their request so, and only `OneFileAtATime` reads it.
Closing is `CloseSends`, `CloseRemote` with the answer, and `CloseIsCut` where
the window takes a part of the request: `sftp_close_handle` gives up then
(`cut`), and the server waits for the rest for ever.  Both requests are
exchanges on the channel of the writes, so they are answered after all writes
sent before (`Exchanged`).  A request is `RequestLen` bytes long;
`OpenFaults` is whether the waits of the open may fail or time out
(`packet_read_timeout`).

Left out: the flags of a command, which no line of the loop tests, and a wait
that fails inside `libssh2_sftp_write` or `libssh2_sftp_close` (the assumption
`CopyAssumption`).  An answer that comes after the open timed out leaves its
handle open at the server, which nothing here can see.

### Transport

The layer below a channel write, with packets as a kind and a number.  `pend` is
`session->packet`, what the socket has taken of the current packet; `request` is
the request whose reply `packet_add` owes (`packAdd_state`); `kex` is the next
step of an exchange of keys, `nested` whether it runs inside the `packet_add` of
the server's KEXINIT.  `app` is the call of the program: `drain` and `send` are
the two halves of `_libssh2_channel_write`, `wait` is `packet_require`.  One
action is one call of `_libssh2_transport_read` or `_libssh2_transport_send`
with what its callers do with the result: `ReadAdjust`, `ReadAnswer`,
`ReadRequest`/`ResumeReply`, `ReadKexInit`, `KexSend`, `KexRead`,
`KexNothingArrived`, `KexFails`, `SendData`, `NothingArrived`, `ConnectionLost`.
Every send goes through `SendOutcomes`: it moves the packet that is in
`session->packet`, whatever packet was passed.  The server answers data,
makes room, asks for replies and for new keys; during an exchange it sends
nothing else, as RFC 4253 demands.

`socket_block_directions` is kept by what it does: a wait of the program polls for
output whenever a packet is half sent, because `transport_send` asked for it, but
for one place.  Where the drain finds no window left, channel.c:2390 overwrites the
directions with INBOUND.  `Deaf` is that state: with a packet half sent, the wait
is for input alone.  The call then goes on when input arrives (`MayWake`), and
nothing else may wake it.

`AskAlways` is the condition the module is about.  With `FALSE` the server sends
requests only while the program waits for answers, and everything below holds;
with `TRUE` a request may arrive in the drain of `_libssh2_channel_write`, which
takes the `EAGAIN` of a half sent reply for the end of what has arrived.

Left out: the contents of packets, sizes in bytes, more than one channel, new
keys the program asks for itself, window adjusts of the client (it only sends,
and its answers are small), errors between the steps of one call that leave
nothing behind.

### PacketRead

Bytes are positions in the server's stream, so the module is arithmetic:
`taken` and `received` bound the buffer, `total_num` and `data_num` are those of
the packet, `clear` counts what went through decryption, `last_part` is what its
last call of the cipher got.  Actions are stretches of the loop: `Call`,
`EnoughInBuffer`/`Recv`/`RecvWaits`, `BeginPacket`/`BeginWaits`, `Collect`, and
`Delivered`/`DeliveryWaits` for `packet_add` (`jump` is `readPack_state` jump1).
`suite` is how the server protects its packets; `local_etm` is what the reader
takes it to be, for the code asks `session->local.mac` and the flags of the
outgoing cipher.  `Alike` says that the two agree; a negotiation that picks a
different kind for each direction is not kept apart by the reader.

Left out: ciphers, MACs, compression as functions, malformed lengths other than
zero, `encrypt_then_mac` with compression.

### ExecConfig

One action per node of the document, chosen as it is read: `ExecItem`
(with or without settings), `CopySettings` (the map form), `CopyItem` (files,
settings, or both), `FilesItem`, the ends of the lists, and `Malformed` for
every error path.  `stack` is `copy_settings_stack`; `Inherited` is
`update_inherited_stack`, `AfterSettings` is `read_exec_copy_settings_yaml`.
Names of files are left out, but for whether a `from` was read in this list.
`said` records the document and not the stack: which decisions stand in front of
the item, for all exec items or in this list, which is the last of them, in whose
settings the no-overwrite flag is, and how many copy items with settings came
before in the list.  Only properties read it.

`NoFlagScope` and `NextScope` say what main.cpp:243-244 say of the two flags as far
as the code keeps to it.  The
exceptions are written as such: `Uncleared` for the one item whose flag others get,
`Levels` for the number of items with settings that find a level on the stack.
Behind the exceptions `NextScope` says no more than that the decision is one of
those in front of the item, and `NoFlagScope` nothing.  Without the exceptions TLC
finds both violated, see "What reading showed besides".

### Remotes

One action per key, chosen as it is read: `NameKey`, `NameWithoutValue`,
`UserKey`, `PassKey`, `AddressKey`, `PortKey`, `KeyWithoutValue`; `NextItem`,
`ListEnds` and `RemoteRefused` for the rest.  `remote_to_add` is the record the
code fills; its first content is any address and port, as `remote
remote_to_add;` leaves them.  `AddPending` is the call of `add_remote`.  Three
variables only properties read: `named` and `tidy` tell whether every item so
far begins with its only name, and `document` is what such items say.  The field
`from` of a record tells where its address comes from: what was in `memory`, the
`zero` of a new record, the `text` of its own key, or a text that `inet_pton`
`refused`, which leaves whatever was on the stack (main.cpp:430-435).

The reader cuts remotes at the key `name`.  A key in front of it goes to the
remote before: in a document with `pass` before `name`, each remote gets the
password of the next and nothing is reported.  No line of the repository says
that the name must come first, so `ItemsAreRemotes` is about documents where it
does.

### SshSession

One call of libssh2 at a time: `pc` is the place where it is, which stands for
the `..._state` fields of the session and the channel (`startup_state`,
`userauth_pswd_state`, `open_state`, `process_state`, `sftpInit_state`,
`close_state`, `free_state`).  There is a place for every wait and one for every
allocation.  A step has an outcome: `done`, or `lost` for a send or a read that
fails and for an allocation that does; a refusal by the server is a choice within `done`.
`WaitFails` is the other end: `_libssh2_wait_socket` fails, and the call returns
with its state and its memory as they are (`BLOCK_ADJUST`).

`live` counts the blocks that were allocated and not freed, `held` is the set of
pointers that lead to them (`session->remote.banner`, `open_packet`,
`channel->process_packet`, `sftpInit_sftp`...), so that a block freed twice is a
count below 0 and a block that nobody will free is a count that stays.  `listed`
and `close_cb` are the channel's own: on `session->channels`, with
`libssh2_sftp_dtor` for its callback.  Blocks that a call gets and frees between
two waits, and what the exchange of keys and `libssh2_sftp_write` allocate, are
left out.  One that a call keeps over a wait is not: `partial_packet` is
`sftp->partial_packet`, which `sftp_packet_read` has from the head of the version
on (`ReadHead`) and frees with its end or with an error.  Nothing but that call
knows of it: `session_free` frees the structure of an SFTP session that was not
finished and not what it points to.  `abandoned` remembers, for the properties, that
the wait for the rest was given up.  An EOF
that failed is not tried a second time once the close was sent.

`ServerCloses` and `ServerDisconnects` happen at any time from the moment the
channel is there.  With `ClosesEarly` the server may close the channel also in
place of the answer to the subsystem request or of the version.

### SshExec

`at` is the place of the program; the rungs of the ladder are `sock`,
`ssh_session` and `sftp_session`, one action each (`CreateSocket` to
`StartSftp`), with `GiveUp` for a return from the block of a remote and
`ShutdownSftp`, `FreeSession`, `CloseSocket` for its finally part.  A rung that is
a call of libssh2 begins with `Calls`, goes on with the steps of `SshSession`
(`CallProceeds`, `CallStops`), and ends with the action of the rung once `pc` is
`ok` or `failed`; on the way down that is `DropSftp` and `DropSession`.  The flags
`is_wsa_inited` and `is_libssh2_inited` are beside the counts of what they stand
for: `wsa` and `libssh2_initialized` (`_libssh2_initialized` of global.c).  The
two lists are their lengths, chosen when the key is read; the commands of a
session are `CopyLoop`, with one step for each of a command's ends; meanwhile the
server may leave (`ServerLeaves`).  `tried`,
`opened` and `begun` are read by properties only.

Left out: exceptions that pass through the blocks (out of memory), the abort of
the YAML parser on a malformed document, a command line that is refused.

## Runs

| run | question | bounds |
|---|---|---|
| `sftp_write_faults` | is what a call reports stored, and is the bookkeeping exact, with every fault on? Does the pipeline implement `Upload`? | 4 bytes, packets of 2, calls of up to 4, window 3 |
| `sftp_write_live` | does every call return, is everything reported in the end, do requests stay framed? no faults | 5 bytes, packets of 2, window 3 |
| `copy_faults` | two commands on a faulty connection: is a copy that ends without an error exact; is one file's traffic kept from the other's? Does the loop implement `CopyLoop`? | files of up to 5 bytes, packets of 2, blocks of up to 5, window 3 of which 2 are used by the start, requests of 2 bytes to open and close, waits of the open may fail |
| `copy_ends` | does the session end, with refused writes, failing reads and a lost connection? | files of up to 4 bytes, window 20 of which 4 are used, requests of 2 bytes |
| `copy_short_count` | violation: main.cpp:1092 | no faults; as in the code, a block takes three packets |
| `config_reads` | scope of the settings for every document | settings with up to 2 flags, 3 commands |
| `remotes_reads` | is the list what the document says, whatever keys come in what order, and every address one that the document gave? | two names, users and passwords besides the empty text, an address besides 0.0.0.0, two ports besides 0, texts that `inet_pton` refuses |
| `ssh_exec_runs` | whatever fails for which remote, and wherever a call of libssh2 is given up, is every resource and every block released in order and once, every remote tried, and does the program end? | up to 4 lists, 3 remotes, 3 commands |
| `transport_runs` | does every packet have a sender that comes back for it; do data, replies and exchanges of keys not mix; do the calls end, but for the wait of `transport_deaf`? | 3 data packets that go out in 2 parts, window 1, 2 exchanges, 2 requests |
| `transport_lost` | violation: transport.c:772 | the same with one exchange and one request, at any time (`AskAlways`) |
| `transport_deaf` | violation: channel.c:2390 | 2 data packets, one exchange, no request; the socket takes a packet or nothing of it |
| `packet_read` | are packets cut where the server joined them, does decryption get what it must, does no call wait for what it has? | blocks of 8, MAC of 5, payloads of 1 and 14, 3 packets of which the first is plain, a buffer of 20 |

Why the bounds are enough.  The pipeline tells apart: a chunk that is unsent,
begun, sent or answered; a window that closes before, in or after a packet; a
buffer that is longer or shorter than what is under way.  With packets of two
bytes and a window of three, the second packet is cut in its middle; four bytes
give two chunks at a time, and with calls of odd lengths up to four, also after
a rewind.  `MaxRequests` is six, so that a failed attempt is followed by a whole
second one.  In `copy_*` the proportion of buffer to packet is that of the code
(65536 to 30000: a block takes three packets, the last one shorter).
`MaxRequests` of `FileCopy` is never reached.  Its window of one byte at the start, refilled
by the server, cuts the request of an open in its middle, with and without
another command to follow, and that of a close.  In `ExecConfig` only the list of
commands is unbounded; the reader never looks at it, except whether it is empty.

Two names are enough for `Remotes`: a list of two remotes and a third record to
compare with both.  In `SshExec` nothing depends on a number, but for being the
first, the last or another; the proofs have no bound.

In `Transport` a packet in two parts is one that may be met half sent; a window
of one makes every packet but the first wait for the server, and with the
second exchange and request one may follow or meet another.  In `PacketRead` a
payload of 1 makes a packet of two blocks (16 bytes on the wire, 20 where the
length is in the clear) and one of 14 the next size, so that a packet
is shorter than the buffer, or longer; a MAC of 5 is no part of a block; recv
yields any number of bytes.  Sizes of blocks above 5 are what the code needs
(`BeginPacket` keeps the block without its 5 bytes).  With `Alike` set to
`FALSE`, `InStep` is violated.

Deadlock is not checked: a copy session, a reading of the document and a run of
the bounded caller really end.

Fairness.  The program is one thread that runs on while it can (`Library`,
`CommandLoop`); a server that is up works on the requests it has
(`ServerWrites`) and makes room in the window (`WindowOpens`).  These are weak:
each stays enabled until it is taken.  In `SshExec` the
steps of main and those of a call that succeed (`CallProceeds("done")`) are
taken while one of them can be: the server answers what it is asked, and a
command's calls return, which `FileCopy` shows for its part under the condition below.
`ProgramEnds` needs a server that answers before it closes the channel
(`ClosesEarly = FALSE`); with `TRUE` TLC finds the endless wait described under
"What reading showed besides".  Nothing forces a fault: the runs that
check liveness leave out those failures (`alloc`, `wait`) that share an action
with the program's own steps.  In `Transport` the program repeats its call as
soon as poll lets it and the server handles, answers and makes
room.  While the program is `Deaf` there is no fairness for it: poll waits for input,
without a timeout, and room in the socket does not end it.  So `Finishes` has
the exception that such a call stays there with a packet of the exchange half sent,
and `transport_deaf` shows that it may.  In `PacketRead` the program repeats its call likewise, and two
fairness conditions are strong, because the call may return and come back
between: what the server sent arrives some time (`Recv`), and the reply of a
packet can be sent some time (`Delivered`).  `SessionEnds` needs a window that takes requests whole: when a write is refused, or the copy is
given up, while the next packet is half sent, the rest of it is never sent, the
server waits for it and the program for the server.  No timeout is set.  The
same holds for a request to close that the window cuts.

Every property has a mutant, an operator with a plausible bug beside the one of
the code, with which TLC finds it violated.

## What the violated runs show

- `copy_short_count`: `libssh2_sftp_write` reports the first acknowledged
  packet, as its manual page says.  main.cpp:1092 takes that for a failure, so
  the copy of a file of more than 30000 bytes stops after the first block.
- `transport_deaf`: the server asks for new keys while the program writes with no
  window left, and the socket is full before the end of the client's KEXINIT.  The
  drain takes the EAGAIN for the end of the input and sets the directions to INBOUND
  (channel.c:2390).  The program polls for input, the server waits for the rest of
  the packet, and neither has a timeout.
- `transport_lost`: a caller that finds another packet in `session->packet`
  should get an error (transport.c:773), but its packet is dropped and reported
  as sent.  Inside libssh2 it takes a request of the server that arrives while
  the program writes, and a socket that takes the reply only in part.

## What reading showed besides

No run is about these.  They follow from the code line by line; where a property has
an exception for one of them, TLC finds it as soon as the exception is taken out.

- The flags against overwriting are carried to the commands, but nothing tests
  them: main.cpp:1073 opens with `LIBSSH2_FXF_TRUNC` in every case, against the
  comments at main.cpp:242-244.
- `no-target-files-overwrite` of a copy item reaches the items after it when the
  exec item has no settings, up to and with the next that has settings, against
  "applies to current item only" (main.cpp:244): the flag is cleared only above
  level 2 (main.cpp:692).  `NoFlagScope` without `Uncleared`.
- The same flag in the settings of an exec item does not reach the files behind a
  copy item that has other settings.  The next item goes back to the third level,
  where the flag is cleared (main.cpp:691-693), though the second has it still.
  `NoFlagScope` without `said.before = 0`.
- `allow-next-target-files-overwrite`, which "applies to all next items"
  (main.cpp:243), is lost when it is read on the fourth level of the stack,
  because the next item pops that level (main.cpp:689).  Below exec settings the
  second copy item with settings is there, otherwise the third.  `NextScope`
  without `said.before <= Levels`.
- "remote ip and port is not unique" (main.cpp:381) compares the port as the int it
  was read into, but connect gets its low 16 bits (main.cpp:986), so that two
  remotes of the list, with the ports 22 and 65558, may be one place.  No property
  is about places: it would be false for every document with two such ports, and
  that equal pairs are refused is a guard and nothing else.
- The result of `inet_pton` is not looked at (main.cpp:433).  With a text that is no
  address, what the local `sa` held becomes the remote's, against "store this IP
  address in sa" (main.cpp:432).  `AddressesAreRead` without `"refused"`.
- When the wait for the SFTP version fails with the packet half read, main frees the
  session, and `session_free` frees the SFTP session that `sftp_init` had begun
  (session.c:1060-1062) without its `partial_packet` (sftp.c:366), against "Frees all
  resources associated with a session instance" of libssh2_session_free.3.
  `NothingLeft` without its last disjunct.
- With `exec` in front of `remotes`, main.cpp:593 takes the top of an empty
  stack (the place `undefined` of `SshExec`, where nothing is claimed).
- `sock < 0` at main.cpp:980 is never true, because SOCKET is unsigned on
  Windows: a socket that was not created goes to `connect`, fails there, and is
  closed.
- The value of a remote's block goes nowhere: the program ends with 0 when every
  remote failed.
- When the server has disconnected, `_libssh2_channel_free` skips
  `_libssh2_channel_close` (channel.c:2834), and with it the callback
  `libssh2_sftp_dtor`: the SFTP session is not freed, against "Make sure that when the
  channel gets closed, the SFTP service is shut down too" (sftp.c:1006).
  `NothingLeft` excepts this block and the packet of a half read version, and no other.
- A server that closes the channel in place of an answer makes `sftp_init` wait
  for ever: `_libssh2_channel_read` returns 0 at the end of the channel, which
  the SFTP layer takes for no data yet (sftp.c:318-332), and the wait has no
  timeout, because `api_timeout` is 0 (session.c:465).
- channel.c:2704 says "We must wait for the remote SSH_MSG_CHANNEL_CLOSE
  message", but `_libssh2_transport_read` returns the type of any packet, which ends the
  loop (`ReadEnd`).
- A file may be written under the name of the command before, and be reported
  as copied, without any fault.  When the window takes a part of the request of
  an open (it names the file, so it has any length), `sftp_open` keeps the rest
  (sftp.c:1216-1226) and returns NULL at sftp.c:1354 with no error code set, so
  that `BLOCK_ADJUST_ERRNO` does not call it again (but for an EAGAIN that an
  earlier call left there); main takes it for a failure.
  The next command's open finds `open_state` set (sftp.c:1154), sends the rest
  and gets the handle of the old name, against "filename - Remote file/directory
  resource to open" of libssh2_sftp_open_ex.3.  `OneFileAtATime` says that
  the open file is the running command's own unless an earlier open left its
  request; with `open_for = todo` alone TLC finds this run.
- A request to close of which the window takes a part is never completed
  (sftp.c:2680-2684): the next request goes out as its rest.
- main sends the disconnect message before `session_free` closes a channel that
  is left: the EOF and the close go out after it (main.cpp:1131-1132).

## What is proved

For all values of the constants (any source length, packet size, window, set of
faults, number of requests; any settings, documents of any length).

`SftpWriteProofs`.  `IndInv` is the inductive invariant, proved action by
action (`NextKeepsInv`).  The properties alone are not inductive: that the file
keeps what was reported needs to know which requests are still on the wire.  Its parts:

- `CountingInv`: what was reported, kept and counted adds up to `offset`;
- `ListInv`: the chunks cover the gap up to `offset_sent`, in the order of ids
  and offsets, and are sent from the head on;
- `WireInv`: requests on the wire are in the order of ids and lie above
  `offset`; one that is not older than the list belongs to a chunk;
- `ReplyInv`: one answer to a request, older than all requests on the wire;
- `StoredInv`: what was answered is stored;
- `ZombieInv`: what is on the wire is awaited or known to be given up.

The key of the argument: a request of an abandoned attempt may be answered and
stored late, but it carries the bytes that belong at its offset, as every
request does (`wire[k].src = wire[k].off`), and lost framing destroys only bytes
of requests that no chunk waits for.  From it follow `TypeOK`, `AckAccounting`,
`PipelineCoversGap`, `ReportedIsStored`, `NoOrphanReply` and that `SftpWrite`
implements `Upload`.  `FramingIsKept` shows `FramingKept` where the server
refuses no write: then nothing is given up, and the request that is half sent is
the one the next call goes on with.

Two theorems are the part of `CallReturns` and `AllReported` that is safety.
`AwaitedIsUnderWay`, for all faults: when `write_state` is `sent`, the packet it
waits for was sent to its last byte, and its answer is there or the packet is on
the wire.  It rests on `BegunUnderWay`, the same of every chunk that was begun,
which needs that no id of the list is among the zombies.  `AnswerComes` adds that
the server can get there: all packets in front are complete.  It assumes that no
write is refused; with `"reject"` TLC finds the flush that drops a packet half
sent and everything behind it unanswered, which is the hang that bounds
`SessionEnds`.

`FileCopyProofs`.  `CopyInv` rests on `IndInv`, whose steps the loop takes over.
It adds `Closed` (with no file open, all that is left on the wire was given up),
`Control` (what each place of the loop means for the call below it), `Bounded`
(no byte that was not read of the local file is on its way), `FromHere` (what is
on its way was sent for the file that is open), `Request` (a request that
`sftp_open` goes on with is the running command's own or was abandoned) and `Copied` (what a
successful copy left stays so).  All steps of an open change the same few
variables, so `OpeningStep` proves them at once.  From it follow `CopyTypeOK`, `CopiedIsWhole`,
`OneFileAtATime`, and that `FileCopy` implements `CopyLoop`.

Three theorems are about a session that `Fits`: its files and requests together are
no longer than the window at the start, as in the runs `copy_ends` and
`copy_short_count`.  `RoomLeft` counts what the commands still to run may send, also
where a call came up short and the loop goes on (`GoingOn`).  Then no request is
ever cut (`CopyRequestsWhole`), for all faults; this is where "a window that takes
requests whole", which `SessionEnds` needs, comes from.  If no wait of an open
fails either, the exception in `OneFileAtATime` is not needed
(`CopyOpenedIsNamed`).  And `CopyShortCount` says when the comparison of
main.cpp:1092 does no harm: no faults, and a block or a file no longer than a
packet (`BlockFitsPacket`).  The run `copy_short_count` satisfies `Fits`
and breaks the property with a longer block, so that of the two it is the length
that matters: the program's blocks are 65536 bytes, a packet is 30000.

`TransportProofs`.  `WindowInv` counts room: adjusts are numbered as the server
granted them, so window, packets sent and packets pending add up to what it
allowed; `WithinWindow` follows for every server.  `PacketInv` adds who is to
send next (`PendingIsWanted`), that a request in the inbox finds the program
waiting (`RequestsMeetWait`), that requests are numbered (`RequestsNumbered`) and
what an exchange that goes on has sent so far (`ExchangeOpen`).  It is
inductive for a server that asks only while the program waits (`~AskAlways`),
and gives `PendingIsWanted`, `ReportedIsSent`, `RepliesInOrder` and
`KexUndisturbed` there; what happens without the condition is the run
`transport_lost`.  `RepliesInOrder` has two halves: `RequestsKept`, by which every
request the server sent is still to be read, being replied to or has its reply in
what the socket took, and `RepliesOrdered`, by which no two replies are to one
request and none overtakes another.

`TransportNoStandstill` is the safety half of `Finishes`: while a call runs and no
exchange failed, `ClientMay` or `ServerMay`, or the program is `DeafInExchange`, the
state of `transport_deaf`: there is one standstill and no other.  `ClientMay` and
`ServerMay` are written out as guards, because ENABLED is out of the prover's
reach; a packet half sent counts for the client only while it is not `Deaf`.
The proof has to know what is on its way between the
two ends.  `ExchangeStage` lists the eight stages of an exchange of keys, from
`Between` to `Ahead`, by the client's step, what is left in the inbox, and which
packets the server has not seen; `StageNext` is the walk through them.
`AnswerOnItsWay` follows an awaited answer back to the data it answers, and
`AdjustsOnTheirWay` an adjust that the window does not count yet to the inbox.  Without
`~AskAlways` it is false: a reply sent in place of the data leaves the program
waiting for an answer to what was never sent.

`PacketReadProofs` is about two directions that agree (`Alike`).  `ReadInv` has the ways of protection agree (`OneWay`), the
stream well formed (`Stream`), the buffer in bounds (`Buffered`), the reader in
step (`InStep`), a call that waits short of bytes (`Waiting`), and what was
decrypted a whole number of blocks in front (`Decrypted`).  Much of it is
arithmetic modulo a block of any size, proved in lemmas of its own
(`Padded` makes every packet a whole number of blocks).

`ExecConfigProofs`.  `SettingsInv` adds to the properties how deep the stack is
after so many items with settings (`LevelsOfItems`), on which of its levels the
flag for the current item (`NoFlagOnLevels`) and the last decision for the next items
(`NextOnLevel`) are when the next item goes back to it, and that no level has a
decision from elsewhere (`LevelsAreDecided`).  The steps rest on lemmas
about `update_inherited_stack` (`InheritedFacts`, `ItemStack`): the levels below
the one it returns to are untouched, that one loses at most a flag, and settings
go one level above.  From it follow the range of the stack's depth,
`RootHoldsDecision`, `ExecSettingsKept`, and for the two flags of every command of
every document `NoFlagScope` and `NextScope`.

`RemotesProofs`.  `ReaderInv` adds to `ItemsAreRemotes` that a record is pending
while an item is read; then a key fills the record and the last item alike
(`FilledKeeps`), and a name adds the one and begins the other.
`AddressesAreGiven` says of every document that a remote in the list has the address of
its own key `ip`, or what `inet_pton` left when it refused that text: never what was
in the first record, nor the 0 of a new one.  That two remotes are two places, and
that an address is what the text says, is not so, and no theorem assumes it.

`SshSessionProofs`.  `SessionInv` has two parts.  `Counted`: a pointer is set just
when its block is there, once; a block without a pointer is an SFTP session on
a lost connection.  The pointer to a half read version outlives the session it was read
in, but only where its wait was given up.  `HeldHere`: what is held at each place of a call, which is why
it may be given up there.  Each step of a call keeps both (`UpKeeps`,
`DownKeeps`, `StopKeeps`); `FreeKeeps` is the heart of it, for the two ways in
which a channel ends.  `CallStays` says how a call moves among its places.

`SshExecProofs`.  `ExecInv` takes over `SessionInv` and gives for each place which
rungs are made
(`LadderInv`), what is initialised (`InitInv`), which remotes and commands are
done (`TurnInv`), and which call may be where (`CallInv`).  The properties speak of the end of a list or of the program;
the invariant carries them there through every failure.  There is no bound on
the keys, the remotes or the commands, and the server may close the channel early.

`ProgramRunsDown` is what `ProgramEnds` needs besides fairness: eight numbers that
are compared in order (`LessIsLeft`) - keys not read, places to the end of this
key, remotes not begun, places to the end of this remote, commands not begun,
places to the end of this command, steps of the call, moves of the server - and
every step of the program, of a call or of the server, failed or not, lowers them.
None needs a bound, so no document and no server makes the program run for ever;
further lines in front of the server's banner leave the model's state as it is
and are not counted.
It says nothing of a program that stops half way; `ProgramEnds` excludes that
with the fairness above, and only for a server that answers before it closes the
channel.

Assumptions are those of the modules (`ConstantsAssumption`,
`ConfigAssumption`, `RemotesAssumption`, `LoopAssumption`,
`SshExecAssumption`, `SshSessionAssumption`, `CopyAssumption`, `TransportAssumption`,
`PacketReadAssumption`) and those that stand in a theorem.  Only model-checked:
liveness (`CallReturns`, `AllReported`, `SessionEnds`, `ProgramEnds`,
`Finishes`, `AllRead`), which is beyond TLAPS, and the counterexamples of the
violated runs.  What is proved on the side of liveness is that nobody waits for
what cannot come, in the pipeline (`AnswerComes`) and, but for one place, in the
packet layer (`TransportNoStandstill`), and that main takes
finitely many steps (`ProgramRunsDown`); that what can be done is done takes
fairness.

## Not modelled

Most of the lines under `src` are not in any module, and for most of them no
model would say anything: cryptographic back ends (openssl.c, wincng.c,
mbedtls.c, libgcrypt.c), the arithmetic of the key exchange (kex.c up to 4000),
the YAML parser with its tests and samples, and the operations of libssh2 that
the program never calls (agent, known hosts, SCP, forwarding, directories,
reading).  The command line is read once and the lambda-try macros have no
state; both are named in `PROJECT.json`.

Within the modelled parts: exceptions through the blocks of main.cpp, malformed
answers of the server, the wrap of 32-bit counters, a failing wait inside
writing to and closing of a remote file.

## Plan

1. Done: all modules above, with the safety properties of the runs proved.
2. A failing wait inside `libssh2_sftp_write` and `libssh2_sftp_close` in
   `FileCopy`: the handle stays in the SFTP session, with its chunks, while main
   has forgotten it.
3. What `SshExecProofs` proves on the side of liveness for the other components:
   that no place waits for what cannot come also for the packet reader
   (`AllRead`), and an order that every step descends for each.
4. Exceptions through the lambda-try blocks, as a module of the macros.
