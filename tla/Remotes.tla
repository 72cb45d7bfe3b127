-------------------------------- MODULE Remotes --------------------------------
(***************************************************************************)
(* The reader of the `remotes` list of the config file: read_remotes_yaml   *)
(* and add_remote in main.cpp, with the test of the result in main.         *)
(*                                                                         *)
(*   remotes:                                                               *)
(*   - name: ...     user: ...    pass: ...    ip: ...    port: ...         *)
(*                                                                         *)
(* The reader goes through the keys of all items with one record,           *)
(* remote_to_add.  It is the key `name` that ends the remote before and     *)
(* begins another; the bounds of the items mean nothing to it.  An action   *)
(* reads one key, which is chosen as it is read.                            *)
(***************************************************************************)
EXTENDS Integers, Sequences

CONSTANTS Texts,        \* what the value of a name, a user or a password may be
          NoText,       \* the empty one
          Addresses,    \* what the text of an address may stand for; 0 is 0.0.0.0
          Ports         \* what the number of a port may be

ASSUME RemotesAssumption ==
    /\ NoText \in Texts
    /\ Addresses \subseteq Nat
    /\ Ports \subseteq Int

VARIABLES
    remotes,           \* the list
    remote_to_add,     \* the record that is being filled
    has_remote_to_add, \* a key was read
    state,             \* how far the reader is
    named,    \* the key name was read in this item
    tidy,     \* every item so far begins with its only name; only properties read
    document  \* what the items say, when they are tidy;   these two

vars == <<remotes, remote_to_add, has_remote_to_add, state, named, tidy, document>>

\* Where an address comes from: what was in the memory of the first record, the 0 of a
\* record that begins, a text that inet_pton took, or one that it refused.
Origins == {"memory", "zero", "text", "refused"}

\* A remote; only properties read where its address is from.
Remote == [name : Texts, user : Texts, pass : Texts,
           ip : Addresses \cup {0}, port : Ports \cup {0}, from : Origins]

RemotesTypeOK ==
    /\ remotes \in Seq(Remote)
    /\ remote_to_add \in Remote
    /\ has_remote_to_add \in BOOLEAN
    /\ state \in {"reading", "read", "refused"}
    /\ named \in BOOLEAN /\ tidy \in BOOLEAN
    /\ document \in Seq(Remote)

\* `remote remote_to_add;`: the texts are empty, the numbers have no value yet.
Init ==
    /\ remotes = <<>>
    /\ \E ip \in Addresses, port \in Ports :
           remote_to_add = [name |-> NoText, user |-> NoText, pass |-> NoText,
                            ip |-> ip, port |-> port, from |-> "memory"]
    /\ has_remote_to_add = FALSE
    /\ state = "reading"
    /\ named = FALSE /\ tidy = TRUE /\ document = <<>>

-----------------------------------------------------------------------------
\* Mutant of Addable: a remote without a name is taken.
AddableNameless(r) ==
    /\ r.user # NoText
    /\ r.ip # 0 /\ r.port # 0
    /\ \A k \in 1 .. Len(remotes) :
           /\ remotes[k].name # r.name
           /\ remotes[k].ip # r.ip \/ remotes[k].port # r.port

\* add_remote takes it
Addable(r) ==
    /\ r.name # NoText /\ r.user # NoText
    /\ r.ip # 0 /\ r.port # 0
    /\ \A k \in 1 .. Len(remotes) :
           /\ remotes[k].name # r.name
           /\ remotes[k].ip # r.ip \/ remotes[k].port # r.port

AddPending ==
    IF has_remote_to_add
    THEN /\ Addable(remote_to_add)
         /\ remotes' = Append(remotes, remote_to_add)
    ELSE UNCHANGED remotes

\* Mutant of Named: the fields that are not named again keep their values.
NamedOnly(name) == [remote_to_add EXCEPT !.name = name]

\* Mutant of Named: -1 for a port that is not read yet.
NamedUnsetPort(name) == [name |-> name, user |-> NoText, pass |-> NoText,
                         ip |-> 0, port |-> -1, from |-> "zero"]

\* remote_to_add = { name, {}, {}, 0, 0 }
Named(name) == [name |-> name, user |-> NoText, pass |-> NoText,
                ip |-> 0, port |-> 0, from |-> "zero"]

\* What an item says that begins with this name
Item(name) == [name |-> name, user |-> NoText, pass |-> NoText,
               ip |-> 0, port |-> 0, from |-> "zero"]

InTidyItem == tidy /\ named

\* The next item that is a map; other items are skipped.
NextItem ==
    /\ state = "reading"
    /\ named
    /\ named' = FALSE
    /\ UNCHANGED <<remotes, remote_to_add, has_remote_to_add, state, tidy, document>>

NameKey ==
    /\ state = "reading"
    /\ AddPending
    /\ \E name \in Texts :
           /\ remote_to_add' = Named(name)
           /\ document' = IF tidy /\ ~named THEN Append(document, Item(name)) ELSE <<>>
    /\ has_remote_to_add' = TRUE
    /\ named' = TRUE
    /\ tidy' = (tidy /\ ~named)
    /\ UNCHANGED state

\* A list or a map in place of the name: the record is left as it was.
NameWithoutValue ==
    /\ state = "reading"
    /\ AddPending
    /\ has_remote_to_add' = TRUE
    /\ named' = TRUE
    /\ tidy' = FALSE /\ document' = <<>>
    /\ UNCHANGED <<remote_to_add, state>>

\* Any of the other keys
Key ==
    /\ state = "reading"
    /\ has_remote_to_add' = TRUE
    /\ tidy' = InTidyItem
    /\ UNCHANGED <<remotes, state, named>>

UserKey ==
    /\ Key
    /\ \E user \in Texts :
           /\ remote_to_add' = [remote_to_add EXCEPT !.user = user]
           /\ document' = IF InTidyItem
                          THEN [document EXCEPT ![Len(document)].user = user] ELSE <<>>

PassKey ==
    /\ Key
    /\ \E pass \in Texts :
           /\ remote_to_add' = [remote_to_add EXCEPT !.pass = pass]
           /\ document' = IF InTidyItem
                          THEN [document EXCEPT ![Len(document)].pass = pass] ELSE <<>>

\* inet_pton, whose result is not tested: from a text that is no address it takes
\* nothing, and the record gets whatever is in the local variable.
AddressKey ==
    /\ Key
    /\ \E ip \in Addresses, from \in {"text", "refused"} :
           /\ remote_to_add' = [remote_to_add EXCEPT !.ip = ip, !.from = from]
           /\ document' = IF InTidyItem
                          THEN [document EXCEPT ![Len(document)].ip = ip,
                                                ![Len(document)].from = from]
                          ELSE <<>>

PortKey ==
    /\ Key
    /\ \E port \in Ports :
           /\ remote_to_add' = [remote_to_add EXCEPT !.port = port]
           /\ document' = IF InTidyItem
                          THEN [document EXCEPT ![Len(document)].port = port] ELSE <<>>

\* A list or a map in place of the value, or a port that is no number
KeyWithoutValue ==
    /\ Key
    /\ document' = IF InTidyItem THEN document ELSE <<>>
    /\ UNCHANGED remote_to_add

\* The next key name, or the end of the list, finds a remote that is refused.
RemoteRefused ==
    /\ state = "reading"
    /\ has_remote_to_add /\ ~Addable(remote_to_add)
    /\ state' = "refused"
    /\ UNCHANGED <<remotes, remote_to_add, has_remote_to_add, named, tidy, document>>

\* The end of the list; main refuses an empty one.
ListEnds ==
    /\ state = "reading"
    /\ AddPending
    /\ state' = IF remotes' = <<>> THEN "refused" ELSE "read"
    /\ has_remote_to_add' = FALSE
    /\ UNCHANGED <<remote_to_add, named, tidy, document>>

Next ==
    \/ NextItem \/ NameKey \/ NameWithoutValue
    \/ UserKey \/ PassKey \/ AddressKey \/ PortKey \/ KeyWithoutValue
    \/ RemoteRefused \/ ListEnds

Spec == Init /\ [][Next]_vars
-----------------------------------------------------------------------------
(* Properties                                                              *)

\* When every item begins with its name, one record is enough for all of them: the
\* remotes of the list are the items, in their order, and no item has a field of
\* another or of the record's first content.
ItemsAreRemotes ==
    tidy => \/ state # "reading" /\ ~has_remote_to_add /\ remotes = document
            \/ has_remote_to_add /\ Append(remotes, remote_to_add) = document
            \/ document = <<>> /\ remotes = <<>> /\ ~has_remote_to_add

\* A remote of the list has the address that the key `ip` gave it after its name,
\* whatever keys are missing and in what order the others come: neither what was in
\* the memory of the first record nor the 0 of a record that begins gets past
\* add_remote.  An uninitialised address comes into the list on one way only, through
\* a text that inet_pton refused: its result is not looked at.
AddressesAreRead ==
    \A k \in 1 .. Len(remotes) : remotes[k].from \in {"text", "refused"}
=============================================================================
