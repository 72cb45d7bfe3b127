----------------------------- MODULE RemotesProofs -----------------------------
(***************************************************************************)
(* Proofs about Remotes.tla.  The invariant relates the record and the list *)
(* to what the document says: one record is enough because it is begun      *)
(* afresh with each name, before any other key can fill it.                 *)
(***************************************************************************)
EXTENDS Remotes, SequenceTheorems, TLAPS

\* A record is pending while an item is read; with ItemsAreRemotes, it is its own.
NamedIsPending == state = "reading" /\ named => has_remote_to_add

\* A record with a name was begun by that name, and so is without what was in memory;
\* until the key `ip` is read its address is 0.
FreshWithName ==
    /\ remote_to_add.name # NoText => remote_to_add.from # "memory"
    /\ remote_to_add.from = "zero" => remote_to_add.ip = 0

ReaderInv ==
    /\ RemotesTypeOK
    /\ NamedIsPending
    /\ ItemsAreRemotes

-----------------------------------------------------------------------------
\* The last item of a sequence may be replaced before or after it is appended.
LEMMA LastReplaced ==
    ASSUME NEW S, NEW s \in Seq(S), NEW x \in S, NEW y \in S
    PROVE  /\ Append(s, x) \in Seq(S)
           /\ Len(Append(s, x)) = Len(s) + 1
           /\ Append(s, x)[Len(s) + 1] = x
           /\ [Append(s, x) EXCEPT ![Len(s) + 1] = y] = Append(s, y)
<1>1. Append(s, x) \in Seq(S) /\ Len(Append(s, x)) = Len(s) + 1
      /\ Append(s, x)[Len(s) + 1] = x
    OBVIOUS
<1>2. [Append(s, x) EXCEPT ![Len(s) + 1] = y] \in Seq(S)
    BY <1>1
<1>3. Append(s, y) \in Seq(S) /\ Len(Append(s, y)) = Len(s) + 1
    OBVIOUS
<1>4. Len([Append(s, x) EXCEPT ![Len(s) + 1] = y]) = Len(s) + 1
    BY <1>1
<1>5. ASSUME NEW i \in 1 .. Len(s) + 1
      PROVE  [Append(s, x) EXCEPT ![Len(s) + 1] = y][i] = Append(s, y)[i]
    <2>1. CASE i = Len(s) + 1
        BY <1>1, <2>1
    <2>2. CASE i \in 1 .. Len(s)
        <3> DEFINE t == Append(s, x)
                   k == Len(s) + 1
        <3>0. t \in Seq(S) /\ Len(t) = k /\ i # k
            BY <1>1, <2>2
        <3>1. [t EXCEPT ![k] = y][i] = t[i]
            <4> HIDE DEF t, k
            <4>1. DOMAIN t = 1 .. k
                BY <3>0
            <4>2. i \in DOMAIN t
                BY <4>1 DEF k
            <4> QED
                BY <3>0, <4>2
        <3>2. Append(s, x)[i] = s[i] /\ Append(s, y)[i] = s[i]
            BY <2>2, AppendProperties
        <3> QED
            BY <3>1, <3>2
    <2> QED
        BY <2>1, <2>2
<1>6. [Append(s, x) EXCEPT ![Len(s) + 1] = y] = Append(s, y)
    BY <1>2, <1>3, <1>4, <1>5, SeqEqual
<1> QED
    BY <1>1, <1>6

\* Adding the pending record keeps the list a list of remotes.
LEMMA AddPendingKeeps ==
    ASSUME RemotesTypeOK, AddPending
    PROVE  remotes' \in Seq(Remote)
BY DEF RemotesTypeOK, AddPending

\* In a tidy item the record and the last item are filled alike.
LEMMA FilledAlike ==
    ASSUME RemotesTypeOK, NamedIsPending, ItemsAreRemotes,
           state = "reading", tidy, named
    PROVE  /\ document = Append(remotes, remote_to_add)
           /\ Len(document) = Len(remotes) + 1
           /\ document[Len(document)] = remote_to_add
           /\ \A r \in Remote :
                  [document EXCEPT ![Len(document)] = r] = Append(remotes, r)
<1>1. document = Append(remotes, remote_to_add)
    BY DEF ItemsAreRemotes, NamedIsPending
<1> QED
    BY <1>1, LastReplaced DEF RemotesTypeOK

\* The first record is of the right type and is not pending.
LEMMA InitKeeps == ASSUME Init PROVE ReaderInv
<1>1. PICK ip \in Addresses, port \in Ports :
          remote_to_add = [name |-> NoText, user |-> NoText, pass |-> NoText,
                           ip |-> ip, port |-> port, from |-> "memory"]
    BY DEF Init
<1>2. remote_to_add \in Remote
    BY <1>1, RemotesAssumption DEF Remote, Origins
<1>3. RemotesTypeOK
    <2>1. remotes = <<>> /\ document = <<>> /\ has_remote_to_add = FALSE
          /\ state = "reading" /\ named = FALSE /\ tidy = TRUE
        BY DEF Init
    <2>2. <<>> \in Seq(Remote)
        OBVIOUS
    <2> QED
        BY <1>2, <2>1, <2>2 DEF RemotesTypeOK
<1>4. NamedIsPending /\ ItemsAreRemotes
    BY DEF Init, NamedIsPending, ItemsAreRemotes
<1> QED
    BY <1>3, <1>4 DEF ReaderInv

\* The keys that fill a field with the value r gives it
LEMMA FilledKeeps ==
    ASSUME ReaderInv, Key, NEW r \in Remote,
           remote_to_add' = r,
           document' = IF InTidyItem THEN [document EXCEPT ![Len(document)] = r] ELSE <<>>
    PROVE  ReaderInv'
<1>1. RemotesTypeOK'
    <2>1. CASE InTidyItem
        BY <2>1, FilledAlike DEF ReaderInv, RemotesTypeOK, Key, InTidyItem
    <2>2. CASE ~InTidyItem
        BY <2>2 DEF ReaderInv, RemotesTypeOK, Key, InTidyItem
    <2> QED
        BY <2>1, <2>2
<1>2. ItemsAreRemotes'
    <2>1. CASE InTidyItem
        BY <2>1, FilledAlike DEF ReaderInv, Key, InTidyItem, ItemsAreRemotes
    <2>2. CASE ~InTidyItem
        BY <2>2 DEF Key, InTidyItem, ItemsAreRemotes
    <2> QED
        BY <2>1, <2>2
<1>3. NamedIsPending'
    BY DEF ReaderInv, Key, NamedIsPending
<1> QED
    BY <1>1, <1>2, <1>3 DEF ReaderInv

\* A name adds the pending remote and begins a record that is the new item.
LEMMA NameKeyKeeps == ASSUME ReaderInv, NameKey PROVE ReaderInv'
<1>1. PICK name \in Texts :
          /\ remote_to_add' = Named(name)
          /\ document' = IF tidy /\ ~named THEN Append(document, Item(name)) ELSE <<>>
    BY DEF NameKey
<1>2. remotes' \in Seq(Remote)
    BY AddPendingKeeps DEF ReaderInv, NameKey
<1>3. Named(name) \in Remote /\ Item(name) = Named(name)
    BY RemotesAssumption DEF Named, Item, Remote, Origins
<1>4. document' \in Seq(Remote)
    BY <1>1, <1>3 DEF ReaderInv, RemotesTypeOK
<1>5. RemotesTypeOK'
    BY <1>1, <1>2, <1>3, <1>4 DEF ReaderInv, RemotesTypeOK, NameKey
<1>6. ItemsAreRemotes'
    <2>1. CASE tidy /\ ~named
        <3>1. remotes' = document
            BY <2>1 DEF ReaderInv, ItemsAreRemotes, NameKey, AddPending
        <3> QED
            BY <1>1, <1>3, <2>1, <3>1 DEF NameKey, ItemsAreRemotes
    <2>2. CASE ~(tidy /\ ~named)
        BY <2>2 DEF NameKey, ItemsAreRemotes
    <2> QED
        BY <2>1, <2>2
<1>7. NamedIsPending'
    BY DEF NameKey, NamedIsPending
<1> QED
    BY <1>2, <1>5, <1>6, <1>7 DEF ReaderInv

\* A name without a value adds the pending remote too, and ends tidiness.
LEMMA NameWithoutValueKeeps == ASSUME ReaderInv, NameWithoutValue PROVE ReaderInv'
<1>1. remotes' \in Seq(Remote)
    BY AddPendingKeeps DEF ReaderInv, NameWithoutValue
<1>2. RemotesTypeOK'
    <2>1. document' = <<>> /\ <<>> \in Seq(Remote)
        BY DEF NameWithoutValue
    <2>2. /\ has_remote_to_add' = TRUE /\ named' = TRUE /\ tidy' = FALSE
          /\ remote_to_add' = remote_to_add /\ state' = state
        BY DEF NameWithoutValue
    <2> QED
        BY <1>1, <2>1, <2>2 DEF ReaderInv, RemotesTypeOK
<1>3. ItemsAreRemotes' /\ NamedIsPending'
    BY DEF NameWithoutValue, ItemsAreRemotes, NamedIsPending
<1> QED
    BY <1>1, <1>2, <1>3 DEF ReaderInv

\* Each key fills one field; in a tidy item the item's field is the record's.
LEMMA FieldKeysKeep ==
    ASSUME ReaderInv, UserKey \/ PassKey \/ AddressKey \/ PortKey PROVE ReaderInv'
<1> DEFINE r == remote_to_add
           Fills(q) == document' = IF InTidyItem
                                   THEN [document EXCEPT ![Len(document)] = q] ELSE <<>>
<1>1. Key
    BY DEF UserKey, PassKey, AddressKey, PortKey
<1>2. r \in Remote
    BY DEF ReaderInv, RemotesTypeOK
<1>3. InTidyItem => document[Len(document)] = r
    BY <1>1, FilledAlike DEF ReaderInv, InTidyItem, Key
<1>4. \E q \in Remote : remote_to_add' = q /\ Fills(q)
    <2>1. CASE UserKey
        <3>1. PICK user \in Texts :
                  /\ remote_to_add' = [r EXCEPT !.user = user]
                  /\ document' = IF InTidyItem
                          THEN [document EXCEPT ![Len(document)].user = user] ELSE <<>>
            BY <2>1 DEF UserKey
        <3>2. [r EXCEPT !.user = user] \in Remote
            BY <1>2 DEF Remote
        <3>3. Fills([r EXCEPT !.user = user])
            BY <1>3, <3>1
        <3> QED
            BY <3>1, <3>2, <3>3
    <2>2. CASE PassKey
        <3>1. PICK pass \in Texts :
                  /\ remote_to_add' = [r EXCEPT !.pass = pass]
                  /\ document' = IF InTidyItem
                          THEN [document EXCEPT ![Len(document)].pass = pass] ELSE <<>>
            BY <2>2 DEF PassKey
        <3>2. [r EXCEPT !.pass = pass] \in Remote
            BY <1>2 DEF Remote
        <3>3. Fills([r EXCEPT !.pass = pass])
            BY <1>3, <3>1
        <3> QED
            BY <3>1, <3>2, <3>3
    <2>3. CASE AddressKey
        <3>1. PICK ip \in Addresses, from \in {"text", "refused"} :
                  /\ remote_to_add' = [r EXCEPT !.ip = ip, !.from = from]
                  /\ document' = IF InTidyItem
                          THEN [document EXCEPT ![Len(document)].ip = ip,
                                                ![Len(document)].from = from]
                          ELSE <<>>
            BY <2>3 DEF AddressKey
        <3>2. [r EXCEPT !.ip = ip, !.from = from] \in Remote
            BY <1>2 DEF Remote, Origins
        <3>3. Fills([r EXCEPT !.ip = ip, !.from = from])
            BY <1>1, <1>3, <3>1, FilledAlike, ZenonT(60)
               DEF ReaderInv, RemotesTypeOK, InTidyItem, Key
        <3> QED
            BY <3>1, <3>2, <3>3
    <2>4. CASE PortKey
        <3>1. PICK port \in Ports :
                  /\ remote_to_add' = [r EXCEPT !.port = port]
                  /\ document' = IF InTidyItem
                          THEN [document EXCEPT ![Len(document)].port = port] ELSE <<>>
            BY <2>4 DEF PortKey
        <3>2. [r EXCEPT !.port = port] \in Remote
            BY <1>2 DEF Remote
        <3>3. Fills([r EXCEPT !.port = port])
            BY <1>3, <3>1
        <3> QED
            BY <3>1, <3>2, <3>3
    <2> QED
        BY <2>1, <2>2, <2>3, <2>4
<1> QED
    BY <1>1, <1>4, FilledKeeps

\* The end of the list adds the last remote: the list is the document.
LEMMA ListEndsKeeps == ASSUME ReaderInv, ListEnds PROVE ReaderInv'
<1>1. remotes' \in Seq(Remote)
    BY AddPendingKeeps DEF ReaderInv, ListEnds
<1>2. RemotesTypeOK'
    BY <1>1 DEF ReaderInv, RemotesTypeOK, ListEnds
<1>3. ItemsAreRemotes'
    BY DEF ReaderInv, ListEnds, AddPending, ItemsAreRemotes
<1>4. NamedIsPending'
    BY DEF ListEnds, NamedIsPending
<1> QED
    BY <1>1, <1>2, <1>3, <1>4 DEF ReaderInv

\* Every step keeps the invariant.
LEMMA NextKeeps == ASSUME ReaderInv, [Next]_vars PROVE ReaderInv'
<1>1. CASE NextItem
    BY <1>1, ZenonT(60) DEF ReaderInv, NextItem, RemotesTypeOK, NamedIsPending,
                            ItemsAreRemotes
<1>2. CASE KeyWithoutValue
    BY <1>2 DEF ReaderInv, KeyWithoutValue, Key, InTidyItem, RemotesTypeOK,
                NamedIsPending, ItemsAreRemotes
<1>3. CASE RemoteRefused
    BY <1>3 DEF ReaderInv, RemoteRefused, RemotesTypeOK, NamedIsPending,
                ItemsAreRemotes
<1>4. CASE UNCHANGED vars
    BY <1>4 DEF ReaderInv, vars, RemotesTypeOK, NamedIsPending, ItemsAreRemotes
<1> QED
    BY <1>1, <1>2, <1>3, <1>4, NameKeyKeeps, NameWithoutValueKeeps, FieldKeysKeep,
       ListEndsKeeps DEF Next

-----------------------------------------------------------------------------
\* The invariant of the reader, for all documents.
THEOREM Invariance == Spec => []ReaderInv
<1>1. Init => ReaderInv
    BY InitKeeps
<1>2. ReaderInv /\ [Next]_vars => ReaderInv'
    BY NextKeeps
<1> QED
    BY <1>1, <1>2, PTL DEF Spec

\* Type correctness of read_remotes_yaml.
THEOREM TypeCorrect == Spec => []RemotesTypeOK
<1>1. ReaderInv => RemotesTypeOK
    BY DEF ReaderInv
<1> QED
    BY <1>1, Invariance, PTL

\* Of a document whose items begin with their names, the list of remotes is a copy.
THEOREM ItemsAreRead == Spec => []ItemsAreRemotes
<1>1. ReaderInv => ItemsAreRemotes
    BY DEF ReaderInv
<1> QED
    BY <1>1, Invariance, PTL

\* Whatever the document says, each address in the list is the one that its key gave,
\* and uninitialised only where inet_pton refused the text.
THEOREM AddressesAreGiven == Spec => []AddressesAreRead
<1>1. Init => FreshWithName /\ AddressesAreRead
    BY DEF Init, FreshWithName, AddressesAreRead
<1>2. ASSUME RemotesTypeOK, FreshWithName, AddressesAreRead, [Next]_vars
      PROVE  FreshWithName' /\ AddressesAreRead'
    <2>1. ASSUME AddPending PROVE AddressesAreRead'
        <3>1. CASE has_remote_to_add
            <4>1. remote_to_add.from \in {"text", "refused"}
                  /\ remotes' = Append(remotes, remote_to_add)
                BY <1>2, <2>1, <3>1 DEF AddPending, Addable, FreshWithName, RemotesTypeOK,
                   Remote, Origins
            <4>2. /\ Len(remotes') = Len(remotes) + 1
                  /\ remotes'[Len(remotes) + 1] = remote_to_add
                  /\ \A i \in 1 .. Len(remotes) : remotes'[i] = remotes[i]
                BY <1>2, <4>1 DEF RemotesTypeOK
            <4>3. Len(remotes) \in Nat
                BY <1>2 DEF RemotesTypeOK
            <4> QED
                BY <1>2, <4>1, <4>2, <4>3 DEF AddressesAreRead
        <3>2. CASE ~has_remote_to_add
            BY <1>2, <2>1, <3>2 DEF AddPending, AddressesAreRead
        <3> QED
            BY <3>1, <3>2
    <2>2. CASE NameKey
        BY <2>1, <2>2 DEF NameKey, Named, FreshWithName
    <2>3. CASE NameWithoutValue
        BY <1>2, <2>1, <2>3 DEF NameWithoutValue, FreshWithName
    <2>4. CASE UserKey \/ PassKey \/ AddressKey \/ PortKey \/ KeyWithoutValue
        <3>1. AddressesAreRead'
            BY <1>2, <2>4 DEF UserKey, PassKey, AddressKey, PortKey, KeyWithoutValue,
                              Key, AddressesAreRead
        <3>2. FreshWithName'
            BY <1>2, <2>4 DEF UserKey, PassKey, AddressKey, PortKey, KeyWithoutValue,
                              FreshWithName, RemotesTypeOK, Remote
        <3> QED
            BY <3>1, <3>2
    <2>5. CASE ListEnds
        BY <1>2, <2>1, <2>5 DEF ListEnds, FreshWithName
    <2>6. CASE NextItem \/ RemoteRefused \/ UNCHANGED vars
        BY <1>2, <2>6 DEF NextItem, RemoteRefused, vars, FreshWithName, AddressesAreRead
    <2> QED
        BY <1>2, <2>2, <2>3, <2>4, <2>5, <2>6 DEF Next
<1> QED
    BY <1>1, <1>2, TypeCorrect, PTL DEF Spec
=============================================================================
