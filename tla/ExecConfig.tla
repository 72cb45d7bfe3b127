------------------------------ MODULE ExecConfig ------------------------------
(***************************************************************************)
(* The reader of the `exec` list of the config file: read_exec_yaml and     *)
(* what it calls in main.cpp.                                               *)
(*                                                                         *)
(*   exec:                            an exec item: one `copy`, and maybe   *)
(*   - copy:                          `settings` for all of it              *)
(*     - files: [{from:, to:}, ...]   a copy item: `files`, `settings`,     *)
(*       settings: {flags: [...]}     or both                               *)
(*   - copy:                                                                *)
(*       settings: {flags: [...]}     the map form: settings for what       *)
(*                                    follows, no files                     *)
(*                                                                         *)
(* The reader keeps a stack of copy settings.  Level 1 lives as long as the *)
(* list, a settings node pushes a copy of the top and changes it, and the   *)
(* next item pops what the items before it pushed.  Each file becomes a     *)
(* command with the settings on the top.  An action reads one node of the   *)
(* document, which is chosen as it is read; that a list may end anywhere is *)
(* a choice too.                                                            *)
(***************************************************************************)
EXTENDS Integers, Sequences

CONSTANTS SettingsNodes,  \* what may stand in a settings node: lists of flags
          MaxCommands     \* bound: commands in the list

Allow == "allow_next_target_files_overwrite"
No    == "no_target_files_overwrite"

FlagWords == {"allow_next", "deny_next", "no", "unknown"}

ASSUME ConfigAssumption ==
    /\ SettingsNodes \subseteq Seq(FlagWords)
    /\ MaxCommands \in Nat

VARIABLES
    place,     \* the list that is being read
    stack,     \* copy_settings_stack
    exec_settings, \* the exec item has settings (exec_setings_node.valid())
    from_file, \* a `from` was read in this `files` list
    commands,  \* exec.commands: the settings of each copy_file
    copy_read, \* items of the copy list were read
    said       \* what the document said (see Said); only properties read it

vars == <<place, stack, exec_settings, from_file, commands, copy_read, said>>

Flags == {Allow, No}
Places == {"exec", "copy", "files", "read", "malformed"}

\* The document as far as it was read.  root: the last decision of a copy node in map
\* form; next: the last decision for the items that follow, root's or one of settings
\* alone in this list; allowed, denied: root or settings alone of this list said so;
\* exec_no, item_no: the no-overwrite flag is in the settings of this exec item, of
\* this copy item; list_no: of any copy item of this list so far; own: this copy item
\* has settings; before: how many items before it in the list have, 3 for more.
Said == [root : BOOLEAN, next : BOOLEAN, allowed : BOOLEAN, denied : BOOLEAN,
         exec_no : BOOLEAN, item_no : BOOLEAN, list_no : BOOLEAN, own : BOOLEAN,
         before : 0 .. 3]

ConfigTypeOK ==
    /\ place \in Places
    /\ stack \in Seq(SUBSET Flags)
    /\ Len(stack) \in 1 .. 4
    /\ exec_settings \in BOOLEAN /\ from_file \in BOOLEAN /\ copy_read \in BOOLEAN
    /\ commands \in Seq(SUBSET Flags)
    /\ said \in Said

Init ==
    /\ place = "exec"
    /\ stack = <<{}>>
    /\ exec_settings = FALSE /\ from_file = FALSE /\ copy_read = FALSE
    /\ commands = <<>>
    /\ said = [root |-> FALSE, next |-> FALSE, allowed |-> FALSE, denied |-> TRUE,
               exec_no |-> FALSE, item_no |-> FALSE, list_no |-> FALSE, own |-> FALSE,
               before |-> 0]

-----------------------------------------------------------------------------
(* The settings and their stack.                                           *)

\* The flags a settings node may hold: is_next for settings without files
Accepted(is_next) == IF is_next THEN {"allow_next", "deny_next"} ELSE {"no"}

Readable(node, is_next) ==
    \A i \in 1 .. Len(node) : node[i] \in Accepted(is_next)

Last(s) == s[Len(s)]

\* read_exec_copy_settings_yaml on a readable node: of allow and deny the last wins
AfterSettings(flags, node, is_next) ==
    IF node = <<>> THEN flags
    ELSE IF ~is_next THEN flags \cup {No}
    ELSE IF Last(node) = "allow_next" THEN flags \cup {Allow}
    ELSE flags \ {Allow}

Decision(before, node, is_next) ==
    Allow \in AfterSettings(IF before THEN {Allow} ELSE {}, node, is_next)

\* Mutant of ClearCurrent: the flag stays.
ClearNothing(flags) == flags

ClearCurrent(flags) == flags \ {No}

\* Mutant of Popped: the levels of earlier items stay on the stack.
PopLess(max) == [i \in 1 .. (IF Len(stack) < max + 1 THEN Len(stack) ELSE max + 1) |-> stack[i]]

Popped(max) == [i \in 1 .. (IF Len(stack) < max THEN Len(stack) ELSE max) |-> stack[i]]

WithTop(s, flags) == [s EXCEPT ![Len(s)] = flags]

\* Mutant of Pushed: the settings go to the level that is there.
PushNothing(s, push) == s

Pushed(s, push) == IF push THEN Append(s, Last(s)) ELSE s

\* update_inherited_stack: back to at most max levels; the flags for the current
\* item are cleared on the top if there are cleared levels at least; then a new top
Inherited(max, cleared, push) ==
    LET popped == Popped(max)
        top == IF Len(popped) >= cleared THEN ClearCurrent(Last(popped)) ELSE Last(popped)
    IN  Pushed(WithTop(popped, top), push)

\* A settings node, when there is one, changes the top.
Applied(s, settings, is_next) ==
    IF settings = <<>> THEN s
    ELSE WithTop(s, AfterSettings(Last(s), settings[1], is_next))

\* No settings node, or one
Settings == {<<>>} \cup {<<node>> : node \in SettingsNodes}

SettingsReadable(settings, is_next) ==
    settings # <<>> => Readable(settings[1], is_next)

SaysNo(settings) == settings # <<>> /\ settings[1] # <<>>

SaysAllow(node) == node # <<>> /\ Last(node) = "allow_next"
SaysDeny(node) == node # <<>> /\ Last(node) # "allow_next"

BeforeNext == IF said.own /\ said.before < 3 THEN said.before + 1 ELSE said.before

-----------------------------------------------------------------------------
(* Reading the document.                                                   *)

\* "error: malformed config": a key that is unknown, missing or there twice, a node
\* of the wrong kind, a flag that is not accepted
Malformed ==
    /\ place \in {"exec", "copy", "files"}
    /\ place' = "malformed"
    /\ UNCHANGED <<stack, exec_settings, from_file, commands, copy_read, said>>

\* An item of the exec list, with a copy node and maybe settings for this item
ExecItem(settings) ==
    /\ place = "exec"
    /\ SettingsReadable(settings, FALSE)
    /\ stack' = Applied(Inherited(1, 1, settings # <<>>), settings, FALSE)
    /\ exec_settings' = (settings # <<>>)
    /\ copy_read' = FALSE
    /\ place' = "copy"
    /\ said' = [said EXCEPT !.next = said.root, !.allowed = said.root, !.denied = ~said.root,
                            !.exec_no = SaysNo(settings), !.item_no = FALSE,
                            !.list_no = FALSE, !.own = FALSE, !.before = 0]
    /\ UNCHANGED <<from_file, commands>>

\* A copy node in map form: its settings are for the items that follow.  The rest of
\* the node is skipped.
CopySettings(node) ==
    /\ place = "copy"
    /\ ~copy_read
    /\ ~exec_settings
    /\ Readable(node, TRUE)
    /\ stack' = Applied(Inherited(1, 1, FALSE), <<node>>, TRUE)
    /\ place' = "exec"
    /\ said' = [said EXCEPT !.root = Decision(said.root, node, TRUE)]
    /\ UNCHANGED <<exec_settings, from_file, commands, copy_read>>

\* An item of a copy list.  Settings beside files are for these files, settings
\* alone are for the items that follow.
CopyItem(files, settings) ==
    /\ place = "copy"
    /\ files \/ settings # <<>>
    /\ SettingsReadable(settings, ~files)
    /\ stack' = Applied(Inherited(3, 3, settings # <<>>), settings, ~files)
    /\ copy_read' = TRUE
    /\ place' = IF files THEN "files" ELSE "copy"
    /\ from_file' = FALSE
    /\ LET no == files /\ SaysNo(settings)
           allow == ~files /\ SaysAllow(settings[1])
           deny == ~files /\ SaysDeny(settings[1])
       IN  said' = [said EXCEPT !.next = (said.next \/ allow) /\ ~deny,
                                !.allowed = said.allowed \/ allow,
                                !.denied = said.denied \/ deny,
                                !.item_no = no, !.list_no = said.list_no \/ no,
                                !.own = settings # <<>>, !.before = BeforeNext]
    /\ UNCHANGED <<exec_settings, commands>>

\* An item of a files list: `to` is required, `from` may be that of an earlier item.
FilesItem(from) ==
    /\ place = "files"
    /\ from \/ from_file
    /\ Len(commands) < MaxCommands
    /\ from_file' = TRUE
    /\ commands' = Append(commands, Last(stack))
    /\ UNCHANGED <<place, stack, exec_settings, copy_read, said>>

FilesEnd ==
    /\ place = "files"
    /\ place' = "copy"
    /\ UNCHANGED <<stack, exec_settings, from_file, commands, copy_read, said>>

CopyEnd ==
    /\ place = "copy"
    /\ place' = "exec"
    /\ UNCHANGED <<stack, exec_settings, from_file, commands, copy_read, said>>

\* "error: no commands to execute" when nothing was read
ExecEnd ==
    /\ place = "exec"
    /\ place' = IF commands = <<>> THEN "malformed" ELSE "read"
    /\ UNCHANGED <<stack, exec_settings, from_file, commands, copy_read, said>>

Next ==
    \/ Malformed
    \/ \E settings \in Settings : ExecItem(settings)
    \/ \E node \in SettingsNodes : CopySettings(node)
    \/ \E files \in BOOLEAN, settings \in Settings : CopyItem(files, settings)
    \/ \E from \in BOOLEAN : FilesItem(from)
    \/ FilesEnd \/ CopyEnd \/ ExecEnd

Spec == Init /\ [][Next]_vars
-----------------------------------------------------------------------------
(* Properties                                                              *)

\* What an exec item starts from is what the last copy node in map form decided:
\* the decision is never lost, and nothing that was set for one item, at whatever
\* level, stays behind for the exec items after it.
RootHoldsDecision == stack[1] = IF said.root THEN {Allow} ELSE {}

\* While the items of a copy list are read, whatever they push, level 2 keeps the
\* settings of the exec item: every item without settings of its own can fall back
\* to them.
ExecSettingsKept ==
    (place \in {"copy", "files"} /\ exec_settings) =>
        /\ Len(stack) > 1
        /\ stack[2] = stack[1] \cup (IF said.exec_no THEN {No} ELSE {})

NewCommand == commands' # commands

NoFlag == No \in Last(commands')
AllowFlag == Allow \in Last(commands')

\* The flag of a copy item in an exec item without settings is not cleared on level 2:
\* the files of later items get it too, up to and with the next item that has
\* settings.  That is against "applies to current item only" (enum flags_t).
Uncleared == said.list_no /\ ~exec_settings /\ said.before = 1

\* The flag for the current item, with any settings anywhere else in the document: a
\* file of a copy item that has it in its settings is a command with the flag, and so
\* is a file under an exec item that has it, at least as long as no copy item before
\* has settings of its own: the next item behind one finds a level without the flag.
\* A command without one of the two never has it, but for the files that Uncleared
\* names.
NoFlagScope ==
    [][NewCommand => /\ said.item_no => NoFlag
                     /\ said.exec_no /\ said.before = 0 => NoFlag
                     /\ NoFlag => said.item_no \/ said.exec_no \/ Uncleared]_vars

\* The copy items with settings that find a level below the fourth: three levels are
\* left for a later item, one is the root's, one the exec item's if it has settings.
Levels == IF exec_settings THEN 1 ELSE 2

\* The decision for the items that follow: a command has the last one that stands in
\* front of it, in its list or for all exec items, as long as the items with settings
\* before it all find a level.  Behind more of them the last may be lost, against
\* "applies to all next items" (enum flags_t); the command still has one that stands
\* in front of it, never one of another exec item's list.
NextScope ==
    [][NewCommand => /\ said.before <= Levels => (AllowFlag <=> said.next)
                     /\ AllowFlag => said.allowed
                     /\ ~AllowFlag => said.denied]_vars

-----------------------------------------------------------------------------
(* The inductive invariant: what the proofs of ExecConfigProofs rest on.     *)

InCopy == place \in {"copy", "files"}

\* The level that this copy item went back to
Level == IF said.before < Levels THEN 3 - Levels + said.before ELSE 3

\* The level that the next copy item goes back to
LevelNext == IF Len(stack) < 3 THEN Len(stack) ELSE 3

\* An item with settings is one level above the one it went back to.
LevelsOfItems ==
    InCopy => Len(stack) = IF said.own THEN Level + 1 ELSE Level

\* The flag for the current item, as later items find it where they go back to
NoFlagOnLevels ==
    InCopy =>
        /\ said.exec_no => exec_settings
        /\ said.list_no /\ ~exec_settings => Len(stack) > 1
        /\ ~exec_settings /\ Len(stack) = 2 => (No \in stack[2] <=> said.list_no)

\* and the decision for the next items
NextOnLevel ==
    InCopy /\ BeforeNext <= Levels => (Allow \in stack[LevelNext] <=> said.next)

\* No level has a decision that does not stand in the list or for all exec items.
LevelsAreDecided ==
    InCopy =>
        \A i \in 1 .. Len(stack) :
            /\ Allow \in stack[i] => said.allowed
            /\ Allow \notin stack[i] => said.denied

\* The files of a copy item are read with the settings on the top.
NoFlagOnTop ==
    place = "files" =>
        (No \in Last(stack) <=> \/ said.item_no
                                \/ said.exec_no /\ said.before = 0
                                \/ Uncleared)

NextOnTop ==
    place = "files" /\ said.before <= Levels =>
        (Allow \in Last(stack) <=> said.next)

SettingsInv ==
    /\ ConfigTypeOK
    /\ RootHoldsDecision
    /\ ExecSettingsKept
    /\ LevelsOfItems
    /\ NoFlagOnLevels
    /\ NextOnLevel
    /\ LevelsAreDecided
    /\ NoFlagOnTop
    /\ NextOnTop
=============================================================================
