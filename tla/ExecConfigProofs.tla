--------------------------- MODULE ExecConfigProofs ---------------------------
(***************************************************************************)
(* Proofs about ExecConfig for documents of every length and settings nodes *)
(* of every content: SettingsInv is inductive, and what the reader promises *)
(* about the scope of the settings follows from it.                         *)
(***************************************************************************)
EXTENDS ExecConfig, TLAPS

FlagSet == SUBSET Flags

\* The lengths of the stack after the levels of earlier items were popped.
Kept(max) == IF Len(stack) < max THEN Len(stack) ELSE max

LEMMA PoppedFacts ==
    ASSUME stack \in Seq(FlagSet), Len(stack) >= 1, NEW max \in Nat, max >= 1
    PROVE  /\ Popped(max) \in Seq(FlagSet)
           /\ Len(Popped(max)) = Kept(max)
           /\ \A i \in 1 .. Kept(max) : Popped(max)[i] = stack[i]
           /\ Kept(max) \in 1 .. max /\ Kept(max) <= Len(stack)
  <1>1. Len(stack) \in Nat /\ \A i \in 1 .. Len(stack) : stack[i] \in FlagSet
    OBVIOUS
  <1>2. Kept(max) \in 1 .. max /\ Kept(max) <= Len(stack)
    BY <1>1 DEF Kept
  <1>3. Popped(max) = [i \in 1 .. Kept(max) |-> stack[i]]
    BY DEF Popped, Kept
  <1>4. \A i \in 1 .. Kept(max) : stack[i] \in FlagSet
    BY <1>1, <1>2
  <1> HIDE DEF Kept
  <1> QED
    BY <1>2, <1>3, <1>4

LEMMA WithTopFacts ==
    ASSUME NEW s \in Seq(FlagSet), Len(s) >= 1, NEW flags \in FlagSet
    PROVE  /\ WithTop(s, flags) \in Seq(FlagSet)
           /\ Len(WithTop(s, flags)) = Len(s)
           /\ \A i \in 1 .. Len(s) - 1 : WithTop(s, flags)[i] = s[i]
           /\ WithTop(s, flags)[Len(s)] = flags
  BY DEF WithTop

LEMMA PushedFacts ==
    ASSUME NEW s \in Seq(FlagSet), Len(s) >= 1, NEW push \in BOOLEAN
    PROVE  /\ Pushed(s, push) \in Seq(FlagSet)
           /\ Len(Pushed(s, push)) = IF push THEN Len(s) + 1 ELSE Len(s)
           /\ \A i \in 1 .. Len(s) : Pushed(s, push)[i] = s[i]
           /\ push => Pushed(s, push)[Len(s) + 1] = s[Len(s)]
  BY DEF Pushed, Last

\* update_inherited_stack: the levels below the top it returns to are untouched, the
\* top only loses the flag for the current item, and a new level is a copy of it.
LEMMA InheritedFacts ==
    ASSUME stack \in Seq(FlagSet), Len(stack) >= 1,
           NEW max \in Nat, max >= 1, NEW cleared \in Nat, NEW push \in BOOLEAN
    PROVE  LET k == Kept(max)
               r == Inherited(max, cleared, push)
               top == IF k >= cleared THEN stack[k] \ {No} ELSE stack[k]
           IN  /\ r \in Seq(FlagSet)
               /\ Len(r) = IF push THEN k + 1 ELSE k
               /\ \A i \in 1 .. k - 1 : r[i] = stack[i]
               /\ r[k] = top
               /\ push => r[k + 1] = top
  <1> DEFINE k == Kept(max)
             p == Popped(max)
             top == IF k >= cleared THEN stack[k] \ {No} ELSE stack[k]
             w == WithTop(p, top)
  <1>1. /\ p \in Seq(FlagSet)
        /\ Len(p) = k
        /\ \A i \in 1 .. k : p[i] = stack[i]
        /\ k \in Nat /\ k >= 1
    BY PoppedFacts
  <1>2. Last(p) = stack[k] /\ top \in FlagSet
    BY <1>1 DEF Last, FlagSet
  <1>3. Inherited(max, cleared, push) = Pushed(w, push)
    BY <1>1, <1>2 DEF Inherited, ClearCurrent
  <1> HIDE DEF k, p, top
  <1>4. /\ w \in Seq(FlagSet)
        /\ Len(w) = k
        /\ \A i \in 1 .. k - 1 : w[i] = p[i]
        /\ w[k] = top
    <2>1. Len(p) >= 1
      BY <1>1
    <2>2. /\ w \in Seq(FlagSet)
          /\ Len(w) = Len(p)
          /\ \A i \in 1 .. Len(p) - 1 : w[i] = p[i]
          /\ w[Len(p)] = top
      BY <1>1, <1>2, <2>1, WithTopFacts, Zenon
    <2> QED
      BY <1>1, <2>2
  <1> HIDE DEF w
  <1>5. /\ Pushed(w, push) \in Seq(FlagSet)
        /\ Len(Pushed(w, push)) = IF push THEN k + 1 ELSE k
        /\ \A i \in 1 .. k : Pushed(w, push)[i] = w[i]
        /\ push => Pushed(w, push)[k + 1] = w[k]
    <2>1. Len(w) >= 1
      BY <1>1, <1>4
    <2>2. /\ Pushed(w, push) \in Seq(FlagSet)
          /\ Len(Pushed(w, push)) = IF push THEN Len(w) + 1 ELSE Len(w)
          /\ \A i \in 1 .. Len(w) : Pushed(w, push)[i] = w[i]
          /\ push => Pushed(w, push)[Len(w) + 1] = w[Len(w)]
      BY <1>4, <2>1, PushedFacts, Zenon
    <2> QED
      BY <1>4, <2>2
  <1>6. \A i \in 1 .. k - 1 : Pushed(w, push)[i] = stack[i]
    BY <1>1, <1>4, <1>5
  <1>7. Pushed(w, push)[k] = top /\ (push => Pushed(w, push)[k + 1] = top)
    BY <1>1, <1>4, <1>5
  <1> QED
    BY <1>3, <1>5, <1>6, <1>7 DEF k, top

\* The settings node changes the top of the stack and nothing below it.
LEMMA AppliedFacts ==
    ASSUME NEW s \in Seq(FlagSet), Len(s) >= 1,
           NEW settings \in Settings, NEW is_next \in BOOLEAN
    PROVE  LET r == Applied(s, settings, is_next)
           IN  /\ r \in Seq(FlagSet)
               /\ Len(r) = Len(s)
               /\ \A i \in 1 .. Len(s) - 1 : r[i] = s[i]
               /\ r[Len(s)] = IF settings = <<>> THEN s[Len(s)]
                              ELSE AfterSettings(s[Len(s)], settings[1], is_next)
  <1>1. CASE settings = <<>>
    BY <1>1 DEF Applied
  <1>2. CASE settings # <<>>
    <2> DEFINE after == AfterSettings(s[Len(s)], settings[1], is_next)
    <2>1. after \in FlagSet
      BY DEF AfterSettings, FlagSet, Flags
    <2>2. Applied(s, settings, is_next) = WithTop(s, after)
      BY <1>2 DEF Applied, Last
    <2> HIDE DEF after
    <2>3. /\ WithTop(s, after) \in Seq(FlagSet)
          /\ Len(WithTop(s, after)) = Len(s)
          /\ \A i \in 1 .. Len(s) - 1 : WithTop(s, after)[i] = s[i]
          /\ WithTop(s, after)[Len(s)] = after
      BY <2>1, WithTopFacts, Zenon
    <2> QED
      BY <1>2, <2>2, <2>3, Zenon DEF after
  <1> QED
    BY <1>1, <1>2

LEMMA InitHolds == Init => SettingsInv
  <1> SUFFICES ASSUME Init PROVE SettingsInv
    OBVIOUS
  <1>1. stack = <<{}>> /\ commands = <<>> /\ place = "exec"
    BY DEF Init
  <1>2. ConfigTypeOK
    <2>1. {} \in SUBSET Flags
      OBVIOUS
    <2>2. stack \in Seq(SUBSET Flags) /\ Len(stack) = 1
      BY <1>1, <2>1
    <2>3. commands \in Seq(SUBSET Flags)
      BY <1>1
    <2>4. exec_settings \in BOOLEAN /\ from_file \in BOOLEAN /\ copy_read \in BOOLEAN
      BY DEF Init
    <2>5. said \in Said
      <3>1. 0 \in 0 .. 3 /\ FALSE \in BOOLEAN /\ TRUE \in BOOLEAN
        OBVIOUS
      <3> QED
        BY <3>1, Zenon DEF Init, Said
    <2> QED
      BY <1>1, <2>2, <2>3, <2>4, <2>5 DEF ConfigTypeOK, Places
  <1>3. RootHoldsDecision /\ ExecSettingsKept
    BY <1>1 DEF Init, RootHoldsDecision, ExecSettingsKept
  <1>4. /\ LevelsOfItems /\ NoFlagOnLevels /\ NextOnLevel /\ LevelsAreDecided
        /\ NoFlagOnTop /\ NextOnTop
    BY <1>1 DEF LevelsOfItems, NoFlagOnLevels, NextOnLevel, LevelsAreDecided, NoFlagOnTop,
                NextOnTop, InCopy
  <1> QED
    BY <1>2, <1>3, <1>4 DEF SettingsInv

\* A new exec item goes back to level 1, whatever the item before it pushed.
LEMMA ExecItemStep ==
    ASSUME SettingsInv, NEW settings \in Settings, ExecItem(settings)
    PROVE  SettingsInv'
  <1>1. /\ stack \in Seq(FlagSet) /\ Len(stack) \in 1 .. 4 /\ said \in Said
        /\ stack[1] = IF said.root THEN {Allow} ELSE {}
    BY DEF SettingsInv, ConfigTypeOK, RootHoldsDecision, FlagSet
  <1> DEFINE push == settings # <<>>
             s == Inherited(1, 1, push)
             root == IF said.root THEN {Allow} ELSE {}
  <1>2. Kept(1) = 1
    BY <1>1 DEF Kept
  <1>3. /\ s \in Seq(FlagSet)
        /\ Len(s) = IF push THEN 2 ELSE 1
        /\ s[1] = root
        /\ push => s[2] = root
    <2>1. stack[1] \ {No} = root
      BY <1>1 DEF Allow, No
    <2>2. /\ s \in Seq(FlagSet)
          /\ Len(s) = IF push THEN 1 + 1 ELSE 1
          /\ s[1] = stack[1] \ {No}
          /\ push => s[1 + 1] = stack[1] \ {No}
      <3>1. 1 \in Nat /\ 1 >= 1 /\ push \in BOOLEAN /\ Len(stack) >= 1
        BY <1>1
      <3>2. LET k == Kept(1)
                top == IF k >= 1 THEN stack[k] \ {No} ELSE stack[k]
            IN  /\ s \in Seq(FlagSet)
                /\ Len(s) = IF push THEN k + 1 ELSE k
                /\ \A i \in 1 .. k - 1 : s[i] = stack[i]
                /\ s[k] = top
                /\ push => s[k + 1] = top
        BY <1>1, <3>1, InheritedFacts, Zenon
      <3> HIDE DEF s
      <3> QED
        BY <1>2, <3>2
    <2>3. 1 + 1 = 2
      OBVIOUS
    <2> HIDE DEF s, push, root
    <2> QED
      BY <2>1, <2>2, <2>3, Zenon
  <1> HIDE DEF s
  <1> DEFINE r == Applied(s, settings, FALSE)
  <1>4. /\ r \in Seq(FlagSet)
        /\ Len(r) = Len(s)
        /\ \A i \in 1 .. Len(s) - 1 : r[i] = s[i]
        /\ r[Len(s)] = IF settings = <<>> THEN s[Len(s)]
                       ELSE AfterSettings(s[Len(s)], settings[1], FALSE)
    <2>1. Len(s) >= 1
      BY <1>3
    <2> QED
      BY <1>3, <2>1, AppliedFacts, Zenon
  <1> HIDE DEF r
  <1>5. /\ stack' = r
        /\ exec_settings' = push
        /\ place' = "copy"
        /\ copy_read' = FALSE
        /\ from_file' = from_file /\ commands' = commands
        /\ said'.root = said.root
        /\ said'.next = said.root
        /\ said'.allowed = said.root /\ said'.denied = ~said.root
        /\ said'.exec_no = SaysNo(settings)
        /\ said'.list_no = FALSE /\ said'.own = FALSE /\ said'.before = 0
        /\ said' \in Said
    <2> DEFINE no == SaysNo(settings)
    <2>1. said' = [said EXCEPT !.next = said.root, !.allowed = said.root,
                               !.denied = ~said.root, !.exec_no = no, !.item_no = FALSE,
                               !.list_no = FALSE, !.own = FALSE, !.before = 0]
      BY DEF ExecItem
    <2>2. no \in BOOLEAN /\ FALSE \in BOOLEAN /\ 0 \in 0 .. 3
      BY DEF SaysNo
    <2> HIDE DEF no
    <2>3. said = [root |-> said.root, next |-> said.next, allowed |-> said.allowed,
                  denied |-> said.denied, exec_no |-> said.exec_no, item_no |-> said.item_no,
                  list_no |-> said.list_no, own |-> said.own, before |-> said.before]
          /\ said.root \in BOOLEAN
      BY <1>1 DEF Said
    <2>4. said' = [root |-> said.root, next |-> said.root, allowed |-> said.root,
                   denied |-> ~said.root, exec_no |-> no, item_no |-> FALSE,
                   list_no |-> FALSE, own |-> FALSE, before |-> 0]
      BY <2>1, <2>3
    <2>5. /\ said'.root = said.root
          /\ said'.next = said.root
          /\ said'.allowed = said.root /\ said'.denied = ~said.root
          /\ said'.exec_no = no
          /\ said'.list_no = FALSE /\ said'.own = FALSE /\ said'.before = 0
          /\ said' \in Said
      BY <2>2, <2>3, <2>4, Zenon DEF Said
    <2> QED
      BY <2>5, Zenon DEF ExecItem, s, r, no
  <1>8. Len(r) \in 1 .. 4
    BY <1>3, <1>4
  <1>9. ConfigTypeOK'
    <2>1. /\ stack' \in Seq(SUBSET Flags) /\ Len(stack') \in 1 .. 4
      BY <1>4, <1>5, <1>8, Zenon DEF FlagSet
    <2>2. /\ exec_settings' \in BOOLEAN /\ from_file' \in BOOLEAN /\ copy_read' \in BOOLEAN
          /\ commands' \in Seq(SUBSET Flags)
      BY <1>5, Zenon DEF SettingsInv, ConfigTypeOK
    <2> QED
      BY <1>5, <2>1, <2>2 DEF ConfigTypeOK, Places
  <1>6. CASE settings = <<>>
    <2>1. stack'[1] = root /\ Len(stack') = 1 /\ ~exec_settings'
      BY <1>3, <1>4, <1>5, <1>6
    <2>2. ~said'.exec_no
      BY <1>5, <1>6 DEF SaysNo
    <2>3. RootHoldsDecision' /\ ExecSettingsKept'
      BY <1>5, <2>1 DEF RootHoldsDecision, ExecSettingsKept
    <2>4. LevelsOfItems'
      BY <1>5, <2>1 DEF LevelsOfItems, Level, Levels
    <2>5. NoFlagOnLevels'
      BY <1>5, <2>1, <2>2 DEF NoFlagOnLevels
    <2>6. NextOnLevel'
      <3>1. LevelNext' = 1
        BY <2>1 DEF LevelNext
      <3> QED
        BY <1>5, <2>1, <3>1 DEF NextOnLevel
    <2>7. LevelsAreDecided'
      <3>1. \A i \in 1 .. Len(stack') : i = 1
        BY <2>1
      <3>2. \A i \in 1 .. Len(stack') : Allow \in stack'[i] <=> said.root
        BY <2>1, <3>1 DEF Allow
      <3> QED
        BY <1>5, <3>2, Zenon DEF LevelsAreDecided
    <2>8. NoFlagOnTop' /\ NextOnTop'
      BY <1>5 DEF NoFlagOnTop, NextOnTop
    <2> QED
      BY <1>9, <2>3, <2>4, <2>5, <2>6, <2>7, <2>8 DEF SettingsInv
  <1>7. CASE settings # <<>>
    <2>1. /\ stack'[1] = root /\ Len(stack') = 2
          /\ stack'[2] = AfterSettings(root, settings[1], FALSE)
      <3>1. Len(s) = 2 /\ s[1] = root /\ s[2] = root
        BY <1>3, <1>7
      <3> HIDE DEF root
      <3>2. r[1] = s[1]
        BY <1>4, <3>1
      <3>3. r[2] = AfterSettings(s[2], settings[1], FALSE)
        BY <1>4, <1>7, <3>1, Zenon
      <3> QED
        BY <1>4, <1>5, <3>1, <3>2, <3>3, Zenon
    <2>2. stack'[2] = root \cup (IF SaysNo(settings) THEN {No} ELSE {})
      BY <1>7, <2>1 DEF AfterSettings, SaysNo
    <2>3. exec_settings' = TRUE
      BY <1>5, <1>7
    <2>4. RootHoldsDecision' /\ ExecSettingsKept'
      <3>1. Len(stack') > 1
        BY <2>1
      <3>2. stack'[2] = stack'[1] \cup (IF said'.exec_no THEN {No} ELSE {})
        BY <1>5, <2>1, <2>2, Zenon
      <3> QED
        BY <1>5, <2>1, <3>1, <3>2, Zenon DEF RootHoldsDecision, ExecSettingsKept
    <2>5. LevelsOfItems'
      BY <1>5, <2>1, <2>3 DEF LevelsOfItems, Level, Levels
    <2>6. NoFlagOnLevels'
      BY <1>5, <2>3 DEF NoFlagOnLevels
    <2>7. NextOnLevel'
      <3>1. LevelNext' = 2
        BY <2>1 DEF LevelNext
      <3>2. Allow \in stack'[2] <=> said.root
        BY <2>2 DEF Allow, No
      <3> QED
        BY <1>5, <3>1, <3>2 DEF NextOnLevel
    <2>8. LevelsAreDecided'
      <3>1. \A i \in 1 .. Len(stack') : i = 1 \/ i = 2
        BY <2>1
      <3>2. \A i \in 1 .. Len(stack') : Allow \in stack'[i] <=> said.root
        BY <2>1, <2>2, <3>1 DEF Allow, No
      <3> QED
        BY <1>5, <3>2, Zenon DEF LevelsAreDecided
    <2>9. NoFlagOnTop' /\ NextOnTop'
      BY <1>5 DEF NoFlagOnTop, NextOnTop
    <2> QED
      BY <1>9, <2>4, <2>5, <2>6, <2>7, <2>8, <2>9 DEF SettingsInv
  <1> QED
    BY <1>6, <1>7

\* An item with or without settings: the level it returns to keeps its settings but
\* the cleared flag; settings of its own are one level above.
LEMMA ItemStack ==
    ASSUME stack \in Seq(FlagSet), Len(stack) >= 1,
           NEW max \in Nat, max >= 1, NEW cleared \in Nat,
           NEW settings \in Settings, NEW is_next \in BOOLEAN
    PROVE  LET k == Kept(max)
               r == Applied(Inherited(max, cleared, settings # <<>>), settings, is_next)
               top == IF k >= cleared THEN stack[k] \ {No} ELSE stack[k]
           IN  /\ r \in Seq(FlagSet)
               /\ \A i \in 1 .. k - 1 : r[i] = stack[i]
               /\ r[k] = top
               /\ settings = <<>> => Len(r) = k
               /\ settings # <<>> =>
                     /\ Len(r) = k + 1
                     /\ r[k + 1] = AfterSettings(top, settings[1], is_next)
  <1> DEFINE k == Kept(max)
             push == settings # <<>>
             s == Inherited(max, cleared, push)
             top == IF k >= cleared THEN stack[k] \ {No} ELSE stack[k]
             r == Applied(s, settings, is_next)
  <1>1. k \in Nat /\ k >= 1
    BY PoppedFacts
  <1>2. /\ s \in Seq(FlagSet)
        /\ Len(s) = IF push THEN k + 1 ELSE k
        /\ \A i \in 1 .. k - 1 : s[i] = stack[i]
        /\ s[k] = top
        /\ push => s[k + 1] = top
    <2>1. push \in BOOLEAN
      OBVIOUS
    <2> QED
      BY <2>1, InheritedFacts, Zenon
  <1> HIDE DEF k, s, top
  <1>3. Len(s) >= 1
    BY <1>1, <1>2
  <1>4. /\ r \in Seq(FlagSet)
        /\ Len(r) = Len(s)
        /\ \A i \in 1 .. Len(s) - 1 : r[i] = s[i]
        /\ r[Len(s)] = IF settings = <<>> THEN s[Len(s)]
                       ELSE AfterSettings(s[Len(s)], settings[1], is_next)
    BY <1>2, <1>3, AppliedFacts, Zenon
  <1> HIDE DEF r
  <1>5. CASE settings = <<>>
    <2>1. Len(s) = k /\ Len(r) = k /\ r[k] = top
      BY <1>2, <1>4, <1>5, Zenon
    <2>2. \A i \in 1 .. k - 1 : r[i] = stack[i]
      BY <1>2, <1>4, <2>1, Zenon
    <2> QED
      BY <1>4, <1>5, <2>1, <2>2, Zenon DEF r, s, k, top
  <1>6. CASE settings # <<>>
    <2>1. Len(s) = k + 1 /\ Len(r) = k + 1
      BY <1>2, <1>4, <1>6, Zenon
    <2>2. r[k + 1] = AfterSettings(top, settings[1], is_next)
      BY <1>2, <1>4, <1>6, <2>1, Zenon
    <2>3. \A i \in 1 .. k : r[i] = s[i]
      BY <1>1, <1>4, <2>1
    <2>4. r[k] = top
      BY <1>1, <1>2, <2>3
    <2>5. \A i \in 1 .. k - 1 : r[i] = stack[i]
      BY <1>1, <1>2, <2>3
    <2> QED
      BY <1>4, <1>6, <2>1, <2>2, <2>4, <2>5, Zenon DEF r, s, k, top
  <1> QED
    BY <1>5, <1>6

\* A copy node in map form decides for the exec items after it.
LEMMA CopySettingsStep ==
    ASSUME SettingsInv, NEW node \in SettingsNodes, CopySettings(node)
    PROVE  SettingsInv'
  <1>1. /\ stack \in Seq(FlagSet) /\ Len(stack) \in 1 .. 4 /\ said \in Said
        /\ stack[1] = IF said.root THEN {Allow} ELSE {}
    BY DEF SettingsInv, ConfigTypeOK, RootHoldsDecision, FlagSet
  <1> DEFINE s == Inherited(1, 1, FALSE)
             root == IF said.root THEN {Allow} ELSE {}
             r == Applied(s, <<node>>, TRUE)
             after == AfterSettings(root, node, TRUE)
  <1>2. s \in Seq(FlagSet) /\ Len(s) = 1 /\ s[1] = root
    <2>1. Kept(1) = 1
      BY <1>1 DEF Kept
    <2>2. stack[1] \ {No} = root
      BY <1>1 DEF Allow, No
    <2>3. 1 \in Nat /\ 1 >= 1 /\ FALSE \in BOOLEAN /\ Len(stack) >= 1
      BY <1>1
    <2>4. LET k == Kept(1)
              top == IF k >= 1 THEN stack[k] \ {No} ELSE stack[k]
          IN  /\ s \in Seq(FlagSet)
              /\ Len(s) = IF FALSE THEN k + 1 ELSE k
              /\ s[k] = top
      BY <1>1, <2>3, InheritedFacts, Zenon
    <2> HIDE DEF s
    <2> QED
      BY <2>1, <2>2, <2>3, <2>4, Zenon
  <1> HIDE DEF s
  <1>3. r \in Seq(FlagSet) /\ Len(r) = 1 /\ r[1] = after
    <2>1. <<node>> \in Settings /\ <<node>> # <<>> /\ <<node>>[1] = node /\ TRUE \in BOOLEAN
      BY DEF Settings
    <2>2. Len(s) >= 1
      BY <1>2
    <2>3. LET t == <<node>>
          IN  /\ r \in Seq(FlagSet)
              /\ Len(r) = Len(s)
              /\ r[Len(s)] = IF t = <<>> THEN s[Len(s)]
                             ELSE AfterSettings(s[Len(s)], t[1], TRUE)
      BY <1>2, <2>1, <2>2, AppliedFacts, Zenon
    <2> HIDE DEF r
    <2> QED
      BY <1>2, <2>1, <2>3, Zenon
  <1> HIDE DEF r
  <1>4. /\ stack' = r /\ place' = "exec"
        /\ exec_settings' = exec_settings /\ from_file' = from_file
        /\ commands' = commands /\ copy_read' = copy_read
        /\ said' \in Said
        /\ said'.root = Decision(said.root, node, TRUE)
    <2> DEFINE d == Decision(said.root, node, TRUE)
    <2>1. d \in BOOLEAN
      BY DEF Decision
    <2>2. said' = [said EXCEPT !.root = d]
      BY DEF CopySettings
    <2> HIDE DEF d
    <2>3. said' \in Said /\ said'.root = d
      BY <1>1, <2>1, <2>2 DEF Said
    <2> QED
      BY <2>3, Zenon DEF CopySettings, s, r, d
  <1>5. after = IF Decision(said.root, node, TRUE) THEN {Allow} ELSE {}
    <2>1. root \in {{}, {Allow}}
      OBVIOUS
    <2> HIDE DEF root
    <2>2. after \in {{}, {Allow}}
      BY <2>1 DEF AfterSettings
    <2>3. Decision(said.root, node, TRUE) <=> Allow \in after
      BY DEF Decision, root
    <2> QED
      BY <2>2, <2>3
  <1>6. RootHoldsDecision'
    BY <1>3, <1>4, <1>5, Zenon DEF RootHoldsDecision
  <1>7. ConfigTypeOK'
    <2>1. Len(r) \in 1 .. 4
      BY <1>3
    <2>2. /\ stack' \in Seq(SUBSET Flags) /\ Len(stack') \in 1 .. 4
      BY <1>3, <1>4, <2>1, Zenon DEF FlagSet
    <2>3. /\ exec_settings' \in BOOLEAN /\ from_file' \in BOOLEAN /\ copy_read' \in BOOLEAN
          /\ commands' \in Seq(SUBSET Flags)
      BY <1>4, Zenon DEF SettingsInv, ConfigTypeOK
    <2> QED
      BY <1>4, <2>2, <2>3 DEF ConfigTypeOK, Places
  <1> QED
    BY <1>4, <1>6, <1>7
       DEF SettingsInv, ExecSettingsKept, LevelsOfItems, NoFlagOnLevels, NextOnLevel,
           LevelsAreDecided, NoFlagOnTop, NextOnTop, InCopy

\* A copy item: what it pushes is above the level that it returns to, and that level
\* is not the root, or nothing but the flag for the current item is taken from it.
LEMMA CopyItemStep ==
    ASSUME SettingsInv, NEW files \in BOOLEAN, NEW settings \in Settings,
           CopyItem(files, settings)
    PROVE  SettingsInv'
  <1>1. /\ stack \in Seq(FlagSet) /\ Len(stack) \in 1 .. 4 /\ said \in Said
        /\ stack[1] = IF said.root THEN {Allow} ELSE {}
        /\ place = "copy"
    BY DEF SettingsInv, ConfigTypeOK, RootHoldsDecision, FlagSet, CopyItem
  <1> DEFINE k == Kept(3)
             r == Applied(Inherited(3, 3, settings # <<>>), settings, ~files)
             top == IF k >= 3 THEN stack[k] \ {No} ELSE stack[k]
             after == AfterSettings(top, settings[1], ~files)
             no == files /\ SaysNo(settings)
             allow == ~files /\ SaysAllow(settings[1])
             deny == ~files /\ SaysDeny(settings[1])
             next == (said.next \/ allow) /\ ~deny
  <1>2. k \in 1 .. 3 /\ k <= Len(stack)
    <2>1. 3 \in Nat /\ 3 >= 1 /\ Len(stack) >= 1
      BY <1>1
    <2> QED
      BY <1>1, <2>1, PoppedFacts, Zenon
  <1>3. k = IF Len(stack) < 3 THEN Len(stack) ELSE 3
    BY DEF Kept
  <1>4. /\ r \in Seq(FlagSet)
        /\ \A i \in 1 .. k - 1 : r[i] = stack[i]
        /\ r[k] = top
        /\ settings = <<>> => Len(r) = k
        /\ settings # <<>> => Len(r) = k + 1 /\ r[k + 1] = after
    <2>1. 3 \in Nat /\ 3 >= 1 /\ Len(stack) >= 1
      BY <1>1
    <2>2. (~files) \in BOOLEAN
      BY Zenon
    <2> QED
      BY <1>1, <2>1, <2>2, ItemStack, ZenonT(60)
  <1>5. /\ stack' = r
        /\ exec_settings' = exec_settings /\ commands' = commands
        /\ from_file' = FALSE /\ copy_read' = TRUE
        /\ place' = IF files THEN "files" ELSE "copy"
    BY Zenon DEF CopyItem
  <1>6. /\ said' \in Said
        /\ said'.root = said.root
        /\ said'.exec_no = said.exec_no
        /\ said'.item_no = no
        /\ said'.list_no = (said.list_no \/ no)
        /\ said'.own = (settings # <<>>)
        /\ said'.before = BeforeNext
        /\ said'.next = next
        /\ said'.allowed = (said.allowed \/ allow)
        /\ said'.denied = (said.denied \/ deny)
    <2>1. no \in BOOLEAN /\ allow \in BOOLEAN /\ deny \in BOOLEAN /\ next \in BOOLEAN
      BY Zenon DEF SaysNo, SaysAllow, SaysDeny
    <2>2. said' = [said EXCEPT !.next = next, !.allowed = said.allowed \/ allow,
                               !.denied = said.denied \/ deny, !.item_no = no,
                               !.list_no = said.list_no \/ no, !.own = settings # <<>>,
                               !.before = BeforeNext]
      BY DEF CopyItem
    <2>3. BeforeNext \in 0 .. 3
      BY <1>1 DEF BeforeNext, Said
    <2> DEFINE allowed == said.allowed \/ allow
               denied == said.denied \/ deny
               list_no == said.list_no \/ no
               own == settings # <<>>
    <2>4. /\ said = [root |-> said.root, next |-> said.next, allowed |-> said.allowed,
                     denied |-> said.denied, exec_no |-> said.exec_no,
                     item_no |-> said.item_no, list_no |-> said.list_no,
                     own |-> said.own, before |-> said.before]
          /\ said.root \in BOOLEAN /\ said.exec_no \in BOOLEAN
      BY <1>1 DEF Said
    <2>5. /\ allowed \in BOOLEAN /\ denied \in BOOLEAN
          /\ list_no \in BOOLEAN /\ own \in BOOLEAN
      BY Zenon
    <2> HIDE DEF no, next, allow, deny, allowed, denied, list_no, own
    <2>6. said' = [said EXCEPT !.next = next, !.allowed = allowed, !.denied = denied,
                               !.item_no = no, !.list_no = list_no, !.own = own,
                               !.before = BeforeNext]
      BY <2>2, Zenon DEF allowed, denied, list_no, own
    <2>7. said' = [root |-> said.root, next |-> next, allowed |-> allowed,
                   denied |-> denied, exec_no |-> said.exec_no, item_no |-> no,
                   list_no |-> list_no, own |-> own, before |-> BeforeNext]
      BY <2>4, <2>6
    <2>8. said' \in Said
      BY <2>1, <2>3, <2>4, <2>5, <2>7, Zenon DEF Said
    <2>9. /\ said'.root = said.root
          /\ said'.exec_no = said.exec_no
          /\ said'.item_no = no
          /\ said'.list_no = list_no
          /\ said'.own = own
          /\ said'.before = BeforeNext
          /\ said'.next = next
          /\ said'.allowed = allowed
          /\ said'.denied = denied
      BY <2>7, Zenon
    <2> QED
      BY <2>8, <2>9, Zenon DEF allowed, denied, list_no, own
  <1> HIDE DEF k, r
  \* the flag is above level k just when the settings of this item hold it, or when it
  \* is on level k already; settings beside files leave the decision as it was
  <1>7. settings # <<>> => (No \in after <=> no \/ No \in top)
    BY DEF AfterSettings, SaysNo, Allow, No
  <1>7a. settings # <<>> =>
            (Allow \in after <=> (Allow \in top \/ allow) /\ ~deny)
    BY DEF AfterSettings, SaysAllow, SaysDeny, Allow, No
  <1>7b. settings = <<>> => ~allow /\ ~deny
    BY DEF CopyItem
  <1>8. /\ No \in top => No \in stack[k] /\ k < 3
        /\ k < 3 => top = stack[k]
        /\ Allow \in top <=> Allow \in stack[k]
    BY <1>2 DEF Allow, No
  <1> HIDE DEF top, after, no, allow, deny
  <1>9. RootHoldsDecision'
    <2>1. CASE k = 1
      BY <1>1, <1>4, <1>5, <1>6, <1>8, <2>1 DEF RootHoldsDecision
    <2>2. CASE k # 1
      <3>1. r[1] = stack[1]
        BY <1>2, <1>4, <2>2
      <3> QED
        BY <1>1, <1>5, <1>6, <3>1 DEF RootHoldsDecision
    <2> QED
      BY <2>1, <2>2
  <1>10. Len(r) \in 1 .. 4 /\ Len(r) >= k
    <2>1. Len(r) = k \/ Len(r) = k + 1
      BY <1>4, Zenon
    <2>2. CASE Len(r) = k
      BY <1>2, <2>2
    <2>3. CASE Len(r) = k + 1
      <3>1. k + 1 \in 1 .. 4 /\ k + 1 >= k
        BY <1>2
      <3> QED
        BY <2>3, <3>1, Zenon
    <2> QED
      BY <2>1, <2>2, <2>3
  <1>11. ConfigTypeOK'
    <2>1. stack' \in Seq(SUBSET Flags) /\ Len(stack') \in 1 .. 4
      BY <1>4, <1>5, <1>10, Zenon DEF FlagSet
    <2>2. /\ exec_settings' \in BOOLEAN /\ from_file' \in BOOLEAN /\ copy_read' \in BOOLEAN
          /\ commands' \in Seq(SUBSET Flags)
      BY <1>5, Zenon DEF SettingsInv, ConfigTypeOK
    <2> QED
      BY <1>5, <1>6, <2>1, <2>2 DEF ConfigTypeOK, Places
  <1>12. exec_settings =>
            /\ k > 1
            /\ stack[2] = stack[1] \cup (IF said.exec_no THEN {No} ELSE {})
    <2> SUFFICES ASSUME exec_settings
                 PROVE  /\ k > 1
                        /\ stack[2] = stack[1] \cup (IF said.exec_no THEN {No} ELSE {})
      OBVIOUS
    <2>1. /\ Len(stack) > 1
          /\ stack[2] = stack[1] \cup (IF said.exec_no THEN {No} ELSE {})
      BY <1>1, Zenon DEF SettingsInv, ExecSettingsKept
    <2> QED
      BY <1>1, <1>3, <2>1
  <1>13. ExecSettingsKept'
    <2> SUFFICES ASSUME exec_settings
                 PROVE  /\ Len(r) > 1
                        /\ r[2] = r[1] \cup (IF said.exec_no THEN {No} ELSE {})
      BY <1>5, <1>6, Zenon DEF ExecSettingsKept
    <2>1. k > 1
      BY <1>12
    <2>2. r[1] = stack[1]
      BY <1>2, <1>4, <2>1
    <2>3. r[2] = stack[2]
      <3>1. CASE k = 2
        BY <1>4, <1>8, <3>1
      <3>2. CASE k = 3
        BY <1>4, <3>2
      <3> QED
        BY <1>2, <2>1, <3>1, <3>2
    <2>4. Len(r) > 1
      BY <1>2, <1>10, <2>1
    <2> QED
      BY <1>12, <2>2, <2>3, <2>4, Zenon
  <1>14. k = IF BeforeNext < Levels THEN 3 - Levels + BeforeNext ELSE 3
    <2>1. /\ Len(stack) = IF said.own THEN Level + 1 ELSE Level
          /\ said.before \in 0 .. 3 /\ said.own \in BOOLEAN
      BY <1>1 DEF SettingsInv, LevelsOfItems, InCopy, Said
    <2>2. CASE exec_settings
      BY <1>3, <2>1, <2>2 DEF Level, Levels, BeforeNext
    <2>3. CASE ~exec_settings
      BY <1>3, <2>1, <2>3 DEF Level, Levels, BeforeNext
    <2> QED
      BY <2>2, <2>3
  <1>15. LevelsOfItems'
    <2>1. Level' = k
      BY <1>5, <1>6, <1>14 DEF Level, Levels
    <2> QED
      BY <1>4, <1>5, <1>6, <2>1 DEF LevelsOfItems
  <1>16. /\ said.exec_no => exec_settings
         /\ said.list_no /\ ~exec_settings => Len(stack) > 1
         /\ ~exec_settings /\ Len(stack) = 2 => (No \in stack[2] <=> said.list_no)
    BY <1>1, Zenon DEF SettingsInv, NoFlagOnLevels, InCopy
  <1>17. No \in top <=> \/ said.exec_no /\ BeforeNext = 0
                        \/ said.list_no /\ BeforeNext = 1 /\ ~exec_settings
    <2>1. No \notin stack[1]
      BY <1>1 DEF Allow, No
    <2>2. BeforeNext \in 0 .. 3
      BY <1>1 DEF BeforeNext, Said
    <2>3. CASE exec_settings
      <3>1. k = IF BeforeNext = 0 THEN 2 ELSE 3
        BY <1>14, <2>2, <2>3 DEF Levels
      <3>2. CASE BeforeNext = 0
        <4>1. top = stack[2]
          BY <1>8, <3>1, <3>2
        <4>2. No \in top <=> said.exec_no
          BY <1>12, <2>1, <2>3, <4>1
        <4> QED
          BY <2>3, <3>2, <4>2, Zenon
      <3>3. CASE BeforeNext # 0
        BY <1>8, <2>3, <3>1, <3>3
      <3> QED
        BY <3>2, <3>3
    <2>4. CASE ~exec_settings
      <3>1. k = IF BeforeNext = 0 THEN 1 ELSE IF BeforeNext = 1 THEN 2 ELSE 3
        BY <1>14, <2>2, <2>4 DEF Levels
      <3>2. CASE BeforeNext = 0
        BY <1>8, <1>16, <2>1, <2>4, <3>1, <3>2
      <3>3. CASE BeforeNext = 1
        <4>1. top = stack[2] /\ Len(stack) = 2
          BY <1>1, <1>3, <1>8, <3>1, <3>3
        <4>2. No \in top <=> said.list_no
          BY <1>16, <2>4, <4>1, Zenon
        <4> QED
          BY <1>16, <2>4, <3>3, <4>2, Zenon
      <3>4. CASE BeforeNext \in {2, 3}
        BY <1>8, <1>16, <2>4, <3>1, <3>4
      <3> QED
        BY <2>2, <3>2, <3>3, <3>4
    <2> QED
      BY <2>3, <2>4
  <1>18. NoFlagOnLevels'
    <2>1. said'.list_no /\ ~exec_settings => Len(r) > 1
      <3>1. CASE no
        <4>1. Len(r) = k + 1
          BY <1>4, <3>1, Zenon DEF no, SaysNo
        <4> QED
          BY <1>2, <4>1
      <3>2. CASE said.list_no /\ ~exec_settings
        BY <1>2, <1>3, <1>10, <1>16, <3>2
      <3> QED
        BY <1>6, <3>1, <3>2, Zenon
    <2>2. ASSUME ~exec_settings, Len(r) = 2 PROVE No \in r[2] <=> said'.list_no
      <3>1. CASE settings = <<>>
        <4>1. k = 2 /\ Len(stack) = 2
          BY <1>1, <1>3, <1>4, <2>2, <3>1
        <4>2. r[2] = stack[2]
          BY <1>4, <1>8, <4>1
        <4>3. ~no
          BY <3>1 DEF no, SaysNo
        <4> QED
          BY <1>6, <1>16, <2>2, <4>1, <4>2, <4>3, Zenon
      <3>2. CASE settings # <<>>
        <4>0. k + 1 = 2
          BY <1>4, <2>2, <3>2, Zenon
        <4>1. k = 1 /\ Len(stack) = 1
          BY <1>1, <1>2, <1>3, <4>0
        <4>2. r[2] = after
          BY <1>4, <3>2, <4>1
        <4>3. No \notin top
          BY <1>1, <1>8, <4>1 DEF Allow, No
        <4>4. ~said.list_no
          BY <1>16, <2>2, <4>1
        <4> QED
          BY <1>6, <1>7, <3>2, <4>2, <4>3, <4>4, Zenon
      <3> QED
        BY <3>1, <3>2
    <2> QED
      BY <1>5, <1>6, <1>16, <2>1, <2>2, Zenon DEF NoFlagOnLevels
  <1>19. BeforeNext <= Levels => (Allow \in top <=> said.next)
    <2>1. LevelNext = k
      BY <1>3 DEF LevelNext
    <2>2. BeforeNext <= Levels => (Allow \in stack[LevelNext] <=> said.next)
      BY <1>1, Zenon DEF SettingsInv, NextOnLevel, InCopy
    <2> QED
      BY <1>8, <2>1, <2>2, Zenon
  <1>20. NextOnLevel'
    <2> DEFINE later == IF settings # <<>> /\ BeforeNext < 3 THEN BeforeNext + 1
                        ELSE BeforeNext
    <2>1. /\ LevelNext' = IF Len(r) < 3 THEN Len(r) ELSE 3
          /\ BeforeNext' = later
          /\ Levels' = Levels
      BY <1>5, <1>6 DEF LevelNext, BeforeNext, Levels
    <2>2. BeforeNext < Levels <=> k < 3
      BY <1>1, <1>14 DEF Levels, BeforeNext, Said
    <2>3. BeforeNext \in 0 .. 3 /\ Levels \in 1 .. 2
      BY <1>1 DEF Levels, BeforeNext, Said
    <2> SUFFICES ASSUME later <= Levels
                 PROVE  Allow \in r[LevelNext'] <=> next
      BY <1>5, <1>6, <2>1, Zenon DEF NextOnLevel
    <2>4. CASE settings = <<>>
      <3>1. LevelNext' = k
        BY <1>2, <1>4, <2>1, <2>4
      <3>2. BeforeNext <= Levels
        BY <2>4
      <3> QED
        BY <1>4, <1>7b, <1>19, <2>4, <3>1, <3>2, Zenon
    <2>5. CASE settings # <<>>
      <3>1. BeforeNext < Levels /\ k < 3
        BY <2>2, <2>3, <2>5
      <3>2. LevelNext' = k + 1
        BY <1>2, <1>4, <2>1, <2>5, <3>1
      <3>3. BeforeNext <= Levels
        BY <2>3, <3>1
      <3> QED
        BY <1>4, <1>7a, <1>19, <2>5, <3>2, <3>3, Zenon
    <2> QED
      BY <2>4, <2>5
  <1>21. LevelsAreDecided'
    <2> SUFFICES ASSUME NEW i \in 1 .. Len(r)
                 PROVE  /\ Allow \in r[i] => said.allowed \/ allow
                        /\ Allow \notin r[i] => said.denied \/ deny
      BY <1>5, <1>6, Zenon DEF LevelsAreDecided
    <2>1. \A j \in 1 .. Len(stack) : /\ Allow \in stack[j] => said.allowed
                                     /\ Allow \notin stack[j] => said.denied
      BY <1>1, Zenon DEF SettingsInv, LevelsAreDecided, InCopy
    <2>2. CASE i < k
      <3>1. i \in 1 .. k - 1 /\ i \in 1 .. Len(stack)
        BY <1>1, <1>2, <2>2
      <3> QED
        BY <1>4, <2>1, <3>1, Zenon
    <2>3. /\ Allow \in top => said.allowed
          /\ Allow \notin top => said.denied
      <3>1. k \in 1 .. Len(stack)
        BY <1>1, <1>2
      <3> QED
        BY <1>8, <2>1, <3>1, Zenon
    <2>4. CASE i = k
      BY <1>4, <2>3, <2>4, Zenon
    <2>5. CASE i > k
      <3>1. settings # <<>> /\ i = k + 1
        <4>1. CASE settings = <<>>
          <5>1. Len(r) = k
            BY <1>4, <4>1, Zenon
          <5> QED
            BY <1>2, <2>5, <5>1
        <4>2. CASE settings # <<>>
          <5>1. Len(r) = k + 1
            BY <1>4, <4>2, Zenon
          <5> QED
            BY <1>2, <2>5, <4>2, <5>1
        <4> QED
          BY <4>1, <4>2
      <3> QED
        BY <1>4, <1>7a, <2>3, <3>1, Zenon
    <2> QED
      BY <1>2, <2>2, <2>4, <2>5
  <1>22. files /\ settings = <<>> => r[Len(r)] = top /\ ~no
    BY <1>4, Zenon DEF no, SaysNo
  <1>23. files /\ settings # <<>> => r[Len(r)] = after
    BY <1>4, Zenon
  <1>24. NoFlagOnTop'
    <2> SUFFICES ASSUME files
                 PROVE  No \in r[Len(r)] <=> \/ no
                                             \/ said.exec_no /\ BeforeNext = 0
                                             \/ Uncleared'
      BY <1>5, <1>6, Zenon DEF NoFlagOnTop, Last
    <2>1. Uncleared' <=> (said.list_no \/ no) /\ ~exec_settings /\ BeforeNext = 1
      BY <1>5, <1>6, Zenon DEF Uncleared
    <2> QED
      BY <1>7, <1>17, <1>22, <1>23, <2>1, Zenon
  <1>25. NextOnTop'
    <2> SUFFICES ASSUME files, BeforeNext <= Levels
                 PROVE  Allow \in r[Len(r)] <=> next
      <3>1. Levels' = Levels
        BY <1>5 DEF Levels
      <3> QED
        BY <1>5, <1>6, <3>1, Zenon DEF NextOnTop, Last
    <2>1. ~allow /\ ~deny
      BY Zenon DEF allow, deny
    <2> QED
      BY <1>7a, <1>19, <1>22, <1>23, <2>1, Zenon
  <1> QED
    BY <1>9, <1>11, <1>13, <1>15, <1>18, <1>20, <1>21, <1>24, <1>25 DEF SettingsInv

\* The end of a list, or of the reading, leaves the settings as they are.
LEMMA EndSteps ==
    ASSUME SettingsInv, Malformed \/ FilesEnd \/ CopyEnd \/ ExecEnd
    PROVE  SettingsInv'
  <1>1. /\ UNCHANGED <<stack, exec_settings, from_file, commands, copy_read, said>>
        /\ place' \in Places \ {"files"}
        /\ place' = "copy" => place = "files"
    BY DEF Malformed, FilesEnd, CopyEnd, ExecEnd, Places
  <1>2. ConfigTypeOK' /\ RootHoldsDecision'
    BY <1>1 DEF SettingsInv, ConfigTypeOK, RootHoldsDecision
  <1>3. ExecSettingsKept' /\ NoFlagOnTop' /\ NextOnTop'
    BY <1>1, Zenon DEF SettingsInv, ExecSettingsKept, NoFlagOnTop, NextOnTop, Places
  <1>4. LevelsOfItems' /\ NoFlagOnLevels' /\ NextOnLevel' /\ LevelsAreDecided'
    <2>1. InCopy' => InCopy
      BY <1>1 DEF InCopy, Places
    <2> QED
      BY <1>1, <2>1, Zenon
         DEF SettingsInv, LevelsOfItems, NoFlagOnLevels, NextOnLevel, LevelsAreDecided,
             Level, LevelNext, Levels, BeforeNext
  <1> QED
    BY <1>2, <1>3, <1>4 DEF SettingsInv

LEMMA FilesItemStep ==
    ASSUME SettingsInv, NEW from \in BOOLEAN, FilesItem(from)
    PROVE  SettingsInv'
  <1>1. /\ UNCHANGED <<place, stack, exec_settings, copy_read, said>>
        /\ from_file' = TRUE
        /\ commands' = Append(commands, Last(stack))
    BY DEF FilesItem
  <1>2. commands' \in Seq(SUBSET Flags)
    <2>1. stack \in Seq(SUBSET Flags) /\ Len(stack) \in 1 .. 4 /\ commands \in Seq(SUBSET Flags)
      BY DEF SettingsInv, ConfigTypeOK
    <2>2. Last(stack) \in SUBSET Flags
      BY <2>1 DEF Last
    <2> QED
      BY <1>1, <2>1, <2>2
  <1>3. ConfigTypeOK'
    BY <1>1, <1>2, Zenon DEF SettingsInv, ConfigTypeOK
  <1> QED
    BY <1>1, <1>3, Zenon
       DEF SettingsInv, RootHoldsDecision, ExecSettingsKept, LevelsOfItems, NoFlagOnLevels,
           NextOnLevel, LevelsAreDecided, NoFlagOnTop, NextOnTop, Uncleared, InCopy, Level,
           LevelNext, Levels, BeforeNext

LEMMA NextKeepsInv == SettingsInv /\ [Next]_vars => SettingsInv'
  <1> SUFFICES ASSUME SettingsInv, [Next]_vars PROVE SettingsInv'
    OBVIOUS
  <1>1. CASE Malformed \/ FilesEnd \/ CopyEnd \/ ExecEnd
    BY <1>1, EndSteps
  <1>2. CASE \E settings \in Settings : ExecItem(settings)
    BY <1>2, ExecItemStep
  <1>3. CASE \E node \in SettingsNodes : CopySettings(node)
    BY <1>3, CopySettingsStep
  <1>4. CASE \E files \in BOOLEAN, settings \in Settings : CopyItem(files, settings)
    BY <1>4, CopyItemStep
  <1>5. CASE \E from \in BOOLEAN : FilesItem(from)
    BY <1>5, FilesItemStep
  <1>6. CASE UNCHANGED vars
    BY <1>6, Zenon
       DEF vars, SettingsInv, ConfigTypeOK, RootHoldsDecision, ExecSettingsKept,
           LevelsOfItems, NoFlagOnLevels, NextOnLevel, LevelsAreDecided, NoFlagOnTop,
           NextOnTop, Uncleared, InCopy, Level, LevelNext, Levels, BeforeNext
  <1> QED
    BY <1>1, <1>2, <1>3, <1>4, <1>5, <1>6 DEF Next

\* The invariant holds in every state of the reader.
THEOREM Invariance == Spec => []SettingsInv
  BY InitHolds, NextKeepsInv, PTL DEF Spec

\* The stack has one to four levels: the top that update_inherited_stack and the
\* commands take always exists.
THEOREM TypeCorrect == Spec => []ConfigTypeOK
  <1>1. SettingsInv => ConfigTypeOK
    BY DEF SettingsInv
  <1> QED
    BY <1>1, Invariance, PTL

\* No document makes the decision for the items that follow get lost, or lets the
\* settings of one exec item stay for the next.
THEOREM RootIsTheDecision == Spec => []RootHoldsDecision
  <1>1. SettingsInv => RootHoldsDecision
    BY DEF SettingsInv
  <1> QED
    BY <1>1, Invariance, PTL

\* No copy item changes the settings that its exec item started with.
THEOREM ExecSettingsStay == Spec => []ExecSettingsKept
  <1>1. SettingsInv => ExecSettingsKept
    BY DEF SettingsInv
  <1> QED
    BY <1>1, Invariance, PTL

\* Only the reading of a file makes a command, with the settings on the top.
LEMMA CommandIsTop ==
    ASSUME SettingsInv, Next, NewCommand
    PROVE  /\ place = "files"
           /\ Last(commands') = Last(stack)
  <1>1. \E from \in BOOLEAN : FilesItem(from)
    BY Zenon DEF Next, Malformed, ExecItem, CopySettings, CopyItem, FilesEnd, CopyEnd, ExecEnd,
           NewCommand
  <1>2. place = "files" /\ commands' = Append(commands, Last(stack))
    BY <1>1 DEF FilesItem
  <1> QED
    BY <1>2 DEF SettingsInv, ConfigTypeOK, Last

\* The flag for the current item is where the document puts it, but for Uncleared,
\* however long the lists are and whatever is set in them.
THEOREM NoFlagIsInScope == Spec => NoFlagScope
  <1>1. SettingsInv /\ Next =>
           (NewCommand => /\ said.item_no => NoFlag
                          /\ said.exec_no /\ said.before = 0 => NoFlag
                          /\ NoFlag => said.item_no \/ said.exec_no \/ Uncleared)
    BY CommandIsTop, Zenon DEF SettingsInv, NoFlagOnTop, NoFlag
  <1> QED
    BY <1>1, Invariance, PTL DEF Spec, NoFlagScope

\* The decision for the items that follow is the last one in front of them, as long as
\* the stack has levels for it, and never one of another list.
THEOREM NextIsInScope == Spec => NextScope
  <1>1. ASSUME SettingsInv, Next, NewCommand
        PROVE  /\ said.before <= Levels => (AllowFlag <=> said.next)
               /\ AllowFlag => said.allowed
               /\ ~AllowFlag => said.denied
    <2>1. place = "files" /\ (AllowFlag <=> Allow \in Last(stack))
      BY <1>1, CommandIsTop, Zenon DEF AllowFlag
    <2>2. said.before <= Levels => (Allow \in Last(stack) <=> said.next)
      BY <1>1, <2>1, Zenon DEF SettingsInv, NextOnTop
    <2>3. Len(stack) \in 1 .. Len(stack)
      <3>1. Len(stack) \in 1 .. 4
        BY <1>1, Zenon DEF SettingsInv, ConfigTypeOK
      <3> QED
        BY <3>1
    <2>4. /\ Allow \in Last(stack) => said.allowed
          /\ Allow \notin Last(stack) => said.denied
      BY <1>1, <2>1, <2>3, Zenon DEF SettingsInv, LevelsAreDecided, InCopy, Last
    <2> QED
      BY <2>1, <2>2, <2>4, Zenon
  <1>2. SettingsInv /\ Next =>
           (NewCommand => /\ said.before <= Levels => (AllowFlag <=> said.next)
                          /\ AllowFlag => said.allowed
                          /\ ~AllowFlag => said.denied)
    BY <1>1
  <1> QED
    BY <1>2, Invariance, PTL DEF Spec, NextScope
=============================================================================
