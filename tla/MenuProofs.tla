----------------------------- MODULE MenuProofs -----------------------------
(***************************************************************************)
(* Proofs about the menu, for any number of rows on the display and either  *)
(* driver: what menu_draw and menu_input read is there, the stack is a path *)
(* down from the root, and a call changes one option at most.               *)
(***************************************************************************)
EXTENDS Menu, SequenceTheorems, TLAPS

-----------------------------------------------------------------------------
(* The tree of menus                                                       *)

\* How deep a menu is in the tree.
Depth == [m \in Menus |-> IF m = "root" THEN 1
                          ELSE IF m \in {"output", "settings", "about"} THEN 2
                          ELSE IF m \in {"x", "y"} THEN 4 ELSE 3]

\* An item that is a menu is one level down; the index of one that sets an
\* option is a value of that option.
ItemOK(menu, item) ==
    /\ item[1] \in Menus => Depth[item[1]] = Depth[menu] + 1
    /\ item[1] \in {"set_mode", "set_profile"} => item[2] \in 0 .. 2
    /\ item[1] \in {"set_x", "set_y"} => item[2] \in 0 .. 3

ListOK(menu, list) ==
    /\ Len(list) \in 1 .. 4
    /\ \A i \in 1 .. Len(list) : ItemOK(menu, list[i])

\* A list of up to four items is in order if each of them is.
LEMMA ListsOK ==
  ASSUME NEW m, NEW s, Len(s) \in 1 .. 4, ItemOK(m, s[1]),
         Len(s) > 1 => ItemOK(m, s[2]), Len(s) > 2 => ItemOK(m, s[3]), Len(s) > 3 => ItemOK(m, s[4])
  PROVE  ListOK(m, s)
BY DEF ListOK

\* Every menu has one to four items, and they are as they should be.
LEMMA ItemsOK ==
  ASSUME NEW menu \in Menus, NEW o, NEW k
  PROVE  ListOK(menu, MenuItems(menu, o, k))
<1>1. CASE menu = "root"
  <2>1. PICK a \in {"unlock", "lock"} : MenuItems(menu, o, k) = Entries(<<a, "output", "settings", "about">>)
    BY <1>1 DEF MenuItems
  <2>2. ItemOK(menu, <<a, 0>>) /\ ItemOK(menu, <<"output", 0>>) /\ ItemOK(menu, <<"settings", 0>>) /\ ItemOK(menu, <<"about", 0>>)
    BY <1>1 DEF ItemOK, Menus, Depth
  <2>3. PICK s : s = MenuItems(menu, o, k)
    OBVIOUS
  <2>4. Len(s) = 4 /\ s[1] = <<a, 0>> /\ s[2] = <<"output", 0>> /\ s[3] = <<"settings", 0>> /\ s[4] = <<"about", 0>>
    BY <2>1, <2>3 DEF Entries
  <2> QED
    BY <2>2, <2>3, <2>4, ListsOK
<1>2. CASE menu = "output"
  <2>1. MenuItems(menu, o, k) = Entries(<<"mode", "profile", "socd">>)
    BY <1>2 DEF MenuItems
  <2>2. ItemOK(menu, <<"mode", 0>>) /\ ItemOK(menu, <<"profile", 0>>) /\ ItemOK(menu, <<"socd", 0>>)
    BY <1>2 DEF ItemOK, Menus, Depth
  <2>3. PICK s : s = MenuItems(menu, o, k)
    OBVIOUS
  <2>4. Len(s) = 3 /\ s[1] = <<"mode", 0>> /\ s[2] = <<"profile", 0>> /\ s[3] = <<"socd", 0>>
    BY <2>1, <2>3 DEF Entries
  <2> QED
    BY <2>2, <2>3, <2>4, ListsOK
<1>3. CASE menu \in {"mode", "profile", "version"}
  <2>1. PICK a \in {"set_mode", "set_profile", "row"} : MenuItems(menu, o, k) = Radio(a, 3)
    BY <1>3 DEF MenuItems
  <2>2. ItemOK(menu, <<a, 0>>) /\ ItemOK(menu, <<a, 1>>) /\ ItemOK(menu, <<a, 2>>)
    BY <1>3 DEF ItemOK, Menus, Depth
  <2>3. PICK s : s = MenuItems(menu, o, k)
    OBVIOUS
  <2>4. Len(s) = 3 /\ s[1] = <<a, 0>> /\ s[2] = <<a, 1>> /\ s[3] = <<a, 2>>
    BY <2>1, <2>3 DEF Radio
  <2> QED
    BY <2>2, <2>3, <2>4, ListsOK
<1>4. CASE menu = "socd"
  <2>1. MenuItems(menu, o, k) = Entries(<<"x", "y">>)
    BY <1>4 DEF MenuItems
  <2>2. ItemOK(menu, <<"x", 0>>) /\ ItemOK(menu, <<"y", 0>>)
    BY <1>4 DEF ItemOK, Menus, Depth
  <2>3. PICK s : s = MenuItems(menu, o, k)
    OBVIOUS
  <2>4. Len(s) = 2 /\ s[1] = <<"x", 0>> /\ s[2] = <<"y", 0>>
    BY <2>1, <2>3 DEF Entries
  <2> QED
    BY <2>2, <2>3, <2>4, ListsOK
<1>5. CASE menu \in {"x", "y"}
  <2>1. PICK a \in {"set_x", "set_y"} : MenuItems(menu, o, k) = Radio(a, 4)
    BY <1>5 DEF MenuItems
  <2>2. ItemOK(menu, <<a, 0>>) /\ ItemOK(menu, <<a, 1>>) /\ ItemOK(menu, <<a, 2>>) /\ ItemOK(menu, <<a, 3>>)
    BY <1>5 DEF ItemOK, Menus, Depth
  <2>3. PICK s : s = MenuItems(menu, o, k)
    OBVIOUS
  <2>4. Len(s) = 4 /\ s[1] = <<a, 0>> /\ s[2] = <<a, 1>> /\ s[3] = <<a, 2>> /\ s[4] = <<a, 3>>
    BY <2>1, <2>3 DEF Radio
  <2> QED
    BY <2>2, <2>3, <2>4, ListsOK
<1>6. CASE menu = "settings"
  <2>1. PICK a \in {"remember", "forget"} : MenuItems(menu, o, k) = Entries(<<"usb_delay", a, "dfu">>)
    BY <1>6 DEF MenuItems
  <2>2. ItemOK(menu, <<"usb_delay", 0>>) /\ ItemOK(menu, <<a, 0>>) /\ ItemOK(menu, <<"dfu", 0>>)
    BY <1>6 DEF ItemOK, Menus, Depth
  <2>3. PICK s : s = MenuItems(menu, o, k)
    OBVIOUS
  <2>4. Len(s) = 3 /\ s[1] = <<"usb_delay", 0>> /\ s[2] = <<a, 0>> /\ s[3] = <<"dfu", 0>>
    BY <2>1, <2>3 DEF Entries
  <2> QED
    BY <2>2, <2>3, <2>4, ListsOK
<1>7. CASE menu = "usb_delay"
  <2>1. MenuItems(menu, o, k) = Entries(<<"delay", "increase", "decrease">>)
    BY <1>7 DEF MenuItems
  <2>2. ItemOK(menu, <<"delay", 0>>) /\ ItemOK(menu, <<"increase", 0>>) /\ ItemOK(menu, <<"decrease", 0>>)
    BY <1>7 DEF ItemOK, Menus, Depth
  <2>3. PICK s : s = MenuItems(menu, o, k)
    OBVIOUS
  <2>4. Len(s) = 3 /\ s[1] = <<"delay", 0>> /\ s[2] = <<"increase", 0>> /\ s[3] = <<"decrease", 0>>
    BY <2>1, <2>3 DEF Entries
  <2> QED
    BY <2>2, <2>3, <2>4, ListsOK
<1>8. CASE menu = "about"
  <2>1. MenuItems(menu, o, k) = Entries(<<"version">>)
    BY <1>8 DEF MenuItems
  <2>2. ItemOK(menu, <<"version", 0>>)
    BY <1>8 DEF ItemOK, Menus, Depth
  <2>3. PICK s : s = MenuItems(menu, o, k)
    OBVIOUS
  <2>4. Len(s) = 1 /\ s[1] = <<"version", 0>>
    BY <2>1, <2>3 DEF Entries
  <2> QED
    BY <2>2, <2>3, <2>4, ListsOK
<1> QED
  BY <1>1, <1>2, <1>3, <1>4, <1>5, <1>6, <1>7, <1>8 DEF Menus

\* The options change neither the length of a menu nor the menus below it.
LEMMA SameMenus ==
  ASSUME NEW menu \in Menus, NEW o, NEW k, NEW o2, NEW k2
  PROVE  /\ Len(MenuItems(menu, o, k)) = Len(MenuItems(menu, o2, k2))
         /\ \A i \in 1 .. Len(MenuItems(menu, o, k)) :
              MenuItems(menu, o, k)[i][1] \in Menus => MenuItems(menu, o2, k2)[i] = MenuItems(menu, o, k)[i]
<1>1. CASE menu \notin {"root", "settings"}
  <2>1. MenuItems(menu, o, k) = MenuItems(menu, o2, k2)
    BY <1>1 DEF MenuItems, Menus
  <2> QED
    BY <2>1
<1>2. CASE menu = "root"
  <2>1. PICK a \in {"unlock", "lock"} : MenuItems(menu, o, k) = Entries(<<a, "output", "settings", "about">>)
    BY <1>2 DEF MenuItems
  <2>2. PICK b \in {"unlock", "lock"} : MenuItems(menu, o2, k2) = Entries(<<b, "output", "settings", "about">>)
    BY <1>2 DEF MenuItems
  <2>3. a \notin Menus
    BY DEF Menus
  <2>4. PICK p, q : p = MenuItems(menu, o, k) /\ q = MenuItems(menu, o2, k2)
    OBVIOUS
  <2>5. /\ p = <<<<a, 0>>, <<"output", 0>>, <<"settings", 0>>, <<"about", 0>>>>
        /\ q = <<<<b, 0>>, <<"output", 0>>, <<"settings", 0>>, <<"about", 0>>>>
    BY <2>1, <2>2, <2>4 DEF Entries
  <2>6. Len(p) = Len(q) /\ \A i \in 1 .. Len(p) : p[i][1] \in Menus => q[i] = p[i]
    BY <2>3, <2>5
  <2> QED
    BY <2>4, <2>6, Zenon
<1>3. CASE menu = "settings"
  <2>1. PICK a \in {"remember", "forget"} : MenuItems(menu, o, k) = Entries(<<"usb_delay", a, "dfu">>)
    BY <1>3 DEF MenuItems
  <2>2. PICK b \in {"remember", "forget"} : MenuItems(menu, o2, k2) = Entries(<<"usb_delay", b, "dfu">>)
    BY <1>3 DEF MenuItems
  <2>3. a \notin Menus
    BY DEF Menus
  <2>4. PICK p, q : p = MenuItems(menu, o, k) /\ q = MenuItems(menu, o2, k2)
    OBVIOUS
  <2>5. /\ p = <<<<"usb_delay", 0>>, <<a, 0>>, <<"dfu", 0>>>>
        /\ q = <<<<"usb_delay", 0>>, <<b, 0>>, <<"dfu", 0>>>>
    BY <2>1, <2>2, <2>4 DEF Entries
  <2>6. Len(p) = Len(q) /\ \A i \in 1 .. Len(p) : p[i][1] \in Menus => q[i] = p[i]
    BY <2>3, <2>5
  <2> QED
    BY <2>4, <2>6, Zenon
<1> QED
  BY <1>1, <1>2, <1>3

-----------------------------------------------------------------------------
(* The inductive invariant                                                 *)

\* The cursor is on one of n items and on the screen, and the screen shows no
\* row past the last item unless it starts at the first.
WindowOK(top, cursor, n) ==
    /\ cursor < n
    /\ top <= cursor /\ cursor < top + DisplayRows
    /\ top = 0 \/ top + DisplayRows <= n

\* A path down from the root, one level at a time: each entry holds the spot
\* in its parent of the item it was entered by.
StackOK(stack, o, k) ==
    \A i \in 1 .. Len(stack) :
        /\ Depth[stack[i].menu] = i
        /\ i = 1 => stack[i] = Bottom
        /\ i > 1 =>
            /\ WindowOK(stack[i].scroll, stack[i].selected, Len(MenuItems(stack[i - 1].menu, o, k)))
            /\ MenuItems(stack[i - 1].menu, o, k)[stack[i].selected + 1][1] = stack[i].menu

OptionsType == [locked: BOOLEAN, mode: 0 .. 2, profile: 0 .. 2, x: 0 .. 3, y: 0 .. 3,
                delay: 0 .. (1000 \div UsPerTick) + 1]

\* The stack, the items and the cursor agree.
SpotInv ==
    /\ menu_stack \in Seq(LocationType)
    /\ scroll \in 0 .. 3 /\ selected \in 0 .. 3
    /\ keep \in BOOLEAN /\ options \in OptionsType
    /\ ItemsCurrent
    /\ StackOK(menu_stack, options, keep)
    /\ menu_stack = << >> => scroll = 0 /\ selected = 0 /\ ~keep
    /\ menu_stack # << >> => WindowOK(scroll, selected, Len(items))

\* Who may find the menu without items.
FaultInv ==
    /\ driver \in Drivers /\ pressed \in BOOLEAN /\ opened \in BOOLEAN
    /\ fault \in {"none", "no item"}
    /\ menu_stack = << >> => ~opened
    /\ driver = "buttons" => fault = "none" /\ pressed = opened

MenuInv == SpotInv /\ FaultInv

\* No menu is deeper than four.
LEMMA DepthType == \A m \in Menus : Depth[m] \in 1 .. 4
BY DEF Depth, Menus

\* What is on the stack are locations.
LEMMA StackElements ==
  ASSUME NEW stack \in Seq(LocationType)
  PROVE  /\ Len(stack) \in Nat /\ (stack = << >> <=> Len(stack) = 0)
         /\ \A i \in 1 .. Len(stack) : /\ stack[i] \in LocationType /\ stack[i].menu \in Menus
                                       /\ stack[i].scroll \in 0 .. 3 /\ stack[i].selected \in 0 .. 3
<1>1. Len(stack) \in Nat /\ (stack = << >> <=> Len(stack) = 0)
  BY LenProperties, EmptySeq
<1>2. \A i \in 1 .. Len(stack) : stack[i] \in LocationType
  BY ElementOfSeq
<1> QED
  BY <1>1, <1>2 DEF LocationType

\* No path is longer than the tree is deep.
LEMMA StackShort ==
  ASSUME NEW stack \in Seq(LocationType), NEW o, NEW k, StackOK(stack, o, k)
  PROVE  Len(stack) \in 0 .. 4 /\ \A i \in 1 .. Len(stack) : Depth[stack[i].menu] = i
<1>1. \A i \in 1 .. Len(stack) : Depth[stack[i].menu] = i
  BY DEF StackOK
<1>2. Len(stack) \in Nat /\ \A i \in 1 .. Len(stack) : stack[i].menu \in Menus
  BY StackElements
<1>3. Len(stack) # 0 => Len(stack) \in 1 .. 4
  <2> SUFFICES ASSUME Len(stack) # 0 PROVE Len(stack) \in 1 .. 4
    OBVIOUS
  <2>1. Len(stack) \in 1 .. Len(stack)
    BY <1>2
  <2> QED
    BY <1>1, <1>2, <2>1, DepthType
<1> QED
  BY <1>1, <1>2, <1>3

\* Setting an option leaves the path as it is.
LEMMA StackKept ==
  ASSUME NEW stack \in Seq(LocationType), NEW o, NEW k, NEW o2, NEW k2, StackOK(stack, o, k)
  PROVE  StackOK(stack, o2, k2)
<1> SUFFICES ASSUME NEW i \in 1 .. Len(stack), i > 1
             PROVE  /\ WindowOK(stack[i].scroll, stack[i].selected, Len(MenuItems(stack[i - 1].menu, o2, k2)))
                    /\ MenuItems(stack[i - 1].menu, o2, k2)[stack[i].selected + 1][1] = stack[i].menu
  BY DEF StackOK
<1>1. PICK m, e : m = stack[i - 1].menu /\ e = stack[i]
  OBVIOUS
<1>2. m \in Menus /\ e.menu \in Menus /\ e.selected \in 0 .. 3
  <2>1. i - 1 \in 1 .. Len(stack)
    BY StackElements
  <2> QED
    BY <1>1, <2>1, StackElements
<1>3. WindowOK(e.scroll, e.selected, Len(MenuItems(m, o, k))) /\ MenuItems(m, o, k)[e.selected + 1][1] = e.menu
  BY <1>1 DEF StackOK
<1>4. /\ Len(MenuItems(m, o, k)) = Len(MenuItems(m, o2, k2))
      /\ \A j \in 1 .. Len(MenuItems(m, o, k)) :
           MenuItems(m, o, k)[j][1] \in Menus => MenuItems(m, o2, k2)[j] = MenuItems(m, o, k)[j]
  BY <1>2, SameMenus
<1>5. e.selected + 1 \in 1 .. Len(MenuItems(m, o, k))
  <2>1. Len(MenuItems(m, o, k)) \in 1 .. 4
    BY <1>2, ItemsOK DEF ListOK
  <2> QED
    BY <1>2, <1>3, <2>1 DEF WindowOK
<1>6. MenuItems(m, o2, k2)[e.selected + 1][1] = e.menu
  BY <1>2, <1>3, <1>4, <1>5
<1>7. WindowOK(e.scroll, e.selected, Len(MenuItems(m, o2, k2)))
  BY <1>3, <1>4
<1> QED
  BY <1>1, <1>6, <1>7

\* The top of a stack and what is below it.
LEMMA PopsStack ==
  ASSUME NEW stack \in Seq(LocationType), NEW o, NEW k, StackOK(stack, o, k), Len(stack) > 1
  PROVE  /\ Front(stack) \in Seq(LocationType) /\ Front(stack) # << >>
         /\ StackOK(Front(stack), o, k)
         /\ Last(stack).scroll \in 0 .. 3 /\ Last(stack).selected \in 0 .. 3
         /\ WindowOK(Last(stack).scroll, Last(stack).selected, Len(Fetched(Front(stack), o, k)))
<1> DEFINE n == Len(stack)
           front == Front(stack)
<1>1. n \in 2 .. 4
  BY StackShort
<1>2. front = SubSeq(stack, 1, n - 1) /\ Last(stack) = stack[n]
  BY DEF Front, Last
<1>3. /\ front \in Seq(LocationType) /\ Len(front) = n - 1
      /\ \A i \in 1 .. n - 1 : front[i] = stack[i]
  BY <1>1, <1>2, SubSeqProperties
<1> HIDE DEF front
<1>4. front # << >>
  BY <1>1, <1>3, EmptySeq
<1>5. StackOK(front, o, k)
  <2> SUFFICES ASSUME NEW i \in 1 .. Len(front)
               PROVE  /\ Depth[front[i].menu] = i
                      /\ i = 1 => front[i] = Bottom
                      /\ i > 1 =>
                          /\ WindowOK(front[i].scroll, front[i].selected, Len(MenuItems(front[i - 1].menu, o, k)))
                          /\ MenuItems(front[i - 1].menu, o, k)[front[i].selected + 1][1] = front[i].menu
    BY DEF StackOK
  <2>1. i \in 1 .. n /\ front[i] = stack[i] /\ (i > 1 => front[i - 1] = stack[i - 1])
    BY <1>1, <1>3
  <2> QED
    BY <2>1 DEF StackOK
<1>6. Fetched(front, o, k) = MenuItems(stack[n - 1].menu, o, k)
  BY <1>1, <1>3, <1>4 DEF Fetched, Last
<1>7. n \in 1 .. n /\ n > 1
  BY <1>1
<1>8. WindowOK(stack[n].scroll, stack[n].selected, Len(MenuItems(stack[n - 1].menu, o, k)))
  BY <1>7 DEF StackOK
<1>9. stack[n].scroll \in 0 .. 3 /\ stack[n].selected \in 0 .. 3
  BY <1>7, StackElements
<1> QED
  BY <1>2, <1>3, <1>4, <1>5, <1>6, <1>8, <1>9 DEF front

\* The menu of the cursor's item goes on the stack.
LEMMA PushesStack ==
  ASSUME SpotInv, menu_stack # << >>, NEW m \in Menus, items[selected + 1][1] = m
  PROVE  /\ Len(menu_stack) < 4
         /\ Append(menu_stack, Location(m)) \in Seq(LocationType) /\ Append(menu_stack, Location(m)) # << >>
         /\ StackOK(Append(menu_stack, Location(m)), options, keep)
         /\ Fetched(Append(menu_stack, Location(m)), options, keep) = MenuItems(m, options, keep)
<1> DEFINE n == Len(menu_stack)
           stack == Append(menu_stack, Location(m))
<1>1. menu_stack \in Seq(LocationType) /\ StackOK(menu_stack, options, keep)
  BY DEF SpotInv
<1>2. n \in 1 .. 4 /\ \A i \in 1 .. n : Depth[menu_stack[i].menu] = i
  BY <1>1, StackShort, StackElements
<1>3. Location(m) \in LocationType
  BY DEF Location, LocationType, SpotInv
<1>4. /\ stack \in Seq(LocationType) /\ stack # << >> /\ Len(stack) = n + 1 /\ stack[n + 1] = Location(m)
      /\ \A i \in 1 .. n : stack[i] = menu_stack[i]
  BY <1>1, <1>3, AppendProperties
<1>5. PICK top \in Menus : top = menu_stack[n].menu /\ items = MenuItems(top, options, keep)
  <2>1. menu_stack[n].menu \in Menus
    BY <1>1, <1>2, StackElements
  <2> QED
    BY <2>1 DEF SpotInv, ItemsCurrent, Fetched, Last
<1>6. Depth[m] = n + 1
  <2>1. ListOK(top, items) /\ WindowOK(scroll, selected, Len(items)) /\ selected \in 0 .. 3
    BY <1>5, ItemsOK DEF SpotInv
  <2>2. selected + 1 \in 1 .. Len(items)
    BY <2>1 DEF ListOK, WindowOK
  <2>3. ItemOK(top, items[selected + 1])
    BY <2>1, <2>2 DEF ListOK
  <2>4. Depth[top] = n
    BY <1>2, <1>5
  <2> QED
    BY <2>3, <2>4 DEF ItemOK
<1>7. n < 4
  BY <1>2, <1>6, DepthType
<1> HIDE DEF stack
<1>8. StackOK(stack, options, keep)
  <2> SUFFICES ASSUME NEW i \in 1 .. Len(stack)
               PROVE  /\ Depth[stack[i].menu] = i
                      /\ i = 1 => stack[i] = Bottom
                      /\ i > 1 =>
                          /\ WindowOK(stack[i].scroll, stack[i].selected, Len(MenuItems(stack[i - 1].menu, options, keep)))
                          /\ MenuItems(stack[i - 1].menu, options, keep)[stack[i].selected + 1][1] = stack[i].menu
    BY DEF StackOK
  <2>1. CASE i \in 1 .. n
    <3>1. stack[i] = menu_stack[i] /\ (i > 1 => stack[i - 1] = menu_stack[i - 1])
      BY <1>2, <1>4, <2>1
    <3> QED
      BY <1>1, <2>1, <3>1 DEF StackOK
  <2>2. CASE i = n + 1
    <3>1. stack[i] = Location(m) /\ stack[i - 1] = menu_stack[n] /\ i # 1
      BY <1>2, <1>4, <2>2
    <3>2. stack[i].menu = m /\ stack[i].scroll = scroll /\ stack[i].selected = selected
      BY <3>1 DEF Location
    <3>3. MenuItems(stack[i - 1].menu, options, keep) = items
      BY <1>5, <3>1
    <3> QED
      BY <1>6, <2>2, <3>1, <3>2, <3>3 DEF SpotInv
  <2> QED
    BY <1>2, <1>4, <2>1, <2>2
<1>9. Fetched(stack, options, keep) = MenuItems(m, options, keep)
  BY <1>2, <1>4 DEF Fetched, Last, Location
<1> QED
  BY <1>4, <1>7, <1>8, <1>9 DEF stack

\* What is on the screen when there is something.
LEMMA OnScreen ==
  ASSUME SpotInv, menu_stack # << >>
  PROVE  /\ Len(menu_stack) \in 1 .. 4 /\ Last(menu_stack).menu \in Menus
         /\ items = MenuItems(Last(menu_stack).menu, options, keep)
         /\ Len(items) \in 1 .. 4 /\ selected + 1 \in 1 .. Len(items)
         /\ ItemOK(Last(menu_stack).menu, items[selected + 1])
<1>1. menu_stack \in Seq(LocationType) /\ StackOK(menu_stack, options, keep)
  BY DEF SpotInv
<1>2. Len(menu_stack) \in 1 .. 4
  BY <1>1, StackShort, StackElements
<1>3. PICK m \in Menus : m = Last(menu_stack).menu
  BY <1>1, <1>2, StackElements DEF Last
<1>4. items = MenuItems(m, options, keep)
  BY <1>3 DEF SpotInv, ItemsCurrent, Fetched
<1>5. ListOK(m, items) /\ WindowOK(scroll, selected, Len(items)) /\ selected \in 0 .. 3
  BY <1>4, ItemsOK DEF SpotInv
<1>6. Len(items) \in 1 .. 4 /\ selected + 1 \in 1 .. Len(items)
  BY <1>5 DEF ListOK, WindowOK
<1>7. ItemOK(m, items[selected + 1])
  BY <1>5, <1>6 DEF ListOK
<1> QED
  BY <1>2, <1>3, <1>4, <1>6, <1>7

\* An option set from the menu keeps its type; the delay stops within a tick
\* of its limit.
LEMMA OptionTyped ==
  ASSUME options \in OptionsType, NEW menu, NEW item, ItemOK(menu, item)
  PROVE  Chosen(item) \in OptionsType
<1> DEFINE limit == 1000 \div UsPerTick
<1>1. Increased(options.delay) \in 0 .. limit + 1
  <2>1. options.delay \in 0 .. limit + 1 /\ limit \in Nat /\ UsPerTick \in Nat \ {0}
    BY DelayAssumption DEF OptionsType
  <2>2. 1000 < UsPerTick * (limit + 1)
    BY <2>1
  <2> HIDE DEF limit
  <2>3. ASSUME options.delay = limit + 1 PROVE Increased(options.delay) = options.delay
    <3>1. options.delay * UsPerTick > 1000
      BY <2>1, <2>2, <2>3
    <3> QED
      BY <3>1 DEF Increased
  <2> QED
    BY <2>1, <2>3 DEF Increased
<1>2. Decreased(options.delay) \in 0 .. limit + 1
  BY DelayAssumption DEF OptionsType, Decreased
<1> HIDE DEF limit
<1>3. OptionsType = [locked: BOOLEAN, mode: 0 .. 2, profile: 0 .. 2, x: 0 .. 3, y: 0 .. 3, delay: 0 .. limit + 1]
  BY DEF OptionsType, limit
<1>4. CASE item[1] \in {"set_mode", "set_profile", "set_x", "set_y"}
  BY <1>3, <1>4 DEF Chosen, ItemOK
<1>5. CASE item[1] \in {"lock", "unlock"}
  BY <1>3, <1>5 DEF Chosen
<1>6. CASE item[1] \in {"increase", "decrease"}
  BY <1>1, <1>2, <1>3, <1>6 DEF Chosen
<1>7. CASE item[1] \notin {"set_mode", "set_profile", "set_x", "set_y", "lock", "unlock", "increase", "decrease"}
  BY <1>7 DEF Chosen
<1> QED
  BY <1>4, <1>5, <1>6, <1>7

\* menu_up keeps the place within the list.
LEMMA UpInv ==
  ASSUME SpotInv, MenuUp
  PROVE  SpotInv'
<1>1. UNCHANGED <<menu_stack, items, keep, options>>
  BY DEF MenuUp
<1>2. scroll' \in 0 .. 3 /\ selected' \in 0 .. 3
  BY DEF MenuUp, SpotInv
<1>3. menu_stack = << >> => scroll' = 0 /\ selected' = 0
  BY DEF MenuUp, SpotInv
<1>4. ASSUME menu_stack # << >> PROVE WindowOK(scroll', selected', Len(items))
  <2>1. WindowOK(scroll, selected, Len(items)) /\ Len(items) \in Nat /\ scroll \in Nat /\ selected \in Nat
    BY <1>4, OnScreen DEF SpotInv
  <2> QED
    BY <2>1, DisplayAssumption DEF MenuUp, WindowOK
<1> QED
  BY <1>1, <1>2, <1>3, <1>4 DEF SpotInv, ItemsCurrent

\* ... and so does menu_down.
LEMMA DownInv ==
  ASSUME SpotInv, MenuDown
  PROVE  SpotInv'
<1>1. UNCHANGED <<menu_stack, items, keep, options>>
  BY DEF MenuDown
<1>2. CASE menu_stack = << >>
  <2>1. scroll = 0 /\ selected = 0 /\ Len(items) = 0
    BY <1>2 DEF SpotInv, ItemsCurrent, Fetched
  <2>2. scroll' = 0 /\ selected' = 0
    BY <2>1, DisplayAssumption DEF MenuDown
  <2> QED
    BY <1>1, <1>2, <2>2 DEF SpotInv, ItemsCurrent
<1>3. CASE menu_stack # << >>
  <2>1. WindowOK(scroll, selected, Len(items)) /\ Len(items) \in 1 .. 4 /\ scroll \in 0 .. 3 /\ selected \in 0 .. 3
    BY <1>3, OnScreen DEF SpotInv
  <2>2. WindowOK(scroll', selected', Len(items)) /\ scroll' \in 0 .. 3 /\ selected' \in 0 .. 3
    <3>1. PICK n \in 1 .. 4 : n = Len(items)
      BY <2>1
    <3>2. CASE selected + 1 < n
      <4>1. selected' = selected + 1 /\ scroll' = IF selected + 1 >= scroll + DisplayRows THEN scroll + 1 ELSE scroll
        BY <3>1, <3>2 DEF MenuDown
      <4>2. CASE selected + 1 >= scroll + DisplayRows
        <5>1. scroll' = scroll + 1
          BY <4>1, <4>2
        <5>2. /\ selected \in 0 .. 3 /\ scroll \in 0 .. 3 /\ DisplayRows \in Nat \ {0} /\ n \in 1 .. 4
              /\ scroll <= selected /\ selected < scroll + DisplayRows
          BY <2>1, DisplayAssumption DEF WindowOK
        <5>3. selected + 1 = scroll + DisplayRows
          BY <4>2, <5>2
        <5>4. WindowOK(scroll + 1, selected + 1, n) /\ scroll + 1 \in 0 .. 3 /\ selected + 1 \in 0 .. 3
          BY <3>2, <5>2, <5>3 DEF WindowOK
        <5> QED
          BY <3>1, <4>1, <5>1, <5>4
      <4>3. CASE ~(selected + 1 >= scroll + DisplayRows)
        <5>1. scroll' = scroll
          BY <4>1, <4>3
        <5>2. /\ selected \in 0 .. 3 /\ scroll \in 0 .. 3 /\ DisplayRows \in Nat \ {0} /\ n \in 1 .. 4
              /\ scroll <= selected /\ (scroll = 0 \/ scroll + DisplayRows <= n)
          BY <2>1, <3>1, DisplayAssumption DEF WindowOK
        <5>3. WindowOK(scroll, selected + 1, n) /\ selected + 1 \in 0 .. 3
          BY <3>2, <4>3, <5>2 DEF WindowOK
        <5> QED
          BY <3>1, <4>1, <5>1, <5>2, <5>3
      <4> QED
        BY <4>2, <4>3
    <3>3. CASE ~(selected + 1 < n)
      <4>1. selected' = selected /\ scroll' = IF selected >= scroll + DisplayRows THEN scroll + 1 ELSE scroll
        BY <3>1, <3>3 DEF MenuDown
      <4>2. ~(selected >= scroll + DisplayRows)
        BY <2>1, DisplayAssumption DEF WindowOK
      <4> QED
        BY <2>1, <4>1, <4>2
    <3> QED
      BY <3>2, <3>3
  <2> QED
    BY <1>1, <1>3, <2>2 DEF SpotInv, ItemsCurrent
<1> QED
  BY <1>2, <1>3

\* Nothing is popped below the root, whoever asks.
LEMMA LeftInv ==
  ASSUME SpotInv, MenuLeft
  PROVE  SpotInv' /\ (menu_stack' = << >> => menu_stack = << >>)
<1>1. UNCHANGED <<keep, options>>
  BY DEF MenuLeft
<1>2. CASE Len(menu_stack) = 1 \/ menu_stack = << >>
  <2>1. UNCHANGED spot
    BY <1>2 DEF MenuLeft, MenuPop
  <2> QED
    BY <1>1, <2>1 DEF spot, SpotInv, ItemsCurrent
<1>3. CASE Len(menu_stack) # 1 /\ menu_stack # << >>
  <2>1. menu_stack \in Seq(LocationType) /\ StackOK(menu_stack, options, keep)
    BY DEF SpotInv
  <2>2. Len(menu_stack) > 1
    <3>1. Len(menu_stack) \in 1 .. 4 /\ Len(menu_stack) # 1
      BY <1>3, OnScreen
    <3> QED
      BY <3>1
  <2>3. /\ scroll' = Last(menu_stack).scroll /\ selected' = Last(menu_stack).selected
        /\ menu_stack' = Front(menu_stack) /\ items' = Fetched(Front(menu_stack), options, keep)
    BY <1>3 DEF MenuLeft, MenuPop
  <2>4. /\ menu_stack' \in Seq(LocationType) /\ menu_stack' # << >> /\ StackOK(menu_stack', options, keep)
        /\ scroll' \in 0 .. 3 /\ selected' \in 0 .. 3 /\ WindowOK(scroll', selected', Len(items'))
    BY <2>1, <2>2, <2>3, PopsStack
  <2> QED
    BY <1>1, <2>3, <2>4 DEF SpotInv, ItemsCurrent
<1> QED
  BY <1>2, <1>3

\* An action changes the options and nothing of the path.
LEMMA LeafInv ==
  ASSUME SpotInv, menu_stack # << >>, EnterLeaf(items[selected + 1])
  PROVE  SpotInv'
<1> DEFINE m == Last(menu_stack).menu
<1>1. /\ m \in Menus /\ items = MenuItems(m, options, keep) /\ ItemOK(m, items[selected + 1])
  BY OnScreen
<1>2. options' \in OptionsType /\ keep' \in BOOLEAN
  BY <1>1, OptionTyped DEF EnterLeaf, KeptAfter, SpotInv
<1>3. UNCHANGED <<menu_stack, scroll, selected>> /\ items' = MenuItems(m, options', keep') /\ ItemsCurrent'
  BY DEF EnterLeaf, Fetched, ItemsCurrent
<1>4. Len(items') = Len(items)
  BY <1>1, <1>3, SameMenus
<1>5. StackOK(menu_stack, options', keep')
  BY StackKept DEF SpotInv
<1> QED
  BY <1>2, <1>3, <1>4, <1>5 DEF SpotInv

\* Right enters what is under the cursor; it faults only without items.
LEMMA RightInv ==
  ASSUME SpotInv, MenuRight
  PROVE  /\ SpotInv' /\ (menu_stack' = << >> => menu_stack = << >>)
         /\ fault' = fault \/ (fault' = "no item" /\ menu_stack = << >>)
<1>1. CASE menu_stack = << >>
  <2>1. items = << >> /\ selected = 0
    BY <1>1 DEF SpotInv, ItemsCurrent, Fetched
  <2>2. fault' = "no item" /\ UNCHANGED <<spot, keep, options>>
    <3>1. selected >= Len(items)
      BY <2>1
    <3> QED
      BY <3>1, Zenon DEF MenuRight
  <2> QED
    BY <1>1, <2>2 DEF spot, SpotInv, ItemsCurrent
<1>2. CASE menu_stack # << >>
  <2> DEFINE item == items[selected + 1]
  <2>1. /\ selected + 1 \in 1 .. Len(items) /\ Len(items) \in 1 .. 4 /\ selected \in Nat
        /\ Len(menu_stack) \in 1 .. 4
    BY <1>2, OnScreen DEF SpotInv
  <2>2. IF item[1] \in Menus THEN EnterMenu(item[1]) ELSE EnterLeaf(item)
    <3>1. ~(selected >= Len(items))
      BY <2>1
    <3> QED
      BY <3>1, Zenon DEF MenuRight
  <2>3. CASE item[1] \in Menus
    <3>1. PICK m \in Menus : m = item[1]
      BY <2>3
    <3>2. /\ Len(menu_stack) < 4
          /\ Append(menu_stack, Location(m)) \in Seq(LocationType) /\ Append(menu_stack, Location(m)) # << >>
          /\ StackOK(Append(menu_stack, Location(m)), options, keep)
          /\ Fetched(Append(menu_stack, Location(m)), options, keep) = MenuItems(m, options, keep)
      BY <1>2, <3>1, PushesStack
    <3>3. Len(menu_stack) # StackCapacity
      BY <2>1, <3>2, DisplayAssumption
    <3>4. /\ menu_stack' = Append(menu_stack, Location(m)) /\ items' = MenuItems(m, options, keep)
          /\ scroll' = 0 /\ selected' = 0 /\ UNCHANGED <<options, keep, fault>>
      BY <2>2, <3>1, <3>3 DEF EnterMenu
    <3>5. WindowOK(scroll', selected', Len(items'))
      <4>1. Len(items') \in 1 .. 4
        BY <3>4, ItemsOK DEF ListOK
      <4> QED
        BY <3>4, <4>1, DisplayAssumption DEF WindowOK
    <3> QED
      BY <3>2, <3>4, <3>5 DEF SpotInv, ItemsCurrent
  <2>4. CASE item[1] \notin Menus
    <3>1. SpotInv'
      BY <1>2, <2>2, <2>4, LeafInv
    <3> QED
      BY <1>2, <2>2, <2>4, <3>1 DEF EnterLeaf
  <2> QED
    BY <2>3, <2>4
<1> QED
  BY <1>1, <1>2

\* The root by itself, with the cursor on its first item.
LEMMA RootInv ==
  ASSUME menu_stack' = <<Bottom>>, options' \in OptionsType, keep' \in BOOLEAN,
         items' = MenuItems("root", options', keep'), scroll' = 0, selected' = 0
  PROVE  SpotInv' /\ menu_stack' # << >>
<1> DEFINE stack == <<Bottom>>
<1>1. Bottom \in LocationType /\ Bottom.menu = "root" /\ "root" \in Menus
  BY DEF Bottom, LocationType, Menus
<1>2. stack \in Seq(LocationType) /\ stack # << >> /\ Len(stack) = 1 /\ stack[1] = Bottom /\ Last(stack) = Bottom
  BY <1>1 DEF Last
<1> HIDE DEF stack
<1>3. StackOK(stack, options', keep')
  BY <1>1, <1>2 DEF StackOK, Depth
<1>4. items' = Fetched(stack, options', keep')
  BY <1>1, <1>2 DEF Fetched
<1>5. WindowOK(0, 0, Len(items'))
  <2>1. Len(items') \in 1 .. 4
    BY <1>1, ItemsOK DEF ListOK
  <2> QED
    BY <2>1, DisplayAssumption DEF WindowOK
<1>6. menu_stack' = stack
  BY DEF stack
<1> QED
  BY <1>2, <1>3, <1>4, <1>5, <1>6 DEF SpotInv, ItemsCurrent

\* Outside the menu the place is the top of a list.
LEMMA OutsideIs ==
  ASSUME SpotInv
  PROVE  Outside.scroll = 0 /\ Outside.selected = 0
<1>1. CASE menu_stack = << >>
  BY <1>1 DEF SpotInv, Outside
<1>2. CASE menu_stack # << >>
  <2>1. menu_stack[1] = Bottom
    <3>1. 1 \in 1 .. Len(menu_stack)
      BY <1>2, OnScreen
    <3> QED
      BY <3>1 DEF SpotInv, StackOK
  <2> QED
    BY <1>2, <2>1 DEF Outside, Bottom
<1> QED
  BY <1>1, <1>2

\* menu_open starts at the root, or where a menu that is kept was left.
LEMMA OpenInv ==
  ASSUME SpotInv, MenuOpen
  PROVE  SpotInv' /\ menu_stack' # << >>
<1>1. UNCHANGED <<keep, options>>
  BY DEF MenuOpen
<1>2. CASE keep
  <2>1. UNCHANGED spot
    BY <1>2 DEF MenuOpen
  <2> QED
    BY <1>1, <1>2, <2>1 DEF spot, SpotInv, ItemsCurrent
<1>3. CASE ~keep
  <2>1. [menu |-> "root", scroll |-> Outside.scroll, selected |-> Outside.selected] = Bottom
    BY OutsideIs DEF Bottom
  <2>2. /\ menu_stack' = <<Bottom>> /\ items' = MenuItems("root", options', keep')
        /\ scroll' = 0 /\ selected' = 0
    BY <1>1, <1>3, <2>1 DEF MenuOpen
  <2>3. options' \in OptionsType /\ keep' \in BOOLEAN
    BY <1>1 DEF SpotInv
  <2> QED
    BY <2>2, <2>3, RootInv
<1> QED
  BY <1>2, <1>3

\* menu_close goes back out of every menu, or stays where it is to be kept.
LEMMA CloseInv ==
  ASSUME SpotInv, MenuClose
  PROVE  SpotInv'
<1>1. UNCHANGED <<keep, options>>
  BY DEF MenuClose
<1>2. CASE keep
  <2>1. UNCHANGED spot
    BY <1>2 DEF MenuClose
  <2> QED
    BY <1>1, <2>1 DEF spot, SpotInv, ItemsCurrent
<1>3. CASE ~keep
  <2>1. menu_stack' = << >> /\ items' = << >> /\ scroll' = 0 /\ selected' = 0
    BY <1>3, OutsideIs DEF MenuClose
  <2>2. << >> \in Seq(LocationType) /\ StackOK(<< >>, options, keep)
    BY DEF StackOK
  <2> QED
    BY <1>1, <1>3, <2>1, <2>2 DEF SpotInv, ItemsCurrent, Fetched
<1> QED
  BY <1>2, <1>3

-----------------------------------------------------------------------------
(* Theorems                                                                *)

\* The options at boot are options.
LEMMA InitialTyped == InitialOptions \in OptionsType
<1> DEFINE limit == 1000 \div UsPerTick
<1>1. limit \in Nat /\ UsPerTick \in Nat \ {0} /\ InitialDelay \in Nat /\ InitialDelay * UsPerTick <= 1000
  BY DelayAssumption
<1>2. 1000 < UsPerTick * (limit + 1)
  BY <1>1
<1> HIDE DEF limit
<1>3. ASSUME InitialDelay >= limit + 1 PROVE FALSE
  <2>1. InitialDelay * UsPerTick >= (limit + 1) * UsPerTick
    BY <1>1, <1>3
  <2> QED
    BY <1>1, <1>2, <2>1
<1>4. InitialDelay \in 0 .. limit + 1
  BY <1>1, <1>3
<1> QED
  BY <1>4 DEF InitialOptions, OptionsType, limit

\* At boot the root menu is on the stack.
LEMMA InitInv == MenuInit => MenuInv
<1> SUFFICES ASSUME MenuInit PROVE MenuInv
  OBVIOUS
<1>1. options \in OptionsType
  BY InitialTyped DEF MenuInit
<1> DEFINE stack == <<Bottom>>
<1>2. Bottom \in LocationType /\ Bottom.menu = "root" /\ "root" \in Menus
  BY DEF Bottom, LocationType, Menus
<1>3. stack \in Seq(LocationType) /\ stack # << >> /\ Len(stack) = 1 /\ stack[1] = Bottom /\ Last(stack) = Bottom
  BY <1>2 DEF Last
<1>4. /\ menu_stack = stack /\ items = MenuItems("root", options, keep) /\ keep \in BOOLEAN
      /\ scroll = 0 /\ selected = 0
  <2>1. keep \in BOOLEAN
    BY DEF MenuInit
  <2>2. items = MenuItems("root", options, keep)
    BY Zenon DEF MenuInit
  <2> QED
    BY <2>1, <2>2 DEF MenuInit
<1> HIDE DEF stack
<1>5. StackOK(stack, options, keep) /\ items = Fetched(stack, options, keep)
  BY <1>2, <1>3, <1>4 DEF StackOK, Depth, Fetched
<1>6. WindowOK(scroll, selected, Len(items))
  <2>1. Len(items) \in 1 .. 4
    BY <1>2, <1>4, ItemsOK DEF ListOK
  <2> QED
    BY <1>4, <2>1, DisplayAssumption DEF WindowOK
<1>7. SpotInv
  BY <1>1, <1>3, <1>4, <1>5, <1>6 DEF SpotInv, ItemsCurrent
<1> QED
  BY <1>3, <1>4, <1>7 DEF MenuInv, FaultInv, MenuInit

\* A call of menu_input keeps the stack's bottom, and faults only where there
\* is no stack.
LEMMA InputInv ==
  ASSUME SpotInv, NEW input, MenuInput(input)
  PROVE  /\ SpotInv' /\ (menu_stack' = << >> => menu_stack = << >>)
         /\ fault' = fault \/ (fault' = "no item" /\ menu_stack = << >>)
         /\ opened' = opened
<1>1. CASE MenuUp
  BY <1>1, UpInv DEF MenuUp, MenuInput
<1>2. CASE MenuDown
  BY <1>2, DownInv DEF MenuDown, MenuInput
<1>3. CASE MenuLeft
  BY <1>3, LeftInv DEF MenuLeft, MenuInput
<1>4. CASE MenuRight
  BY <1>4, RightInv DEF MenuInput
<1> QED
  BY <1>1, <1>2, <1>3, <1>4 DEF MenuInput

\* Every operation of the menu keeps the invariant.
LEMMA NextInv == MenuInv /\ [MenuNext]_menuVars => MenuInv'
<1> SUFFICES ASSUME MenuInv, [MenuNext]_menuVars PROVE MenuInv'
  OBVIOUS
<1>1. SpotInv
  BY DEF MenuInv
<1>2. CASE Press
  <2>1. SpotInv' /\ menu_stack' # << >>
    BY <1>1, <1>2, OpenInv DEF Press
  <2> QED
    BY <1>2, <2>1 DEF Press, MenuOpen, MenuInv, FaultInv
<1>3. CASE Release
  <2>1. SpotInv'
    BY <1>1, <1>3, CloseInv DEF Release
  <2> QED
    BY <1>3, <2>1 DEF Release, MenuClose, MenuInv, FaultInv
<1>4. CASE Stick
  <2>1. /\ SpotInv' /\ (menu_stack' = << >> => menu_stack = << >>)
        /\ fault' = fault \/ (fault' = "no item" /\ menu_stack = << >>)
        /\ opened' = opened
    BY <1>1, <1>4, InputInv DEF Stick
  <2>2. pressed /\ driver = "buttons" /\ UNCHANGED <<driver, pressed>>
    BY <1>4 DEF Stick
  <2>3. menu_stack # << >>
    BY <2>2 DEF MenuInv, FaultInv
  <2> QED
    BY <2>1, <2>2, <2>3 DEF MenuInv, FaultInv
<1>5. CASE Shell
  <2>1. driver = "shell" /\ driver' = driver /\ pressed' = pressed
    BY <1>5 DEF Shell
  <2>2. CASE MenuOpen
    <3>1. SpotInv' /\ menu_stack' # << >> /\ fault' = fault /\ opened' = TRUE
      BY <1>1, <2>2, OpenInv DEF MenuOpen
    <3> QED
      BY <2>1, <3>1 DEF MenuInv, FaultInv
  <2>3. CASE MenuClose
    <3>1. SpotInv' /\ fault' = fault /\ opened' = FALSE
      BY <1>1, <2>3, CloseInv DEF MenuClose
    <3> QED
      BY <2>1, <3>1 DEF MenuInv, FaultInv
  <2>4. CASE \E input \in Inputs : MenuInput(input)
    <3>1. /\ SpotInv' /\ (menu_stack' = << >> => menu_stack = << >>)
          /\ fault' = fault \/ (fault' = "no item" /\ menu_stack = << >>)
          /\ opened' = opened
      BY <1>1, <2>4, InputInv
    <3> QED
      BY <2>1, <3>1 DEF MenuInv, FaultInv
  <2> QED
    BY <1>5, <2>2, <2>3, <2>4 DEF Shell
<1>6. CASE Restart
  <2>1. InitialOptions \in OptionsType
    BY InitialTyped
  <2>2. /\ menu_stack' = <<Bottom>> /\ options' \in OptionsType /\ keep' \in BOOLEAN
        /\ items' = MenuItems("root", options', keep') /\ scroll' = 0 /\ selected' = 0
    BY <1>6, <2>1 DEF Restart, Boot
  <2>3. SpotInv' /\ menu_stack' # << >>
    BY <2>2, RootInv
  <2> QED
    BY <1>6, <2>3 DEF Restart, Boot, MenuInv, FaultInv
<1>7. CASE UNCHANGED menuVars
  BY <1>7 DEF menuVars, spot, MenuInv, SpotInv, FaultInv, ItemsCurrent
<1> QED
  BY <1>2, <1>3, <1>4, <1>5, <1>6, <1>7 DEF MenuNext

\* The place in the menu is always one that the menus have, and the items are
\* those of that place: what menu.cpp relies on when it indexes its arrays.
THEOREM Invariance == MenuSpec => []MenuInv
BY InitInv, NextInv, PTL DEF MenuSpec

\* menu_draw reads no item past the end, although it compares the row and not
\* the index with the number of items, and always draws the cursor, for any
\* number of rows.
THEOREM DrawSafe == MenuSpec => []DrawInBounds
<1>1. MenuInv => DrawInBounds
  <2> SUFFICES ASSUME MenuInv PROVE DrawInBounds
    OBVIOUS
  <2>1. MenuTypeOK
    BY DEF MenuInv, SpotInv, FaultInv, OptionsType, MenuTypeOK
  <2>2. ASSUME menu_stack # << >>
        PROVE  /\ selected < Len(items) /\ scroll <= selected /\ selected < scroll + DisplayRows
               /\ \A row \in 0 .. DisplayRows - 1 : row < Len(items) => scroll + row < Len(items)
    <3>1. WindowOK(scroll, selected, Len(items)) /\ Len(items) \in 1 .. 4 /\ scroll \in 0 .. 3
      BY <2>2, OnScreen DEF MenuInv, SpotInv
    <3> QED
      BY <3>1, DisplayAssumption DEF WindowOK
  <2> QED
    BY <2>1, <2>2 DEF DrawInBounds
<1> QED
  BY <1>1, Invariance, PTL

\* Going left always returns to the item one came in by: the stack is a path
\* in the tree of menus, whatever options were set on the way down.
THEOREM PathSafe == MenuSpec => []PathFromRoot
<1>1. MenuInv => PathFromRoot
  <2> SUFFICES ASSUME MenuInv PROVE PathFromRoot
    OBVIOUS
  <2>1. menu_stack = << >> => ~keep /\ ~opened
    BY DEF MenuInv, SpotInv, FaultInv
  <2>2. menu_stack \in Seq(LocationType) /\ Len(menu_stack) \in Nat /\ StackOK(menu_stack, options, keep)
    BY StackElements DEF MenuInv, SpotInv
  <2>3. ASSUME NEW i \in 1 .. Len(menu_stack), i # 1
        PROVE  /\ MenuItems(menu_stack[i - 1].menu, options, keep)[menu_stack[i].selected + 1][1] = menu_stack[i].menu
               /\ menu_stack[i].scroll <= menu_stack[i].selected
               /\ menu_stack[i].selected < menu_stack[i].scroll + DisplayRows
    <3>1. i > 1
      BY <2>2, <2>3
    <3> QED
      BY <2>2, <3>1 DEF StackOK, WindowOK
  <2>4. \A i \in 1 .. Len(menu_stack) : i = 1 => menu_stack[i] = Bottom
    BY <2>2 DEF StackOK
  <2> QED
    BY <2>1, <2>3, <2>4 DEF PathFromRoot
<1> QED
  BY <1>1, Invariance, PTL

\* The items kept for drawing and choosing are those of the current options.
THEOREM ItemsSafe == MenuSpec => []ItemsCurrent
<1>1. MenuInv => ItemsCurrent
  BY DEF MenuInv, SpotInv
<1> QED
  BY <1>1, Invariance, PTL

\* Driven by the buttons the menu never reads an item that is not there; the
\* stack overflows for no one.
THEOREM FaultSafe == MenuSpec => []ButtonsNeverFault
<1>1. MenuInv => ButtonsNeverFault
  BY DEF MenuInv, FaultInv, ButtonsNeverFault
<1> QED
  BY <1>1, Invariance, PTL

\* An item sets one option, or none; the one that sets whether to keep the
\* spot sets none.
LEMMA SetsOne ==
  ASSUME options \in OptionsType, NEW item, options' = Chosen(item), keep' = KeptAfter(item)
  PROVE  \/ options' = options
         \/ keep' = keep /\ \E o \in DOMAIN options : options' = [options EXCEPT ![o] = options'[o]]
<1>1. /\ DOMAIN options = {"locked", "mode", "profile", "x", "y", "delay"}
  BY DEF OptionsType
<1>2. ASSUME NEW o \in DOMAIN options, NEW v, options' = [options EXCEPT ![o] = v]
      PROVE  options' = [options EXCEPT ![o] = options'[o]]
  <2>1. options'[o] = v
    BY <1>2 DEF OptionsType
  <2> QED
    BY <1>2, <2>1
<1>3. CASE item[1] \in {"lock", "unlock"}
  <2>1. keep' = keep /\ \E v : options' = [options EXCEPT !["locked"] = v]
    BY <1>3 DEF Chosen, KeptAfter
  <2> QED
    BY <1>1, <1>2, <2>1
<1>4. CASE item[1] = "set_mode"
  <2>1. keep' = keep /\ \E v : options' = [options EXCEPT !["mode"] = v]
    BY <1>4 DEF Chosen, KeptAfter
  <2> QED
    BY <1>1, <1>2, <2>1
<1>5. CASE item[1] = "set_profile"
  <2>1. keep' = keep /\ \E v : options' = [options EXCEPT !["profile"] = v]
    BY <1>5 DEF Chosen, KeptAfter
  <2> QED
    BY <1>1, <1>2, <2>1
<1>6. CASE item[1] = "set_x"
  <2>1. keep' = keep /\ \E v : options' = [options EXCEPT !["x"] = v]
    BY <1>6 DEF Chosen, KeptAfter
  <2> QED
    BY <1>1, <1>2, <2>1
<1>7. CASE item[1] = "set_y"
  <2>1. keep' = keep /\ \E v : options' = [options EXCEPT !["y"] = v]
    BY <1>7 DEF Chosen, KeptAfter
  <2> QED
    BY <1>1, <1>2, <2>1
<1>8. CASE item[1] \in {"increase", "decrease"}
  <2>1. keep' = keep /\ \E v : options' = [options EXCEPT !["delay"] = v]
    BY <1>8 DEF Chosen, KeptAfter
  <2> QED
    BY <1>1, <1>2, <2>1
<1>9. CASE item[1] \notin {"lock", "unlock", "set_mode", "set_profile", "set_x", "set_y", "increase", "decrease"}
  BY <1>9 DEF Chosen
<1> QED
  BY <1>3, <1>4, <1>5, <1>6, <1>7, <1>8, <1>9

\* One call sets one option and moves nothing; only a restart sets them all.
THEOREM OptionSafe == MenuSpec => OneOptionAtATime
<1> DEFINE One == \/ options' = options \/ options' = InitialOptions
                  \/ /\ \E o \in DOMAIN options : options' = [options EXCEPT ![o] = options'[o]]
                     /\ UNCHANGED <<menu_stack, scroll, selected, keep, opened>>
<1>1. MenuInv /\ [MenuNext]_menuVars => [One]_menuVars
  <2> SUFFICES ASSUME MenuInv, MenuNext PROVE One
    BY DEF menuVars
  <2>1. CASE MenuOpen \/ MenuClose
    BY <2>1 DEF MenuOpen, MenuClose
  <2>2. CASE Restart
    BY <2>2 DEF Restart, Boot
  <2>3. ASSUME NEW input \in Inputs, MenuInput(input) PROVE One
    <3>1. CASE MenuUp \/ MenuDown \/ MenuLeft
      BY <3>1 DEF MenuUp, MenuDown, MenuLeft
    <3>2. CASE MenuRight
      <4>1. options' = options \/ EnterLeaf(items[selected + 1])
        BY <3>2 DEF MenuRight, EnterMenu
      <4>2. ASSUME NEW item, EnterLeaf(item) PROVE One
        <5>1. options \in OptionsType /\ options' = Chosen(item) /\ keep' = KeptAfter(item)
          BY <4>2 DEF MenuInv, SpotInv, EnterLeaf
        <5>2. UNCHANGED <<menu_stack, scroll, selected, opened>>
          BY <2>3, <4>2 DEF EnterLeaf, MenuInput
        <5> QED
          BY <5>1, <5>2, SetsOne
      <4> QED
        BY <4>1, <4>2
    <3> QED
      BY <2>3, <3>1, <3>2 DEF MenuInput
  <2> QED
    BY <2>1, <2>2, <2>3 DEF MenuNext, Press, Release, Stick, Shell
<1> QED
  BY <1>1, Invariance, PTL DEF MenuSpec, OneOptionAtATime
=============================================================================
