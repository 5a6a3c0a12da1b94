-------------------------------- MODULE Menu --------------------------------
(***************************************************************************)
(* The on-screen menu of display/menu.cpp.  On the microdash the menu      *)
(* button and the stick drive it (profile.cpp: open on press, input while  *)
(* held, close on release); on the dongle, which has no buttons, the shell *)
(* does, with any call in any order.  Every call runs to its end.          *)
(*                                                                         *)
(* An item is a pair: its name, and its index in a radio menu (0 elsewhere). *)
(* The caller's timing (the button's hold while locked, one input per tick) *)
(* is in module Input; here an input may come at any time.                 *)
(***************************************************************************)
EXTENDS Integers, Sequences, SequencesExt

CONSTANTS
    Drivers,        \* the builds: {"buttons", "shell"} or one of them
    DisplayRows,    \* DISPLAY_ROWS (3 in the code)
    StackCapacity,  \* the capacity of menu_stack (8 in the code)
    InitialDelay,   \* DEFAULT_HID_REPORT_DELAY_TICKS
    UsPerTick       \* k_ticks_to_us_ceil32 of one tick

\* The deepest menu is the fourth: root, output, socd and an axis.
ASSUME DisplayAssumption == DisplayRows \in Nat \ {0} /\ StackCapacity \in Nat /\ StackCapacity >= 4
ASSUME DriversAssumption == Drivers \subseteq {"buttons", "shell"}
ASSUME DelayAssumption == UsPerTick \in Nat \ {0} /\ InitialDelay \in Nat /\ InitialDelay * UsPerTick <= 1000

VARIABLES
    driver,      \* who calls the menu; never changes
    pressed,     \* profile.cpp's menu_opened: the button has opened the menu
    menu_stack,  \* the menus entered, each with the spot left in its parent
    items,       \* menu_items, fetched by the last push or pop
    scroll,      \* menu_scroll_index
    selected,    \* menu_selected_index
    opened,      \* menu_opened
    keep,        \* keep_menu_spot
    options,     \* what the items set: the lock, the mode, ... and the USB delay
    fault        \* an item was read outside menu_items

spot == <<menu_stack, items, scroll, selected>>
menuVars == <<driver, pressed, spot, opened, keep, options, fault>>

-----------------------------------------------------------------------------
(* The tree of menus                                                       *)

Menus == {"root", "output", "mode", "profile", "socd", "x", "y", "settings", "usb_delay", "about", "version"}

Entries(names) == [i \in 1 .. Len(names) |-> <<names[i], 0>>]
Radio(setter, count) == [i \in 1 .. count |-> <<setter, i - 1>>]

\* menu_items of each menu; two entries depend on the state.
MenuItems(menu, opts, kept) ==
    CASE menu = "root" -> Entries(<<IF opts.locked THEN "unlock" ELSE "lock", "output", "settings", "about">>)
      [] menu = "output" -> Entries(<<"mode", "profile", "socd">>)
      [] menu = "mode" -> Radio("set_mode", 3)
      [] menu = "profile" -> Radio("set_profile", 3)
      [] menu = "socd" -> Entries(<<"x", "y">>)
      [] menu = "x" -> Radio("set_x", 4)
      [] menu = "y" -> Radio("set_y", 4)
      [] menu = "settings" -> Entries(<<"usb_delay", IF kept THEN "remember" ELSE "forget", "dfu">>)
      [] menu = "usb_delay" -> Entries(<<"delay", "increase", "decrease">>)
      [] menu = "about" -> Entries(<<"version">>)
      [] menu = "version" -> Radio("row", 3)

\* menu_fetch_items, for a stack and the state it is fetched in.
Fetched(stack, opts, kept) == IF stack = << >> THEN << >> ELSE MenuItems(Last(stack).menu, opts, kept)

InitialOptions == [locked |-> FALSE, mode |-> 0, profile |-> 0, x |-> 0, y |-> 2, delay |-> InitialDelay]

Location(menu) == [menu |-> menu, scroll |-> scroll, selected |-> selected]
Bottom == [menu |-> "root", scroll |-> 0, selected |-> 0]

MenuInit ==
    /\ driver \in Drivers
    /\ pressed = FALSE
    /\ menu_stack = <<Bottom>>
    /\ items = MenuItems("root", InitialOptions, TRUE)
    /\ scroll = 0 /\ selected = 0
    /\ opened = FALSE /\ keep = TRUE
    /\ options = InitialOptions
    /\ fault = "none"

\* Power off and on: nothing is stored.  "Firmware update" does the same by
\* way of the bootloader.
Boot ==
    /\ pressed' = FALSE
    /\ menu_stack' = <<Bottom>>
    /\ items' = MenuItems("root", InitialOptions, TRUE)
    /\ scroll' = 0 /\ selected' = 0
    /\ opened' = FALSE /\ keep' = TRUE
    /\ options' = InitialOptions
    /\ fault' = "none"
    /\ UNCHANGED driver

-----------------------------------------------------------------------------
(* Pushing and popping                                                     *)

\* usb_delay_increase and usb_delay_decrease
Increased(ticks) == IF ticks * UsPerTick > 1000 THEN ticks ELSE ticks + 1

Decreased(ticks) == IF ticks = 0 THEN ticks ELSE ticks - 1

\* Mutant: choosing the type of one axis sets both.
ChosenBothAxes(item) ==
    IF item[1] \in {"set_x", "set_y"} THEN [options EXCEPT !.x = item[2], !.y = item[2]] ELSE options

\* The options after on_enter of a leaf.
Chosen(item) ==
    CASE item[1] = "lock" -> [options EXCEPT !.locked = TRUE]
      [] item[1] = "unlock" -> [options EXCEPT !.locked = FALSE]
      [] item[1] = "set_mode" -> [options EXCEPT !.mode = item[2]]
      [] item[1] = "set_profile" -> [options EXCEPT !.profile = item[2]]
      [] item[1] = "set_x" -> [options EXCEPT !.x = item[2]]
      [] item[1] = "set_y" -> [options EXCEPT !.y = item[2]]
      [] item[1] = "increase" -> [options EXCEPT !.delay = Increased(@)]
      [] item[1] = "decrease" -> [options EXCEPT !.delay = Decreased(@)]
      [] OTHER -> options

KeptAfter(item) == IF item[1] = "remember" THEN FALSE ELSE IF item[1] = "forget" THEN TRUE ELSE keep

\* Mutant: the items are not fetched again after an action.
EnterLeafStale(item) ==
    /\ options' = Chosen(item) /\ keep' = KeptAfter(item)
    /\ UNCHANGED <<spot, fault>>

\* menu_push of a leaf: its action, then the items again.
EnterLeaf(item) ==
    /\ options' = Chosen(item) /\ keep' = KeptAfter(item)
    /\ items' = Fetched(menu_stack, options', keep')
    /\ UNCHANGED <<menu_stack, scroll, selected, fault>>

\* Mutant: the cursor is reset before the spot is saved.
EnterMenuResetsFirst(menu) ==
    /\ menu_stack' = Append(menu_stack, [menu |-> menu, scroll |-> 0, selected |-> 0])
    /\ items' = MenuItems(menu, options, keep)
    /\ scroll' = 0 /\ selected' = 0
    /\ UNCHANGED <<options, keep, fault>>

\* menu_push of a menu.  A full stack panics.
EnterMenu(menu) ==
    IF Len(menu_stack) = StackCapacity
    THEN fault' = "overflow" /\ UNCHANGED <<spot, options, keep>>
    ELSE /\ menu_stack' = Append(menu_stack, Location(menu))
         /\ items' = MenuItems(menu, options, keep)
         /\ scroll' = 0 /\ selected' = 0
         /\ UNCHANGED <<options, keep, fault>>

\* menu_pop: back to the spot in the parent.
MenuPop ==
    IF menu_stack = << >> THEN UNCHANGED spot
    ELSE /\ scroll' = Last(menu_stack).scroll /\ selected' = Last(menu_stack).selected
         /\ menu_stack' = Front(menu_stack)
         /\ items' = Fetched(menu_stack', options, keep)

-----------------------------------------------------------------------------
(* The menu's interface                                                    *)

\* The spot in which popping everything ends.
Outside == IF menu_stack = << >> THEN [scroll |-> scroll, selected |-> selected]
           ELSE [scroll |-> menu_stack[1].scroll, selected |-> menu_stack[1].selected]

MenuOpen ==
    /\ IF keep THEN UNCHANGED spot
       ELSE /\ menu_stack' = <<[menu |-> "root", scroll |-> Outside.scroll, selected |-> Outside.selected]>>
            /\ items' = MenuItems("root", options, keep)
            /\ scroll' = 0 /\ selected' = 0
    /\ opened' = TRUE
    /\ UNCHANGED <<keep, options, fault>>

\* Mutant: closing always forgets the spot.
MenuCloseForgets ==
    /\ menu_stack' = << >> /\ items' = << >>
    /\ scroll' = Outside.scroll /\ selected' = Outside.selected
    /\ opened' = FALSE
    /\ UNCHANGED <<keep, options, fault>>

MenuClose ==
    /\ IF keep THEN UNCHANGED spot
       ELSE /\ menu_stack' = << >> /\ items' = << >>
            /\ scroll' = Outside.scroll /\ selected' = Outside.selected
    /\ opened' = FALSE
    /\ UNCHANGED <<keep, options, fault>>

MenuUp ==
    /\ selected' = IF selected # 0 THEN selected - 1 ELSE selected
    /\ scroll' = IF selected' < scroll THEN selected' ELSE scroll
    /\ UNCHANGED <<menu_stack, items, keep, options, fault>>

\* Mutant: the window follows one row too late.
MenuDownLate ==
    /\ selected' = IF selected + 1 < Len(items) THEN selected + 1 ELSE selected
    /\ scroll' = IF selected' > scroll + DisplayRows THEN scroll + 1 ELSE scroll
    /\ UNCHANGED <<menu_stack, items, keep, options, fault>>

MenuDown ==
    /\ selected' = IF selected + 1 < Len(items) THEN selected + 1 ELSE selected
    /\ scroll' = IF selected' >= scroll + DisplayRows THEN scroll + 1 ELSE scroll
    /\ UNCHANGED <<menu_stack, items, keep, options, fault>>

MenuLeft ==
    /\ IF Len(menu_stack) # 1 THEN MenuPop ELSE UNCHANGED spot
    /\ UNCHANGED <<keep, options, fault>>

\* menu_items is not tested: without items this reads through a null span.
MenuRight ==
    IF selected >= Len(items)
    THEN fault' = "no item" /\ UNCHANGED <<spot, keep, options>>
    ELSE LET item == items[selected + 1]
         IN  IF item[1] \in Menus THEN EnterMenu(item[1]) ELSE EnterLeaf(item)

EntersDfu == items # << >> /\ items[selected + 1][1] = "dfu"

MenuInput(input) ==
    /\ \/ input = "up" /\ MenuUp
       \/ input = "down" /\ MenuDown
       \/ input = "left" /\ MenuLeft
       \/ input = "right" /\ ~EntersDfu /\ MenuRight
    /\ UNCHANGED opened

Inputs == {"up", "down", "left", "right"}

-----------------------------------------------------------------------------

\* The menu button goes down, is released, and the stick moves in between.
Press ==
    /\ driver = "buttons" /\ fault = "none" /\ ~pressed
    /\ pressed' = TRUE /\ MenuOpen
    /\ UNCHANGED driver

Release ==
    /\ driver = "buttons" /\ fault = "none" /\ pressed
    /\ pressed' = FALSE /\ MenuClose
    /\ UNCHANGED driver

Stick ==
    /\ driver = "buttons" /\ fault = "none" /\ pressed
    /\ \E input \in Inputs : MenuInput(input)
    /\ UNCHANGED <<driver, pressed>>

\* cmd_menu
Shell ==
    /\ driver = "shell" /\ fault = "none"
    /\ MenuOpen \/ MenuClose \/ \E input \in Inputs : MenuInput(input)
    /\ UNCHANGED <<driver, pressed>>

\* At any time, or by the item "Firmware update".
Restart == Boot

MenuNext == Press \/ Release \/ Stick \/ Shell \/ Restart

MenuSpec == MenuInit /\ [][MenuNext]_menuVars
-----------------------------------------------------------------------------
(* Properties                                                              *)

LocationType == [menu: Menus, scroll: 0 .. 3, selected: 0 .. 3]

\* Every variable has its type; the delay stays within a tick of its limit.
MenuTypeOK ==
    /\ driver \in Drivers /\ pressed \in BOOLEAN /\ opened \in BOOLEAN /\ keep \in BOOLEAN
    /\ menu_stack \in Seq(LocationType)
    /\ scroll \in 0 .. 3 /\ selected \in 0 .. 3
    /\ options \in [locked: BOOLEAN, mode: 0 .. 2, profile: 0 .. 2, x: 0 .. 3, y: 0 .. 3,
                     delay: 0 .. (1000 \div UsPerTick) + 1]
    /\ fault \in {"none", "no item", "overflow"}

\* Every variable has its type; menu_draw stays inside the items although it tests the row and not the
\* item's index, and the cursor is on one of the rows it draws.
DrawInBounds ==
    /\ MenuTypeOK
    /\ menu_stack # << >> =>
        /\ selected < Len(items)
        /\ scroll <= selected /\ selected < scroll + DisplayRows
        /\ \A row \in 0 .. DisplayRows - 1 : row < Len(items) => scroll + row < Len(items)

\* The stack is a path down from the root and each entry remembers the very
\* item it was entered by, so going left returns the cursor to it; it is
\* empty only while the menu is closed and does not keep its spot.
PathFromRoot ==
    /\ menu_stack = << >> => ~keep /\ ~opened
    /\ \A i \in 1 .. Len(menu_stack) :
        IF i = 1 THEN menu_stack[i] = Bottom
        ELSE /\ MenuItems(menu_stack[i - 1].menu, options, keep)[menu_stack[i].selected + 1][1] = menu_stack[i].menu
             /\ menu_stack[i].scroll <= menu_stack[i].selected
             /\ menu_stack[i].selected < menu_stack[i].scroll + DisplayRows

\* The items on screen are those of the menu on top of the stack as the
\* options now are: the lock and "remember" entries never offer a stale choice.
ItemsCurrent == items = Fetched(menu_stack, options, keep)

\* Driven by the buttons, the menu never reads an item it does not have, and
\* no one overflows its stack.
ButtonsNeverFault == fault # "overflow" /\ (driver = "buttons" => fault = "none")

\* One call changes at most one option and then leaves the cursor where it
\* is (a restart changes them all): what Input assumes of the menu.
OneOptionAtATime ==
    [][\/ options' = options \/ options' = InitialOptions
       \/ /\ \E o \in DOMAIN options : options' = [options EXCEPT ![o] = options'[o]]
          /\ UNCHANGED <<menu_stack, scroll, selected, keep, opened>>]_menuVars
=============================================================================
