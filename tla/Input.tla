------------------------------- MODULE Input -------------------------------
(***************************************************************************)
(* From button levels to the report for the host: input/input.cpp (raw     *)
(* state, debouncing, output mode, lock), input/profile.cpp (profiles, the *)
(* menu button, the report) and input/socd.cpp (simultaneous opposite      *)
(* directions).                                                            *)
(*                                                                         *)
(* Poll is one call of input_get_state, which runs to its end on the thread *)
(* that writes reports.  The menu itself is the subject of module Menu: here its calls *)
(* are kept (open, close, input) and a "right" may change one option, which *)
(* is what Menu!OneOptionAtATime shows of it.                              *)
(***************************************************************************)
EXTENDS Integers, FiniteSets, Sequences, SequencesExt

CONSTANTS
    Boards,        \* boards: see BoardType
    Watched,       \* the button whose level is followed in steady
    DebounceTicks, \* the 5 ms between transitions, in ticks
    MenuHold,      \* the 2 s the menu button is held while locked, in ticks
    MaxTick        \* bound: the last tick explored

Sticks == {"stick_up", "stick_down", "stick_left", "stick_right"}
Modes == <<"mode_ls", "mode_rs", "mode_dpad">>
Masked == {"button_start", "button_select", "button_home"}
HostButtons == {"button_south", "button_l3", "button_r3"} \cup Masked
Buttons == Sticks \cup HostButtons \cup ToSet(Modes)
             \cup {"button_menu", "button_w", "button_thumb_left", "button_thumb_right"}

MenuOptions == {"lock", "mode", "profile", "x", "y"}

\* A board: the buttons its devicetree has, whether it has a display, is the
\* microdash, gets its input from outside; the hardware cycles in a tick of the
\* kernel's clock; and two bounds on its player, who touches some of the
\* buttons and changes some of the menu's options.
BoardType == [available: SUBSET Buttons, touched: SUBSET Buttons, changed: SUBSET MenuOptions,
              display: BOOLEAN, microdash: BOOLEAN, external: BOOLEAN, cycles: Nat \ {0}]

ASSUME BoardAssumption ==
    /\ Boards \subseteq BoardType
    /\ \A b \in Boards : ~b.external => b.touched \subseteq b.available
ASSUME WatchedAssumption == Watched \in Buttons
ASSUME TimeAssumption == DebounceTicks \in Nat \ {0} /\ MenuHold \in Nat /\ MaxTick \in Nat

SOCDTypes == {"Neutral", "Last", "Negative", "Positive"}
Profiles == {"Default", "Dashblock", "Tigerknee"}

VARIABLES
    board,        \* the build; never changes
    now,          \* k_uptime_ticks()
    raw,          \* the levels of the buttons, or the external input_state
    history,      \* button_history
    locked,       \* input_locked
    mode,         \* input_output_mode
    socd,         \* the SOCD types of the two axes
    profile,      \* the active profile
    menu_opened,  \* profile.cpp's: the menu button has opened the menu
    menu,         \* whether menu.cpp's menu is open
    out,          \* the report parsed last
    call,         \* history: the menu_input call the last step made
    steady,       \* history: the Watched level and since when it has been so
    order         \* history: the pairs of direction buttons held of which the
                  \* first was pressed first

options == <<locked, socd, profile>>
vars == <<board, now, raw, history, options, mode, menu_opened, menu, out, call, steady, order>>

Neutral == [dpad |-> "Neutral", left |-> <<128, 128>>, right |-> <<128, 128>>, buttons |-> {}]

Init ==
    /\ board \in Boards
    /\ now = 0
    /\ raw = [b \in Buttons |-> FALSE]
    /\ history = [b \in Buttons |-> [state |-> FALSE, tick |-> 0]]
    /\ locked = FALSE
    /\ mode = "mode_dpad"
    /\ socd = [x |-> "Neutral", y |-> "Negative"]
    /\ profile = "Default"
    /\ menu_opened = FALSE /\ menu = FALSE
    /\ out = Neutral
    /\ call = "none"
    /\ steady = [level |-> FALSE, since |-> 0]
    /\ order = {}

-----------------------------------------------------------------------------
(* input.cpp                                                               *)

\* k_ms_to_cyc_ceil64(5): the 5 ms in cycles.
TransitionTime == DebounceTicks * board.cycles

\* Mutant: a refused transition restarts the interval.
DebounceRestarts(h, level) ==
    IF level # h.state /\ now - h.tick >= TransitionTime
    THEN [state |-> level, tick |-> now]
    ELSE IF level # h.state THEN [h EXCEPT !.tick = now] ELSE h

\* input_debounce: the button's history after a sample; the value it returns
\* is the state in it.  The interval is counted in ticks, its limit in cycles.
Debounce(h, level) ==
    IF level # h.state /\ now - h.tick >= TransitionTime
    THEN [state |-> level, tick |-> now]
    ELSE h

Debounced == [b \in Buttons |-> IF b \in board.available THEN Debounce(history[b], raw[b]) ELSE history[b]]

\* The sample as the rest of input_parse sees it.
Sample(h) == [b \in Buttons |-> IF b \in board.available THEN h[b].state ELSE raw[b]]

\* input_parse_mode: the first switch that is on, mode_dpad if there are only
\* switches that are off, what it was if there are none.
ModeAfter(in) ==
    LET switches == {i \in 1 .. Len(Modes) : Modes[i] \in board.available}
        on == {i \in switches : in[Modes[i]]}
    IN  IF switches = {} THEN mode
        ELSE IF on = {} THEN "mode_dpad" ELSE Modes[Min(on)]

-----------------------------------------------------------------------------
(* socd.cpp                                                                *)

SOCDInput(b, type, overrides) == [button |-> b, type |-> type, overrides |-> overrides]

\* The newest tick among the pressed inputs of a type, -1 without one.
NewestTick(pressed, type, h) ==
    LET ticks == {h[p.button].tick : p \in {q \in pressed : q.type = type}}
    IN  IF ticks = {} THEN -1 ELSE Max(ticks)

\* Mutant: the direction pressed first wins.
LastWinsFirst(pos, neu, neg) ==
    IF pos = -1 THEN IF neg = -1 THEN 0 ELSE -1
    ELSE IF neg = -1 THEN 1 ELSE IF pos < neg THEN 1 ELSE -1

\* SOCDType::Last: the newest of the three; a later comparison must be strict.
LastWins(pos, neu, neg) ==
    IF pos >= neu /\ pos >= neg /\ pos # -1 THEN 1
    ELSE IF neu >= neg THEN 0 ELSE -1

\* input_socd_parse: the first pressed override decides; then the SOCD type.
SocdParse(type, inputs, in, h) ==
    LET pressed == {p \in ToSet(inputs) : in[p.button]}
        overriding == {i \in 1 .. Len(inputs) : inputs[i] \in pressed /\ inputs[i].overrides}
        pos == NewestTick(pressed, 1, h)
        neu == NewestTick(pressed, 0, h)
        neg == NewestTick(pressed, -1, h)
        Axis(value, tick) == [value |-> value, tick |-> IF tick = -1 THEN 0 ELSE tick]
        First(a, t, b, u) == IF t # -1 THEN Axis(a, t) ELSE IF u # -1 THEN Axis(b, u) ELSE Axis(0, 0)
        Newer(t, u) == IF t > u THEN t ELSE u
    IN  IF overriding # {}
        THEN Axis(inputs[Min(overriding)].type, h[inputs[Min(overriding)].button].tick)
        ELSE CASE type = "Neutral"  -> Axis((IF pos = -1 THEN 0 ELSE 1) - (IF neg = -1 THEN 0 ELSE 1), Newer(pos, neg))
               [] type = "Positive" -> First(1, pos, -1, neg)
               [] type = "Negative" -> First(-1, neg, 1, pos)
               [] type = "Last"     -> Axis(LastWins(pos, neu, neg), Newer(pos, Newer(neu, neg)))

-----------------------------------------------------------------------------
(* profile.cpp                                                             *)

\* An input of the boards that have its button.
Wired(input) == IF input.button \in board.available THEN <<input>> ELSE << >>

\* The thumb buttons' overrides
Thumbs(left, right) ==
    Wired(SOCDInput("button_thumb_left", left, TRUE)) \o Wired(SOCDInput("button_thumb_right", right, TRUE))

SocdX ==
    <<SOCDInput("stick_left", -1, FALSE), SOCDInput("stick_right", 1, FALSE)>>
      \o IF profile = "Default" THEN << >> ELSE Thumbs(-1, 1)

SocdY ==
    <<SOCDInput("stick_up", -1, FALSE), SOCDInput("stick_down", 1, FALSE)>>
      \o Wired(SOCDInput("button_w", -1, FALSE))
      \o CASE profile = "Default" -> << >>
           [] profile = "Dashblock" -> Thumbs(0, 0)
           [] profile = "Tigerknee" -> Thumbs(-1, -1)

StickOutput(in, h) == [x |-> SocdParse(socd.x, SocdX, in, h), y |-> SocdParse(socd.y, SocdY, in, h)]

\* The button of the board that stands for a button of the report, and
\* whether there is one.
Mapping(b) ==
    IF profile = "Default" /\ board.microdash /\ b = "button_l3" THEN "button_thumb_left"
    ELSE IF profile = "Default" /\ board.microdash /\ b = "button_r3" THEN "button_thumb_right"
    ELSE b
Mapped(b) == Mapping(b) \in board.available

\* input_get_lock_tick: the flag itself where the name promises the tick.
LockTick == 1

\* Mutant: the hold of a locked menu is not waited for.
MenuReadyAtOnce(button) == TRUE

\* While the input is locked the menu button has to be held.
MenuReady(button) == locked => now - button.tick >= MenuHold

MenuOpens(button) == MenuReady(button) /\ (locked => LockTick < button.tick)

\* The direction that is fed to the menu: the stick's, on the tick of its press.
MenuDirection(stick) ==
    IF stick.x.value # 0 /\ stick.x.tick = now THEN IF stick.x.value = -1 THEN "left" ELSE "right"
    ELSE IF stick.y.value # 0 /\ stick.y.tick = now THEN IF stick.y.value = -1 THEN "up" ELSE "down"
    ELSE "none"

\* What entering an item of the menu may do here: nothing, or set one option.
\* (The menu's own state and the USB delay do not concern the report, and
\* "Firmware update" leaves this firmware for the bootloader.)
MenuRight(m) ==
    \/ mode' = m /\ UNCHANGED options
    \/ "lock" \in board.changed /\ locked' = ~locked /\ mode' = m /\ UNCHANGED <<socd, profile>>
    \/ "mode" \in board.changed /\ mode' \in ToSet(Modes) /\ UNCHANGED options
    \/ "profile" \in board.changed /\ profile' \in Profiles /\ mode' = m /\ UNCHANGED <<locked, socd>>
    \/ \E a \in {"x", "y"} \cap board.changed, t \in SOCDTypes :
         socd' = [socd EXCEPT ![a] = t] /\ mode' = m /\ UNCHANGED <<locked, profile>>

\* stick_state_from_x_y
StickState(x, y) ==
    [v \in (-1 .. 1) \X (-1 .. 1) |->
        CASE v = <<0, -1>> -> "North" [] v = <<1, -1>> -> "NorthEast" [] v = <<1, 0>> -> "East"
          [] v = <<1, 1>> -> "SouthEast" [] v = <<0, 1>> -> "South" [] v = <<-1, 1>> -> "SouthWest"
          [] v = <<-1, 0>> -> "West" [] v = <<-1, -1>> -> "NorthWest" [] OTHER -> "Neutral"][<<x, y>>]

\* stick_scale
StickScale(sign) == IF sign < 0 THEN 0 ELSE IF sign = 0 THEN 128 ELSE 255

\* Mutant: the locked buttons are not masked.
VisibleAlways(pressed) == pressed

\* The lock hides start, select and home.
Visible(pressed) == pressed \ (IF locked THEN Masked ELSE {})

\* The rest of input_profile_parse: the report.
Report(in, stick, m) ==
    LET scaled == <<StickScale(stick.x.value), StickScale(stick.y.value)>>
    IN  [dpad |-> IF m = "mode_dpad" THEN StickState(stick.x.value, stick.y.value) ELSE "Neutral",
         left |-> IF m = "mode_ls" THEN scaled ELSE <<128, 128>>,
         right |-> IF m = "mode_rs" THEN scaled ELSE <<128, 128>>,
         buttons |-> Visible({b \in HostButtons : Mapped(b) /\ in[Mapping(b)]})]

\* input_profile_parse_menu returns false: the report goes out as it is.
ReportOnly(in, stick, m) ==
    /\ out' = Report(in, stick, m) /\ mode' = m
    /\ call' = "none" /\ UNCHANGED options

\* Mutant: the report goes out although the menu takes the input.
MenuTakesLeaks(in, stick, m) ==
    /\ out' = Report(in, stick, m) /\ call' = MenuDirection(stick)
    /\ mode' = m /\ UNCHANGED options

\* ... true: the menu takes the input and the report stays neutral.
MenuTakes(in, stick, m) ==
    /\ out' = Neutral /\ call' = MenuDirection(stick)
    /\ IF call' = "right" THEN MenuRight(m) ELSE mode' = m /\ UNCHANGED options

\* Mutant: menu_close is not called.
MenuReleasedOnly == menu_opened' = FALSE /\ UNCHANGED menu

\* The menu button is up: whatever it opened is closed.
MenuReleased == menu_opened' = FALSE /\ menu' = (menu /\ ~menu_opened)

\* input_profile_parse, with the menu button first.
ProfileParse(in, h, m) ==
    LET stick == StickOutput(in, h)
        button == h["button_menu"]
    IN  IF ~(board.display /\ "button_menu" \in board.available)
        THEN ReportOnly(in, stick, m) /\ UNCHANGED <<menu_opened, menu>>
        ELSE IF ~button.state
        THEN ReportOnly(in, stick, m) /\ MenuReleased
        ELSE IF ~MenuReady(button)
        THEN ReportOnly(in, stick, m) /\ UNCHANGED <<menu_opened, menu>>
        ELSE /\ MenuTakes(in, stick, m)
             /\ menu_opened' = (menu_opened \/ MenuOpens(button))
             /\ menu' = (menu \/ (MenuOpens(button) /\ ~menu_opened))

-----------------------------------------------------------------------------

Negative == {"stick_left", "stick_up", "button_w"}
Positive == {"stick_right", "stick_down"}
Directions == Negative \cup Positive

\* The order of presses after a sample: who was pressed on this tick comes
\* after who was pressed before it, positive directions after negative ones.
OrderAfter(h) ==
    {p \in Directions \X Directions :
        /\ h[p[1]].state /\ h[p[2]].state
        /\ \/ h[p[1]].tick < now /\ h[p[2]].tick < now /\ p \in order
           \/ h[p[1]].tick < now /\ h[p[2]].tick = now
           \/ h[p[1]].tick = now /\ h[p[2]].tick = now /\ p \in Negative \X Positive}

\* input_get_state
Poll ==
    /\ history' = Debounced
    /\ ProfileParse(Sample(Debounced), Debounced, ModeAfter(Sample(Debounced)))
    /\ order' = OrderAfter(Debounced)
    /\ UNCHANGED <<board, now, raw, steady>>

\* A button is pressed or released.
Touch ==
    /\ ~board.external
    /\ \E b \in board.touched :
        /\ raw' = [raw EXCEPT ![b] = ~@]
        /\ steady' = IF b = Watched THEN [level |-> raw'[b], since |-> now] ELSE steady
    /\ call' = "none"
    /\ UNCHANGED <<board, now, history, options, mode, menu_opened, menu, out, order>>

\* The Bluetooth input characteristic and "input modify" hand all buttons at
\* once to input_set_raw_state.
SetRawState(pressed) ==
    /\ board.external
    /\ raw' = [b \in Buttons |-> b \in pressed]
    /\ steady' = IF raw'[Watched] # raw[Watched] THEN [level |-> raw'[Watched], since |-> now] ELSE steady
    /\ call' = "none"
    /\ UNCHANGED <<board, now, history, options, mode, menu_opened, menu, out, order>>

Tick ==
    /\ now < MaxTick
    /\ now' = now + 1
    /\ call' = "none"
    /\ UNCHANGED <<board, raw, history, options, mode, menu_opened, menu, out, steady, order>>

Next == Poll \/ Touch \/ Tick \/ \E pressed \in SUBSET board.touched : SetRawState(pressed)

Spec == Init /\ [][Next]_vars
-----------------------------------------------------------------------------
(* Properties                                                              *)

ReportType == [dpad: {StickState(x, y) : x \in -1 .. 1, y \in -1 .. 1},
               left: {0, 128, 255} \X {0, 128, 255}, right: {0, 128, 255} \X {0, 128, 255},
               buttons: SUBSET HostButtons]

\* Every variable has its type.
TypeOK ==
    /\ board \in Boards /\ now \in 0 .. MaxTick
    /\ raw \in [Buttons -> BOOLEAN]
    /\ history \in [Buttons -> [state: BOOLEAN, tick: 0 .. MaxTick]]
    /\ locked \in BOOLEAN /\ mode \in ToSet(Modes)
    /\ socd \in [{"x", "y"} -> SOCDTypes] /\ profile \in Profiles
    /\ menu_opened \in BOOLEAN /\ menu \in BOOLEAN
    /\ out \in ReportType
    /\ call \in {"none", "left", "right", "up", "down"}
    /\ steady \in [level: BOOLEAN, since: 0 .. MaxTick]
    /\ order \subseteq Directions \X Directions

\* A level that has been steady for transition_time, counted in ticks as
\* input_debounce does, is reported by a poll made now: bounces before it
\* cannot postpone it any longer.
SteadyReported ==
    Watched \in board.available /\ now - steady.since >= TransitionTime
      => Debounced[Watched].state = steady.level

\* input_debounce: "Only allow transitions every 5 milliseconds.", so a poll
\* made 5 ms after a button's last transition takes its level.
FiveMilliseconds ==
    \A b \in board.available : now - history[b].tick >= DebounceTicks => Debounced[b].state = raw[b]

Held(bs) == \E b \in ToSet(bs) \cap board.available : history[b].state

\* The direction of one axis, by the order of the presses instead of ticks.
Cleaned(type, neg, pos) ==
    LET held == {b \in neg : history[b].state}
    IN  IF ~history[pos].state THEN IF held = {} THEN 0 ELSE -1
        ELSE IF held = {} THEN 1
        ELSE CASE type = "Neutral" -> 0 [] type = "Positive" -> 1 [] type = "Negative" -> -1
               [] type = "Last" -> IF \A b \in held : <<b, pos>> \in order THEN 1 ELSE -1

\* Every variable has its type; opposite directions are cleaned as the selected type says ("last wins" by
\* the order of the debounced presses, the positive one on a tie), and a
\* thumb button of the Dashblock and Tigerknee profiles overrides the stick.
StickCleaned ==
    LET stick == StickOutput(Sample(history), history)
        thumb == profile # "Default" /\ Held(<<"button_thumb_left", "button_thumb_right">>)
    IN  TypeOK /\ (~board.external =>
        /\ stick.x.value = IF thumb THEN IF Held(<<"button_thumb_left">>) THEN -1 ELSE 1
                           ELSE Cleaned(socd.x, {"stick_left"}, "stick_right")
        /\ stick.y.value = IF thumb THEN IF profile = "Dashblock" THEN 0 ELSE -1
                           ELSE Cleaned(socd.y, {"stick_up", "button_w"}, "stick_down"))

\* The menu gets an input only while it is open and its button held, for the
\* whole holding time when the input was locked, and only for a press that
\* was accepted on this very tick.
MenuInputJustified ==
    [][call' # "none" =>
        /\ menu' /\ history'["button_menu"].state
        /\ locked => now - history'["button_menu"].tick >= MenuHold
        /\ \E b \in Buttons : history'[b] = [state |-> TRUE, tick |-> now] /\ b # "button_menu"]_vars

\* The menu is open exactly when profile.cpp believes so, and only while its
\* button is held.
MenuFollowsButton == menu = menu_opened /\ (menu => history["button_menu"].state)

\* Nothing reaches the host while the menu is open and the input not locked.
MenuConsumes == menu /\ ~locked => out = Neutral

\* No report made before or after the lock shows a masked button while the
\* input is locked.
LockedMasked == locked => out.buttons \cap Masked = {}

\* Kconfig: PASSINGLINK_INPUT_EXTERNAL enables input from an external source,
\* so a button set there is in the report a poll would make now.
ExternalReported ==
    LET in == Sample(Debounced)
    IN  board.external => \A b \in HostButtons : raw[b] => b \in Report(in, StickOutput(in, Debounced), mode).buttons
=============================================================================
