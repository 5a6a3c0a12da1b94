---------------------------- MODULE InputProofs ----------------------------
(***************************************************************************)
(* Proofs about the input pipeline, for every board, every debouncing and  *)
(* holding time and no bound on the clock but MaxTick.                     *)
(***************************************************************************)
EXTENDS Input, WellFoundedInduction, TLAPS

-----------------------------------------------------------------------------
(* The menu button                                                         *)

\* The menu invariants need each other: with the static of profile.cpp equal
\* to the menu's own flag a release closes the menu, and a board without a
\* menu button never opens it.
MenuInv ==
    /\ menu \in BOOLEAN /\ menu_opened \in BOOLEAN /\ locked \in BOOLEAN
    /\ MenuFollowsButton
    /\ MenuConsumes
    /\ LockedMasked
    /\ ~(board.display /\ "button_menu" \in board.available) => ~menu

\* At boot there is no menu and the report is neutral.
LEMMA InitMenuInv == Init => MenuInv
  BY DEF Init, MenuInv, MenuFollowsButton, MenuConsumes, LockedMasked, Neutral

\* A report made while the input is locked shows no masked button.
LEMMA ReportMasked ==
    ASSUME NEW in, NEW stick, NEW m, locked
    PROVE  Report(in, stick, m).buttons \cap Masked = {}
  BY DEF Report, Visible

\* input_profile_parse keeps the menu invariants, whatever it is given.
LEMMA ParseMenuInv ==
    ASSUME MenuInv, NEW in, NEW h, NEW m,
           ProfileParse(in, h, m), history' = h, UNCHANGED board
    PROVE  MenuInv'
  <1> DEFINE stick == StickOutput(in, h)
             button == h["button_menu"]
  <1>. USE DEF MenuInv
  <1>1. ASSUME ReportOnly(in, stick, m)
        PROVE  locked' = locked /\ LockedMasked'
    BY <1>1, ReportMasked DEF ReportOnly, options, LockedMasked
  <1>2. ASSUME MenuTakes(in, stick, m)
        PROVE  out' = Neutral /\ locked' \in BOOLEAN /\ LockedMasked'
    <2>1. out' = Neutral
      BY <1>2 DEF MenuTakes
    <2>2. locked' \in BOOLEAN
      BY <1>2 DEF MenuTakes, MenuRight, options
    <2>3. QED
      BY <2>1, <2>2 DEF LockedMasked, Neutral
  <1>3. CASE ~(board.display /\ "button_menu" \in board.available)
    <2>1. ReportOnly(in, stick, m) /\ UNCHANGED <<menu_opened, menu>>
      BY <1>3 DEF ProfileParse
    <2>2. QED
      BY <1>1, <1>3, <2>1 DEF MenuFollowsButton, MenuConsumes
  <1>4. CASE board.display /\ "button_menu" \in board.available /\ ~button.state
    <2>1. ReportOnly(in, stick, m) /\ MenuReleased
      BY <1>4 DEF ProfileParse
    <2>2. QED
      BY <1>1, <1>4, <2>1 DEF MenuReleased, MenuFollowsButton, MenuConsumes
  <1>5. CASE board.display /\ "button_menu" \in board.available /\ button.state /\ ~MenuReady(button)
    <2>1. ReportOnly(in, stick, m) /\ UNCHANGED <<menu_opened, menu>>
      BY <1>5 DEF ProfileParse
    <2>2. locked
      BY <1>5 DEF MenuReady
    <2>3. QED
      BY <1>1, <1>5, <2>1, <2>2 DEF MenuFollowsButton, MenuConsumes
  <1>6. CASE board.display /\ "button_menu" \in board.available /\ button.state /\ MenuReady(button)
    <2>1. /\ MenuTakes(in, stick, m)
          /\ menu_opened' = (menu_opened \/ MenuOpens(button))
          /\ menu' = (menu \/ (MenuOpens(button) /\ ~menu_opened))
      BY <1>6 DEF ProfileParse
    <2>2. menu' = menu_opened' /\ menu' \in BOOLEAN
      BY <2>1 DEF MenuFollowsButton
    <2>3. QED
      BY <1>2, <1>6, <2>1, <2>2 DEF MenuFollowsButton, MenuConsumes
  <1>7. QED
    BY <1>3, <1>4, <1>5, <1>6

\* Every step keeps the menu invariants; only a poll touches the menu.
LEMMA NextMenuInv == MenuInv /\ [Next]_vars => MenuInv'
  <1> SUFFICES ASSUME MenuInv, [Next]_vars PROVE MenuInv'
    OBVIOUS
  <1>1. CASE Poll
    <2>1. /\ ProfileParse(Sample(Debounced), Debounced, ModeAfter(Sample(Debounced)))
          /\ history' = Debounced /\ UNCHANGED board
      BY <1>1 DEF Poll
    <2>2. QED
      BY <2>1, ParseMenuInv
  <1>2. CASE Touch \/ Tick \/ UNCHANGED vars \/ \E pressed \in SUBSET board.touched : SetRawState(pressed)
    <2>1. UNCHANGED <<board, history, locked, menu_opened, menu, out>>
      BY <1>2 DEF Touch, Tick, SetRawState, vars, options
    <2>2. QED
      BY <2>1 DEF MenuInv, MenuFollowsButton, MenuConsumes, LockedMasked
  <1>3. QED
    BY <1>1, <1>2 DEF Next

\* The menu of menu.cpp is open exactly when profile.cpp believes so, and only
\* while its button is held.
THEOREM MenuFollowsSafe == Spec => []MenuFollowsButton
  <1>1. MenuInv => MenuFollowsButton
    BY DEF MenuInv
  <1>2. QED
    BY InitMenuInv, NextMenuInv, <1>1, PTL DEF Spec

\* Nothing reaches the host while the menu is open and the input not locked.
THEOREM MenuConsumesSafe == Spec => []MenuConsumes
  <1>1. MenuInv => MenuConsumes
    BY DEF MenuInv
  <1>2. QED
    BY InitMenuInv, NextMenuInv, <1>1, PTL DEF Spec

\* While the input is locked no report shows start, select or home.
THEOREM LockedSafe == Spec => []LockedMasked
  <1>1. MenuInv => LockedMasked
    BY DEF MenuInv
  <1>2. QED
    BY InitMenuInv, NextMenuInv, <1>1, PTL DEF Spec

-----------------------------------------------------------------------------
(* Debouncing                                                              *)

\* transition_time is a positive number of cycles on every board.
LEMMA TransitionTyped ==
  ASSUME board \in Boards
  PROVE  TransitionTime \in Nat /\ TransitionTime >= 1
<1>1. PICK c \in Nat \ {0} : c = board.cycles
  BY BoardAssumption DEF BoardType
<1>2. PICK d \in Nat \ {0} : d = DebounceTicks
  BY TimeAssumption
<1>3. d * c \in Nat /\ d * c >= 1
  BY SMT
<1> QED
  BY <1>1, <1>2, <1>3 DEF TransitionTime

\* While the accepted state differs from the level, it was entered before the
\* level last changed: that is what bounds the wait.
SteadyInv ==
    /\ board \in Boards
    /\ now \in Nat
    /\ raw \in [Buttons -> BOOLEAN]
    /\ history \in [Buttons -> [state: BOOLEAN, tick: Nat]]
    /\ steady \in [level: BOOLEAN, since: Nat]
    /\ steady.level = raw[Watched]
    /\ steady.since <= now
    /\ history[Watched].tick <= now
    /\ history[Watched].state # steady.level => history[Watched].tick <= steady.since \/ Watched \notin board.available

\* At boot every level is low and has been so all along.
LEMMA InitSteadyInv == Init => SteadyInv
  <1> SUFFICES ASSUME Init PROVE SteadyInv
    OBVIOUS
  <1>1. now = 0 /\ raw = [b \in Buttons |-> FALSE] /\ steady = [level |-> FALSE, since |-> 0]
    BY DEF Init
  <1>2. history = [b \in Buttons |-> [state |-> FALSE, tick |-> 0]]
    BY DEF Init
  <1>3. raw[Watched] = FALSE /\ history[Watched] = [state |-> FALSE, tick |-> 0]
    BY <1>1, <1>2, WatchedAssumption
  <1>4. raw \in [Buttons -> BOOLEAN]
    BY <1>1
  <1>5. history \in [Buttons -> [state: BOOLEAN, tick: Nat]]
    BY <1>2
  <1>6. steady \in [level: BOOLEAN, since: Nat] /\ steady.level = raw[Watched]
    BY <1>1, <1>3
  <1>7. history[Watched].state = steady.level
    BY <1>1, <1>3
  <1>8. steady.since <= now /\ history[Watched].tick <= now
    BY <1>1, <1>3
  <1>9. board \in Boards
    BY DEF Init
  <1>10. QED
    BY <1>1, <1>4, <1>5, <1>6, <1>7, <1>8, <1>9 DEF SteadyInv

\* The debounced history has the type of the history.
LEMMA DebouncedType ==
    ASSUME SteadyInv
    PROVE  /\ Debounced \in [Buttons -> [state: BOOLEAN, tick: Nat]]
           /\ Debounced[Watched] = IF Watched \in board.available THEN Debounce(history[Watched], raw[Watched]) ELSE history[Watched]
  BY WatchedAssumption DEF SteadyInv, Debounced, Debounce

\* Every step keeps it: a level that changes restarts the wait, and a
\* transition that is accepted ends it.
LEMMA NextSteadyInv == SteadyInv /\ [Next]_vars => SteadyInv'
  <1> SUFFICES ASSUME SteadyInv, [Next]_vars PROVE SteadyInv'
    OBVIOUS
  <1>. USE WatchedAssumption
  <1>1. CASE Poll
    <2>1. history' = Debounced /\ UNCHANGED <<board, now, raw, steady>>
      BY <1>1 DEF Poll
    <2>2. QED
      BY <2>1, DebouncedType DEF SteadyInv, Debounce
  <1>2. CASE Touch
    <2>1. PICK b \in board.touched :
            /\ raw' = [raw EXCEPT ![b] = ~@]
            /\ steady' = IF b = Watched THEN [level |-> raw'[b], since |-> now] ELSE steady
      BY <1>2 DEF Touch
    <2>2. UNCHANGED <<board, now, history>>
      BY <1>2 DEF Touch
    <2>3. raw' \in [Buttons -> BOOLEAN] /\ (b # Watched => raw'[Watched] = raw[Watched])
      BY <2>1 DEF SteadyInv
    <2>4. CASE b = Watched
      BY <2>1, <2>2, <2>3, <2>4 DEF SteadyInv
    <2>5. CASE b # Watched
      BY <2>1, <2>2, <2>3, <2>5 DEF SteadyInv
    <2>6. QED
      BY <2>4, <2>5
  <1>3. CASE Tick
    BY <1>3 DEF Tick, SteadyInv
  <1>4. CASE \E pressed \in SUBSET board.touched : SetRawState(pressed)
    <2>1. PICK pressed : SetRawState(pressed)
      BY <1>4
    <2>2. /\ raw' = [b \in Buttons |-> b \in pressed]
          /\ steady' = IF raw'[Watched] # raw[Watched] THEN [level |-> raw'[Watched], since |-> now] ELSE steady
          /\ UNCHANGED <<board, now, history>>
      BY <2>1 DEF SetRawState
    <2>3. raw' \in [Buttons -> BOOLEAN] /\ raw'[Watched] \in BOOLEAN
      BY <2>2
    <2>4. CASE raw'[Watched] = raw[Watched]
      BY <2>2, <2>3, <2>4 DEF SteadyInv
    <2>5. CASE raw'[Watched] # raw[Watched]
      BY <2>2, <2>3, <2>5 DEF SteadyInv
    <2>6. QED
      BY <2>4, <2>5
  <1>5. CASE UNCHANGED vars
    BY <1>5 DEF vars, SteadyInv
  <1>6. QED
    BY <1>1, <1>2, <1>3, <1>4, <1>5 DEF Next

\* On every board, whatever its clocks, a level that has been steady for
\* transition_time is reported by the next poll (input_debounce).
THEOREM SteadySafe == Spec => []SteadyReported
  <1>1. SteadyInv => SteadyReported
    <2> SUFFICES ASSUME SteadyInv, Watched \in board.available,
                        now - steady.since >= TransitionTime
                 PROVE  Debounced[Watched].state = steady.level
      BY DEF SteadyReported
    <2>1. TransitionTime \in Nat
      BY TransitionTyped DEF SteadyInv
    <2>2. Debounced[Watched] = Debounce(history[Watched], raw[Watched])
      BY DebouncedType
    <2>3. CASE history[Watched].state = steady.level
      BY <2>2, <2>3, WatchedAssumption DEF SteadyInv, Debounce
    <2>4. CASE history[Watched].state # steady.level
      <3>1. now - history[Watched].tick >= TransitionTime
        BY <2>1, <2>4, WatchedAssumption DEF SteadyInv
      <3>2. QED
        BY <2>2, <2>4, <3>1, WatchedAssumption DEF SteadyInv, Debounce
    <2>5. QED
      BY <2>3, <2>4
  <1>2. QED
    BY InitSteadyInv, NextSteadyInv, <1>1, PTL DEF Spec

-----------------------------------------------------------------------------
(* Opposite directions                                                     *)

SocdInputs == [button : Buttons \ {"button_menu"}, type : -1 .. 1, overrides : BOOLEAN]

\* Inputs without and with an override
Plain(b, t) == SOCDInput(b, t, FALSE)
Thumb(b, t) == SOCDInput(b, t, TRUE)

Overridden == {"button_thumb_left", "button_thumb_right"}

\* Every board has a stick; not every one has a button for up.
OnAxis(b) == b \in board.available \/ b # "button_w"

\* The inputs of an axis: one or two negative ones, a positive one, and after
\* them the thumb buttons, if there are any and the profile uses them.
AxisInputs(s, neg, pos, left, right) ==
    /\ s \in Seq(SocdInputs)
    /\ \A i \in 1 .. Len(s) :
        \/ \E b \in neg : OnAxis(b) /\ s[i] = Plain(b, -1)
        \/ s[i] = Plain(pos, 1)
        \/ /\ profile # "Default"
           /\ \/ "button_thumb_left" \in board.available /\ s[i] = Thumb("button_thumb_left", left)
              \/ "button_thumb_right" \in board.available /\ s[i] = Thumb("button_thumb_right", right)
    /\ \A b \in neg : OnAxis(b) => \E i \in 1 .. Len(s) : s[i] = Plain(b, -1)
    /\ \E i \in 1 .. Len(s) : s[i] = Plain(pos, 1)
    /\ profile # "Default" /\ "button_thumb_right" \in board.available
         => \E i \in 1 .. Len(s) : s[i] = Thumb("button_thumb_right", right)
    /\ profile # "Default" /\ "button_thumb_left" \in board.available
         => \E i \in 1 .. Len(s) :
              /\ s[i] = Thumb("button_thumb_left", left)
              /\ \A j \in 1 .. Len(s) : s[j] = Thumb("button_thumb_right", right) => i < j

\* The inputs are of their type.
LEMMA InputType ==
  ASSUME NEW b \in Buttons \ {"button_menu"}, NEW t \in -1 .. 1
  PROVE  /\ Plain(b, t) \in SocdInputs /\ Plain(b, t).button = b /\ Plain(b, t).type = t /\ ~Plain(b, t).overrides
         /\ Thumb(b, t) \in SocdInputs /\ Thumb(b, t).button = b /\ Thumb(b, t).type = t /\ Thumb(b, t).overrides
BY DEF Plain, Thumb, SOCDInput, SocdInputs

\* Buttons by name
LEMMA ButtonNames ==
  /\ Sticks \subseteq Buttons \ {"button_menu"} /\ Overridden \subseteq Buttons \ {"button_menu"}
  /\ "button_w" \in Buttons \ {"button_menu"} /\ "button_menu" \in Buttons
  /\ Directions \subseteq Buttons \ {"button_menu"} /\ ToSet(Modes) = {"mode_ls", "mode_rs", "mode_dpad"}
BY DEF Buttons, Sticks, Overridden, Directions, Negative, Positive, ToSet, Modes

\* A list of one input or of none.
LEMMA WiredIs ==
  ASSUME NEW p \in SocdInputs
  PROVE  /\ Wired(p) \in Seq(SocdInputs)
         /\ p.button \in board.available => Len(Wired(p)) = 1 /\ Wired(p)[1] = p
         /\ p.button \notin board.available => Len(Wired(p)) = 0
BY DEF Wired

\* The overrides of the thumb buttons, the left one first.
LEMMA ThumbsAre ==
  ASSUME NEW left \in -1 .. 1, NEW right \in -1 .. 1
  PROVE  LET s == Thumbs(left, right)
             l == Thumb("button_thumb_left", left)
             r == Thumb("button_thumb_right", right)
         IN  /\ s \in Seq(SocdInputs)
             /\ \A i \in 1 .. Len(s) :
                  \/ "button_thumb_left" \in board.available /\ s[i] = l
                  \/ "button_thumb_right" \in board.available /\ s[i] = r
             /\ "button_thumb_right" \in board.available => \E i \in 1 .. Len(s) : s[i] = r
             /\ "button_thumb_left" \in board.available => Len(s) >= 1 /\ s[1] = l
<1>1. PICK l : l = Thumb("button_thumb_left", left)
  OBVIOUS
<1>2. PICK r : r = Thumb("button_thumb_right", right)
  OBVIOUS
<1>3. l \in SocdInputs /\ r \in SocdInputs /\ l.button = "button_thumb_left" /\ r.button = "button_thumb_right"
  BY <1>1, <1>2, ButtonNames, InputType DEF Overridden
<1>4. PICK a : a = Wired(l)
  OBVIOUS
<1>5. PICK b : b = Wired(r)
  OBVIOUS
<1>6. /\ a \in Seq(SocdInputs) /\ b \in Seq(SocdInputs)
      /\ "button_thumb_left" \in board.available => Len(a) = 1 /\ a[1] = l
      /\ "button_thumb_left" \notin board.available => Len(a) = 0
      /\ "button_thumb_right" \in board.available => Len(b) = 1 /\ b[1] = r
      /\ "button_thumb_right" \notin board.available => Len(b) = 0
  BY <1>3, <1>4, <1>5, WiredIs
<1>7. PICK s : s = a \o b
  OBVIOUS
<1>8. s = Thumbs(left, right)
  BY <1>1, <1>2, <1>4, <1>5, <1>7 DEF Thumbs, Thumb
<1>9. /\ s \in Seq(SocdInputs) /\ Len(s) = Len(a) + Len(b)
      /\ \A i \in 1 .. Len(s) : s[i] = IF i <= Len(a) THEN a[i] ELSE b[i - Len(a)]
  BY <1>6, <1>7
<1>10. \A i \in 1 .. Len(s) :
         \/ "button_thumb_left" \in board.available /\ s[i] = l
         \/ "button_thumb_right" \in board.available /\ s[i] = r
  BY <1>6, <1>9
<1>11. "button_thumb_right" \in board.available => \E i \in 1 .. Len(s) : s[i] = r
  <2> SUFFICES ASSUME "button_thumb_right" \in board.available PROVE Len(s) \in 1 .. Len(s) /\ s[Len(s)] = r
    OBVIOUS
  <2> QED
    BY <1>6, <1>9
<1>12. "button_thumb_left" \in board.available => Len(s) >= 1 /\ s[1] = l
  BY <1>6, <1>9
<1> QED
  BY <1>1, <1>2, <1>8, <1>9, <1>10, <1>11, <1>12

\* Two lists, one after the other.
LEMMA Concatenated ==
  ASSUME NEW s \in Seq(SocdInputs), NEW t \in Seq(SocdInputs), NEW u, u = s \o t, NEW n, n = Len(s)
  PROVE  /\ u \in Seq(SocdInputs) /\ Len(u) = n + Len(t) /\ Len(t) \in Nat
         /\ \A i \in 1 .. n : u[i] = s[i]
         /\ \A i \in 1 .. Len(t) : u[n + i] = t[i]
OBVIOUS

\* The thumb buttons come after the buttons of the stick.
LEMMA Joined ==
  ASSUME NEW base \in Seq(SocdInputs), NEW neg, NEW pos, NEW left \in -1 .. 1, NEW right \in -1 .. 1,
         \A i \in 1 .. Len(base) :
            \/ \E b \in neg : OnAxis(b) /\ base[i] = Plain(b, -1)
            \/ base[i] = Plain(pos, 1),
         \A b \in neg : OnAxis(b)
            => \E i \in 1 .. Len(base) : base[i] = Plain(b, -1),
         \E i \in 1 .. Len(base) : base[i] = Plain(pos, 1)
  PROVE  AxisInputs(base \o (IF profile = "Default" THEN << >> ELSE Thumbs(left, right)), neg, pos, left, right)
<1>1. PICK t : t = IF profile = "Default" THEN << >> ELSE Thumbs(left, right)
  OBVIOUS
<1>2. PICK l : l = Thumb("button_thumb_left", left)
  OBVIOUS
<1>3. PICK r : r = Thumb("button_thumb_right", right)
  OBVIOUS
<1>4. /\ t \in Seq(SocdInputs)
      /\ \A i \in 1 .. Len(t) :
           /\ profile # "Default"
           /\ \/ "button_thumb_left" \in board.available /\ t[i] = l
              \/ "button_thumb_right" \in board.available /\ t[i] = r
      /\ profile # "Default" /\ "button_thumb_right" \in board.available => \E i \in 1 .. Len(t) : t[i] = r
      /\ profile # "Default" /\ "button_thumb_left" \in board.available => Len(t) >= 1 /\ t[1] = l
  <2>1. CASE profile = "Default"
    BY <1>1, <2>1
  <2>2. CASE profile # "Default"
    BY <1>1, <1>2, <1>3, <2>2, ThumbsAre
  <2> QED
    BY <2>1, <2>2
<1>5. PICK s : s = base \o t
  OBVIOUS
<1>6. PICK N \in Nat : N = Len(base)
  OBVIOUS
<1>7. /\ s \in Seq(SocdInputs) /\ Len(s) = N + Len(t) /\ Len(t) \in Nat
      /\ \A i \in 1 .. N : s[i] = base[i]
      /\ \A i \in 1 .. Len(t) : s[N + i] = t[i]
  BY <1>4, <1>5, <1>6, Concatenated
<1>8. \A i \in 1 .. Len(s) : i \in 1 .. N \/ (i - N \in 1 .. Len(t) /\ s[i] = t[i - N])
  BY <1>7
<1>9. l # r /\ \A b : Plain(b, -1) # r /\ Plain(b, 1) # r
  BY <1>2, <1>3 DEF SOCDInput, Plain, Thumb
<1>10. \A i \in 1 .. Len(s) :
        \/ \E b \in neg : OnAxis(b) /\ s[i] = Plain(b, -1)
        \/ s[i] = Plain(pos, 1)
        \/ /\ profile # "Default"
           /\ \/ "button_thumb_left" \in board.available /\ s[i] = l
              \/ "button_thumb_right" \in board.available /\ s[i] = r
  <2> TAKE i \in 1 .. Len(s)
  <2>1. CASE i \in 1 .. N
    BY <1>6, <1>7, <2>1
  <2>2. CASE i - N \in 1 .. Len(t) /\ s[i] = t[i - N]
    BY <1>4, <2>2, Zenon
  <2> QED
    BY <1>8, <2>1, <2>2
<1>11. \A b \in neg : OnAxis(b) => \E i \in 1 .. Len(s) : s[i] = Plain(b, -1)
  BY <1>6, <1>7
<1>12. \E i \in 1 .. Len(s) : s[i] = Plain(pos, 1)
  BY <1>6, <1>7
<1>13. profile # "Default" /\ "button_thumb_right" \in board.available => \E i \in 1 .. Len(s) : s[i] = r
  <2> SUFFICES ASSUME profile # "Default", "button_thumb_right" \in board.available PROVE \E i \in 1 .. Len(s) : s[i] = r
    OBVIOUS
  <2>1. PICK i \in 1 .. Len(t) : t[i] = r
    BY <1>4
  <2>2. N + i \in 1 .. Len(s) /\ s[N + i] = r
    BY <1>7, <2>1
  <2> QED
    BY <2>2
<1>14. profile # "Default" /\ "button_thumb_left" \in board.available
         => \E i \in 1 .. Len(s) : s[i] = l /\ \A j \in 1 .. Len(s) : s[j] = r => i < j
  <2> SUFFICES ASSUME profile # "Default", "button_thumb_left" \in board.available
               PROVE  \E i \in 1 .. Len(s) : s[i] = l /\ \A j \in 1 .. Len(s) : s[j] = r => i < j
    OBVIOUS
  <2>1. N + 1 \in 1 .. Len(s) /\ s[N + 1] = l
    BY <1>4, <1>7
  <2>2. ASSUME NEW j \in 1 .. Len(s), s[j] = r PROVE N + 1 < j
    <3>1. j # N + 1
      BY <1>9, <2>1, <2>2
    <3>2. j \notin 1 .. N
      <4> SUFFICES ASSUME j \in 1 .. N PROVE FALSE
        OBVIOUS
      <4>1. base[j] = r
        BY <1>7, <2>2
      <4> QED
        BY <1>6, <1>9, <4>1
    <3> QED
      BY <3>1, <3>2
  <2> QED
    BY <2>1, <2>2
<1>15. AxisInputs(s, neg, pos, left, right)
  BY <1>2, <1>3, <1>7, <1>10, <1>11, <1>12, <1>13, <1>14, Zenon DEF AxisInputs
<1> QED
  BY <1>1, <1>5, <1>15

\* The two axes
LEMMA AxisX == AxisInputs(SocdX, {"stick_left"}, "stick_right", -1, 1)
<1>1. PICK base : base = <<Plain("stick_left", -1), Plain("stick_right", 1)>>
  OBVIOUS
<1>2. Plain("stick_left", -1) \in SocdInputs /\ Plain("stick_right", 1) \in SocdInputs
  BY ButtonNames, InputType DEF Sticks
<1>3. /\ base \in Seq(SocdInputs) /\ Len(base) = 2
      /\ base[1] = Plain("stick_left", -1) /\ base[2] = Plain("stick_right", 1)
  BY <1>1, <1>2
<1>4. AxisInputs(base \o (IF profile = "Default" THEN << >> ELSE Thumbs(-1, 1)), {"stick_left"}, "stick_right", -1, 1)
  BY <1>3, Joined DEF OnAxis
<1> QED
  BY <1>1, <1>4 DEF SocdX, Plain

\* The vertical axis has a second button for up where the board has one, and
\* thumb buttons that are neutral or up.
LEMMA AxisY ==
  ASSUME profile \in Profiles
  PROVE  LET t == IF profile = "Dashblock" THEN 0 ELSE -1
         IN  AxisInputs(SocdY, {"stick_up", "button_w"}, "stick_down", t, t)
<1>1. PICK t \in -1 .. 1 : t = IF profile = "Dashblock" THEN 0 ELSE -1
  OBVIOUS
<1>2. PICK a : a = <<Plain("stick_up", -1), Plain("stick_down", 1)>>
  OBVIOUS
<1>3. PICK w : w = Plain("button_w", -1)
  OBVIOUS
<1>4. Plain("stick_up", -1) \in SocdInputs /\ Plain("stick_down", 1) \in SocdInputs
  BY ButtonNames, InputType DEF Sticks
<1>5. /\ a \in Seq(SocdInputs) /\ Len(a) = 2
      /\ a[1] = Plain("stick_up", -1) /\ a[2] = Plain("stick_down", 1)
  BY <1>2, <1>4
<1>6. w \in SocdInputs /\ w.button = "button_w"
  BY <1>3, ButtonNames, InputType
<1>7. PICK b : b = Wired(w)
  OBVIOUS
<1>8. /\ b \in Seq(SocdInputs)
      /\ "button_w" \in board.available => Len(b) = 1 /\ b[1] = w
      /\ "button_w" \notin board.available => Len(b) = 0
  BY <1>6, <1>7, WiredIs
<1>9. PICK base : base = a \o b
  OBVIOUS
<1>10. /\ base \in Seq(SocdInputs) /\ base[1] = a[1] /\ base[2] = a[2]
       /\ Len(base) = IF "button_w" \in board.available THEN 3 ELSE 2
       /\ "button_w" \in board.available => base[3] = w
  <2>1. PICK n \in Nat : n = Len(a) /\ n = 2
    BY <1>5
  <2>2. /\ base \in Seq(SocdInputs) /\ Len(base) = n + Len(b) /\ Len(b) \in Nat
        /\ \A i \in 1 .. n : base[i] = a[i]
        /\ \A i \in 1 .. Len(b) : base[n + i] = b[i]
    <3>1. a \in Seq(SocdInputs)
      BY <1>5
    <3>2. b \in Seq(SocdInputs)
      BY <1>8
    <3>3. n = Len(a)
      BY <2>1
    <3> QED
      BY <1>9, <3>1, <3>2, <3>3, Concatenated
  <2>3. "button_w" \in board.available => base[n + 1] = w
    BY <1>8, <2>2
  <2>4. base[1] = a[1] /\ base[2] = a[2] /\ n + 1 = 3
    BY <2>1, <2>2
  <2> QED
    BY <1>8, <2>1, <2>2, <2>3, <2>4
<1>11. AxisInputs(base \o (IF profile = "Default" THEN << >> ELSE Thumbs(t, t)), {"stick_up", "button_w"}, "stick_down", t, t)
  <2>1. \A i \in 1 .. Len(base) :
          \/ \E n \in {"stick_up", "button_w"} : OnAxis(n) /\ base[i] = Plain(n, -1)
          \/ base[i] = Plain("stick_down", 1)
    BY <1>3, <1>5, <1>10 DEF OnAxis
  <2>2. \A n \in {"stick_up", "button_w"} : OnAxis(n)
          => \E i \in 1 .. Len(base) : base[i] = Plain(n, -1)
    BY <1>3, <1>5, <1>10 DEF OnAxis
  <2>3. \E i \in 1 .. Len(base) : base[i] = Plain("stick_down", 1)
    BY <1>5, <1>10
  <2> QED
    BY <1>10, <2>1, <2>2, <2>3, Joined
<1>12. SocdY = base \o (IF profile = "Default" THEN << >> ELSE Thumbs(t, t))
  <2>1. /\ profile = "Default" => SocdY = a \o b \o << >>
        /\ profile = "Dashblock" => SocdY = a \o b \o Thumbs(0, 0)
        /\ profile = "Tigerknee" => SocdY = a \o b \o Thumbs(-1, -1)
    BY <1>2, <1>3, <1>7 DEF SocdY, Plain
  <2>2. profile \in {"Default", "Dashblock", "Tigerknee"}
    BY DEF Profiles
  <2> QED
    BY <1>1, <1>9, <2>1, <2>2
<1> QED
  BY <1>1, <1>11, <1>12

\* The greatest and the least element of a set of numbers.
LEMMA MaxIs ==
  ASSUME NEW S \in SUBSET Nat, NEW x \in S, \A y \in S : y <= x
  PROVE  Max(S) = x
<1>1. \A y \in S : x >= y
  OBVIOUS
<1>2. \A z \in S : (\A y \in S : z >= y) => z = x
  OBVIOUS
<1> QED
  BY <1>1, <1>2 DEF Max

\* ... and the least.
LEMMA MinIs ==
  ASSUME NEW S \in SUBSET Nat, NEW x \in S, \A y \in S : x <= y
  PROVE  Min(S) = x
<1>1. \A z \in S : (\A y \in S : z <= y) => z = x
  OBVIOUS
<1> QED
  BY <1>1 DEF Min

\* The pressed inputs
Pressed(s, in) == {p \in ToSet(s) : in[p.button]}

\* The first pressed override decides.
LEMMA ParseOverride ==
  ASSUME NEW type, NEW s \in Seq(SocdInputs), NEW in, NEW h, NEW k \in 1 .. Len(s),
         in[s[k].button], s[k].overrides,
         \A i \in 1 .. Len(s) : in[s[i].button] /\ s[i].overrides => k <= i
  PROVE  /\ SocdParse(type, s, in, h).value = s[k].type
         /\ SocdParse(type, s, in, h).tick \in {0, h[s[k].button].tick}
<1>1. PICK over : over = {i \in 1 .. Len(s) : s[i] \in Pressed(s, in) /\ s[i].overrides}
  OBVIOUS
<1>2. \A i \in 1 .. Len(s) : s[i] \in Pressed(s, in) <=> in[s[i].button]
  BY DEF Pressed, ToSet
<1>3. over \in SUBSET Nat /\ k \in over /\ \A i \in over : k <= i
  BY <1>1, <1>2
<1>4. Min(over) = k
  BY <1>3, MinIs
<1>5. SocdParse(type, s, in, h) = [value |-> s[k].type, tick |-> IF h[s[k].button].tick = -1 THEN 0 ELSE h[s[k].button].tick]
  BY <1>1, <1>3, <1>4 DEF SocdParse, Pressed
<1> QED
  BY <1>5

\* An axis has up to two buttons on its negative side.
Opposite(neg, pos) ==
    /\ \E n1, n2 : neg = {n1, n2}
    /\ neg \subseteq Buttons \ {"button_menu"} /\ pos \in Buttons \ {"button_menu"}

Ticked(h) == \A b \in Buttons : h[b].tick \in Nat

\* Some override is pressed.
Overriding(s, in) == \E i \in 1 .. Len(s) : in[s[i].button] /\ s[i].overrides

\* The newest tick of the neutral, the positive and the negative inputs
AxisNewest(s, neg, pos, in, h) ==
    /\ NewestTick(Pressed(s, in), 0, h) = -1
    /\ NewestTick(Pressed(s, in), 1, h) = IF in[pos] THEN h[pos].tick ELSE -1
    /\ \/ NewestTick(Pressed(s, in), -1, h) = -1 /\ \A b \in neg : OnAxis(b) => ~in[b]
       \/ \E b \in neg :
            /\ OnAxis(b) /\ in[b] /\ NewestTick(Pressed(s, in), -1, h) = h[b].tick
            /\ \A c \in neg : OnAxis(c) /\ in[c] => h[c].tick <= h[b].tick

\* What the newest ticks make of an axis
Settled(axis, type, pos, neu, neg) ==
    /\ type = "Neutral" => axis.value = (IF pos = -1 THEN 0 ELSE 1) - (IF neg = -1 THEN 0 ELSE 1)
    /\ type = "Positive" => axis.value = IF pos # -1 THEN 1 ELSE IF neg # -1 THEN -1 ELSE 0
    /\ type = "Negative" => axis.value = IF neg # -1 THEN -1 ELSE IF pos # -1 THEN 1 ELSE 0
    /\ type = "Last" => axis.value = LastWins(pos, neu, neg)
    /\ axis.tick \in {0, pos, neu, neg}

\* What a thumb button makes of it, the left one first
ByThumb(axis, left, right, in, h) ==
    \E b \in Overridden :
        /\ profile # "Default" /\ b \in board.available /\ in[b]
        /\ axis.value = IF b = "button_thumb_left" THEN left ELSE right
        /\ axis.tick \in {0, h[b].tick}
        /\ b = "button_thumb_right" => ~ ("button_thumb_left" \in board.available /\ in["button_thumb_left"])

\* Without a pressed override the newest ticks decide.
LEMMA ParseTicks ==
  ASSUME NEW type \in SOCDTypes, NEW s, NEW in, NEW h, ~Overriding(s, in),
         NEW pos \in Int, NEW neu \in Int, NEW neg \in Int,
         pos = NewestTick(Pressed(s, in), 1, h), neu = NewestTick(Pressed(s, in), 0, h), neg = NewestTick(Pressed(s, in), -1, h)
  PROVE  Settled(SocdParse(type, s, in, h), type, pos, neu, neg)
<1>1. {i \in 1 .. Len(s) : s[i] \in Pressed(s, in) /\ s[i].overrides} = {}
  BY DEF Pressed, Overriding
<1>2. SocdParse(type, s, in, h) =
        LET Axis(value, tick) == [value |-> value, tick |-> IF tick = -1 THEN 0 ELSE tick]
            First(a, t, b, u) == IF t # -1 THEN Axis(a, t) ELSE IF u # -1 THEN Axis(b, u) ELSE Axis(0, 0)
            Newer(t, u) == IF t > u THEN t ELSE u
        IN  CASE type = "Neutral"  -> Axis((IF pos = -1 THEN 0 ELSE 1) - (IF neg = -1 THEN 0 ELSE 1), Newer(pos, neg))
              [] type = "Positive" -> First(1, pos, -1, neg)
              [] type = "Negative" -> First(-1, neg, 1, pos)
              [] type = "Last"     -> Axis(LastWins(pos, neu, neg), Newer(pos, Newer(neu, neg)))
  BY <1>1 DEF SocdParse, Pressed
<1>3. CASE type = "Neutral"
  BY <1>2, <1>3 DEF Settled
<1>4. CASE type = "Positive"
  BY <1>2, <1>4 DEF Settled
<1>5. CASE type = "Negative"
  BY <1>2, <1>5 DEF Settled
<1>6. CASE type = "Last"
  BY <1>2, <1>6 DEF Settled
<1> QED
  BY <1>3, <1>4, <1>5, <1>6 DEF SOCDTypes

\* The newest of the pressed inputs of a type has the newest tick.
IsNewest(p, P, type, h) ==
    /\ p \in P /\ p.type = type
    /\ \A q \in P : q.type = type => h[q.button].tick \in Nat /\ h[q.button].tick <= h[p.button].tick

\* The newest tick is that of the newest input.
LEMMA NewestIs ==
  ASSUME NEW P, NEW type, NEW h, NEW p, IsNewest(p, P, type, h)
  PROVE  NewestTick(P, type, h) = h[p.button].tick
<1>1. PICK ticks : ticks = {h[q.button].tick : q \in {q \in P : q.type = type}}
  OBVIOUS
<1>2. ticks \in SUBSET Nat /\ h[p.button].tick \in ticks /\ \A y \in ticks : y <= h[p.button].tick
  BY <1>1 DEF IsNewest
<1>3. Max(ticks) = h[p.button].tick
  BY <1>2, MaxIs
<1> QED
  BY <1>1, <1>2, <1>3 DEF NewestTick

\* ... and there is none without an input of the type.
LEMMA NewestNone ==
  ASSUME NEW P, NEW type, NEW h, \A q \in P : q.type # type
  PROVE  NewestTick(P, type, h) = -1
BY DEF NewestTick

\* Without a pressed thumb button: the newest ticks of an axis.
LEMMA AxisTicks ==
  ASSUME NEW s, NEW neg, NEW pos, NEW left, NEW right, NEW in, NEW h,
         AxisInputs(s, neg, pos, left, right), Opposite(neg, pos), Ticked(h), ~Overriding(s, in)
  PROVE  AxisNewest(s, neg, pos, in, h)
<1>a. PICK n1, n2 : neg = {n1, n2}
  BY DEF Opposite
<1>b. /\ neg \subseteq Buttons \ {"button_menu"} /\ pos \in Buttons \ {"button_menu"}
      /\ \A b \in Buttons : h[b].tick \in Nat
  BY DEF Opposite, Ticked
<1>c. \A i \in 1 .. Len(s) : in[s[i].button] => ~s[i].overrides
  BY DEF Overriding
<1>1. PICK P : P = Pressed(s, in)
  OBVIOUS
<1>2. /\ \A b \in neg : Plain(b, -1).button = b /\ Plain(b, -1).type = -1
      /\ Plain(pos, 1).button = pos /\ Plain(pos, 1).type = 1
  BY <1>b, InputType
<1>3. \A t : Thumb("button_thumb_left", t).overrides /\ Thumb("button_thumb_right", t).overrides
  BY DEF Thumb, SOCDInput
<1>4. \A p \in P : \E i \in 1 .. Len(s) : p = s[i] /\ in[s[i].button]
  BY <1>1 DEF Pressed, ToSet, AxisInputs
<1>5. \A p \in P : p = Plain(pos, 1) \/ \E b \in neg : OnAxis(b) /\ p = Plain(b, -1)
  BY <1>3, <1>4, <1>c DEF AxisInputs
<1>6. \A i \in 1 .. Len(s) : in[s[i].button] => s[i] \in P
  BY <1>1 DEF Pressed, ToSet, AxisInputs
<1>7. Plain(pos, 1) \in P <=> in[pos]
  BY <1>2, <1>4, <1>6 DEF AxisInputs
<1>8. \A b \in neg : OnAxis(b) => (Plain(b, -1) \in P <=> in[b])
  BY <1>2, <1>4, <1>6 DEF AxisInputs
<1>9. NewestTick(P, 0, h) = -1
  <2>1. \A p \in P : p.type # 0
    BY <1>2, <1>5
  <2> QED
    BY <2>1, NewestNone
<1>10. NewestTick(P, 1, h) = IF in[pos] THEN h[pos].tick ELSE -1
  <2>1. \A p \in P : p.type = 1 => p = Plain(pos, 1)
    BY <1>2, <1>5
  <2>2. CASE in[pos]
    <3>1. Plain(pos, 1) \in P /\ h[pos].tick \in Nat
      BY <1>7, <1>b, <2>2
    <3>2. PICK p \in P : p = Plain(pos, 1)
      BY <3>1
    <3>3. p.type = 1 /\ p.button = pos
      BY <1>2, <3>2
    <3>4. IsNewest(p, P, 1, h)
      BY <2>1, <3>1, <3>2, <3>3 DEF IsNewest
    <3>5. NewestTick(P, 1, h) = h[p.button].tick
      BY <3>4, NewestIs
    <3> QED
      BY <2>2, <3>3, <3>5
  <2>3. CASE ~in[pos]
    <3>1. \A p \in P : p.type # 1
      BY <1>7, <2>1, <2>3
    <3> QED
      BY <2>3, <3>1, NewestNone
  <2> QED
    BY <2>2, <2>3
<1>11. \A p \in P : p.type = -1 => \E b \in neg : OnAxis(b) /\ in[b] /\ p = Plain(b, -1)
  BY <1>2, <1>5, <1>8
<1>12. CASE \A b \in neg : OnAxis(b) => ~in[b]
  <2>1. \A p \in P : p.type # -1
    BY <1>11, <1>12
  <2>2. NewestTick(P, -1, h) = -1
    BY <2>1, NewestNone
  <2> QED
    BY <1>1, <1>9, <1>10, <1>12, <2>2 DEF AxisNewest
<1>13. CASE \E b \in neg : OnAxis(b) /\ in[b]
  <2>1. PICK b \in neg : OnAxis(b) /\ in[b] /\ \A c \in neg : OnAxis(c) /\ in[c] => h[c].tick <= h[b].tick
    <3>1. h[n1].tick \in Nat /\ h[n2].tick \in Nat
      BY <1>a, <1>b
    <3>2. CASE OnAxis(n1) /\ in[n1] /\ (OnAxis(n2) /\ in[n2] => h[n2].tick <= h[n1].tick)
      BY <1>a, <3>1, <3>2
    <3>3. CASE OnAxis(n2) /\ in[n2] /\ (OnAxis(n1) /\ in[n1] => h[n1].tick <= h[n2].tick)
      BY <1>a, <3>1, <3>3
    <3> QED
      BY <1>13, <1>a, <3>1, <3>2, <3>3
  <2>2. PICK p \in P : p = Plain(b, -1)
    BY <1>8, <2>1
  <2>3. p.type = -1 /\ p.button = b
    BY <1>2, <2>2
  <2>4. IsNewest(p, P, -1, h)
    BY <1>2, <1>11, <1>b, <2>1, <2>2, <2>3 DEF IsNewest
  <2>5. NewestTick(P, -1, h) = h[p.button].tick
    BY <2>4, NewestIs
  <2> QED
    BY <1>1, <1>9, <1>10, <2>1, <2>3, <2>5 DEF AxisNewest
<1> QED
  BY <1>12, <1>13

\* A set of numbers that is not empty has a least one.
LEMMA LeastExists ==
  ASSUME NEW S \in SUBSET Nat, S # {}
  PROVE  \E x \in S : \A y \in S : x <= y
<1>1. PICK x \in S : \A y \in S : ~ (<<y, x>> \in OpToRel(<, Nat))
  BY WFMin, NatLessThanWellFounded, Zenon
<1>2. \A y \in S : y < x => <<y, x>> \in OpToRel(<, Nat)
  BY DEF OpToRel
<1>3. \A y \in S : ~ (y < x) /\ y \in Nat /\ x \in Nat
  BY <1>1, <1>2, Zenon
<1> QED
  BY <1>3

\* With a pressed override: a thumb button decides, the left one if both are
\* pressed.
LEMMA AxisOverride ==
  ASSUME NEW type, NEW s, NEW neg, NEW pos, NEW left, NEW right, NEW in, NEW h,
         AxisInputs(s, neg, pos, left, right), Overriding(s, in)
  PROVE  ByThumb(SocdParse(type, s, in, h), left, right, in, h)
<1>1. PICK over : over = {i \in 1 .. Len(s) : in[s[i].button] /\ s[i].overrides}
  OBVIOUS
<1>2. over \in SUBSET Nat /\ over # {}
  BY <1>1 DEF Overriding
<1>3. PICK k \in over : \A i \in over : k <= i
  BY <1>2, LeastExists
<1>4. k \in 1 .. Len(s) /\ in[s[k].button] /\ s[k].overrides
  BY <1>1
<1>5. \A i \in 1 .. Len(s) : in[s[i].button] /\ s[i].overrides => k <= i
  BY <1>1, <1>3
<1>6. s \in Seq(SocdInputs)
  BY DEF AxisInputs
<1>7. /\ SocdParse(type, s, in, h).value = s[k].type
      /\ SocdParse(type, s, in, h).tick \in {0, h[s[k].button].tick}
  BY <1>4, <1>5, <1>6, ParseOverride
<1>8. \A b, t : ~Plain(b, t).overrides
  BY DEF Plain, SOCDInput
<1>9. \A b, t : Thumb(b, t).overrides /\ Thumb(b, t).button = b /\ Thumb(b, t).type = t
  BY DEF Thumb, SOCDInput
<1>10. /\ profile # "Default"
       /\ \/ "button_thumb_left" \in board.available /\ s[k] = Thumb("button_thumb_left", left)
          \/ "button_thumb_right" \in board.available /\ s[k] = Thumb("button_thumb_right", right)
  BY <1>4, <1>8 DEF AxisInputs
<1>11. CASE "button_thumb_left" \in board.available /\ s[k] = Thumb("button_thumb_left", left)
  <2>1. /\ s[k].button = "button_thumb_left" /\ s[k].type = left
        /\ "button_thumb_left" \in Overridden
    BY <1>9, <1>11 DEF Overridden
  <2> QED
    BY <1>4, <1>7, <1>10, <1>11, <2>1 DEF ByThumb
<1>12. CASE "button_thumb_right" \in board.available /\ s[k] = Thumb("button_thumb_right", right)
  <2>1. /\ s[k].button = "button_thumb_right" /\ s[k].type = right
        /\ "button_thumb_right" \in Overridden
    BY <1>9, <1>12 DEF Overridden
  <2>2. ASSUME "button_thumb_left" \in board.available, in["button_thumb_left"] PROVE FALSE
    <3>1. PICK i \in 1 .. Len(s) :
            /\ s[i] = Thumb("button_thumb_left", left)
            /\ \A j \in 1 .. Len(s) : s[j] = Thumb("button_thumb_right", right) => i < j
      BY <1>10, <2>2 DEF AxisInputs
    <3>2. i < k /\ k <= i
      BY <1>4, <1>5, <1>9, <1>12, <2>2, <3>1
    <3> QED
      BY <3>2, <1>2
  <2> QED
    BY <1>4, <1>7, <1>10, <1>12, <2>1, <2>2 DEF ByThumb
<1> QED
  BY <1>10, <1>11, <1>12

\* What an axis yields: a sign, and a tick that is that of a pressed button or
\* that of no press.
Sound(axis, in, h) ==
    /\ axis.value \in -1 .. 1
    /\ axis.tick \in {0, -1} \/ \E b \in Buttons \ {"button_menu"} : in[b] /\ axis.tick = h[b].tick

\* Whatever is pressed, input_socd_parse yields such a sign and such a tick.
LEMMA AxisParsed ==
  ASSUME NEW type \in SOCDTypes, NEW s, NEW neg, NEW pos, NEW left \in -1 .. 1, NEW right \in -1 .. 1, NEW in, NEW h,
         AxisInputs(s, neg, pos, left, right), Opposite(neg, pos), Ticked(h)
  PROVE  Sound(SocdParse(type, s, in, h), in, h)
<1>1. PICK axis : axis = SocdParse(type, s, in, h)
  OBVIOUS
<1>2. CASE Overriding(s, in)
  <2>1. ByThumb(axis, left, right, in, h)
    BY <1>1, <1>2, AxisOverride
  <2> QED
    BY <1>1, <2>1, ButtonNames DEF ByThumb, Sound
<1>3. CASE ~Overriding(s, in)
  <2>1. PICK x : x = NewestTick(Pressed(s, in), 1, h)
    OBVIOUS
  <2>2. PICK y : y = NewestTick(Pressed(s, in), 0, h)
    OBVIOUS
  <2>3. PICK z : z = NewestTick(Pressed(s, in), -1, h)
    OBVIOUS
  <2>4. AxisNewest(s, neg, pos, in, h)
    BY <1>3, AxisTicks
  <2>5. /\ y = -1 /\ x = IF in[pos] THEN h[pos].tick ELSE -1
        /\ \/ z = -1
           \/ \E b \in neg : in[b] /\ z = h[b].tick
    BY <2>1, <2>2, <2>3, <2>4 DEF AxisNewest
  <2>6. x \in Int /\ y \in Int /\ z \in Int
    BY <2>5 DEF Opposite, Ticked
  <2>7. Settled(axis, type, x, y, z)
    BY <1>1, <1>3, <2>1, <2>2, <2>3, <2>6, ParseTicks
  <2>8. axis.value \in -1 .. 1
    BY <2>6, <2>7 DEF SOCDTypes, LastWins, Settled
  <2>9. axis.tick \in {0, -1} \/ \E b \in Buttons \ {"button_menu"} : in[b] /\ axis.tick = h[b].tick
    BY <2>5, <2>7 DEF Settled, Opposite
  <2> QED
    BY <1>1, <2>8, <2>9 DEF Sound
<1> QED
  BY <1>2, <1>3

\* The two axes have their directions.
LEMMA AxisDirections == Opposite({"stick_left"}, "stick_right") /\ Opposite({"stick_up", "button_w"}, "stick_down")
<1>1. {"stick_left"} = {"stick_left", "stick_left"}
  OBVIOUS
<1> QED
  BY <1>1, ButtonNames DEF Opposite, Sticks

\* The stick: two signs, and ticks of presses.
LEMMA StickParsed ==
  ASSUME socd \in [{"x", "y"} -> SOCDTypes], profile \in Profiles, NEW in, NEW h, Ticked(h)
  PROVE  Sound(StickOutput(in, h).x, in, h) /\ Sound(StickOutput(in, h).y, in, h)
<1>1. socd.x \in SOCDTypes /\ socd.y \in SOCDTypes
  OBVIOUS
<1>2. Sound(SocdParse(socd.x, SocdX, in, h), in, h)
  BY <1>1, AxisX, AxisDirections, AxisParsed
<1>3. PICK t \in -1 .. 1 : AxisInputs(SocdY, {"stick_up", "button_w"}, "stick_down", t, t)
  BY AxisY
<1>4. Sound(SocdParse(socd.y, SocdY, in, h), in, h)
  BY <1>1, <1>3, AxisDirections, AxisParsed
<1> QED
  BY <1>2, <1>4 DEF StickOutput

-----------------------------------------------------------------------------
(* Types, presses and their order                                          *)

HasMenu == board.display /\ "button_menu" \in board.available

\* A button that is held was pressed at some time, and none that the board
\* has not got is held.
PressInv ==
    /\ \A b \in Buttons : history[b].tick <= now /\ (history[b].state => history[b].tick >= 1)
    /\ \A b \in Buttons \ board.available : ~history[b].state /\ history[b].tick = 0 /\ (~board.external => ~raw[b])

\* The order of the presses is that of the accepted ticks.
OrderInv == \A a \in Negative, b \in Positive :
    <<a, b>> \in order <=> history[a].state /\ history[b].state /\ history[a].tick <= history[b].tick

\* The tick that input_get_lock_tick should return is not missed: whoever has
\* locked the input has pressed the menu button, and the first press that a
\* board can see has opened the menu.
LockInv ==
    /\ locked => history["button_menu"].tick >= 1
    /\ HasMenu /\ history["button_menu"].state /\ history["button_menu"].tick <= 1 => menu_opened

PipeInv == TypeOK /\ PressInv /\ OrderInv /\ LockInv

\* On a board with its own buttons the sample is the debounced state.
LEMMA SampleIs ==
  ASSUME PipeInv, ~board.external, NEW b \in Buttons
  PROVE  Sample(history)[b] = history[b].state
<1>1. raw[b] \in BOOLEAN /\ history[b].state \in BOOLEAN
  BY DEF PipeInv, TypeOK
<1>2. b \notin board.available => ~raw[b] /\ ~history[b].state
  BY DEF PipeInv, PressInv
<1>3. Sample(history)[b] = IF b \in board.available THEN history[b].state ELSE raw[b]
  BY DEF Sample
<1> QED
  BY <1>1, <1>2, <1>3, Zenon

\* A thumb button that the profile uses is held.
ThumbHeld == profile # "Default" /\ \E b \in Overridden \cap board.available : history[b].state

\* Held, for the thumb buttons
LEMMA HeldThumbs ==
  /\ Held(<<"button_thumb_left", "button_thumb_right">>) <=> \E b \in Overridden \cap board.available : history[b].state
  /\ Held(<<"button_thumb_left">>) <=> "button_thumb_left" \in board.available /\ history["button_thumb_left"].state
<1>1. ToSet(<<"button_thumb_left", "button_thumb_right">>) = Overridden /\ ToSet(<<"button_thumb_left">>) = {"button_thumb_left"}
  BY DEF ToSet, Overridden
<1> QED
  BY <1>1 DEF Held

\* An override is pressed exactly when a thumb button that counts is held.
LEMMA OverridingIs ==
  ASSUME PipeInv, ~board.external, NEW s, NEW neg, NEW pos, NEW left, NEW right, AxisInputs(s, neg, pos, left, right)
  PROVE  Overriding(s, Sample(history)) <=> ThumbHeld
<1>1. \A b \in Overridden : Sample(history)[b] = history[b].state
  BY SampleIs, ButtonNames
<1>2. \A b, t : ~Plain(b, t).overrides
  BY DEF Plain, SOCDInput
<1>3. \A b, t : Thumb(b, t).overrides /\ Thumb(b, t).button = b
  BY DEF Thumb, SOCDInput
<1>4. ASSUME Overriding(s, Sample(history)) PROVE ThumbHeld
  <2>1. PICK i \in 1 .. Len(s) : Sample(history)[s[i].button] /\ s[i].overrides
    BY <1>4 DEF Overriding
  <2>2. PICK b \in Overridden : profile # "Default" /\ b \in board.available /\ \E t : s[i] = Thumb(b, t)
    BY <1>2, <2>1 DEF AxisInputs, Overridden
  <2> QED
    BY <1>1, <1>3, <2>1, <2>2 DEF ThumbHeld
<1>5. ASSUME ThumbHeld PROVE Overriding(s, Sample(history))
  <2>1. PICK b \in Overridden \cap board.available : history[b].state /\ profile # "Default"
    BY <1>5 DEF ThumbHeld
  <2>2. PICK i \in 1 .. Len(s) : \E t : s[i] = Thumb(b, t)
    BY <2>1 DEF AxisInputs, Overridden
  <2>3. Sample(history)[s[i].button] /\ s[i].overrides
    BY <1>1, <1>3, <2>1, <2>2
  <2> QED
    BY <2>3 DEF Overriding
<1> QED
  BY <1>4, <1>5

\* An axis is cleaned as its type says; a thumb button overrides it.
LEMMA AxisCleaned ==
  ASSUME PipeInv, ~board.external, NEW type \in SOCDTypes,
         NEW s, NEW neg \in SUBSET Negative, NEW pos \in Positive, NEW left \in -1 .. 1, NEW right \in -1 .. 1,
         AxisInputs(s, neg, pos, left, right), Opposite(neg, pos)
  PROVE  SocdParse(type, s, Sample(history), history).value =
           IF ThumbHeld THEN IF Held(<<"button_thumb_left">>) THEN left ELSE right
           ELSE Cleaned(type, neg, pos)
<1>1. PICK in : in = Sample(history)
  OBVIOUS
<1>2. PICK axis : axis = SocdParse(type, s, in, history)
  OBVIOUS
<1>3. \A b \in Buttons : in[b] = history[b].state
  BY <1>1, SampleIs
<1>4. Ticked(history)
  BY DEF PipeInv, TypeOK, Ticked
<1>5. ASSUME ThumbHeld
      PROVE  axis.value = IF Held(<<"button_thumb_left">>) THEN left ELSE right
  <2>1. Overriding(s, in)
    BY <1>1, <1>5, OverridingIs
  <2>2. ByThumb(axis, left, right, in, history)
    BY <1>2, <2>1, AxisOverride
  <2>3. Held(<<"button_thumb_left">>) <=> "button_thumb_left" \in board.available /\ in["button_thumb_left"]
    BY <1>3, HeldThumbs, ButtonNames DEF Overridden
  <2> QED
    BY <2>2, <2>3 DEF ByThumb, Overridden
<1>6. ASSUME ~ThumbHeld PROVE axis.value = Cleaned(type, neg, pos)
  <2>1. ~Overriding(s, in)
    BY <1>1, <1>6, OverridingIs
  <2>2. PICK x : x = NewestTick(Pressed(s, in), 1, history)
    OBVIOUS
  <2>3. PICK y : y = NewestTick(Pressed(s, in), 0, history)
    OBVIOUS
  <2>4. PICK z : z = NewestTick(Pressed(s, in), -1, history)
    OBVIOUS
  <2>5. AxisNewest(s, neg, pos, in, history)
    BY <1>4, <2>1, AxisTicks
  <2>6. pos \in Buttons /\ neg \subseteq Buttons
    BY DEF Opposite
  <2>7. y = -1 /\ x = IF history[pos].state THEN history[pos].tick ELSE -1
    BY <1>3, <2>2, <2>3, <2>5, <2>6 DEF AxisNewest
  <2>8. \A b \in neg : history[b].state => OnAxis(b)
    BY <2>6 DEF PipeInv, PressInv, OnAxis
  <2>9. \/ z = -1 /\ \A b \in neg : ~history[b].state
        \/ \E b \in neg :
             /\ history[b].state /\ z = history[b].tick
             /\ \A c \in neg : history[c].state => history[c].tick <= history[b].tick
    BY <1>3, <2>4, <2>5, <2>6, <2>8 DEF AxisNewest
  <2>10. \A b \in Buttons : history[b].tick \in Nat
    BY <1>4 DEF Ticked
  <2>11. x \in Int /\ y \in Int /\ z \in Int
    BY <2>6, <2>7, <2>9, <2>10
  <2>12. Settled(axis, type, x, y, z)
    BY <1>2, <2>1, <2>2, <2>3, <2>4, <2>11, ParseTicks
  <2>13. (x # -1 <=> history[pos].state) /\ (z # -1 <=> \E b \in neg : history[b].state)
    BY <2>6, <2>7, <2>9, <2>10
  <2>14. PICK held : held = {b \in neg : history[b].state}
    OBVIOUS
  <2>15. x # -1 /\ z # -1 => (x >= z <=> \A b \in held : <<b, pos>> \in order)
    <3> SUFFICES ASSUME x # -1, z # -1 PROVE x >= z <=> \A b \in held : <<b, pos>> \in order
      OBVIOUS
    <3>1. \A b \in held : <<b, pos>> \in order <=> history[b].tick <= x
      BY <2>7, <2>13, <2>14 DEF PipeInv, OrderInv
    <3>2. PICK b \in neg :
             /\ history[b].state /\ z = history[b].tick
             /\ \A c \in neg : history[c].state => history[c].tick <= history[b].tick
      BY <2>9
    <3>3. b \in held /\ \A c \in held : history[c].tick <= z /\ history[c].tick \in Nat
      BY <2>6, <2>10, <2>14, <3>2
    <3>4. x >= z <=> \A c \in held : history[c].tick <= x
      BY <2>11, <3>2, <3>3
    <3> QED
      BY <3>1, <3>4, Zenon
  <2>16. Cleaned(type, neg, pos) =
           IF ~history[pos].state THEN IF held = {} THEN 0 ELSE -1
           ELSE IF held = {} THEN 1
           ELSE CASE type = "Neutral" -> 0 [] type = "Positive" -> 1 [] type = "Negative" -> -1
                  [] type = "Last" -> IF \A b \in held : <<b, pos>> \in order THEN 1 ELSE -1
    BY <2>14 DEF Cleaned
  <2>17. held = {} <=> z = -1
    BY <2>13, <2>14
  <2>18. (x = -1 \/ x >= 0) /\ (z = -1 \/ z >= 0)
    BY <2>6, <2>7, <2>9, <2>10
  <2>19. CASE type = "Last"
    BY <2>7, <2>11, <2>12, <2>13, <2>15, <2>16, <2>17, <2>18, <2>19 DEF Settled, LastWins
  <2>20. CASE type # "Last"
    BY <2>7, <2>11, <2>12, <2>13, <2>16, <2>17, <2>18, <2>20 DEF Settled, SOCDTypes
  <2> QED
    BY <2>19, <2>20
<1> QED
  BY <1>1, <1>2, <1>5, <1>6

\* The invariant says what the property does.
LEMMA PipeCleaned == PipeInv => StickCleaned
<1> SUFFICES ASSUME PipeInv PROVE StickCleaned
  OBVIOUS
<1>1. TypeOK /\ profile \in Profiles /\ socd.x \in SOCDTypes /\ socd.y \in SOCDTypes
  BY DEF PipeInv, TypeOK
<1>2. SUFFICES ASSUME ~board.external
              PROVE  LET stick == StickOutput(Sample(history), history)
                     IN  /\ stick.x.value = IF ThumbHeld THEN IF Held(<<"button_thumb_left">>) THEN -1 ELSE 1
                                            ELSE Cleaned(socd.x, {"stick_left"}, "stick_right")
                         /\ stick.y.value = IF ThumbHeld THEN IF profile = "Dashblock" THEN 0 ELSE -1
                                            ELSE Cleaned(socd.y, {"stick_up", "button_w"}, "stick_down")
  BY <1>1, HeldThumbs DEF StickCleaned, ThumbHeld
<1>3. /\ {"stick_left"} \in SUBSET Negative /\ "stick_right" \in Positive
      /\ {"stick_up", "button_w"} \in SUBSET Negative /\ "stick_down" \in Positive
  BY DEF Negative, Positive
<1>4. SocdParse(socd.x, SocdX, Sample(history), history).value =
        IF ThumbHeld THEN IF Held(<<"button_thumb_left">>) THEN -1 ELSE 1
        ELSE Cleaned(socd.x, {"stick_left"}, "stick_right")
  BY <1>1, <1>2, <1>3, AxisX, AxisDirections, AxisCleaned
<1>5. PICK t \in -1 .. 1 : t = IF profile = "Dashblock" THEN 0 ELSE -1
  OBVIOUS
<1>6. AxisInputs(SocdY, {"stick_up", "button_w"}, "stick_down", t, t)
  BY <1>1, <1>5, AxisY
<1>7. SocdParse(socd.y, SocdY, Sample(history), history).value =
        IF ThumbHeld THEN IF Held(<<"button_thumb_left">>) THEN t ELSE t
        ELSE Cleaned(socd.y, {"stick_up", "button_w"}, "stick_down")
  BY <1>1, <1>2, <1>3, <1>6, AxisDirections, AxisCleaned
<1> QED
  BY <1>4, <1>5, <1>7 DEF StickOutput

\* An accepted transition is later than the one before it.
LEMMA DebouncedIs ==
  ASSUME PipeInv, NEW b \in Buttons
  PROVE  /\ Debounced[b] \in [state: BOOLEAN, tick: 0 .. MaxTick]
         /\ \/ Debounced[b] = history[b]
            \/ /\ Debounced[b] = [state |-> raw[b], tick |-> now] /\ raw[b] # history[b].state
               /\ b \in board.available /\ history[b].tick < now
<1>1. TransitionTime \in Nat /\ TransitionTime >= 1
  BY TransitionTyped DEF PipeInv, TypeOK
<1>2. history[b] \in [state: BOOLEAN, tick: 0 .. MaxTick] /\ now \in 0 .. MaxTick /\ raw[b] \in BOOLEAN /\ MaxTick \in Nat
  BY TimeAssumption DEF PipeInv, TypeOK
<1>3. Debounced[b] = IF b \in board.available THEN Debounce(history[b], raw[b]) ELSE history[b]
  BY DEF Debounced
<1>4. CASE Debounced[b] = history[b]
  BY <1>2, <1>4
<1>5. CASE Debounced[b] # history[b]
  <2>1. b \in board.available /\ raw[b] # history[b].state /\ now - history[b].tick >= TransitionTime
    BY <1>3, <1>5 DEF Debounce
  <2>2. Debounced[b] = [state |-> raw[b], tick |-> now]
    BY <1>3, <1>5, <2>1 DEF Debounce
  <2>3. history[b].tick \in Nat /\ now \in Nat
    BY <1>2
  <2>4. history[b].tick < now
    BY <1>1, <2>1, <2>3
  <2> QED
    BY <1>2, <2>1, <2>2, <2>4
<1> QED
  BY <1>4, <1>5

\* The debounced history is one.
LEMMA DebouncedTyped ==
  ASSUME PipeInv
  PROVE  Debounced \in [Buttons -> [state: BOOLEAN, tick: 0 .. MaxTick]] /\ Ticked(Debounced)
<1>1. \A b \in Buttons : Debounced[b] \in [state: BOOLEAN, tick: 0 .. MaxTick]
  BY DebouncedIs
<1>2. Debounced = [b \in Buttons |-> Debounced[b]]
  BY DEF Debounced
<1> QED
  BY <1>1, <1>2 DEF Ticked

HatStates == {StickState(x, y) : x \in -1 .. 1, y \in -1 .. 1}
Scales == {0, 128, 255} \X {0, 128, 255}

\* The directions of a stick are those of a hat switch.
LEMMA StickStates ==
  ASSUME NEW x \in -1 .. 1, NEW y \in -1 .. 1
  PROVE  StickState(x, y) \in HatStates
BY DEF HatStates

\* The type of the reports
LEMMA ReportTypeIs == ReportType = [dpad: HatStates, left: Scales, right: Scales, buttons: SUBSET HostButtons]
BY DEF ReportType, HatStates, Scales

\* The neutral report is one.
LEMMA NeutralTyped == Neutral \in ReportType
<1>1. StickState(0, 0) = "Neutral"
  BY DEF StickState
<1>2. "Neutral" \in HatStates
  BY <1>1, StickStates
<1> QED
  BY <1>2, ReportTypeIs DEF Neutral, Scales

\* A report of a stick's directions is one.
LEMMA ReportTyped ==
  ASSUME NEW in, NEW stick, NEW m, stick.x.value \in -1 .. 1, stick.y.value \in -1 .. 1
  PROVE  Report(in, stick, m) \in ReportType
<1>1. "Neutral" \in HatStates
  BY NeutralTyped, ReportTypeIs DEF Neutral
<1>2. StickState(stick.x.value, stick.y.value) \in HatStates
  BY StickStates
<1>3. StickScale(stick.x.value) \in {0, 128, 255} /\ StickScale(stick.y.value) \in {0, 128, 255}
  BY DEF StickScale
<1>4. PICK bs : bs = Visible({b \in HostButtons : Mapped(b) /\ in[Mapping(b)]})
  OBVIOUS
<1>5. bs \in SUBSET HostButtons
  BY <1>4 DEF Visible
<1>6. PICK scaled : scaled = <<StickScale(stick.x.value), StickScale(stick.y.value)>>
  OBVIOUS
<1>7. scaled \in Scales /\ <<128, 128>> \in Scales
  BY <1>3, <1>6 DEF Scales
<1>8. Report(in, stick, m) =
        [dpad |-> IF m = "mode_dpad" THEN StickState(stick.x.value, stick.y.value) ELSE "Neutral",
         left |-> IF m = "mode_ls" THEN scaled ELSE <<128, 128>>,
         right |-> IF m = "mode_rs" THEN scaled ELSE <<128, 128>>,
         buttons |-> bs]
  BY <1>4, <1>6 DEF Report
<1> QED
  BY <1>1, <1>2, <1>5, <1>7, <1>8, ReportTypeIs

\* The mode the switches select is one.
LEMMA ModeTyped ==
  ASSUME mode \in ToSet(Modes), NEW in
  PROVE  ModeAfter(in) \in ToSet(Modes)
<1>1. PICK switches : switches = {i \in 1 .. Len(Modes) : Modes[i] \in board.available}
  OBVIOUS
<1>2. PICK on : on = {i \in switches : in[Modes[i]]}
  OBVIOUS
<1>3. Len(Modes) = 3 /\ \A i \in 1 .. 3 : Modes[i] \in ToSet(Modes)
  BY DEF Modes, ToSet
<1>4. on \in SUBSET Nat /\ on \subseteq 1 .. 3
  BY <1>1, <1>2, <1>3
<1>5. on # {} => Modes[Min(on)] \in ToSet(Modes)
  <2> SUFFICES ASSUME on # {} PROVE Modes[Min(on)] \in ToSet(Modes)
    OBVIOUS
  <2>1. PICK x \in on : \A y \in on : x <= y
    BY <1>4, LeastExists
  <2>2. Min(on) = x
    BY <1>4, <2>1, MinIs
  <2> QED
    BY <1>3, <1>4, <2>2
<1>6. "mode_dpad" \in ToSet(Modes)
  BY ButtonNames
<1>7. ModeAfter(in) = IF switches = {} THEN mode ELSE IF on = {} THEN "mode_dpad" ELSE Modes[Min(on)]
  BY <1>1, <1>2 DEF ModeAfter
<1> QED
  BY <1>5, <1>6, <1>7

\* It holds at first.
LEMMA InitPipeInv == Init => PipeInv
<1> SUFFICES ASSUME Init PROVE PipeInv
  OBVIOUS
<1>1. /\ board \in Boards /\ now = 0 /\ raw = [b \in Buttons |-> FALSE]
      /\ history = [b \in Buttons |-> [state |-> FALSE, tick |-> 0]]
      /\ locked = FALSE /\ mode = "mode_dpad" /\ profile = "Default"
      /\ menu_opened = FALSE /\ menu = FALSE /\ out = Neutral /\ call = "none" /\ order = {}
  BY DEF Init
<1>2. socd \in [{"x", "y"} -> SOCDTypes]
  BY DEF Init, SOCDTypes
<1>3. steady \in [level: BOOLEAN, since: 0 .. MaxTick] /\ 0 \in 0 .. MaxTick
  BY TimeAssumption DEF Init
<1>4. history \in [Buttons -> [state: BOOLEAN, tick: 0 .. MaxTick]] /\ raw \in [Buttons -> BOOLEAN]
  BY <1>1, <1>3
<1>5. TypeOK
  BY <1>1, <1>2, <1>3, <1>4, NeutralTyped, ButtonNames DEF TypeOK, Profiles
<1>6. \A b \in Buttons : ~history[b].state /\ history[b].tick = 0 /\ ~raw[b]
  BY <1>1
<1>7. PressInv
  BY <1>1, <1>6 DEF PressInv
<1>8. Negative \subseteq Buttons
  BY ButtonNames DEF Directions
<1>9. OrderInv
  BY <1>1, <1>6, <1>8 DEF OrderInv
<1>10. LockInv
  BY <1>1, <1>6, ButtonNames DEF LockInv
<1> QED
  BY <1>5, <1>7, <1>9, <1>10 DEF PipeInv

\* The two outcomes of input_profile_parse: the menu is left alone, as it has
\* to be or because it is locked, or it takes the input.
MenuLeft ==
    /\ call' = "none" /\ UNCHANGED locked
    /\ ~HasMenu \/ ~Debounced["button_menu"].state \/ (locked /\ menu_opened' = menu_opened)

MenuTaken(stick) ==
    LET button == Debounced["button_menu"]
    IN  /\ HasMenu /\ button.state /\ MenuReady(button)
        /\ call' = MenuDirection(stick)
        /\ menu_opened' = (menu_opened \/ MenuOpens(button))
        /\ menu' = (menu \/ (MenuOpens(button) /\ ~menu_opened))

\* Directions for the menu are among these.
LEMMA DirectionTyped ==
  ASSUME NEW stick
  PROVE  MenuDirection(stick) \in {"none", "left", "right", "up", "down"}
BY DEF MenuDirection

\* Each outcome yields values of the types.
LEMMA ParseOutcome ==
  ASSUME PipeInv, NEW in, NEW m \in ToSet(Modes), ProfileParse(in, Debounced, m)
  PROVE  /\ MenuLeft \/ MenuTaken(StickOutput(in, Debounced))
         /\ locked' \in BOOLEAN /\ mode' \in ToSet(Modes) /\ socd' \in [{"x", "y"} -> SOCDTypes] /\ profile' \in Profiles
         /\ menu_opened' \in BOOLEAN /\ menu' \in BOOLEAN /\ out' \in ReportType
         /\ call' \in {"none", "left", "right", "up", "down"}
<1>1. PICK stick : stick = StickOutput(in, Debounced)
  OBVIOUS
<1>2. PICK button : button = Debounced["button_menu"]
  OBVIOUS
<1>3. /\ locked \in BOOLEAN /\ mode \in ToSet(Modes) /\ socd \in [{"x", "y"} -> SOCDTypes] /\ profile \in Profiles
      /\ menu_opened \in BOOLEAN /\ menu \in BOOLEAN
  BY DEF PipeInv, TypeOK
<1>4. stick.x.value \in -1 .. 1 /\ stick.y.value \in -1 .. 1
  <2>1. Sound(stick.x, in, Debounced) /\ Sound(stick.y, in, Debounced)
    BY <1>1, <1>3, DebouncedTyped, StickParsed
  <2> QED
    BY <2>1 DEF Sound
<1>5. /\ ~HasMenu => ReportOnly(in, stick, m) /\ UNCHANGED <<menu_opened, menu>>
      /\ HasMenu /\ ~button.state => ReportOnly(in, stick, m) /\ MenuReleased
      /\ HasMenu /\ button.state /\ ~MenuReady(button) => ReportOnly(in, stick, m) /\ UNCHANGED <<menu_opened, menu>>
      /\ HasMenu /\ button.state /\ MenuReady(button) =>
           /\ MenuTakes(in, stick, m)
           /\ menu_opened' = (menu_opened \/ MenuOpens(button))
           /\ menu' = (menu \/ (MenuOpens(button) /\ ~menu_opened))
  BY <1>1, <1>2 DEF ProfileParse, HasMenu
<1>6. ASSUME ReportOnly(in, stick, m)
      PROVE  /\ locked' = locked /\ mode' = m /\ socd' = socd /\ profile' = profile
             /\ out' \in ReportType /\ call' = "none"
  <2>1. Report(in, stick, m) \in ReportType
    BY <1>4, ReportTyped
  <2> QED
    BY <1>6, <2>1 DEF ReportOnly, options
<1>7. CASE ~HasMenu
  BY <1>3, <1>5, <1>6, <1>7 DEF MenuLeft
<1>8. CASE HasMenu /\ ~button.state
  BY <1>2, <1>3, <1>5, <1>6, <1>8 DEF MenuLeft, MenuReleased
<1>9. CASE HasMenu /\ button.state /\ ~MenuReady(button)
  <2>1. locked
    BY <1>9 DEF MenuReady
  <2> QED
    BY <1>3, <1>5, <1>6, <1>9, <2>1 DEF MenuLeft
<1>10. CASE HasMenu /\ button.state /\ MenuReady(button)
  <2>1. MenuTakes(in, stick, m) /\ MenuTaken(stick) /\ menu_opened' \in BOOLEAN /\ menu' \in BOOLEAN
    <3>1. MenuTakes(in, stick, m)
      BY <1>5, <1>10
    <3>2. MenuTaken(stick)
      BY <1>2, <1>5, <1>10 DEF MenuTaken, MenuTakes
    <3>3. menu_opened' \in BOOLEAN /\ menu' \in BOOLEAN
      BY <3>2, Zenon DEF MenuTaken
    <3> QED
      BY <3>1, <3>2, <3>3
  <2>2. out' \in ReportType /\ call' \in {"none", "left", "right", "up", "down"}
    BY <2>1, NeutralTyped, DirectionTyped DEF MenuTakes
  <2>3. locked' \in BOOLEAN /\ mode' \in ToSet(Modes) /\ socd' \in [{"x", "y"} -> SOCDTypes] /\ profile' \in Profiles
    <3>1. MenuRight(m) \/ (mode' = m /\ UNCHANGED options)
      BY <2>1 DEF MenuTakes
    <3>2. CASE mode' = m /\ UNCHANGED options
      BY <1>3, <3>2 DEF options
    <3>3. CASE MenuRight(m)
      BY <1>3, <3>3 DEF MenuRight, options
    <3> QED
      BY <3>1, <3>2, <3>3
  <2> QED
    BY <1>1, <2>1, <2>2, <2>3
<1> QED
  BY <1>7, <1>8, <1>9, <1>10

\* A poll keeps the types.
LEMMA PollTyped ==
  ASSUME PipeInv, Poll
  PROVE  TypeOK'
<1>1. /\ history' = Debounced /\ order' = OrderAfter(Debounced) /\ UNCHANGED <<board, now, raw, steady>>
      /\ ProfileParse(Sample(Debounced), Debounced, ModeAfter(Sample(Debounced)))
  BY DEF Poll
<1>2. ModeAfter(Sample(Debounced)) \in ToSet(Modes)
  BY ModeTyped DEF PipeInv, TypeOK
<1>3. /\ locked' \in BOOLEAN /\ mode' \in ToSet(Modes) /\ socd' \in [{"x", "y"} -> SOCDTypes] /\ profile' \in Profiles
      /\ menu_opened' \in BOOLEAN /\ menu' \in BOOLEAN /\ out' \in ReportType
      /\ call' \in {"none", "left", "right", "up", "down"}
  BY <1>1, <1>2, ParseOutcome
<1>4. order' \subseteq Directions \X Directions
  BY <1>1 DEF OrderAfter
<1>5. history' \in [Buttons -> [state: BOOLEAN, tick: 0 .. MaxTick]]
  BY <1>1, DebouncedTyped
<1>6. /\ board' \in Boards /\ now' \in 0 .. MaxTick /\ raw' \in [Buttons -> BOOLEAN]
      /\ steady' \in [level: BOOLEAN, since: 0 .. MaxTick]
  BY <1>1 DEF PipeInv, TypeOK
<1> QED
  BY <1>3, <1>4, <1>5, <1>6 DEF TypeOK

\* ... and that held buttons were pressed.
LEMMA PollPress ==
  ASSUME PipeInv, Poll
  PROVE  PressInv'
<1>1. history' = Debounced /\ UNCHANGED <<board, now, raw>>
  BY DEF Poll
<1>2. /\ \A b \in Buttons : history[b].tick <= now /\ (history[b].state => history[b].tick >= 1)
      /\ \A b \in Buttons \ board.available : ~history[b].state /\ history[b].tick = 0 /\ (~board.external => ~raw[b])
  BY DEF PipeInv, PressInv
<1>3. now \in Nat /\ \A b \in Buttons : history[b].tick \in Nat
  BY TimeAssumption DEF PipeInv, TypeOK
<1>4. \A b \in Buttons : Debounced[b].tick <= now /\ (Debounced[b].state => Debounced[b].tick >= 1)
  <2> TAKE b \in Buttons
  <2>1. CASE Debounced[b] = history[b]
    BY <1>2, <2>1
  <2>2. CASE Debounced[b] = [state |-> raw[b], tick |-> now] /\ history[b].tick < now
    BY <1>3, <2>2
  <2> QED
    BY <2>1, <2>2, DebouncedIs
<1>5. \A b \in Buttons \ board.available : Debounced[b] = history[b]
  BY DebouncedIs
<1> QED
  BY <1>1, <1>2, <1>4, <1>5 DEF PressInv

\* ... and their order.
LEMMA PollOrder ==
  ASSUME PipeInv, Poll
  PROVE  OrderInv'
<1>1. history' = Debounced /\ order' = OrderAfter(Debounced)
  BY DEF Poll
<1>2. SUFFICES ASSUME NEW a \in Negative, NEW b \in Positive
               PROVE  <<a, b>> \in OrderAfter(Debounced)
                        <=> Debounced[a].state /\ Debounced[b].state /\ Debounced[a].tick <= Debounced[b].tick
  BY <1>1 DEF OrderInv
<1>3. a \in Buttons /\ b \in Buttons /\ <<a, b>> \in Directions \X Directions /\ <<a, b>> \in Negative \X Positive
  BY ButtonNames DEF Directions
<1>4. PICK ta \in Nat : ta = Debounced[a].tick
  BY <1>3, DebouncedTyped DEF Ticked
<1>5. PICK tb \in Nat : tb = Debounced[b].tick
  BY <1>3, DebouncedTyped DEF Ticked
<1>6. now \in Nat /\ history[a].tick <= now /\ history[b].tick <= now
  BY <1>3, TimeAssumption DEF PipeInv, TypeOK, PressInv
<1>7. \A c \in Buttons : Debounced[c] = history[c] \/ Debounced[c].tick = now
  <2> TAKE c \in Buttons
  <2>1. CASE Debounced[c] = [state |-> raw[c], tick |-> now]
    BY <2>1
  <2> QED
    BY <2>1, DebouncedIs
<1>8. /\ ta <= now /\ (ta < now => Debounced[a] = history[a])
      /\ tb <= now /\ (tb < now => Debounced[b] = history[b])
  <2>1. Debounced[a] = history[a] \/ ta = now
    BY <1>3, <1>4, <1>7
  <2>2. Debounced[b] = history[b] \/ tb = now
    BY <1>3, <1>5, <1>7
  <2> QED
    BY <1>4, <1>5, <1>6, <2>1, <2>2
<1>9. <<a, b>> \in OrderAfter(Debounced) <=>
        /\ Debounced[a].state /\ Debounced[b].state
        /\ \/ ta < now /\ tb < now /\ <<a, b>> \in order
           \/ ta < now /\ tb = now
           \/ ta = now /\ tb = now
  BY <1>3, <1>4, <1>5 DEF OrderAfter
<1>10. ta < now /\ tb < now =>
         (<<a, b>> \in order <=> Debounced[a].state /\ Debounced[b].state /\ ta <= tb)
  BY <1>4, <1>5, <1>8 DEF PipeInv, OrderInv
<1>11. CASE ta < now /\ tb < now
  BY <1>4, <1>5, <1>6, <1>9, <1>10, <1>11
<1>12. CASE ~(ta < now /\ tb < now)
  <2>1. (ta < now /\ tb = now) \/ (ta = now /\ tb = now) <=> ta <= tb
    BY <1>6, <1>8, <1>12
  <2> QED
    BY <1>4, <1>5, <1>9, <1>12, <2>1
<1> QED
  BY <1>11, <1>12

\* What a poll does to the menu, and what is known of the menu button then.
LEMMA PollMenu ==
  ASSUME PipeInv, Poll
  PROVE  /\ MenuLeft \/ MenuTaken(StickOutput(Sample(Debounced), Debounced))
         /\ history'["button_menu"] = Debounced["button_menu"] /\ board' = board /\ now' = now
<1>1. /\ history' = Debounced /\ UNCHANGED <<board, now>>
      /\ ProfileParse(Sample(Debounced), Debounced, ModeAfter(Sample(Debounced)))
  BY DEF Poll
<1>2. ModeAfter(Sample(Debounced)) \in ToSet(Modes)
  BY ModeTyped DEF PipeInv, TypeOK
<1> QED
  BY <1>1, <1>2, ParseOutcome

\* The menu opens or is open whenever it takes the input: the only press it
\* would refuse, on the first tick or before, comes before any lock.
LEMMA TakenOpen ==
  ASSUME PipeInv, NEW stick, MenuTaken(stick)
  PROVE  menu_opened'
<1>1. PICK button : button = Debounced["button_menu"]
  OBVIOUS
<1>2. menu_opened' = (menu_opened \/ MenuOpens(button)) /\ HasMenu /\ button.state /\ MenuReady(button)
  BY <1>1 DEF MenuTaken
<1>3. SUFFICES ASSUME ~MenuOpens(button) PROVE menu_opened
  BY <1>2
<1>4. locked /\ ~(1 < button.tick)
  BY <1>2, <1>3 DEF MenuOpens, LockTick
<1>5. "button_menu" \in Buttons
  BY ButtonNames
<1>6. now \in Nat /\ history["button_menu"].tick \in Nat /\ history["button_menu"].tick >= 1
  BY <1>4, <1>5, TimeAssumption DEF PipeInv, TypeOK, LockInv
<1>7. button = history["button_menu"]
  <2>1. \/ button = history["button_menu"]
        \/ button = [state |-> raw["button_menu"], tick |-> now] /\ history["button_menu"].tick < now
    BY <1>1, <1>5, DebouncedIs
  <2>2. button = [state |-> raw["button_menu"], tick |-> now] => button.tick = now
    OBVIOUS
  <2> QED
    BY <1>4, <1>6, <2>1, <2>2
<1>8. history["button_menu"].tick <= 1
  BY <1>4, <1>6, <1>7
<1> QED
  BY <1>2, <1>7, <1>8 DEF PipeInv, LockInv

\* A poll keeps the relation of the lock and the menu button.
LEMMA PollLock ==
  ASSUME PipeInv, Poll
  PROVE  LockInv'
<1>1. PICK button : button = Debounced["button_menu"]
  OBVIOUS
<1>2. PICK old : old = history["button_menu"]
  OBVIOUS
<1>3. history'["button_menu"] = button /\ board' = board
  BY <1>1, PollMenu
<1>4. "button_menu" \in Buttons
  BY ButtonNames
<1>5. now \in Nat /\ old.tick \in Nat
  BY <1>2, <1>4, TimeAssumption DEF PipeInv, TypeOK
<1>6. button = old \/ (button.tick = now /\ old.tick < now)
  <2>1. \/ button = old
        \/ button = [state |-> raw["button_menu"], tick |-> now] /\ old.tick < now
    BY <1>1, <1>2, <1>4, DebouncedIs
  <2> QED
    BY <2>1
<1>7. button.tick >= old.tick /\ button.tick \in Nat
  BY <1>5, <1>6
<1>8. button.state => button.tick >= 1
  <2>1. history'["button_menu"].state => history'["button_menu"].tick >= 1
    BY <1>4, PollPress DEF PressInv
  <2> QED
    BY <1>3, <2>1
<1>9. locked => old.tick >= 1
  BY <1>2 DEF PipeInv, LockInv
<1>10. HasMenu /\ old.state /\ old.tick <= 1 => menu_opened
  BY <1>2 DEF PipeInv, LockInv
<1>11. MenuLeft \/ MenuTaken(StickOutput(Sample(Debounced), Debounced))
  BY PollMenu
<1>12. CASE MenuLeft
  <2>1. locked' => button.tick >= 1
    BY <1>5, <1>7, <1>9, <1>12 DEF MenuLeft
  <2>2. ASSUME HasMenu, button.state, button.tick <= 1 PROVE menu_opened'
    <3>1. locked /\ menu_opened' = menu_opened
      BY <1>1, <1>12, <2>2 DEF MenuLeft
    <3>2. button = old
      <4>1. old.tick >= 1 /\ button.tick <= 1
        BY <1>9, <2>2, <3>1
      <4> QED
        BY <1>5, <1>6, <4>1
    <3> QED
      BY <1>10, <2>2, <3>1, <3>2
  <2>3. HasMenu' <=> HasMenu
    BY <1>3 DEF HasMenu
  <2> QED
    BY <1>3, <2>1, <2>2, <2>3 DEF LockInv
<1>13. CASE MenuTaken(StickOutput(Sample(Debounced), Debounced))
  <2>1. button.state
    BY <1>1, <1>13 DEF MenuTaken
  <2>2. menu_opened'
    BY <1>13, TakenOpen
  <2> QED
    BY <1>3, <1>8, <2>1, <2>2 DEF LockInv
<1> QED
  BY <1>11, <1>12, <1>13

\* The steps of the players and of the clock keep the invariant.
LEMMA OtherPipeInv ==
  ASSUME PipeInv,
         UNCHANGED <<board, history, locked, mode, socd, profile, menu_opened, menu, out, order>>,
         now' = now \/ (now' = now + 1 /\ now < MaxTick),
         raw' \in [Buttons -> BOOLEAN], steady' \in [level: BOOLEAN, since: 0 .. MaxTick],
         call' \in {"none", "left", "right", "up", "down"},
         ~board.external => \A b \in Buttons \ board.available : ~raw'[b]
  PROVE  PipeInv'
<1>1. now \in Nat /\ now' \in 0 .. MaxTick /\ now <= now'
  BY TimeAssumption DEF PipeInv, TypeOK
<1>2. TypeOK'
  BY <1>1 DEF PipeInv, TypeOK
<1>3. \A b \in Buttons : history[b].tick \in Nat
  BY TimeAssumption DEF PipeInv, TypeOK
<1>4. PressInv'
  BY <1>1, <1>3 DEF PipeInv, PressInv
<1>5. OrderInv' /\ LockInv'
  BY DEF PipeInv, OrderInv, LockInv, HasMenu
<1> QED
  BY <1>2, <1>4, <1>5 DEF PipeInv

\* Every step keeps the invariant.
LEMMA NextPipeInv == PipeInv /\ [Next]_vars => PipeInv'
<1> SUFFICES ASSUME PipeInv, [Next]_vars PROVE PipeInv'
  OBVIOUS
<1>1. /\ raw \in [Buttons -> BOOLEAN] /\ steady \in [level: BOOLEAN, since: 0 .. MaxTick]
      /\ now \in 0 .. MaxTick /\ board \in Boards /\ call \in {"none", "left", "right", "up", "down"}
  BY DEF PipeInv, TypeOK
<1>2. ~board.external => \A b \in Buttons \ board.available : ~raw[b]
  BY DEF PipeInv, PressInv
<1>3. CASE Poll
  BY <1>3, PollTyped, PollPress, PollOrder, PollLock DEF PipeInv
<1>4. CASE Touch
  <2>1. PICK b \in board.touched :
          /\ raw' = [raw EXCEPT ![b] = ~@]
          /\ steady' = IF b = Watched THEN [level |-> raw'[b], since |-> now] ELSE steady
    BY <1>4 DEF Touch
  <2>2. b \in board.available /\ b \in Buttons
    BY <1>1, <1>4, <2>1, BoardAssumption DEF Touch, BoardType
  <2>3. raw' \in [Buttons -> BOOLEAN]
    BY <1>1, <2>1
  <2>4. steady' \in [level: BOOLEAN, since: 0 .. MaxTick]
    BY <1>1, <2>1, <2>2, <2>3
  <2>5. \A c \in Buttons \ board.available : raw'[c] = raw[c]
    BY <1>1, <2>1, <2>2
  <2>6. /\ UNCHANGED <<board, history, locked, mode, socd, profile, menu_opened, menu, out, order>>
        /\ now' = now /\ call' \in {"none", "left", "right", "up", "down"}
    BY <1>4 DEF Touch, options
  <2>7. ~board.external => \A c \in Buttons \ board.available : ~raw'[c]
    BY <1>2, <2>5
  <2> QED
    BY <2>3, <2>4, <2>6, <2>7, OtherPipeInv
<1>5. CASE Tick
  <2>1. /\ UNCHANGED <<board, history, locked, mode, socd, profile, menu_opened, menu, out, order>>
        /\ now' = now + 1 /\ now < MaxTick /\ call' \in {"none", "left", "right", "up", "down"}
        /\ raw' = raw /\ steady' = steady
    BY <1>5 DEF Tick, options
  <2> QED
    BY <1>1, <1>2, <2>1, OtherPipeInv
<1>6. CASE \E pressed \in SUBSET board.touched : SetRawState(pressed)
  <2>1. PICK pressed \in SUBSET board.touched : SetRawState(pressed)
    BY <1>6
  <2>2. /\ UNCHANGED <<board, history, locked, mode, socd, profile, menu_opened, menu, out, order>>
        /\ now' = now /\ call' \in {"none", "left", "right", "up", "down"} /\ board.external
        /\ raw' = [b \in Buttons |-> b \in pressed]
        /\ steady' = IF raw'[Watched] # raw[Watched] THEN [level |-> raw'[Watched], since |-> now] ELSE steady
    BY <2>1 DEF SetRawState, options
  <2>3. raw' \in [Buttons -> BOOLEAN]
    BY <2>2
  <2>4. steady' \in [level: BOOLEAN, since: 0 .. MaxTick]
    BY <1>1, <2>2, <2>3, WatchedAssumption
  <2> QED
    BY <2>2, <2>3, <2>4, OtherPipeInv
<1>7. CASE UNCHANGED vars
  <2>1. /\ UNCHANGED <<board, history, locked, mode, socd, profile, menu_opened, menu, out, order>>
        /\ now' = now /\ call' = call /\ raw' = raw /\ steady' = steady
    BY <1>7 DEF vars, options
  <2> QED
    BY <1>1, <1>2, <2>1, OtherPipeInv
<1> QED
  BY <1>3, <1>4, <1>5, <1>6, <1>7 DEF Next

\* Opposite directions are cleaned as the selected type says, "last wins" by
\* the order of the debounced presses, and the thumb buttons of the Dashblock
\* and Tigerknee profiles override the stick; every variable has its type.
THEOREM StickSafe == Spec => []StickCleaned
  BY InitPipeInv, NextPipeInv, PipeCleaned, PTL DEF Spec

\* A tick on which the menu is fed was that of an accepted press.
LEMMA FedByPress ==
  ASSUME PipeInv, now >= 1, NEW axis, Sound(axis, Sample(Debounced), Debounced), axis.tick = now
  PROVE  \E b \in Buttons : Debounced[b] = [state |-> TRUE, tick |-> now] /\ b # "button_menu"
<1>1. now \in Nat
  BY TimeAssumption DEF PipeInv, TypeOK
<1>2. PICK b \in Buttons \ {"button_menu"} : Sample(Debounced)[b] /\ Debounced[b].tick = now
  BY <1>1 DEF Sound
<1>3. b \in board.available
  <2> SUFFICES ASSUME b \notin board.available PROVE FALSE
    OBVIOUS
  <2>1. Debounced[b] = history[b]
    BY DebouncedIs
  <2>2. history[b].tick = 0
    BY DEF PipeInv, PressInv
  <2> QED
    BY <1>1, <1>2, <2>1, <2>2
<1>4. Debounced[b].state
  BY <1>2, <1>3 DEF Sample
<1>5. Debounced[b] \in [state: BOOLEAN, tick: 0 .. MaxTick]
  BY DebouncedIs
<1>6. Debounced[b] = [state |-> TRUE, tick |-> now]
  BY <1>2, <1>4, <1>5
<1> QED
  BY <1>6

\* The menu gets an input only while it is open and its button held, for the
\* whole holding time when the input was locked, and only for a press that
\* was accepted on this very tick: how input_profile_parse feeds the menu.
THEOREM MenuInputSafe == Spec => MenuInputJustified
<1> DEFINE Justified ==
        call' # "none" =>
          /\ menu' /\ history'["button_menu"].state
          /\ locked => now - history'["button_menu"].tick >= MenuHold
          /\ \E b \in Buttons : history'[b] = [state |-> TRUE, tick |-> now] /\ b # "button_menu"
<1>1. PipeInv /\ PipeInv' /\ MenuInv' /\ [Next]_vars => [Justified]_vars
  <2> SUFFICES ASSUME PipeInv, PipeInv', MenuInv', Next, call' # "none" PROVE Justified
    OBVIOUS
  <2>1. Poll
    BY DEF Next, Touch, Tick, SetRawState
  <2>2. PICK stick : stick = StickOutput(Sample(Debounced), Debounced)
    OBVIOUS
  <2>3. history' = Debounced
    BY <2>1 DEF Poll
  <2>4. PICK button : button = Debounced["button_menu"]
    OBVIOUS
  <2>5. MenuTaken(stick)
    BY <2>1, <2>2, PollMenu DEF MenuLeft
  <2>6. button.state /\ MenuReady(button) /\ call' = MenuDirection(stick)
    BY <2>4, <2>5 DEF MenuTaken
  <2>7. menu'
    <3>1. menu_opened'
      BY <2>5, TakenOpen
    <3> QED
      BY <3>1 DEF MenuInv, MenuFollowsButton
  <2>8. locked => now - button.tick >= MenuHold
    BY <2>6 DEF MenuReady
  <2>9. now >= 1
    <3>1. now \in Nat /\ now' = now
      BY <2>1, TimeAssumption DEF PipeInv, TypeOK, Poll
    <3>2. button.tick >= 1 /\ button.tick <= now
      BY <2>3, <2>4, <2>6, <3>1, ButtonNames DEF PipeInv, PressInv
    <3>3. button.tick \in Nat
      BY <2>4, DebouncedTyped, ButtonNames DEF Ticked
    <3> QED
      BY <3>1, <3>2, <3>3
  <2>10. Sound(stick.x, Sample(Debounced), Debounced) /\ Sound(stick.y, Sample(Debounced), Debounced)
    BY <2>2, DebouncedTyped, StickParsed DEF PipeInv, TypeOK
  <2>11. stick.x.tick = now \/ stick.y.tick = now
    BY <2>6 DEF MenuDirection
  <2>12. \E b \in Buttons : Debounced[b] = [state |-> TRUE, tick |-> now] /\ b # "button_menu"
    BY <2>9, <2>10, <2>11, FedByPress
  <2> QED
    BY <2>3, <2>4, <2>6, <2>7, <2>8, <2>12
<1>2. QED
  BY <1>1, InitPipeInv, NextPipeInv, InitMenuInv, NextMenuInv, PTL DEF Spec, MenuInputJustified
=============================================================================
