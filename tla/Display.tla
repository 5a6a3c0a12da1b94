------------------------------- MODULE Display -------------------------------
(***************************************************************************)
(* The display: display/display.cpp (the status line) and the framebuffer   *)
(* and blit of display/ssd1306.cpp.                                         *)
(*                                                                         *)
(* Whoever changes what is shown draws into the one framebuffer, marks it   *)
(* dirty and submits the blit to the system work queue (the queue that      *)
(* ssd1306_init starts is not used).  The I2C transfer takes long, and the  *)
(* queue's thread sleeps in it: drawers on other cooperative threads (USB,  *)
(* main at boot) come anywhere in it and are interrupted by nobody.  Other  *)
(* items of the queue (probing) cannot come in it; here they may, which     *)
(* only adds behaviours.  The shell, which drives the menu on the dongle,   *)
(* has a lower priority: all of them interrupt its drawings.  A row is two  *)
(* halves: the panel is sent column by column, so a transfer sends the left *)
(* half of every row and then the right.                                    *)
(***************************************************************************)
EXTENDS Naturals, Sequences

CONSTANTS
    Pictures,   \* what the rows of the menu may show, the logo among them
    Logo,
    Types,      \* the Hids the status line names
    Latencies,  \* latencies the status line may show
    None,       \* no latency yet; what a panel shows that was never written
    MaxDraws    \* bound: changes of what is shown

VARIABLES
    driver,       \* who drives the menu: "buttons" or "shell"; never changes
    initialized,  \* ssd1306_init has succeeded
    status,       \* status_locked, status_probing, status_probe_type, status_latency
    menu,         \* what menu_draw drew last
    buffer,       \* the framebuffer: what each cell shows
    dirty,        \* Display::dirty_
    work,         \* ssd1306_blit_work is pending
    drawing,      \* the row the shell is drawing, the last of a menu, and what
                  \* it is to show; empty if it is not drawing
    sending,      \* the next cell of the transfer under way, 0 without one
    panel,        \* what the panel shows
    failed,       \* history: a transfer has failed
    raced,        \* history: the shell's drawing was interrupted by a blit, or
                  \* by a drawing of the same row
    draws         \* changes so far

vars == <<driver, initialized, status, menu, buffer, dirty, work, drawing, sending, panel, failed, raced, draws>>

\* The cells in the order in which they are sent.
Cells == <<[row |-> "menu", half |-> "left"], [row |-> "status", half |-> "left"],
           [row |-> "menu", half |-> "right"], [row |-> "status", half |-> "right"]>>

Places == 1 .. Len(Cells)

Line(row, s, m) == IF row = "menu" THEN [menu |-> m] ELSE s

\* What is to be seen, from the program's own state.
Seen(s, m) == [c \in Places |-> Line(Cells[c].row, s, m)]

Boot == [locked |-> FALSE, probing |-> TRUE, type |-> "NX", latency |-> None]

Init ==
    /\ driver \in {"buttons", "shell"} /\ drawing = << >> /\ raced = FALSE
    /\ initialized = FALSE
    /\ status = Boot
    /\ menu = Logo
    /\ buffer = [c \in Places |-> None]
    /\ dirty = FALSE /\ work = FALSE /\ sending = 0
    /\ panel = [c \in Places |-> None]
    /\ failed = FALSE /\ draws = 0

\* set_row and draw_logo: the row's cells in the buffer.
Drawn(row, line) == [c \in Places |-> IF Cells[c].row = row THEN line ELSE buffer[c]]

\* display_init, the panel found: logo and status are drawn and a blit submitted.
\* (The blit of ssd1306_init itself finds nothing dirty.)
DisplayInit ==
    /\ ~initialized
    /\ initialized' = TRUE
    /\ buffer' = Seen(status, menu)
    /\ dirty' = TRUE /\ work' = TRUE
    /\ UNCHANGED <<driver, status, menu, drawing, sending, panel, failed, raced, draws>>

Changes(s, m) == draws < MaxDraws /\ draws' = draws + 1 /\ status' = s /\ menu' = m

\* A drawing by a cooperative thread; without a display only the state changes.
Shows(row, s, m) ==
    /\ Changes(s, m)
    /\ IF initialized
       THEN dirty' = TRUE /\ work' = TRUE /\ buffer' = Drawn(row, Line(row, s, m))
       ELSE UNCHANGED <<dirty, work, buffer>>
    /\ raced' = (raced \/ (drawing # << >> /\ Head(drawing).row = row))
    /\ UNCHANGED <<driver, initialized, drawing, sending, panel, failed>>

\* A drawing by the shell: set_row or draw_logo marks the frame dirty,
ShellShows(row, s, m) ==
    /\ drawing = << >>
    /\ Changes(s, m)
    /\ dirty' = (dirty \/ initialized)
    /\ drawing' = IF initialized THEN <<[row |-> row, line |-> Line(row, s, m)]>> ELSE << >>
    /\ UNCHANGED <<driver, initialized, buffer, work, sending, panel, failed, raced>>

\* and then writes the row; display_blit follows.
ShellShown ==
    /\ drawing # << >>
    /\ buffer' = Drawn(Head(drawing).row, Head(drawing).line)
    /\ work' = TRUE
    /\ drawing' = << >>
    /\ UNCHANGED <<driver, initialized, status, menu, dirty, sending, panel, failed, raced, draws>>

\* A drawing by whoever drives the menu.
DriverShows(row, s, m) == IF driver = "shell" THEN ShellShows(row, s, m) ELSE Shows(row, s, m)

\* display_update_latency, from the metrics
UpdateLatency(us) == Shows("status", [status EXCEPT !.latency = us], menu)

\* Mutant: the line is left for the next drawing.
SetLockedUndrawn(locked) == DriverShows("menu", [status EXCEPT !.locked = locked], menu)

\* display_set_locked, from the menu's Lock and Unlock
SetLocked(locked) == DriverShows("status", [status EXCEPT !.locked = locked], menu)

\* display_set_connection_type, from the probing
SetConnectionType(probing, type) ==
    Shows("status", [status EXCEPT !.probing = probing, !.type = type], menu)

\* menu_draw: the rows of the menu, or the logo when it is closed
MenuDraw(m) == DriverShows("menu", status, m)

\* The blit's work item starts: Display::blit, the frame marked clean before
\* it is sent.  From here on it can be submitted again.
BlitStart ==
    /\ work /\ sending = 0
    /\ work' = FALSE
    /\ sending' = IF dirty THEN 1 ELSE 0
    /\ dirty' = FALSE
    /\ raced' = (raced \/ (dirty /\ drawing # << >>))
    /\ UNCHANGED <<driver, initialized, status, menu, buffer, drawing, panel, failed, draws>>

\* Mutant: the frame is marked clean when it has been sent.
BlitSendCleans ==
    /\ sending # 0
    /\ panel' = [panel EXCEPT ![sending] = buffer[sending]]
    /\ sending' = IF sending = Len(Cells) THEN 0 ELSE sending + 1
    /\ dirty' = (dirty /\ sending # Len(Cells))
    /\ UNCHANGED <<driver, initialized, status, menu, buffer, work, drawing, failed, raced, draws>>

\* ssd1306_data sends the next cell.
BlitSend ==
    /\ sending # 0
    /\ panel' = [panel EXCEPT ![sending] = buffer[sending]]
    /\ sending' = IF sending = Len(Cells) THEN 0 ELSE sending + 1
    /\ UNCHANGED <<driver, initialized, status, menu, buffer, dirty, work, drawing, failed, raced, draws>>

\* The transfer fails; nobody looks at the result.
BlitFails ==
    /\ sending # 0
    /\ sending' = 0
    /\ failed' = TRUE
    /\ UNCHANGED <<driver, initialized, status, menu, buffer, dirty, work, drawing, panel, raced, draws>>

Blit == BlitStart \/ BlitSend \/ BlitFails

Draw == \/ \E us \in Latencies : UpdateLatency(us)
        \/ \E locked \in BOOLEAN : SetLocked(locked)
        \/ \E probing \in BOOLEAN, type \in Types : SetConnectionType(probing, type)
        \/ \E m \in Pictures : MenuDraw(m)

\* main starts with display_init; a panel that does not answer stays off.
Next == (draws = 0 /\ DisplayInit) \/ Draw \/ ShellShown \/ Blit

Spec == Init /\ [][Next]_vars

\* The system work queue and the shell run.
FairSpec == Spec /\ WF_vars(Blit) /\ WF_vars(ShellShown)

-----------------------------------------------------------------------------
(* Properties                                                              *)

\* No drawing is lost: a cell the panel shows otherwise than the framebuffer
\* is still to be sent, by the transfer under way or by one that is, or will
\* be, submitted and will find the frame dirty.  (The first failed transfer
\* ends this, and the first race with the shell.)
FrameNotLost ==
    ~failed /\ ~raced /\ initialized => \A c \in Places :
        panel[c] = buffer[c] \/ (sending # 0 /\ c >= sending) \/ (dirty /\ (work \/ drawing # << >>))

\* When the changes stop, a panel whose transfers succeed comes to show the
\* program's state: lock, connection, latency and menu.
PanelCatchesUp == <>[](failed \/ raced \/ ~initialized \/ panel = Seen(status, menu))
=============================================================================
