-------------------------------- MODULE Led --------------------------------
(***************************************************************************)
(* One LED of output/led.cpp, and who drives it: the probing (usb.cpp) sets *)
(* it and undoes that by the counter led_set returned, flashes it when a    *)
(* console has been found, and the PS3's output report (ps3/hid.cpp) sets   *)
(* it to the player's number.                                               *)
(*                                                                         *)
(* The probing and the flash's timer are items of the system work queue.    *)
(* The output report comes in the USB context, while the PS3's Hid is up.   *)
(* On the nRF that is a cooperative thread, as the work queue is, and runs  *)
(* only between two of its items; on the STM32 it is an interrupt and runs  *)
(* between any two steps.  The LED is one the board has; without one        *)
(* nothing shows.                                                           *)
(***************************************************************************)
EXTENDS Naturals, Sequences

CONSTANTS
    Interrupts,  \* whether the USB callbacks are interrupts
    Duration,    \* ticks a flash lasts, and
    Interval,    \* ticks between two toggles of it
    MaxOuts      \* bound: output reports

\* The consoles in the order they are tried.
Order == <<"NX", "PS3", "PS4">>
Settled == Len(Order) + 1

VARIABLES
    owner,     \* the console whose probe lights this LED, P4 has none; never changes
    on,        \* LedState::on
    pin,       \* what the LED shows
    counter,   \* LedState::counter
    flashing, duration, interval,
    timer,     \* led_update is scheduled
    probe,     \* current_probe by its place in the order, 0 before; Settled after
    jobs,      \* the calls the work item under way still has to make
    pc,        \* where the call at their head, or led_update, is
    loaded,    \* the value led_update has loaded to show it
    held,      \* probe_led_counter
    listening, \* the PS3's Hid is up
    outs,      \* output reports so far
    wish,      \* history: the value of the LED, by led.h
    newer      \* history: a report has set the LED since the probing lit it

ledVars == <<on, pin, counter, flashing, duration, interval, timer>>
threadVars == <<owner, probe, jobs, pc, loaded, held, listening>>
vars == <<ledVars, threadVars, outs, wish, newer>>

Init ==
    /\ owner \in {"NX", "PS3", "PS4", "none"}
    /\ on = FALSE /\ pin = FALSE /\ counter = 0
    /\ flashing = FALSE /\ duration = 0 /\ interval = 0 /\ timer = FALSE
    /\ probe = 0 /\ jobs = << >> /\ pc = "idle" /\ loaded = FALSE
    /\ held = 0 /\ listening = FALSE /\ outs = 0
    /\ wish = FALSE /\ newer = FALSE

Free == jobs = << >> /\ pc = "idle"

Lights(p) == Order[p] = owner

\* The probe to start: the first or, on builds that reboot between probes, the
\* one stored for this boot; after that the next, where USB can be shut down.
Starts(p) == IF probe = 0 THEN TRUE ELSE p = probe + 1 /\ ~Interrupts

\* usb_probe_start, after usb_hid_uninit: every LED off, that of the probe on,
\* and the Hid is started.
ProbeStart ==
    /\ Free
    /\ \E p \in 1 .. Len(Order) :
        /\ Starts(p)
        /\ probe' = p
        /\ jobs' = IF Lights(p) THEN <<"off", "on", "init">> ELSE <<"off", "init">>
    /\ listening' = FALSE
    /\ UNCHANGED <<ledVars, owner, pc, loaded, held, outs, wish, newer>>

\* usb_probe_selected: the probe's LED is taken back, and all of them flash.
ProbeSelected ==
    /\ Free /\ probe \in 1 .. Len(Order)
    /\ probe' = Settled
    /\ jobs' = IF Lights(probe) THEN <<"undo", "flash">> ELSE <<"flash">>
    /\ UNCHANGED <<ledVars, owner, pc, loaded, held, listening, outs, wish, newer>>

Calls(call) == jobs # << >> /\ Head(jobs) = call

\* usb_hid_init
HidInit ==
    /\ pc = "idle" /\ Calls("init")
    /\ listening' = (Order[probe] = "PS3")
    /\ jobs' = Tail(jobs)
    /\ UNCHANGED <<ledVars, owner, probe, pc, loaded, held, outs, wish, newer>>

\* led_set, its test of the counter
SetEnter ==
    /\ pc = "idle" /\ (Calls("off") \/ Calls("on") \/ Calls("undo"))
    /\ IF Calls("undo") /\ held # counter
       THEN jobs' = Tail(jobs) /\ UNCHANGED pc
       ELSE pc' = "write" /\ UNCHANGED jobs
    /\ UNCHANGED <<ledVars, owner, probe, loaded, held, listening, outs, wish, newer>>

\* led_set, the value
SetWrite ==
    /\ pc = "write"
    /\ on' = Calls("on")
    /\ wish' = IF Calls("undo") /\ newer THEN wish ELSE Calls("on")
    /\ newer' = (newer /\ ~Calls("on"))
    /\ pc' = "load"
    /\ UNCHANGED <<pin, counter, flashing, duration, interval, timer, owner, probe, jobs, loaded, held, listening, outs>>

\* led_set, then led_update unless the LED is flashing: the value is loaded
SetLoad ==
    /\ pc = "load"
    /\ IF flashing THEN pc' = "count" /\ UNCHANGED loaded ELSE pc' = "show" /\ loaded' = on
    /\ UNCHANGED <<ledVars, owner, probe, jobs, held, listening, outs, wish, newer>>

\* and shown.
SetShow ==
    /\ pc = "show"
    /\ pin' = loaded
    /\ pc' = "count"
    /\ UNCHANGED <<on, counter, flashing, duration, interval, timer,
                   owner, probe, jobs, loaded, held, listening, outs, wish, newer>>

\* led_set returns the counter, a new one but for an undo.
SetCount ==
    /\ pc = "count"
    /\ counter' = IF Calls("undo") THEN counter ELSE counter + 1
    /\ held' = IF Calls("on") THEN counter' ELSE held
    /\ jobs' = Tail(jobs) /\ pc' = "idle"
    /\ UNCHANGED <<on, pin, flashing, duration, interval, timer, owner, probe, loaded, listening, outs, wish, newer>>

\* led_flash
Flash ==
    /\ pc = "idle" /\ Calls("flash")
    /\ flashing' = TRUE /\ duration' = Duration /\ interval' = Interval
    /\ timer' = TRUE
    /\ jobs' = Tail(jobs)
    /\ UNCHANGED <<on, pin, counter, owner, probe, pc, loaded, held, listening, outs, wish, newer>>

\* led_update, from the timer: the flash goes on,
UpdateToggles ==
    /\ Free /\ timer /\ flashing /\ interval <= duration
    /\ pin' = ~pin
    /\ duration' = duration - interval
    /\ UNCHANGED <<on, counter, flashing, interval, timer, threadVars, outs, wish, newer>>

\* or it ends: the LED's value is loaded,
UpdateEnds ==
    /\ Free /\ timer /\ flashing /\ interval > duration
    /\ timer' = FALSE
    /\ loaded' = on
    /\ pc' = "end"
    /\ UNCHANGED <<on, pin, counter, flashing, duration, interval,
                   owner, probe, jobs, held, listening, outs, wish, newer>>

\* Mutant: the LED is left as the last toggle left it.
UpdateShowsToggled ==
    /\ pc = "end"
    /\ pc' = "done"
    /\ UNCHANGED <<ledVars, owner, probe, jobs, loaded, held, listening, outs, wish, newer>>

\* shown,
UpdateShows ==
    /\ pc = "end"
    /\ pin' = loaded
    /\ pc' = "done"
    /\ UNCHANGED <<on, counter, flashing, duration, interval, timer,
                   owner, probe, jobs, loaded, held, listening, outs, wish, newer>>

\* and only then is the flash over.
UpdateDone ==
    /\ pc = "done"
    /\ flashing' = FALSE /\ duration' = 0 /\ interval' = 0
    /\ pc' = "idle"
    /\ UNCHANGED <<on, pin, counter, timer, owner, probe, jobs, loaded, held, listening, outs, wish, newer>>

\* PS3Hid::InterruptOut: the LED off, and on if it is in the player's number.
InterruptOut(lit) ==
    /\ listening /\ (Interrupts \/ Free)
    /\ outs < MaxOuts /\ outs' = outs + 1
    /\ on' = lit
    /\ pin' = IF flashing THEN pin ELSE lit
    /\ counter' = IF lit THEN counter + 2 ELSE counter + 1
    /\ wish' = lit /\ newer' = TRUE
    /\ UNCHANGED <<flashing, duration, interval, timer, threadVars>>

WorkQueue == \/ HidInit \/ SetEnter \/ SetWrite \/ SetLoad \/ SetShow \/ SetCount
             \/ Flash \/ UpdateToggles \/ UpdateEnds \/ UpdateShows \/ UpdateDone

Next == ProbeStart \/ ProbeSelected \/ WorkQueue \/ \E lit \in BOOLEAN : InterruptOut(lit)

\* The work queue runs and its timers fire.
Fairness == WF_vars(WorkQueue)

Spec == Init /\ [][Next]_vars /\ Fairness

-----------------------------------------------------------------------------

\* Every flash ends, and the LED then shows what it was last set to: a value
\* set during the flash is not lost, and the probing takes its light back only
\* if no report has set the LED since.
LedSettles == <>[](~flashing /\ pin = wish)

\* led.h: the counter allows "to undo an operation without affecting things if
\* another operation came in after the initial operation", so the value is
\* that of the last operation, an undo being one only if nothing is newer.
UndoSparesNewer == on = wish
=============================================================================
