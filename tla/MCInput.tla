------------------------------ MODULE MCInput ------------------------------
(* Boards for model checking Input: a few buttons of each kind of board.   *)
EXTENDS Input

MicrodashButtons == Sticks \cup {"button_south", "button_start", "button_home", "button_menu", "button_w",
                                 "button_thumb_left", "button_thumb_right"}

Microdash(touched, changed) ==
    [available |-> MicrodashButtons, touched |-> touched, changed |-> changed,
     display |-> TRUE, microdash |-> TRUE, external |-> FALSE, cycles |-> 1]

\* Mode switches and no display: pl_e73, whose clocks are the nRF's one of
\* 32768 Hz, and pl_stm32, where a tick has many cycles of 72 MHz (two here).
Switches(cycles) ==
    [available |-> Sticks \cup {"mode_ls", "mode_rs"}, touched |-> {"stick_right", "mode_ls", "mode_rs"},
     changed |-> {}, display |-> FALSE, microdash |-> FALSE, external |-> FALSE, cycles |-> cycles]

\* pl_dongle: no buttons of its own.
Dongle == [available |-> {}, touched |-> {"stick_left", "button_south"}, changed |-> {},
           display |-> TRUE, microdash |-> FALSE, external |-> TRUE, cycles |-> 1]

GpioBoards ==
    {Switches(1), Switches(2),
     Microdash({"button_menu", "stick_right", "button_home"}, {"lock"}),
     Microdash({"button_menu", "stick_right", "stick_left"}, {"x"}),
     Microdash({"button_menu", "stick_right", "button_thumb_left"}, {"profile"}),
     Microdash({"stick_up", "stick_down", "button_w"}, {})}

AllBoards == GpioBoards \cup {Dongle}
ExternalBoards == {Dongle}
Stm32Boards == {Switches(2)}
=============================================================================
