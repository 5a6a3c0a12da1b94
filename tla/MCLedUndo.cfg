SPECIFICATION Spec
\* The STM32's USB callbacks; a flash of 1000 ms toggles every 300.
CONSTANTS
    Interrupts = TRUE
    Duration = 10
    Interval = 3
    MaxOuts = 2
INVARIANT UndoSparesNewer
CHECK_DEADLOCK FALSE
