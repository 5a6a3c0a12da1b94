SPECIFICATION Spec
CONSTANTS
    Boards <- Stm32Boards
    Watched = "stick_right"
    DebounceTicks = 2
    MenuHold = 2
    MaxTick = 4
INVARIANT FiveMilliseconds
