SPECIFICATION Spec
CONSTANTS
    Boards <- ExternalBoards
    Watched = "stick_right"
    DebounceTicks = 2
    MenuHold = 2
    MaxTick = 4
INVARIANT ExternalReported
