SPECIFICATION Spec
CONSTANTS
    Boards <- AllBoards
    Watched = "stick_right"
    DebounceTicks = 2
    MenuHold = 2
    MaxTick = 8
INVARIANTS SteadyReported StickCleaned MenuFollowsButton MenuConsumes LockedMasked
PROPERTY MenuInputJustified
