CONSTANTS
    \* UsbWrite: a Hid without ids of its own between two with them
    ProbeOrder <- MCProbeOrder
    OwnId = {"NX", "PS4"}
    DefaultId = "default"
    MaxRequests = 3
    None = None
    \* Provisioning: two and a half packets fill the partition; one may reach
    \* into the next one's place
    Images = {"a", "b"}
    PacketSize = 2
    RequestSize = 3
    Capacity = 5
    NameEnd = 2
    MaxPackets = 2
    MaxLosses = 1
    \* Display: a change before, one in and one after a transfer
    Pictures = {"logo", "items"}
    Logo = "logo"
    Types = {"NX", "PS4"}
    Latencies = {1}
    MaxDraws = 3
    \* Reports: the counters wrap; the points have all nibbles different, or extreme
    Hids = {"NX", "PS3", "PS4"}
    Lengths = {1, 8, 16, 48, 64}
    VersionLength = 20
    Points <- MCPoints
    CounterRange = 8
    ReportRange = 4
    TouchRange = 4
    Divider = 2
    MaxAttempts = 1
    \* Menu: as in the code, with a coarser tick
    Drivers = {"buttons", "shell"}
    DisplayRows = 3
    StackCapacity = 8
    InitialDelay = 1
    UsPerTick = 500
SPECIFICATION PartsSpec
INVARIANTS CopiesSlice ChunksFit ChainAlive NoLeftovers IdsOfHid FlushedAsSent FrameNotLost HostReads
INVARIANTS DrawInBounds PathFromRoot ItemsCurrent ButtonsNeverFault
PROPERTIES KeepsReporting TakenHasName PanelCatchesUp LedSettles OneOptionAtATime
CHECK_DEADLOCK FALSE
