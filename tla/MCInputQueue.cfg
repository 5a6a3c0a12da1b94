CONSTANTS
    StorageSize = 5
    Null = Null
    Writers = {shell, bt}
    ShellWriter = shell
    CamValues = 2
    HoldTicks = 2
    PollPeriod = 2
    MaxLate = 4
SPECIFICATION HoldFairSpec
INVARIANTS AllocFindsRoom NodesOwned PlaysScript UsbSeesElements
PROPERTY QueueAdvances
