CONSTANTS
    Hids = {"PS4"}
    Lengths = {64}
    VersionLength = 20
    Points <- MCPoints
    CounterRange = 8
    ReportRange = 4
    TouchRange = 4
    Divider = 2
    MaxAttempts = 2
    None = None
SPECIFICATION Spec
INVARIANT FoundNotDisabled
