CONSTANTS
    ProbeOrder <- AllProbes
    Builds <- AllBuilds
    Second = 2
    None = None
    MaxDisturbances = 3
SPECIFICATION FairSpec
INVARIANTS NoneSkipped SelectionJustified BootProbeConsumed
PROPERTIES Settles
CHECK_DEADLOCK FALSE
