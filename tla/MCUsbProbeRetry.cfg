CONSTANTS
    ProbeOrder <- AllProbes
    Builds <- Stm32Build
    Second = 2
    None = None
    MaxDisturbances = 3
SPECIFICATION Spec
INVARIANT RetriesFromBeginning
CHECK_DEADLOCK FALSE
