CONSTANTS
    Uses <- StackUser
    PC = {1, 2}
    Guards <- SomeGuards
    Compares <- SomeCompares
    Switches <- SomeSwitches
    Calls <- SomeCalls
    Memcmps <- SomeMemcmps
    ArgBits = 2
    Boring = 2
    MaxCompared = 3
    Address = {1, 2}
    Sizes = {1, 2}
    TrackSize = 3
    PCMask = 4
    MapSize = 16
    MapPrime = 13
    MaxEvents <- Few
    MaxCycles <- Few

SPECIFICATION Spec
INVARIANT UniqueStacksCount
