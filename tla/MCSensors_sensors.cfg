\* Parts of each kind, every processor, a combination of a combination; any number of cycles.
SPECIFICATION Spec
CONSTANTS
    Id = {1, 2, 3, 5}
    Width = 4
    Builtins <- NoSensors
    Bindings <- PartFirst
    Customs <- Callers
    Combos <- Nested
    Values = {0, 1}
    MaxEvents = 3
INVARIANTS
    TypeOK
    MemoryMatches
    Routed
    BuffersOfThisCycle
    ProductHeard
    NotForgotten
PROPERTIES
    IncreaseIsNews
