SPECIFICATION Spec
CONSTANTS
    Id = {1, 3, 5}
    Width = 4
    Builtins <- LateLast
    Bindings <- NoSensors
    Customs <- OneCustom
    Combos <- LateLastCombo
    Values = {1, 2}
    MaxEvents = 2
INVARIANTS
    CombinesThisCycle
