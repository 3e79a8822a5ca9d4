\* Bytes of one bit, chunks of up to three bytes; --max-chunks is 1, so an input has up to two.
CONSTANTS
    Width = 1
    Byte <- BytesOfOneBit
    MaxChunkLen = 3
    Limits = {1, 3}
    MaxChunks = 1
    MaxCorpus = 2
    MaxKept = 2
    Slots = {0}
    Compares <- OneCompare
    Loaded <- SomeLoaded
    SizeMod = 16

SPECIFICATION Spec
INVARIANTS
    TypeOK
    LimitsKept
    AnswersFit
    NothingInvented
    InsertedIsThere
