\* Chunks of up to four bytes, of one generator with one chunk.
CONSTANTS
    Width = 1
    Byte <- BytesOfOneBit
    MaxChunkLen = 4
    Limits = {4}
    MaxChunks = 1
    MaxCorpus = 2
    MaxKept = 2
    Slots = {0}
    Compares <- OneCompare
    Loaded <- SomeLoaded
    SizeMod = 16

SPECIFICATION Spec
INVARIANT CopiedIsThere
