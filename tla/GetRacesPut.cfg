SPECIFICATION Spec
CONSTANTS
    big = big
    small = small
    other = other
    Hash = {big, small, other}
    Blocks <- MCBlocks
    MaxChunk = 2
    MaxStorage = 4
    WordSize = 64
    Thread = {t1, t2}
    Readable = {big}
    Deletable = {}
    FailingWrites = {}
    Faults = {}
INVARIANT AckedChunkStored
