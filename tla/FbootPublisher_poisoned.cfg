SPECIFICATION Spec
CONSTANTS
    both = both
    twice = twice
    part = part
    bad = bad
    NoFile = NoFile
    ByteBase = 256
    CHUNK_SIZE = 6
    Names <- MCNames
    Files <- MCFiles
    Groups <- MCGroups
INVARIANT
    RejectedForItself
