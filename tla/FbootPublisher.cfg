SPECIFICATION FairSpec
CONSTANTS
    both = both
    twice = twice
    part = part
    bad = bad
    NoFile = NoFile
    ByteBase = 256
    CHUNK_SIZE = 6
    Names <- MCNames
    Files <- MCFiles
    Groups <- MCGroups
INVARIANTS
    TypeOK
    ConnectionClosed
    PublishKnowsBlocks
    NoCutAnswerAccepted
    CreateAccepted
    LoadedWhenPrompt
PROPERTIES
    OnlyNamedBlocks
    ExecuteEnds
