SPECIFICATION FairSpec
CONSTANTS
    a = a
    b = b
    c = c
    d = d
    Key <- AllKeys
    Val = {v1, v2}
    Removable <- NoKeys
    OuterKey <- OneKey
    Hash <- MCHash
    InitSize = 4
    MaxSize = 8
    NULL = NULL
    TOMBSTONE = TOMBSTONE
INVARIANTS Unique
PROPERTY ImplementsMap
