SPECIFICATION FairSpec
CONSTANTS
    a = a
    b = b
    c = c
    d = d
    Key <- AllKeys
    Val = {v1}
    Removable <- AllKeys
    OuterKey <- NoKeys
    Hash <- MCHash
    InitSize = 4
    MaxSize = 8
    NULL = NULL
    TOMBSTONE = TOMBSTONE
INVARIANTS TypeOK Counters ProbeStops Findable
PROPERTY Returns
