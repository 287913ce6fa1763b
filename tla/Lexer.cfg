SPECIFICATION Spec
CONSTANTS
    NL = NL
    CR = CR
    EOF = EOF
    NONE = NONE
    Code <- MCCode
    Known <- MCKnown
    Programs <- MCPrograms
INVARIANTS
    TypeOK
    Agrees
    PastesOne
    PushbackFits
    Positions
    Directives
    Decodes
