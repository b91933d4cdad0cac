SPECIFICATION Spec
CONSTANTS
    a = a
    q = q
    b = b
    Byte = {a, q, b}
    Quote = q
    Slash = b
    Memory = 1
    Buffer = 2
    Piece <- MCPiece
    MaxSize = 4
    MaxNested = 2
INVARIANTS
    TypeOK
    FindsStringEnd
    CacheIsCurrent
PROPERTIES
    ImplementsLog
