SPECIFICATION Spec
CONSTANTS
    Capacity = 3
    Bytes = {a, b}
    NoByte = NoByte
INVARIANTS
    TypeOK
    CountsAgree
PROPERTY
    ImplementsQueue
