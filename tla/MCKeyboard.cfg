SPECIFICATION Spec
CONSTANTS
    Keys <- SomeKeys
    Limits = {1, 3}
INVARIANTS
    TypeOK
    NoStuckModifiers
    KeysStayInBuffer
PROPERTIES
    ImplementsLineInput
    LaterLinesReturned
