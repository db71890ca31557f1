SPECIFICATION Spec
CONSTANTS
    Contexts = {c1, c2}
    NULL = NULL
    BufferSize = 4
    FileSize = 2
    Numbers <- MCNumbers
    PrintedNumbers <- MCPrintedNumbers
    Values = {200}
SYMMETRY ContextSymmetry
INVARIANTS
    TypeOK
    StringsCompare
    StringsFound
    BytesMove
    TextsJoin
    NumbersReadBack
PROPERTIES
    ImplementsFile
