SPECIFICATION Spec
CONSTANTS
    COLUMNS = 2
    ROWS = 2
    ByteMod = 6
    Characters = {"a"}
    MaxDepth = 3
    MaxLine = 4
INVARIANTS
    ColumnComesBack
