SPECIFICATION Spec
CONSTANTS
    Contexts = {k_shell, swap, job}
    First = k_shell
    Usages <- OneOfThem
    MaxDepth = 3
    StackSizes = {24, 31, 4096}
    MaxArgs = 2
INVARIANTS
    TypeOK
    SavedWhereLeft
    LostOnlyAtStart
    ProgramsInterruptible
    StackHoldsArguments
