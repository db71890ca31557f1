SPECIFICATION Spec
CONSTANTS
    Contexts = {k_shell, swap, job}
    First = k_shell
    Usages <- HandlersSwitch
    MaxDepth = 3
    StackSizes = {24, 31, 4096}
    MaxArgs = 2
INVARIANTS
    ResumedAsSaved
