SPECIFICATION Spec
CONSTANTS
    Irqs = {0, 1, 12}
    MaxDepth = 2
PROPERTIES
    NoInterruptWhileDisabled
