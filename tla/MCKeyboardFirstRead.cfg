SPECIFICATION Spec
CONSTANTS
    Keys <- SomeKeys
    Limits = {1, 2}
PROPERTIES
    EveryLineReturned

