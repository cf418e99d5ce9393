SPECIFICATION Spec
CONSTANTS
    N = 6
    BYTE = 256
INVARIANTS
    IsPermutation
    EvenChoice
    ChoicesTell
