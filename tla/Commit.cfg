SPECIFICATION FairSpec
CONSTANTS
    N = 3
    Deadline = 1
    MaxBytes = 3
    Gens = 2
    CidSizes = {0, 1, 1024, 1025}
INVARIANTS
    ManifestNeverTorn
    KeyIsWhatWasTyped
    SuccessSurvives
PROPERTIES
    EnrollmentEnds
