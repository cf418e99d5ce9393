SPECIFICATION Spec
CONSTANTS
    Keys = {k1, k2}
    Wanted = {k1, k2}
    Nodes = {n1, n2}
    None = None
    Retries = 2
    Commands = 3
INVARIANTS
    SecretIsTheEnrolledOne
    EachSecretIsConfirmed
    OneWrongPin
    OneTouchAfterSignal
