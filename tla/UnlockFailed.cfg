SPECIFICATION Spec
CONSTANTS
    u1 = u1
    u2 = u2
    v1 = v1
    d1 = d1
    r1 = r1
    Procs = {u1}
    Unlockers = {u1}
    Verifiers = {}
    Dirs = {d1}
    Roots = {r1}
    Enrolled = {d1}
    DirOf <- MCDirOf
    RootOf <- MCRootOf
    Nobody = Nobody
    Stranger = Stranger
INVARIANTS
    FailedUnlockLeavesRootLocked
