SPECIFICATION ComboFairSpec
CONSTANTS
    u1 = u1
    v1 = v1
    e1 = e1
    e2 = e2
    e3 = e3
    d1 = d1
    d2 = d2
    d3 = d3
    r1 = r1
    r2 = r2
    Nobody = Nobody
    Stranger = Stranger
    Procs = {u1, e1}
    Unlockers = {u1}
    Verifiers = {}
    Enrollers = {e1}
    Dirs = {d1, d2, d3}
    Roots = {r1, r2}
    Enrolled = {d1}
    DirOf <- MCDirOf
    RootOf <- MCRootOf
INVARIANTS
    ComboTypeOK
    NothingLeaks
    EnrollLeaksNothing
PROPERTIES
    EveryCommandReturns
