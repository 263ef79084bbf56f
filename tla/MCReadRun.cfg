SPECIFICATION Spec
CONSTANTS
    Proc = {p1, p2}
    Info <- MCInfo
    Requests <- MCRequests
    None = None
    MaxFaults = 1
INVARIANTS FactsTrue RestoredWhole FailureHasCause
SYMMETRY MCSymmetry
