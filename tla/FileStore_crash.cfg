SPECIFICATION Spec
CONSTANTS
    Savers = {s1, s2}
    Readers = {r1}
    MaxSaves = 3
    MaxChanges = 2
SYMMETRY StoreSymmetry
INVARIANTS
    NeverPartial
    SavedSurvivesCrash
PROPERTIES
    TempsCleanedUp
