CONSTANTS
    Txn = {t1, t2, t3}
    k1 = k1
    k2 = k2
    Key <- TwoKeys
    Shape <- Contended
    None = None
    Durability = {"Safe", "Balanced"}
    Discards = FALSE
    MaxBatch = 2
    MaxFaults = 2
SPECIFICATION Spec
SYMMETRY Symmetry
INVARIANTS TypeOK NoLostUpdate AckedSurvives UnsyncedFlagHonest OneLeader GroupHasLeader
