CONSTANTS
    Txn = {t1, t2, t3}
    k1 = k1
    k2 = k2
    Key <- TwoKeys
    Shape <- Answered
    None = None
    Durability = {"Safe"}
    Discards = FALSE
    MaxBatch = 2
    MaxFaults = 1
SPECIFICATION FairSpec
PROPERTIES ImplementsHistory EveryCommitAnswered
