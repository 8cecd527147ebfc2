CONSTANT Configs <- Reads
SPECIFICATION FairSpec
INVARIANTS
    ReadAccounted
    CreditConservation
    ReadyMeansLanded
    BoundedWait
    MatBeforeVec
PROPERTY AllReadInTheEnd
