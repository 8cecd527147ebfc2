CONSTANT Configs <- JobsConfigs
SPECIFICATION FairSpec
CHECK_DEADLOCK FALSE
INVARIANTS
    SuccessMeansServed
    DispatchAnsweredOnce
    RowsAccumulate
    AssignmentExact
PROPERTY EveryManagerReturns
