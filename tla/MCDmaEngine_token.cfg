SPECIFICATION EngineFairSpec
CONSTANT Configs <- Polled
PROPERTY EveryTokenSet
CHECK_DEADLOCK FALSE
