CONSTANT Configs <- UncreditedConfigs
SPECIFICATION FairSpec
PROPERTIES
  EveryResponseDrained
CHECK_DEADLOCK FALSE
