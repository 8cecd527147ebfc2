CONSTANT Configs <- ReadConfigs
SPECIFICATION FairSpec
INVARIANTS
  CreditConservation
  NeverForgotten
  NoLostWakeup
  BundleCountExact
  CacheHonest
PROPERTIES
  EveryReadAnswered
  WindowOrder
  StarvedFirst
CHECK_DEADLOCK FALSE
