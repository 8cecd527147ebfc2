SPECIFICATION FairSpec
CONSTANT Configs <- Lists
INVARIANTS
  SumExactButFirst
  OperandsOwn
  BuffersApart
  NextWindowQueued
  FinishedMeansWritten
PROPERTY ListFinishes
