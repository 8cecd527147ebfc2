SPECIFICATION EngineFairSpec
CONSTANT Configs <- Loads
INVARIANTS
  EngineTypeOK
  WindowExact
  ContextCount
  SuccessMeansDone
  WorkHasEvent
  GenerationFenceSound
PROPERTIES
  NoLateWrite
  EveryCallbackComes
CHECK_DEADLOCK FALSE
