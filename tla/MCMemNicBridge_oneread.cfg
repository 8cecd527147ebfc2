CONSTANT Configs <- ChunkConfigs
SPECIFICATION Spec
INVARIANTS
  OneReadPerChunk
CHECK_DEADLOCK FALSE
