CONSTANTS
  NPages = 5
  Maps <- MCMaps
  Swappable = {0}
  Slack = 1
  ByteBits = 2
  ChunkBytes = 1
  ParamBytes = 1
SPECIFICATION Spec
INVARIANTS TypeOK RunsExact StableReported LibComplete CrashOnlyWithoutMm AnswersRight
PROPERTIES BuffersFit BitmapExact
CHECK_DEADLOCK FALSE
