CONSTANTS
  Conns = {c1, c2}
  Fds = {3, 4}
  Handles = {1, 2}
  Objs = {o1, o2}
  Pids = {1}
  MaxLen = 1
  None = None
  Careful = TRUE
  Profiles = {{"open", "close", "snapex", "mem"},
              {"open", "close", "snap", "first", "next"},
              {"open", "close", "query", "queryfull", "info", "bye"},
              {"open", "mem", "aob", "nopath", "term"}}
SPECIFICATION Spec
INVARIANTS TypeOK NoDangling NoLeak  CacheSound LocksHeld NoAnswerForgotten
SYMMETRY Symmetry
CHECK_DEADLOCK FALSE
