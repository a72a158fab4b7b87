CONSTANTS
  Conns = {c1, c2}
  Fds = {3, 4}
  Handles = {1, 2}
  Objs = {o1, o2}
  Pids = {1}
  MaxLen = 1
  None = None
  Careful = FALSE
  Profiles = {{"open", "close", "mem"}}
SPECIFICATION Spec
INVARIANTS ReadWhileOpen
SYMMETRY Symmetry
CHECK_DEADLOCK FALSE
