CONSTANTS
  Voters = {v1, v2}
  Runtimes = {r1, r2}
  None = None
  Loops = {l1, l2}
  Count = 3
  IdSpace = 3
  Malformed = {2}
  Window = 2
  Lifetime = 1
SPECIFICATION MCSpec
INVARIANTS LanControlTypeOK ControlObeys HandledOnce
SYMMETRY Symmetry
