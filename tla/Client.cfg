CONSTANTS
  Dids = {"d1"}
  Groups = {"g1"}
  Threads = {t1, t2}
  AutoMode = TRUE
  Timers = {m1, m2}
  MaxStarts = 2
  None = None
  Pushers = {cloud, gateway}
  NoPusher = NoPusher
  Bindings = {s1}
  Binders = {b1, b2}
  Handles = {h1, h2}
SPECIFICATION MCSpec
INVARIANTS ClientTypeOK FlagsDetermineState RegistrySettles LifecycleSettles BindingEnds
CHECK_DEADLOCK FALSE
