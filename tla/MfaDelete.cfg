CONSTANTS
  Tabs = {t1, t2}
  Keys = {k1}
  Pods = {p1}
  MaxSecrets = 1
  MaxStep = 2
  MaxAsked = 2
  MaxFlips = 0
SPECIFICATION Spec
PROPERTY DeleteLeavesAMethod
CHECK_DEADLOCK FALSE
