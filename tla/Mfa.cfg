CONSTANTS
  Tabs = {t1, t2}
  Keys = {k1}
  Pods = {p1, p2}
  MaxSecrets = 2
  MaxStep = 1
  MaxAsked = 2
  MaxFlips = 1
SYMMETRY Symmetry
SPECIFICATION Spec
INVARIANTS
  StepAcceptedOnce
  MethodMeansEnrolled
CHECK_DEADLOCK FALSE
