CONSTANTS
  Files = {f1, f2}
  Apps = {}
  Rfqs = {q1}
  Keys = {k1}
  Admins = {a1, a2}
  Tabs = {t1, t2}
SYMMETRY Symmetry
SPECIFICATION Spec
INVARIANTS
  OneOpenRequest
  TrailMatchesRows
PROPERTIES
  DecidedOnce
CHECK_DEADLOCK FALSE
