CONSTANTS
  Users = {u1}
  Admins = {}
  Supers = {s1}
  Browsers = {t1}
  Picks = {"client", "super_admin"}
SPECIFICATION AccountsSpec
INVARIANTS
  AdminsAreGranted
  RedirectsSettle
CHECK_DEADLOCK FALSE
