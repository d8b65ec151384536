\* A sign-up whose last request fails: TLC finds FormEndsInApplication violated.
CONSTANTS
  Users = {u1}
  Admins = {}
  Supers = {s1}
  Browsers = {t1}
  Picks = {"client", "super_admin"}
SPECIFICATION AccountsSpec
INVARIANT FormEndsInApplication
CHECK_DEADLOCK FALSE
