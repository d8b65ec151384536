\* A candidate's application that waits while its user is demoted or made an
\* administrator: TLC finds ApplicantIsNoAdmin violated.
CONSTANTS
  Users = {u1}
  Admins = {}
  Supers = {s1}
  Browsers = {t1}
  Picks = {"super_admin"}
SPECIFICATION AccountsSpec
PROPERTY ApplicantIsNoAdmin
CHECK_DEADLOCK FALSE
