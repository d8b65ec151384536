CONSTANTS
  Slots = {s1}
  Clients = {c1, c2}
  Editors = {a1}
  Times = {t1}
  Replicas = {r1}
  MaxCommits = 3
  MaxAsks = 2
  MaxFaults = 1
SPECIFICATION BookingsSpec
INVARIANTS
  TakenSlotHasItsBooking
  SettledListShowsOwnChange
PROPERTIES
  HeldUntilCancelled
  AdminListsNeverGoBack
CHECK_DEADLOCK FALSE
