CONSTANTS
  Tickets = {t1}
  Admins = {a1, a2}
  Workers = {w1, w2}
  Attempts = 1
  MaxRequests = 2
  MaxCrashes = 1
SPECIFICATION FairSpec
INVARIANTS
  NoTicketLost
  ArchivedShotIsGone
PROPERTIES
  ResolvedIsTerminal
  ResolvedGetsArchived
