SPECIFICATION Live
CONSTANTS
  Tasks = {t1, t2}
  Tokens = {k1}
  Free = Free
  Gone = Gone
  MaxClock = 2
  MaxGrants = 2
  MaxOwner = 1
  MaxKills = 1
INVARIANTS RotatedGrantNeverReused
PROPERTIES LiveGrantNeverDeleted CallsActOnTheRow CallsEnd
