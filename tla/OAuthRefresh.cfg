SPECIFICATION Spec
CONSTANTS
  Processes = {h1, h2}
  Providers = {p1, p2}
  Tasks = {t1, t2}
  Attempts = 2
  MaxExpiries = 2
INVARIANTS
  SessionKept
  ReauthHasACause
  OneRefreshPerExpiry
  ReturnedIsFresh
SYMMETRY Symmetry
CHECK_DEADLOCK FALSE
