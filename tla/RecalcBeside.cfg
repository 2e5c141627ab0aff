SPECIFICATION DueSpec
CONSTANTS
  TrackedFunds <- MCTrackedFunds
  SeedWindows = {2}
  MaxMishaps = 0
  MaxDate = 2
  Worthless = {}
  Calculators = {g1}
  Requests = {r1}
  Quoted = {s1}
  axis = axis
  mid = mid
  small = small
  s1 = s1
  s2 = s2
INVARIANTS RecalculatedAfterSync
