SPECIFICATION FairSpec
CONSTANTS
  TrackedFunds <- MCTrackedFunds
  SeedWindows = {1}
  MaxMishaps = 1
  MaxDate = 4
  Worthless = {2}
  Calculators = {g1, g2}
  Requests = {r1, r2}
  Quoted = {s1}
  axis = axis
  mid = mid
  small = small
  s1 = s1
  s2 = s2
INVARIANTS ServerTypeOK CatalogueSound ServesComplete RowsAreBacked SingleFlight DataStaysWithScheme LoneLeavesUpToDate
PROPERTIES IdsStable RefusedOnlyByRival LoneNeverRecedes StartGetsOn StartsUp StatsCatchUp
