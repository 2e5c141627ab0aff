SPECIFICATION FairSpec
CONSTANTS
  Funds = {f1}
  BatchSize = 1
  Unparsable = {2}
  MaxDate = 3
  MaxRetries = 1
  Mishaps = {"fault", "crash", "stop"}
  MaxMishaps = 2
  MaxResumes = 0
INVARIANTS TypeOK TotalIsBacked OneOrphanPerMishap
PROPERTIES WatermarkNeverRecedes ImplementsSyncJob SyncEnds NearsItsEnd UndisturbedSyncsResume CatchesUp
