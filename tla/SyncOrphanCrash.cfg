SPECIFICATION FairSpec
CONSTANTS
  Funds = {f1}
  BatchSize = 2
  Unparsable = {}
  MaxDate = 1
  MaxRetries = 0
  Mishaps = {"crash"}
  MaxMishaps = 1
  MaxResumes = 0
PROPERTIES InterruptedSyncsResume
