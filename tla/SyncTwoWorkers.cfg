SPECIFICATION Spec
CONSTANTS
  Funds = {f1}
  BatchSize = 1
  Unparsable = {}
  MaxDate = 2
  MaxRetries = 0
  Mishaps = {"fault"}
  MaxMishaps = 1
  MaxResumes = 1
INVARIANTS WatermarkComplete OrphanOnlyByFault
