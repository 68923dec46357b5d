SPECIFICATION CandidateSpec
CONSTANTS
  a = a
  b = b
  c = c
  d = d
  Tasks = {a, b, c, d}
  Retired = {}
  MaxTime = 8
  Requests <- CandidateRequests
  Alternatives = 4
  BeamWidth = 2
  MaxCandidates = 3
  Ordinal <- Ids4
CHECK_DEADLOCK FALSE
INVARIANTS
  SweepTypeOK
  BranchesHold
  CandidatesAcceptable
  ReportTrue
  WorkerAgrees
