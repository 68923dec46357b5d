SPECIFICATION Stage1Spec
CONSTANTS
  a = a
  b = b
  c = c
  Tasks = {a, b, c}
  Retired = {}
  MaxTime = 4
  Asks <- AllAsks
  CpuSets <- CpuAnswers
  Draws <- DrawChoices
  DefaultTopK = 2
  MaxTopK = 2
  Setups <- SetupChoices
  AsksOf <- CallsOf
  Replies <- WorkerReplies
  Listing <- ListedTasks
  MaxCandidates = 3
  MaxPlanningTasks = 3
INVARIANTS
  Stage1TypeOK
  StatusMeans
  RankingHolds
  NothingLost
  ProvenanceEarned
  ReasonTrue
  EchoHonest
PROPERTIES
  ImplementsCpu
  Answered
