CONSTANTS
  WordBits = 5
  N = 4
  K = 4
  Ell = 3
  PolishSteps = 4
  PolishTenure = 3
  PolishRecount = 3
  ReportEvery = 2
  PerturbFlips = 1
  TabuTenure = 7
  RecountEvery = 3
  BeamWidth = 2
  MaxDepth = 2
  ScoreBias = 3
  Restarts = 1
  MaxPolish = 1
  MaxCarry = 12
  FullEvery = 2
  HashBits = 6
  Jobs <- MCJobs
SPECIFICATION Spec
INVARIANTS ReportsNew CountsTrue PolishGains ResultHonest BudgetKept
PROPERTY SearchEnds
