SPECIFICATION FairSpec
CONSTANTS
  Names = {"n1"}
  Files = {"n1"}
  Outer <- Itself
  Hashes = {"h1", "h2", "h3"}
  Content <- ContentOf
  Kind <- KindOf
  Opts <- PlainOpts
  Callers = {"scan", "client"}
  Workers = {w1, w2}
  TaskIds = {1, 2}
  MaxVersion = 3
  ScanLoop = "scan"
  HasProbe = TRUE
  MaxScans = 2
  MaxStarts = 1
INVARIANTS TypeOK TaskDiscipline CacheSound ResultFresh  
PROPERTIES MainExits
