SPECIFICATION Spec
CONSTANTS
  r1 = r1
  Text <- SomeText
  Trim <- TrimOf
  Lower <- LowerOf
  Numeral <- NumeralOf
  Decimal <- DecimalOf
  InternalKeys = {"structurizr.dsl"}
  Modes = {"directory", "file"}
  Target = "a.json"
  Names = {"a.json", "b.JSON", "notes.dsl"}
  JSONNames = {"a.json", "b.JSON"}
  Rank <- RankOf
  Disks <- AllDisks
  Edits <- Changes
  Clients = {r1}
  Queries <- SomeQueries
  Ids <- SomeIds
  MaxEdits = 1
INVARIANTS TypeOK ServedIsLastDeclared NothingLostSilently AnswersDescribeOneLoad
PROPERTIES StartupEnds
