CONSTANTS
  DomainFiles = {1}
  EntrypointFiles = {2, 3}
  OtherFiles = {4}
  Classes = {"C"}
  Methods = {"m", "_n"}
  Functions = {"g"}
  Private = {"_n"}
  Reserved = "$module_functions$"
  Routes = {"GET /g"}
  NoRoute = "none"
  Params = {"p"}
  MaxFiles = 2
  MaxDefs = 2
  MaxEntries = 2
  MaxSymbols = 3
SPECIFICATION LinterSpec
INVARIANTS
  IndexIsUnion
  PassMeansKept
  SilenceMeansListed
CHECK_DEADLOCK FALSE
