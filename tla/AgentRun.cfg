SPECIFICATION FairSpec
CONSTANTS
  AllowedTools = {"read_file", "search_text", "run_python", "write_file", "list_directory"}
  GrantedTools = {"read_file", "search_text", "run_python", "write_file"}
  PolicyTools = {"read_file", "search_text", "run_python", "write_file", "list_directory"}
  MaxToolCalls = 2
  MaxTotalReadBytes = 2
  MaxPythonExecs = 1
  MaxReadBytes = 1
  MaxSearchFiles = 2
  MaxSearchHits = 1
  Expansion = 2
  Faults = {"audit", "backend"}
  MaxFileSize = 2
  MaxIterations = 4
  MaxInvalidToolCalls = 2
  JsonFormat = TRUE
INVARIANTS
  TypeOK
  LoopAccounting
  ResultMatchesTrail
PROPERTIES
  KeepsContract
  Terminates
