SPECIFICATION Spec
CONSTANTS
  AllowedTools = {"read_file", "search_text", "run_python", "write_file", "list_directory", "other"}
  GrantedTools = {"read_file", "search_text", "run_python", "list_directory", "write_file"}
  PolicyTools = {"read_file", "search_text", "run_python", "write_file", "list_directory"}
  MaxToolCalls = 3
  MaxTotalReadBytes = 3
  MaxPythonExecs = 1
  MaxReadBytes = 2
  MaxSearchFiles = 2
  MaxSearchHits = 1
  Expansion = 2
  Faults = {"audit"}
  MaxFileSize = 3
  MaxCalls = 4
  Layouts <- AllLayouts
  MaxLines = 3
  Indents = {0, 3, 4, 8, 9, 12}
INVARIANTS
  BudgetsHold
  
PROPERTIES
  EffectsAreAudited
