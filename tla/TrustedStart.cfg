SPECIFICATION Spec
CONSTANTS
  Absent = Absent
  NoKey = NoKey
  Missing = Missing
  Damaged = Damaged
  prod = prod
  local = local
  Tool = Tool
  OtherTool = OtherTool
  Cap = Cap
  OtherCap = OtherCap
  Models <- Files
  Symlinks = {"link"}
  ModelFile = "model"
  Releases <- FourReleases
  Configs <- FourConfigs
  Environments <- ThreeEnvironments
  KeyIds = {"release"}
  Keys = {prod, local}
  Deployed <- Production
  LocalPolicies <- EditedPolicies
  Requests <- AllRequests
  MaxChanges = 2
INVARIANTS
  TypeOK
  UntouchedIsTrusted
  InstalledReleaseStarts
  StrictIsStrict
  DenyOverrides
