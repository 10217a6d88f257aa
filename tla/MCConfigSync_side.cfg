SPECIFICATION Spec
CONSTANTS
  Versions = {v1, v2}
  Profiles = {p}
  DocNames = {a, b}
  Domains = {}
  Editable = {"cron", "pfiles", "profiles", "docs"}
  Kinds = {"up", "redeploy", "update", "upgrade"}
  FailPoints <- SideFailures
  Drifts = {"cron"}
  EditsMidRun = FALSE
  Unhealthy = FALSE
  Undeclared = Undeclared
  NoDomain = NoDomain
  Blank = Blank
  Pending = Pending
SYMMETRY Symmetry
INVARIANTS
  SuccessDelivers
  ProfilesSynced
