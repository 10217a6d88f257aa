SPECIFICATION Spec
CONSTANTS
  Versions = {v1, v2}
  Profiles = {}
  DocNames = {}
  Domains = {}
  Editable = {"cron"}
  Kinds = {"up", "update"}
  FailPoints = {}
  Drifts = {}
  EditsMidRun = FALSE
  Unhealthy = FALSE
  Undeclared = Undeclared
  NoDomain = NoDomain
  Blank = Blank
  Pending = Pending
SYMMETRY Symmetry
INVARIANTS
  CronUpToDate
