SPECIFICATION Spec
CONSTANTS
  Versions = {v1, v2}
  Profiles = {}
  DocNames = {}
  Domains = {d, e}
  Editable = {"nix", "net", "files", "dom", "extra"}
  Kinds = {"up", "update"}
  FailPoints <- BuildFailures
  Drifts = {"net"}
  EditsMidRun = FALSE
  Unhealthy = TRUE
  Undeclared = Undeclared
  NoDomain = NoDomain
  Blank = Blank
  Pending = Pending
SYMMETRY Symmetry
INVARIANTS
  TypeOK
  UpToDateIsTrue
  RecordedIsRunning
  NoOpRerun
  DnsTracked
