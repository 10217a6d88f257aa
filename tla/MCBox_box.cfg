SPECIFICATION Spec
CONSTANTS
  Reqs = {r1, r2}
  Sessions = {s1, s2, s3}
  NoSes = NoSes
  NoReq = NoReq
  MaxBreaks = 1
  Profiles = {"default", "p"}
  Ids = {1, 2, 3}
  JobNames = {"a", "b"}
  Bodies = {"x", "y"}
  MaxLost = 1
  Runs = {b1, b2}
  NoRun = NoRun
  MaxDead = 1
  Chats = {c1, c2}
  NoChat = NoChat
  MaxMessages = 2
  MaxFails = 1
  MaxClicks = 2
  Cmds = {k1, k2}
  Addresses = {"a", "b"}
  Ports = {8080}
  SshPort = 22
  WebPorts = {80}
  Anyone = Anyone
  ByHand <- SomeByHand
  MaxChanges = 2
  MaxFaults = 1
  Scenes <- SomeScenes
INVARIANTS
  TypeOK
  OneEditor
  FilesWhole
  OnlyCachedOpen
  VerdictIsOwn
PROPERTIES
  EditsAreAtomic
  ReconcileDelivers
  GatewayBroughtBack
  Answered
  PageCatchesUp
  NetworkConverges
  NeverLockedOut
CHECK_DEADLOCK FALSE
