SPECIFICATION NetworkSpec
CONSTANTS
  Cmds = {k1, k2}
  Addresses = {a, b}
  Ports = {8080}
  SshPort = 22
  WebPorts = {80}
  Anyone = Anyone
  ByHand = {}
  MaxChanges = 2
  MaxFaults = 0
INVARIANTS
  Idempotent
