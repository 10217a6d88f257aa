SPECIFICATION Spec
CONSTANTS
  Tests = {t1, t2}
  Users = {u}
  Others = {x}
  MaxFails = 2
  MaxDry = 1
PROPERTIES
  SweepSpares
  LeaksSwept
