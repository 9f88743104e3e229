SPECIFICATION Spec
CONSTANTS
  Requests = {r1}
  Sweeps = {s1, s2}
  Resets = {a1}
  Threshold = 1
  Cooldown = 1
  BadToPermanent = 3
  SweepCooldown = 2
  MaxCooldown = 3
PROPERTIES PermanentStands
CHECK_DEADLOCK FALSE
