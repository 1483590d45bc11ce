SPECIFICATION Spec
CONSTANTS
  s1 = s1
  s2 = s2
  e1 = e1
  e2 = e2
  Nobody = Nobody
  Subs = {s1, s2}
  Events = {e1}
  Matching = {e1}
  MaxId = 1
  Builds = {FALSE}
  Reckless = TRUE
  GiveUps = {}
  Cloners = {s1, s2}
  Named = {1}
  MaxCleanups = 1
  MaxMail = 1
INVARIANTS Delivered
CHECK_DEADLOCK FALSE
