SPECIFICATION Spec
CONSTANTS
  s1 = s1
  s2 = s2
  e1 = e1
  e2 = e2
  Nobody = Nobody
  Subs = {s1, s2}
  Events = {e1, e2}
  Matching = {}
  MaxId = 2
  Builds = {TRUE, FALSE}
  Reckless = FALSE
  GiveUps = {s2}
  Cloners = {s1}
  Named = {1}
  MaxCleanups = 1
  MaxMail = 2
INVARIANTS IdsApart Delivered IdForLife NoneForgotten
PROPERTY ImplementsPubSub
CHECK_DEADLOCK FALSE
