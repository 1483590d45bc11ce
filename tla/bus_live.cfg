SPECIFICATION FairSpec
CONSTANTS
  s1 = s1
  s2 = s2
  e1 = e1
  e2 = e2
  Nobody = Nobody
  Subs = {s1, s2}
  Events = {e1, e2}
  Matching = {e1}
  MaxId = 1
  Builds = {TRUE, FALSE}
  Reckless = FALSE
  GiveUps = {s2}
  Cloners = {}
  Named = {1}
  MaxCleanups = 1
  MaxMail = 3
INVARIANTS TypeOK AnswerOwed
PROPERTIES Answered Matches Reclaimed
CHECK_DEADLOCK FALSE
