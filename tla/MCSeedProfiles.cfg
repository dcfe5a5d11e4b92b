\* One developer who switches between two profiles and edits neither.
SPECIFICATION Spec
CONSTANTS
  Seeders = {s1}
  Profiles = {default, large}
  MaxVersion = 1
  Empties = {0}
  Reverts = FALSE
PROPERTIES
  SkippedIsExact
CHECK_DEADLOCK FALSE
