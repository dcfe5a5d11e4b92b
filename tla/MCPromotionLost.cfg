\* One promotion, whose reading of the values file may fail.
SPECIFICATION Spec
CONSTANTS
  Promotions = {p1}
  Versions = {v1, v2}
  NoVersion = NoVersion
  Seconds = {t1}
  MaxEdits = 1
  ReadsFail = TRUE
  Reverts = FALSE
PROPERTIES
  OverridesPreserved
CHECK_DEADLOCK FALSE
