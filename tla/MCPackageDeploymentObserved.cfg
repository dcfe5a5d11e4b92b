\* One object, written twice, under one replica that never restarts: the status
\* does not catch up with a change made after the object settled.
SPECIFICATION FairSpec
CONSTANTS
  Deployments = {d1}
  Replicas = {r1}
  Specs <- MCSpecs
  MaxWrites = 2
  MaxRestarts = 0
PROPERTIES
  ObservedGenerationCatchesUp
CHECK_DEADLOCK FALSE
