\* One object, created and changed, or deleted and created again, under two
\* replicas of the controller, one of which may restart.
SPECIFICATION FairSpec
CONSTANTS
  Deployments = {d1}
  Replicas = {r1, r2}
  Specs <- MCSpecs
  MaxWrites = 2
  MaxRestarts = 1
INVARIANTS
  TypeOK
  StatusIsTruthful
  NoLostWakeup
PROPERTIES
  FollowsLifecycle
  EventuallySettles
CHECK_DEADLOCK FALSE
