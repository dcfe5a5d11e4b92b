\* Configuration: two processes and two commands.  Stack: two processes of two
\* releases, any number of commands.  Graph: three packages, two datasets.
SPECIFICATION Spec
CONSTANTS
  Scopes <- MCScopes
  StaticKeys <- MCStaticKeys
  DynamicKeys <- MCDynamicKeys
  Texts <- MCTexts
  ChartEntries = {"chart"}
  Mirrors = {"m"}
  Commanders = {c1, c2}
  MaxCommands = 2
  Charts = {"a", "b"}
  Forwarded = {"a"}
  Processes = {"p", "q"}
  Release <- MCRelease
  CI = FALSE
  NumPackages = 3
  Namings <- MCNamings
  Datasets = {"d1", "d2"}
  Interfaces <- MCInterfaces
SYMMETRY Symmetry
INVARIANTS
  EffectiveIsConfigured
  OrderIsTopological
  FilterKeepsAncestors
  MultiRunIsSound
  MergedIsEffective
PROPERTIES
  CommandTouchesItsKey
  StartedIsComplete
  OnlyLeftoversBlock
  StoppedIsStopped
CHECK_DEADLOCK FALSE
