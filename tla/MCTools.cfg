\* Seeding: one developer who seeds the default profile, and whose edits of its rows
\* go forward; version 3 has no rows.  Two callers or clients each of the SDK's parts,
\* at most four checks of a probe, three runs and two completions, three overrides.
SPECIFICATION AllSpec
CONSTANTS
  Seeders = {s1}
  Profiles = {default}
  MaxVersion = 5
  Empties = {0, 3}
  Reverts = FALSE
  ProbeCallers = {a, b}
  Thresholds = {0, 2}
  MaxChecks = 4
  MaxPollers = 2
  RunIds = {i1, i2, i3}
  Clients = {c, d}
  MaxStarted = 3
  MaxCompleted = 2
  Deployed = {"dev"}
  Outcomes = {"success", "failure"}
  Names <- MCNames
  Depth = 6
  Documents <- MCDocuments
  OverrideFiles <- MCFiles
  Settings <- MCSettings
  Addresses <- MCAddresses
  MaxOverrides = 3
SYMMETRY Symmetry
INVARIANTS
  ToolsTypeOK
  ChecksAreTrusted
  StatusIsOfRuns
  OverridesAreExact
PROPERTIES
  SkippedIsExact
CHECK_DEADLOCK FALSE
