\* Promotions of two versions, in the same second or not, and edits of the
\* overrides; two publishers of two versions, one edit and two commands;
\* two dk lock and two changes of a package.
SPECIFICATION AllSpec
CONSTANTS
  Promotions = {p1, p2}
  Versions = {v1, v2}
  NoVersion = NoVersion
  Seconds = {t1, t2}
  MaxEdits = 2
  ReadsFail = FALSE
  Reverts = FALSE
  PackageVersions = {w1, w2}
  Files = {"src", "schema", "ignored", "schemas.sql"}
  Sort <- MCSort
  Publishers = {d1, d2}
  MaxChanges = 1
  MaxCommands = 2
  Manifests <- MCManifests
  DatasetFiles <- MCDatasetFiles
  DatasetDirs <- MCDatasetDirs
  SchemaDirs <- MCSchemaDirs
  Constraints <- MCConstraints
  Lockers = {k, l}
  MaxPackageEdits = 2
SYMMETRY Symmetry
INVARIANTS
  TypeOK
  ProposalIsExact
  CalmBundlesAreWhole
  TextIsKept
  VerifiedLints
  LintsAgree
PROPERTIES
  OverridesPreserved
  TagsAreImmutable
  PublishesWhole
CHECK_DEADLOCK FALSE
