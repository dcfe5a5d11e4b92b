------------------------ MODULE MCPackageDeployment ------------------------
(***************************************************************************)
(* Instances of PackageDeployment for TLC.                                 *)
(***************************************************************************)
EXTENDS PackageDeployment

S(named, mode, cron, suspend) ==
  [named |-> named, mode |-> mode, cron |-> cron, suspend |-> suspend]

\* Three specs that between them go through every handler: one that fails
\* validation and, written while a pull is under way, is left to its schedule;
\* one of the default mode; a streaming one whose schedule is ignored.
MCSpecs ==
  {S(FALSE, "batch", TRUE, FALSE), S(TRUE, "", FALSE, FALSE),
   S(TRUE, "streaming", TRUE, FALSE)}
=============================================================================
