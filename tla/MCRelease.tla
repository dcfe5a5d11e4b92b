----------------------------- MODULE MCRelease -----------------------------
(***************************************************************************)
(* The way of a package out of its directory, for TLC: judging and locking *)
(* it, publishing it to a registry, and promoting it to a cell.  Nothing   *)
(* in dk joins these: dk publish does not ask whether dk build accepts the *)
(* package, nor a promotion whether its version is published, so that a    *)
(* behaviour is of one of them, chosen at the start.                       *)
(***************************************************************************)
EXTENDS Promotion, Publish, Packages, TLC

VARIABLE part    \* "package", "publish" or "promote"

allVars == <<vars, publishVars, packageVars, part>>

\* One file of each sort.
MCSort == [f \in {"src", "schema", "ignored", "schemas.sql"} |->
             CASE f = "src" -> "source" [] f = "schema" -> "schemas"
               [] f = "ignored" -> "excluded" [] OTHER -> "schemas-like"]

-----------------------------------------------------------------------------
(* Constants of Packages: a good manifest of each kind, and some with      *)
(* issues of every code.                                                   *)
Dependency(d) == [dataset |-> d, tags |-> FALSE, version |-> "", schema |-> <<>>]
Trigger == [policy |-> "manual", schedule |-> FALSE, policies |-> {}]
Transform ==
  [kind |-> "Transform", name |-> "t", namespace |-> "", version |-> "1.0.0",
   runtime |-> "dbt", image |-> "i", mode |-> "", timeout |-> "1h", trigger |-> <<Trigger>>,
   inputs |->
     <<[Dependency("") EXCEPT !.tags = TRUE, !.schema = <<"events", "^", "2">>]>>,
   outputs |-> <<Dependency("users")>>]
Connector ==
  [kind |-> "Connector", name |-> "c", version |-> "", type |-> "postgres",
   capabilities |-> {"source"}, provider |-> "", tools |-> {}]
Store ==
  [kind |-> "Store", name |-> "s", namespace |-> "", connector |-> "c",
   connection |-> {"url"}, connectorVersion |-> "", secrets |-> {"x"}]
Dataset ==
  [apiVersion |-> "v1alpha1", kind |-> "DataSet", name |-> "d", namespace |-> "",
   version |-> "", store |-> "s", located |-> TRUE, classification |-> "",
   ref |-> <<>>, schema |-> <<[name |-> "id", type |-> "int"]>>]
Group ==
  [kind |-> "DataSetGroup", name |-> "g", namespace |-> "", store |-> "s",
   datasets |-> {"users"}]

MCManifests ==
  {BrokenFile, [kind |-> "Transform"],
   Transform,
   [Transform EXCEPT !.trigger = <<>>],
   [Transform EXCEPT !.image = "", !.runtime = "cloudquery"],
   [Transform EXCEPT !.image = "", !.runtime = "generic-go"],
   [Transform EXCEPT !.runtime = "", !.mode = "hourly", !.timeout = "?"],
   [Transform EXCEPT !.outputs = <<>>, !.inputs = <<Dependency("")>>, !.version = "?"],
   [Transform EXCEPT !.inputs =
      <<[Dependency("users") EXCEPT !.tags = TRUE, !.schema = <<"users", "", "">>],
        [Dependency("users") EXCEPT !.version = "1"]>>],
   [Transform EXCEPT !.trigger = <<[Trigger EXCEPT !.policy = "schedule"]>>],
   [Transform EXCEPT !.trigger =
      <<[Trigger EXCEPT !.policy = "composite", !.policies = {"composite"}]>>],
   Connector,
   [Connector EXCEPT !.capabilities = {"sink"}, !.tools = {[name |-> "", type |-> "exec"]}],
   Store, [Store EXCEPT !.secrets = {""}, !.connection = {}],
   Dataset, [Dataset EXCEPT !.ref = <<"events">>],
   Group, [Group EXCEPT !.datasets = {}]}

MCDatasetFiles ==
  {BrokenFile, Dataset,
   [Dataset EXCEPT !.schema = <<>>, !.ref = <<"users", "~", "1">>],
   [Dataset EXCEPT !.kind = "", !.name = "?", !.ref = <<"", "", "1">>],
   [Dataset EXCEPT !.classification = "secret",
      !.schema = <<[name |-> "id", type |-> "int"], [name |-> "id", type |-> ""]>>]}

MCSchemaDirs ==
  {{<<".avsc", "ok">>, <<".json", "bad">>}, {<<".proto", "unreadable">>, <<".md", "bad">>}}
MCDatasetDirs == <<"events", "users">>
MCConstraints == {<<>>, <<"^", "1">>}

-----------------------------------------------------------------------------
\* The parts that a behaviour is not of stay in an initial state; a package starts
\* as a good Transform.
AllInit ==
  /\ part \in {"package", "publish", "promote"}
  /\ part # "promote" => main = NoFile
  /\ dkYaml = Transform
  /\ Init /\ PublishInit /\ PackagesInit

AllNext ==
  \/ part = "package" /\ PackagesNext /\ UNCHANGED <<vars, publishVars, part>>
  \/ part = "publish" /\ PublishNext /\ UNCHANGED <<vars, packageVars, part>>
  \/ part = "promote" /\ Next /\ UNCHANGED <<publishVars, packageVars, part>>

AllSpec == AllInit /\ [][AllNext]_allVars

\* Processes, versions that are published and seconds differ in nothing but their
\* name; there is no liveness property.
Symmetry ==
  Permutations(Promotions) \cup Permutations(Seconds) \cup Permutations(Lockers)
    \cup Permutations(Publishers) \cup Permutations(PackageVersions)
=============================================================================
