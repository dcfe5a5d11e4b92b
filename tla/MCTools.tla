------------------------------ MODULE MCTools ------------------------------
(***************************************************************************)
(* Dev seeding, the overrides of a dk.yaml, and two parts of the SDK that  *)
(* no command uses yet, health checks and run records, for TLC.  They      *)
(* share no state, so a behaviour is of one of them, chosen at the start.  *)
(***************************************************************************)
EXTENDS Seed, HealthProbe, RunRecords, Overrides, TLC

VARIABLE part    \* "seed", "probe", "records" or "overrides"

allVars == <<vars, probeVars, recordVars, overrideVars, part>>

-----------------------------------------------------------------------------
(* Constants of Overrides: a dk.yaml with a list, override files that      *)
(* replace, extend or clear its values, and --set paths that name map keys *)
(* and list elements, inside the document and past its end.                *)
MCNames == {"metadata", "spec", "name", "labels", "l", "image", "tag", "env"}
Filled(f) == Map(f @@ [k \in MCNames |-> Nothing])
Entry(k, v) == Filled(k :> v)
MCDocuments ==
  {NilDocument,
   Filled("metadata" :> Entry("name", Scalar("n")) @@
          "spec" :> Filled("image" :> Scalar("i") @@
                           "env" :> List(<<Entry("name", Scalar("a"))>>)))}
MCFiles ==
  {Entry("spec", Entry("env", List(<<Entry("name", Scalar("b"))>>))),
   Entry("spec", Filled("env" :> Entry("name", Scalar("c")) @@ "image" :> Filled(<<>>))),
   Entry("spec", Scalar("s")),
   Entry("metadata", Entry("labels", Entry("l", Scalar("x"))))}

Setting(path, v) == [path |-> path, value |-> Scalar(v)]
MCSettings ==
  {Setting(<<Key("spec"), Key("image")>>, "j"),
   Setting(<<Key("spec"), Key("image"), Key("tag")>>, "t"),
   Setting(<<Key("spec"), Element("env", 1), Key("name")>>, "d"),
   Setting(<<Key("spec"), Element("env", 0)>>, "e"),
   Setting(<<Key("spec"), Key("env"), Key("name")>>, "f"),
   Setting(<<Element("metadata", 0), Key("name")>>, "g"),
   Setting(<<Key("metadata"), Key("labels"), Key("l")>>, "y"),
   Setting(<<Key("spec"), Element("env", -1)>>, "h"),
   Setting(<<Key("image")>>, "k")}

\* Every place of those documents that a value can be at.
InSpec(rest) == <<ByKey("spec")>> \o rest
MCAddresses ==
  {<<ByKey("metadata")>>, <<ByKey("metadata"), ByKey("name")>>,
   <<ByKey("metadata"), ByIndex(1), ByKey("name")>>,
   <<ByKey("metadata"), ByKey("labels"), ByKey("l")>>,
   InSpec(<<>>), InSpec(<<ByKey("image")>>),
   InSpec(<<ByKey("env")>>), InSpec(<<ByKey("env"), ByKey("name")>>)}
    \cup {InSpec(<<ByKey("env"), ByIndex(i)>>) : i \in 1 .. 3}
    \cup {InSpec(<<ByKey("env"), ByIndex(i), ByKey("name")>>) : i \in 1 .. 3}

-----------------------------------------------------------------------------
\* The parts that a behaviour is not of stay in an initial state.
AllInit ==
  /\ part \in {"seed", "probe", "records", "overrides"}
  /\ part # "seed" => source = [f \in Profiles |-> 0]
  /\ part # "probe" =>
       use = "wait" /\ probe = [action |-> "nil", success |-> 0, failure |-> 0, delay |-> FALSE]
  /\ part # "records" => store = "memory"
  /\ part # "overrides" => original = NilDocument
  /\ Init /\ ProbeInit /\ RecordsInit /\ OverridesInit

AllNext ==
  \/ part = "seed" /\ Next /\ UNCHANGED <<probeVars, recordVars, overrideVars, part>>
  \/ part = "probe" /\ ProbeNext /\ UNCHANGED <<vars, recordVars, overrideVars, part>>
  \/ part = "records" /\ RecordsNext /\ UNCHANGED <<vars, probeVars, overrideVars, part>>
  \/ part = "overrides" /\ OverridesNext /\ UNCHANGED <<vars, probeVars, recordVars, part>>

AllSpec == AllInit /\ [][AllNext]_allVars

\* Callers, run IDs and clients differ in nothing but their name; there is no
\* liveness property.
Symmetry == Permutations(ProbeCallers) \cup Permutations(RunIds) \cup Permutations(Clients)

ToolsTypeOK == TypeOK /\ ProbeTypeOK /\ RecordsTypeOK /\ OverridesTypeOK
=============================================================================
