------------------------------- MODULE MCRuns -------------------------------
(***************************************************************************)
(* Executions of packages, for TLC: independent runs of one package,       *)
(* multi-transform runs, CloudQuery and dbt runs, and the heartbeat of a   *)
(* streaming run.  A behaviour is of one of these, which share no state    *)
(* but for the runs of packages.                                           *)
(***************************************************************************)
EXTENDS MultiRun, CloudQuery, Heartbeat

VARIABLE part    \* "runs", "multi", "sync" or "heartbeat"

allVars == <<vars, graphVars, cqVars, heartbeatVars, part>>

\* Two packages in and against alphabetical order, or of one name; none reads what
\* it writes (MCLocal has those).
MCNamings == {<<1, 2>>, <<2, 1>>, <<1, 1>>}
MCInterfaces == {i \in [inputs : SUBSET Datasets, outputs : SUBSET Datasets] :
                   i.inputs \cap i.outputs = {}}

\* Stores with connectors of their own, and transforms of two inputs, of two
\* inputs from one store's namesakes in two cells, and within one connector.
MCStoreOf == [d \in {"events", "users", "report"} |->
                CASE d = "events" -> "kafka" [] d = "users" -> "pg" [] OTHER -> "lake"]
MCConnectorOf == [s \in {"kafka", "pg", "lake"} |->
                    CASE s = "kafka" -> "kafka" [] s = "pg" -> "postgres" [] OTHER -> "s3"]
Ref(dataset, cell) == [dataset |-> dataset, cell |-> cell]
MCTransforms ==
  {[inputs |-> <<Ref("events", "unset"), Ref("users", "unset")>>,
    outputs |-> <<Ref("report", "unset")>>],
   [inputs |-> <<Ref("events", "unset"), Ref("events", "east")>>,
    outputs |-> <<Ref("report", "unset")>>],
   [inputs |-> <<Ref("users", "unset")>>, outputs |-> <<Ref("users", "east")>>]}

\* The parts that a behaviour is not of stay in an initial state.
AllInit ==
  /\ part \in {"runs", "multi", "sync", "heartbeat"}
  /\ part # "multi" =>
       /\ names = [p \in Packages |-> p]
       /\ interface = [p \in Packages |-> [inputs |-> {}, outputs |-> {}]]
  /\ MultiInit /\ CqInit /\ NewHeartbeat

AllNext ==
  \/ part = "runs" /\ Next /\ UNCHANGED <<graphVars, cqVars, heartbeatVars, part>>
  \/ part = "multi" /\ MultiNext /\ UNCHANGED <<cqVars, heartbeatVars, part>>
  \/ part = "sync" /\ CqNext /\ UNCHANGED <<vars, graphVars, heartbeatVars, part>>
  \/ part = "heartbeat" /\ HeartbeatNext /\ UNCHANGED <<vars, graphVars, cqVars, part>>

AllSpec == AllInit /\ [][AllNext]_allVars /\ Fairness /\ HeartbeatFairness

RunsTypeOK == TypeOK /\ HeartbeatTypeOK
=============================================================================
