----------------------------- MODULE CloudQuery -----------------------------
(***************************************************************************)
(* Runs of CloudQuery and dbt transforms: runCloudQuery and runDBT in      *)
(* sdk/runner/docker.go, with the generated configuration of               *)
(* sdk/runner/cqconfig.go.                                                 *)
(*                                                                         *)
(* A CloudQuery run puts its configuration into a ConfigMap, starts a Job  *)
(* with one sidecar for each plugin, follows the Job's logs, asks whether  *)
(* the Job has succeeded and deletes both.  Job and ConfigMap bear the     *)
(* run's ID, which two runs of a package in the same second share.  Each   *)
(* kubectl call may fail, also after it has had its effect, and the dk     *)
(* process may be interrupted; the Job then goes on.                       *)
(***************************************************************************)
EXTENDS Naturals, Sequences, SequencesExt, FiniteSets

CONSTANTS
  Cells,         \* of stores; one of them is the run's own
  RunCell,       \* the cell of --cell, or what stands for the package's store/
  StoreOf,       \* the name of each dataset's store
  ConnectorOf,   \* the connector of each store name
  Transforms,    \* records of two sequences of references, inputs and outputs
  Syncs,         \* dk processes, each with one run
  SyncIds        \* what GenerateRunID returns

ASSUME CloudQueryAssumption ==
  /\ RunCell \in Cells
  /\ \A t \in Transforms : \A ref \in Range(t.inputs \o t.outputs) :
       ref.dataset \in DOMAIN StoreOf /\ ref.cell \in Cells \cup {"unset"}
  /\ Range(StoreOf) \subseteq DOMAIN ConnectorOf
  /\ "none" \notin Syncs

-----------------------------------------------------------------------------
(* cqconfig.go: the documents of the configuration, and their plugins. *)

\* resolveStore: a reference names its cell, or the run's.
resolveStore(ref) == [cell |-> IF ref.cell = "unset" THEN RunCell ELSE ref.cell,
                      name |-> StoreOf[ref.dataset]]

\* A document for each connector and store name, in order of first use, with the
\* first such store's connection.
Documents(side, refs) ==
  LET add(docs, ref) ==
        LET store == resolveStore(ref)
            same == {i \in DOMAIN docs : docs[i].store.name = store.name}
        IN IF same = {}
           THEN Append(docs, [kind |-> side, name |-> ConnectorOf[store.name],
                              store |-> store, tables |-> <<ref.dataset>>])
           ELSE [docs EXCEPT ![CHOOSE i \in same : TRUE].tables = Append(@, ref.dataset)]
  IN FoldLeft(add, <<>>, refs)

\* The plugin of the i-th document serves on the i-th port, source or destination.
generateCQConfigWithCell(t) == Documents("source", t.inputs) \o Documents("destination", t.outputs)

\* Mutant: ports are counted anew for destinations.
rewriteCQConfigForGRPCAnew(docs) ==
  [i \in DOMAIN docs |->
     Cardinality({j \in DOMAIN docs : j <= i /\ docs[j].kind = docs[i].kind})]

\* The port each document is sent to: that of the last plugin of its name.
rewriteCQConfigForGRPC(docs) ==
  [i \in DOMAIN docs |->
     CHOOSE j \in DOMAIN docs :
       /\ docs[j].name = docs[i].name
       /\ \A k \in DOMAIN docs \ {j} : docs[k].name = docs[i].name => k < j]

\* Sidecars are named after their connectors; Kubernetes wants distinct names.
ValidJob(t) == IsInjective([i \in DOMAIN generateCQConfigWithCell(t) |->
                              generateCQConfigWithCell(t)[i].name])

-----------------------------------------------------------------------------
(* The runs. *)

VARIABLES
  sync,         \* each run: where it is, its ID, its transform and its status
  configMaps,   \* the run that created each ID's ConfigMap
  jobs,         \* each ID's Job: the run that created it, and its state
  synced        \* runs whose Job, or dbt, has succeeded

cqVars == <<sync, configMaps, jobs, synced>>

NoJob == [of |-> "none", state |-> "none"]

CqInit ==
  /\ sync = [p \in Syncs |-> [pc |-> "begin", status |-> "none", faulty |-> FALSE]]
  /\ configMaps = [i \in SyncIds |-> "none"]
  /\ jobs = [i \in SyncIds |-> NoJob]
  /\ synced = {}

Step(p, from, to) == sync[p].pc = from /\ sync' = [sync EXCEPT ![p].pc = to]
StepFaulty(p, from, to) ==
  sync[p].pc = from /\ sync' = [sync EXCEPT ![p].pc = to, ![p].faulty = TRUE]

\* The run is registered as running.  What goes wrong earlier has no effects.
Register(p, i, t, first) ==
  /\ sync[p].pc = "begin"
  /\ sync' = [sync EXCEPT ![p] = [pc |-> first, status |-> "running", faulty |-> FALSE,
                                  id |-> i, transform |-> t]]
  /\ UNCHANGED <<configMaps, jobs, synced>>

RunCloudQuery(p, i, t) == Register(p, i, t, "verify")

DryRunSync(p) ==
  /\ sync[p].pc \in {"verify", "profiles"}
  /\ sync' = [sync EXCEPT ![p].pc = "returned", ![p].status = "dry run"]
  /\ UNCHANGED <<configMaps, jobs, synced>>

\* An early error leaves the registered run as it is.
VerifyCluster(p) ==
  /\ Step(p, "verify", "configmap") \/ StepFaulty(p, "verify", "error")
  /\ UNCHANGED <<configMaps, jobs, synced>>

\* There is no cleanup after an error.
CreateConfigMap(p) ==
  /\ \/ /\ sync[p].pc = "configmap" /\ configMaps[sync[p].id] = "none"
        /\ configMaps' = [configMaps EXCEPT ![sync[p].id] = p]
        /\ Step(p, "configmap", "apply") \/ StepFaulty(p, "configmap", "error")
     \/ /\ sync[p].pc = "configmap" /\ configMaps[sync[p].id] # "none"
        /\ Step(p, "configmap", "error")
        /\ UNCHANGED configMaps
     \/ StepFaulty(p, "configmap", "error") /\ UNCHANGED configMaps
  /\ UNCHANGED <<jobs, synced>>

\* Mutant: an error returns at once.
ApplyJobUnclean(p) ==
  /\ \/ /\ sync[p].pc = "apply" /\ jobs[sync[p].id] = NoJob /\ ValidJob(sync[p].transform)
        /\ jobs' = [jobs EXCEPT ![sync[p].id] = [of |-> p, state |-> "active"]]
        /\ Step(p, "apply", "logs")
     \/ Step(p, "apply", "error") /\ UNCHANGED jobs
  /\ UNCHANGED <<configMaps, synced>>

\* kubectl apply of a Job that exists may find it unchanged.
ApplyJob(p) ==
  /\ \/ /\ sync[p].pc = "apply" /\ jobs[sync[p].id] = NoJob /\ ValidJob(sync[p].transform)
        /\ jobs' = [jobs EXCEPT ![sync[p].id] = [of |-> p, state |-> "active"]]
        /\ Step(p, "apply", "logs") \/ StepFaulty(p, "apply", "delete job")
     \/ /\ sync[p].pc = "apply" /\ jobs[sync[p].id] # NoJob
        /\ Step(p, "apply", "logs")
        /\ UNCHANGED jobs
     \/ Step(p, "apply", "delete job") /\ UNCHANGED jobs
  /\ UNCHANGED <<configMaps, synced>>

\* The pod starts, or not in time; its logs end with it, or earlier when the
\* connection is lost or the run's time is up.
FollowLogs(p) ==
  /\ Step(p, "logs", "status")
  /\ UNCHANGED <<configMaps, jobs, synced>>

\* Mutant: a Job that is not known to have failed has succeeded.
JobSucceededUnlessFailed(p) ==
  /\ sync[p].pc = "status"
  /\ sync' = [sync EXCEPT ![p].pc = "delete job",
                ![p].status = IF jobs[sync[p].id].state = "failed" THEN "failed" ELSE "completed"]
  /\ UNCHANGED <<configMaps, jobs, synced>>

\* It may have succeeded without kubectl saying so in time.
JobSucceeded(p) ==
  /\ sync[p].pc = "status"
  /\ \E answer \in {"completed", "failed"} :
       /\ answer = "completed" => jobs[sync[p].id].state = "succeeded"
       /\ sync' = [sync EXCEPT ![p].pc = "delete job", ![p].status = answer]
  /\ UNCHANGED <<configMaps, jobs, synced>>

\* cleanup, after the run or after an error of ApplyJob: errors are ignored.
DeleteJob(p) ==
  /\ \/ /\ Step(p, "delete job", "delete config")
        /\ jobs' = [jobs EXCEPT ![sync[p].id] = NoJob]
     \/ StepFaulty(p, "delete job", "delete config") /\ UNCHANGED jobs
  /\ UNCHANGED <<configMaps, synced>>

\* Mutant: the ConfigMap goes first.
DeleteConfigMapFirst(p) ==
  /\ sync[p].pc = "delete job"
  /\ configMaps' = [configMaps EXCEPT ![sync[p].id] = "none"]
  /\ UNCHANGED <<sync, jobs, synced>>

\* Then Run returns, without a result if the Job could not be applied.
DeleteConfigMap(p) ==
  LET end == IF sync[p].status = "running" THEN "error" ELSE "returned"
  IN /\ \/ /\ Step(p, "delete config", end)
           /\ configMaps' = [configMaps EXCEPT ![sync[p].id] = "none"]
        \/ StepFaulty(p, "delete config", end) /\ UNCHANGED configMaps
     /\ UNCHANGED <<jobs, synced>>

RunDBT(p, i, t) == Register(p, i, t, "profiles")

GenerateProfiles(p) ==
  /\ Step(p, "profiles", "dbt") \/ StepFaulty(p, "profiles", "error")
  /\ UNCHANGED <<configMaps, jobs, synced>>

DbtEnds(p) ==
  /\ sync[p].pc = "dbt"
  /\ \E ok \in BOOLEAN :
       /\ sync' = [sync EXCEPT ![p].pc = "returned",
                               ![p].status = IF ok THEN "completed" ELSE "failed"]
       /\ synced' = IF ok THEN synced \cup {p} ELSE synced
  /\ UNCHANGED <<configMaps, jobs>>

InterruptSync(p) ==
  /\ sync[p].pc \notin {"begin", "returned", "error", "dead"}
  /\ sync' = [sync EXCEPT ![p].pc = "dead"]
  /\ UNCHANGED <<configMaps, jobs, synced>>

\* A pod needs its ConfigMap to start.  The Job does not retry.
JobEnds(i) ==
  /\ jobs[i].state = "active" /\ configMaps[i] # "none"
  /\ \E state \in {"succeeded", "failed"} :
       /\ jobs' = [jobs EXCEPT ![i].state = state]
       /\ synced' = IF state = "succeeded" THEN synced \cup {jobs[i].of} ELSE synced
  /\ UNCHANGED <<sync, configMaps>>

CqNext ==
  \/ \E p \in Syncs :
       \/ \E i \in SyncIds, t \in Transforms : RunCloudQuery(p, i, t) \/ RunDBT(p, i, t)
       \/ DryRunSync(p) \/ VerifyCluster(p) \/ CreateConfigMap(p) \/ ApplyJob(p)
       \/ FollowLogs(p) \/ JobSucceeded(p) \/ DeleteJob(p) \/ DeleteConfigMap(p)
       \/ GenerateProfiles(p) \/ DbtEnds(p) \/ InterruptSync(p)
  \/ \E i \in SyncIds : JobEnds(i)

CqSpec == CqInit /\ [][CqNext]_cqVars

-----------------------------------------------------------------------------
(* Properties. *)

\* A run that cannot be trusted to have cleaned up.
Untidy(q) == sync[q].faulty \/ sync[q].pc = "dead"

\* A run that reports success has synchronised its data, or else one with its ID
\* has, whose Job was left behind by a call that failed or an interruption.
CompletedMeansSynced ==
  \A p \in Syncs :
    sync[p].status = "completed" =>
      \/ p \in synced
      \/ \E q \in synced \ {p} : Untidy(q) /\ sync[q].id = sync[p].id

\* "removes ConfigMap and Job on exit": a run that has ended, that was not
\* interrupted and none of whose calls failed unexplained leaves neither.
NothingIsLeft ==
  \A p \in Syncs :
    sync[p].pc \in {"returned", "error"} /\ ~sync[p].faulty =>
      \A i \in SyncIds : configMaps[i] # p /\ jobs[i].of # p

\* The ConfigMap is created before the Job and deleted after it, whichever runs
\* have its name: no Job waits for a ConfigMap that is gone, unless it could not
\* be deleted itself.
JobsHaveTheirConfig ==
  \A i \in SyncIds : jobs[i] # NoJob => configMaps[i] # "none" \/ sync[jobs[i].of].faulty

\* "CloudQuery connects to sidecar containers": each document is sent to the port
\* of its own plugin, in every Job that Kubernetes accepts.
DocumentsReachTheirPlugins ==
  \A p \in Syncs :
    sync[p].pc = "logs" /\ jobs[sync[p].id].of = p =>
      LET docs == generateCQConfigWithCell(sync[p].transform)
      IN \A i \in DOMAIN docs : rewriteCQConfigForGRPC(docs)[i] = i

\* DataSetRef.Cell: "When set, the Store is resolved from the named cell's
\* namespace. This enables cross-cell transforms (fan-out, fan-in, routing)": every
\* dataset a transform refers to is read from, or written to, the store its
\* reference resolves to.
RefsReachTheirStores ==
  \A p \in Syncs :
    sync[p].pc = "logs" /\ jobs[sync[p].id].of = p =>
      LET t == sync[p].transform
          docs == generateCQConfigWithCell(t)
          Reaches(side, ref) ==
            \E i \in DOMAIN docs : /\ docs[i].kind = side
                                   /\ docs[i].store = resolveStore(ref)
                                   /\ ref.dataset \in Range(docs[i].tables)
      IN /\ \A ref \in Range(t.inputs) : Reaches("source", ref)
         /\ \A ref \in Range(t.outputs) : Reaches("destination", ref)
=============================================================================
