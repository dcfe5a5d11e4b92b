# Verification of the data platform kit

TLA+ models of the DataKit platform: the `dk` command line tool with its SDK, and the Kubernetes
controller of `PackageDeployment` objects. TLC checks the models on small instances; TLAPS proves
every safety property of the passing runs for every value of the constants. Paths below are those of
the repository.

## Inventory

| Component | State | Operations | Hard behaviour | What makes it correct |
|---|---|---|---|---|
| **PackageDeployment controller** `platform/controller` (Go, about 1,900 lines) | status of each object in the API server; each replica's informer cache, work queue, delayed requeues | `Reconcile` and one handler for each phase; restart | stale caches, conflicts, lost replies, two replicas (leader election is off by default), edits between phases | a truthful status, no lost wake-up, phases only advance, every object settles |
| **Workload generators** `job.go`, `deployment.go` | none | `Generate`, `GenerateCronJob` | guards on the mode | never called for the wrong mode |
| **Runner** `sdk/runner` (3,260 lines): Docker runs of Transform packages | `RunResult` of each run; the docker client; the container; lineage events | `Run`, `RunBatch`, `RunStreaming`, `Stop`; `dk run`, `dk test` | client and container die independently, timeouts, signals racing exits, equal run IDs | lineage agrees with the result, success means success, a run ends |
| **Runner**: CloudQuery and dbt runs | the same, and a Kubernetes Job and ConfigMap | `runCloudQuery`, `runDBT` | error paths that leave a run "running", clean-up | every run ends with a status and a clean cluster |
| **Runner**: health checks `health.go` | counters of successes and failures, the poller's goroutine | `WaitForHealthy`, `Start`, `Stop` | thresholds, stop before start | a verdict respects its thresholds, stop ends |
| **Dev seeding** `sdk/runner/seed.go` | table, `_dp_seed_meta`, manifests | `SeedPackage` | three execs without a transaction, best-effort errors, pod restarts, profiles | a skipped seeding has nothing to do |
| **Promotion** `sdk/promotion` (1,040 lines), `dk promote`, `dk rollback` | base branch, promotion branches, pull requests | `Promote`, merge | six requests without a transaction, other writers in between, lost replies | a pull request proposes what was asked; overrides survive |
| **Publishing** `sdk/registry` (1,020 lines), `dk publish` | tags and manifests in a registry | `Exists`, `Push`, `Resolve` | check, then push; every error reads as "absent" | a published version never changes |
| **Local dev stack** `sdk/localdev` (3,400 lines), `dk dev` | cluster, charts, registry cache container, port forwards | `Up`, `Down`, `Status` | partial failures, tools killed half-way, parallel commands, children of a process that exits | a started stack is complete, what may block the next command is known, `down` removes |
| **Configuration** `sdk/localdev/config.go` | three YAML files | load, set, unset, save | read-modify-write without a lock, truncated and malformed files | what is in effect was configured, and all readers agree on it |
| **Pipeline graph** `sdk/pipeline` (620 lines), multi-transform `dk run` | none; the results of the packages run so far | `BuildGraph`, `TopologicalSort`, `runMultiTransform` | cycles, two producers, a failure in the middle | order respects dependencies; nothing runs after a failed input |
| **Lineage** `sdk/lineage` (1,210 lines) | heartbeat goroutine | emit; `Start`, `Stop` | restart after stop, concurrent stops | no heartbeat after `Stop` returns, no panic |
| **Run records** `sdk/runs` (760 lines) | map of records, or a table | create, update, complete, list | shared pointers, unordered listing, rows that cannot be read, constant "random" suffix | what is stored was reported by one caller; a failed newest run shows |
| **Manifest overrides** `sdk/manifest/merge.go`, `dk run --set`, `-f` | `dk.yaml` and its backup | `DeepMerge`, `SetPath`, `applyOverrides` | maps, lists and scalars in each other's place; the file is overwritten in place | what is not overridden stays |
| **Validation and schema lock** `sdk/validate` (1,500 lines), `sdk/schema`, `dk lint`, `dk dataset`, `dk lock` | `dk.yaml`, `datasets/`, `schemas/`, `dk.lock` | lint, validate, lock, `lock --verify` | four commands with verdicts of their own; edits during a lock | the verdicts agree; what is verified lints |
| **Datasets** `sdk/dataset` | `datasets/<name>/dataset.yaml` | load, scaffold, add | errors of one file hide others | part of the above |
| **Catalog, metrics, logging, contracts** | none of their own | HTTP calls, printing, types | – | not modelled |
| **GitOps** `gitops/` | base branch, Argo CD, Helm chart, CRDs | external | – | joins Promotion to PackageDeployment |

How they interact. `dk publish` pushes a package to the registry. `dk promote` writes its version
into `gitops/envs/<env>/cells/<cell>/apps/<pkg>/values.yaml` by pull request. Argo CD's
ApplicationSet watches that tree on `main` and applies a `PackageDeployment` rendered from it, which
the controller takes through its phases. On a developer's machine `dk dev up` creates a cluster, `dk
dev seed` (or `dk run` of a CloudQuery package) fills its database, and `dk run` and `dk test`
execute a package in docker and emit lineage, CloudQuery packages as Jobs in that cluster. `dk
lint`, `dk build` and `dk lock` judge the package that `dk publish` reads. Components meet through
these stores only: there are no calls between the processes. Heartbeat, health checks and run
records are parts of the SDK that no command calls yet; they are modelled with callers that use
their exported functions in any order.

## Modules

| Module | Models |
|---|---|
| `Lifecycle` | what the controller promises of an object: an abstract specification |
| `PackageDeployment` | the controller with its replicas, the API server and the users; it implements `Lifecycle` |
| `PackageDeploymentProofs` | theorems about it |
| `MCPackageDeployment` | its instances for TLC |
| `PipelineRun`, `MCPipelineRun` | runs of Transform packages by the Docker runner, `dk test` |
| `PipelineGraph` | the graph of transforms and datasets, its order, the loop of `dk run --scan-dir` |
| `Induction` | induction over numbers, for the proofs about recursive functions |
| `PipelineGraphProofs` | theorems about `PipelineGraph` |
| `MultiRun` | that loop with a `PipelineRun` for each package |
| `CloudQuery` | CloudQuery and dbt runs: configuration, ConfigMap and Job |
| `Heartbeat` | the heartbeat of a streaming run |
| `MCRuns` | `PipelineRun`, `MultiRun`, `CloudQuery` and `Heartbeat`, for TLC |
| `RunsProofs` | theorems about `PipelineRun`, `CloudQuery`, `Heartbeat`, `MultiRun` and their composition |
| `Seed`, `MCSeed` | dev seeding of one table |
| `HealthProbe` | health checks of a container: waiting and polling |
| `RunRecords` | records of runs in memory or Postgres, and the health computed of them |
| `Overrides` | overrides of `dk.yaml` by files and paths |
| `OverridesProofs` | theorems about it |
| `MCTools` | `Seed` and the three above, for TLC |
| `ToolsProofs` | theorems about `Seed`, `HealthProbe`, `RunRecords` and all four together |
| `Promotion`, `MCPromotion` | promotions to one cell by pull request, and the GitHub repository |
| `Registry` | what publishing promises: an abstract specification |
| `Publish` | the package directory, `dk publish`, the registry; it implements `Registry` |
| `Packages` | `dk lint`, `dk build`, `dk dataset` and `dk lock` on a package directory |
| `ReleaseProofs` | theorems about `Promotion`, `Publish` and `Packages` |
| `MCRelease` | `Promotion`, `Publish` and `Packages`, for TLC |
| `Config` | the configuration in its scopes, `dk config` |
| `DevStack` | `dk dev up` and `dk dev down` |
| `MCLocal` | `Config`, `DevStack` and `PipelineGraph`, for TLC |
| `LocalProofs` | theorems about `Config` and `DevStack` |

`MCRuns`, `MCTools`, `MCRelease` and `MCLocal` hold several components that share no state. A
behaviour is of one of them, chosen in the initial state by the variable `part`, while the others
stay in their initial state: their interleavings would multiply the states and show nothing. Where
components share state the composition is a real one: `MultiRun` composes the loop with the runs
that it starts, and `Publish` has publishers and `dk run` with overrides on one directory.

Definitions marked *Mutant* in the modules are plausible mistakes in the definition after them. Each
property is known to fail for one of them; `PROJECT.json` says which.

### PackageDeployment

*State.* `api` is the API server's view of each object: resource version, generation, spec, and of
the status the phase, `observedGeneration`, and reason and generation of the Ready condition. A spec
is what the handlers look at: whether name and version are set, the mode, whether there is a cron
expression and whether it is suspended. `cache`, `queue` and `timer` belong to each replica:
informer cache, work queue and names with a delayed add (`RequeueAfter`, or the back-off after an
error). `work` and `copy` are the request under way and the object that its `Get` returned.
`applied` is history: which spec each generation of the present object had.

*Actions.* `Apply` and `Delete` are what users do. `WatchEvent` and `TimerFires` fill the queue. A
`Reconcile` that writes nothing is one step (`ReconcileNotFound`, `ReconcileNoUpdate`); one that
goes on to `Status().Update` is two, since everything may happen in between: `BeginReconcile`, and
`StatusCommitted`, `StatusError` (a conflict or any other failure) or `StatusReplyLost` (stored, but
the call fails). The operators `HandlePending`, `HandlePulling`, `HandleReady`, ... are the handlers
as functions of the spec they read. The update is accepted only if the resource version is the one
read (`UpdateAccepted`). `Restart` forgets everything but the API server.

*Refinement.* `Lifecycle` is the promise: as if one process acted on an object in single steps, the
object goes from no phase to Pulling or Failed, from Pulling to Ready and from Ready to Running,
each time for a reason that its present spec gives, and says that it did so for its present
generation; users create, change and remove it at any time. `PackageDeployment` implements it
(`FollowsLifecycle`) under the mapping of a stored object to what its users see of it (`Seen`):
spec, generation, phase, reason and observed generation, or nothing. Everything else of the
controller, its caches, queues, copies, retries and resource versions, is hidden.

*External.* Informers, work queue and optimistic concurrency are controller-runtime's and the API
server's, which are not part of the repository. The one worker per replica is controller-runtime's
default, which `SetupWithManager` does not change. A watch delivers the latest state and may skip
intermediate ones; an object's deletion and creation again may appear as one change.

*Fairness.* `WF` on watch events, delayed adds and the return of an API call; `SF` on taking a name
from the queue, because the queue is first-in first-out and the single worker always returns; `SF`
on `StatusCommitted`: an update tried again and again with an up-to-date copy is stored and
acknowledged at last. Nothing is assumed of users and restarts.

*Bounds.* Two replicas, one of which restarts once, one object and two writes of three specs chosen
so that every handler and generator guard is evaluated; deletions come between. Objects do not
interact but for the worker, which takes them one by one, so that one object shows every race
between its readers and writers; the proofs are for any number.

*Not modelled.* The digest and pull of the package, which the code simulates; the default branch of
the phase switch, which the CRD's enumeration excludes; creation of Jobs, CronJobs and Deployments,
which the code leaves out. `gitops/crds/packagedeployment.yaml` has no `mode`: with that CRD, the
API server drops it and every deployment is a batch one, which is an instance of the model with
`Specs` restricted.

### PipelineRun

*State.* For each call of `Run`: `pc`, how it is run (`kind`: batch, streaming and attached,
detached, or detached by `dk test`), its run ID, `RunResult.Status`, what it returned, the docker
client (a child process), the container, and the lineage events it has emitted. Each call is made by
a `dk` process of its own; they share the docker daemon, where a container's name is its run ID.

*Actions.* `Begin` to `StartFails` are `Run` up to the start of the client, with each way to fail:
`BuildFails` is a failed build, which emits FAIL, or a build without the directory or the Dockerfile
it needs (`docker.go:157`, `docker.go:164`), which returns no result, emits nothing and leaves the
run registered as pending.
`CreateContainer`, `CreateFails`, `ContainerExits` and `ClientExits` are docker. `Timeout` kills the
client only. `ClientReturns`, `DetachedReturns`, `BeginDrain`, `EndDrain` are the three ways in
which a run comes back, `EndTest` is the end of `runStreamingTest`, `Signal` and `Crash` are a
SIGINT that is handled and a death that is not. Two runs that begin within a second have one ID.

*Fairness.* `dk` processes and the docker client take their next steps. `RunBatch`'s timeout is part
of the process: it is set unless `--timeout 0` is given, the default being 30 minutes. Containers
need not exit and users need not send a signal, so attached and detached runs may go on for ever.

*Bounds.* Two runs, two IDs: each run is a single pass through its states, and runs meet only
through a name that is taken, for which two are enough.

*Limits of the property.* `LineageMatchesResult` excepts just those two returns (`Untold`): no other
error of `Run` goes without a FAIL, and no FAIL comes without an error.

*Not modelled.* `Logs` and `Status`, which read; generated Dockerfiles.

### PipelineGraph and MultiRun

*State.* Packages are numbered in the order in which the scan meets them; `names` and `interface`
are what their manifests say. `plan`, `started` and `outcome` are the loop of `runMultiTransform`.
The graph, the filter and Kahn's algorithm are recursive functions over it.

*Actions.* `Plan` scans and sorts, `StartNext`, `Completes` and `Fails` are an iteration, `Summary`
the end. `MultiRun` lets a `PipelineRun` begin for the package the loop is at, and completes or
fails the iteration by what that run has returned. Docker, signals and timeouts strike as they do in
`PipelineRun`.

*Bounds.* Three packages with any inputs and at most one output each, of two datasets, and three
namings (in alphabetical order, out of it, one double) for the graph; two packages and one dataset,
which neither both reads and writes, with the runs. Three nodes have every cycle, double producer
and name that matters to an order; a dependency has two ends.

*Not modelled.* Every failed status of `DockerRunner` comes with an error, so that the loop's case
for it (`run.go:508`) is never taken. Cycles are no error: `TopologicalSort` leaves out what is on a
cycle or behind it, and so does the run, without a word; `MultiRunIsSound` says so by `Blocked`. Of
two packages with one name, one is run. A streaming transform that the user interrupts counts as
completed. `BuildGraph` keeps transforms and datasets under one kind of ID, so that a dataset with
the name of a transform would be the same node; in the model the two are apart.

### CloudQuery

*State.* `sync` is each run with its ID, transform and status; `configMaps` and `jobs` are the
cluster's objects by run ID; `synced` is history. References, stores and connectors are model data;
the generated configuration is the operators `Documents` and `rewriteCQConfigForGRPC`.

*Actions.* One for each `kubectl` call, with its failure before or after it had its effect
(`faulty`), for dbt's two steps, and `JobEnds` for the cluster. `InterruptSync` may come anywhere.

*Limits of the properties.* A failed clean-up call, an interruption, or a failed creation of the
ConfigMap leave things behind, which a later run with the same ID can take for its own:
`CompletedMeansSynced` and `NothingIsLeft` name exactly those. Documents are found by their plugin's
name, so that a transform with two stores of one connector on one side would send both to one port;
its sidecars have equal names then and Kubernetes refuses the Job (`ValidJob`), as it does for one
connector as source and destination. `RefsReachTheirStores` fails: see Findings.

*Not modelled.* `--cell` with dbt panics (`docker.go:897`, nil client); environment variables whose
names collide; the contents of the Job but for its sidecars' names. An early error leaves the run's
record as "running".

### Heartbeat

*State.* `running`, the two channels and the context of one `Heartbeat`; the goroutine of each life;
callers of `Stop` between the unlock and the close; the record count read and emitted.

*Actions.* `Start` and `Stop` decide under the mutex; `CloseStopCh` and `StopReturns` come later.
`ReadRecords`, `Emit`, `Tick`, `Leave` are the goroutine. A close of a closed channel ends the
program.

*Fairness.* Goroutines are scheduled, an emission ends because its HTTP client has a timeout, and
`select` takes a ready case sooner or later (`SF` on `Leave`): a uniform pseudo-random choice among
ready cases is the language's.

*Limits of the property.* `OneLifeIsSafe` is for one life: started again after a `Stop`, a heartbeat
panics since its channels are made once. After the context's end `running` stays true, so that
`Start` does nothing. A second `Stop` in parallel returns before the goroutine has ended.

### Seed

*State.* `source` is the version of the rows that the manifests have for each profile; `table` and
`meta` are the database; `pc`, `profile`, `rows` and `clean` belong to each seeder. Rows are
represented by profile and version, and a checksum by the rows: SHA-256 is taken as injective.
Versions with no rows exist because `SeedPackage` treats an empty list as "nothing to do".

*Actions.* `Edit` by developers, `Begin`, `Check`, `Write` and `Record` for the execs of one
seeding, each with its failure: an exec whose transaction is committed may still fail, the creation
of the meta table and the upsert are best-effort, `--force` and `--clean` skip the comparison.
`Crash` may come anywhere; `PodRestarts` empties the database, which has no persistent volume in dev
mode.

*Limits of the property.* `SkippedIsExact` holds for one seeder of one profile whose rows move
forward. It fails as soon as one of these is dropped: for two profiles (see Findings), for two
seeders (one writes and the other records), and with `Reverts = TRUE`, when rows go back to a
version whose checksum is still recorded since the recording of the later one was lost. The passing
run therefore states exactly where the skip can be relied on.

### Promotion

*State.* `main` is the values file on the base branch: its version and its overrides, numbered by
first appearance. `branches`, `base` and `head` are the promotion branches with the file at their
fork and at their tip. For each call of `Promote`: `pc`, the requested version, the branch's name
(version and second), the content as last read, and its pull request.

*Actions.* One for each request of `Promote`, with its failure, and the loss of the reply of each
that writes; `Merge`, git's three-way merge of the two parts of the file, by a reviewer;
`EditOverrides` by their owners. Packages, environments and cells have files of their own, so one
file stands for all. A rollback is a promotion of an earlier version.

*Limits of the property.* `OverridesPreserved` holds when the reading of an existing file does not
fail (`ReadsFail = FALSE`; with `TRUE` see Findings) and overrides are not reverted to earlier ones
(`Reverts = FALSE`): otherwise a branch cut before an edit, whose content was read after it, brings
the edit back after it was reverted, as git sees it as the branch's own change.

### Publish and Registry

*State.* `dk`, `backup` and `present` are the package directory, `blobs` and `tags` the registry,
`work` the command of each process: a publisher with the parts of its artifact, or a `dk run` with
overrides. A read of `dk.yaml` gives a numbered text, whether it is merged, or nothing while it is
truncated. `checked` is history: what the publisher knew of the tag.

*Actions.* `ParseForPublish`, `Bundle`, `CreateManifestLayer`, `CreateContentLayer` are the reads of
the directory, `CheckTag` asks the registry and takes each failure for "absent", `PushBlob` and
`PushManifest` are the copy, manifest last. `ReadBase` to `WriteMerged` are `applyOverrides`, where
`os.WriteFile` truncates and then writes.

*Refinement.* `Registry` is the promise: a tag names nothing or a whole artifact, one that a
publisher had ready for that tag, and never vanishes. `Publish` implements it (`PublishesWhole`)
with `named` the tags whose blobs are all there and `offers` the publishers about to push. That a
tag never changes is not part of it: the registry allows it, and `TagsAreImmutable` says exactly
when `dk publish` does it.

*Bounds.* Two publishers, two versions, an edit and two commands: a third command would meet the
directory and the tag in a state that two can leave. Four files, one for each way in which the
bundler sorts a name.

*Not modelled.* `Pull`, `Tags` and `Delete`, which no command calls; credentials; `dk.yaml.bak`
inside the content layer.

### Packages

*State.* The contents of `dk.yaml`, of the dataset files, `schemas/` and `dk.lock`; each `dk lock`
at work, with what it has read. Texts are what the validators tell apart: missing, malformed, or one
of a few valid ones. An issue is severity, code and field.

*Actions.* Edits by hand, `dk dataset create` and `add`, and `dk lock` in its steps. The commands
that only judge are operators on a state: `Validate` with all its rules, `LintFails`, `ScanFails`,
`BuildFails`, `DataSetValidateFails`, `VerifyFails`.

*Limits of the properties.* `LintsAgree` and `VerifiedLints` say where the verdicts agree. They do
not agree on warnings: `dk lint --strict` passes warnings that stand among the issues (a dataset
without location, W209, W210), on which `dk dataset validate` fails. `--verify` compares modules
only, so that a changed constraint counts as up to date, and without references any `dk.lock` is
accepted.

*Bounds.* Nineteen manifests and five dataset files, each chosen for a rule or a boundary of one,
two dataset directories, two `dk lock`, two changes.

### Config

*State.* The file of each scope as `yaml.Unmarshal` finds it, `malformed` the scopes whose file
cannot be read or parsed (by hand, or after two writes that overlap), and the command of each `dk
config` process with the configuration it has loaded. `alone` is history: commands whose file nobody
else has written.

*Actions.* `ConfigSet`, `ConfigUnset`, `ConfigAddMirror`, `ConfigRemoveMirror` load and change,
which a malformed file forbids; `TruncateFile` and `WriteFile` are `os.WriteFile`;
`InterruptCommand` may come between. `EffectiveValue` is `dk config get`, `LoadHierarchicalConfig`
the merge that other commands use.

*Limits of the properties.* Parallel commands on one file lose updates: there is no lock.
`CommandTouchesItsKey` therefore is about commands that are alone, and no property says that updates
survive; `EffectiveIsConfigured` and `MergedIsEffective` say what holds whatever is lost.
`MergedIsEffective` excepts keys that a narrower scope hides by an empty value or an entry without
the field (`Shadowed`). It is about the merged configuration when there is one. When a file is
malformed, `LoadHierarchicalConfig` fails (`config.go:269-276`) and its callers go on without what
it would say (`k3d.go:371`, `cmd/config.go:199`), or with an error, while `dk config get` passes
over that file (`config.go:770-773`) and shows what a broader scope says: readers then do differ.

*Bounds.* Two scopes, each key sort (scalar with and without default, field of an entry, a chart's
version and its map of values), two processes and two commands.

*Not modelled.* A single write that is torn: `os.WriteFile` of a small file is one system call. Of
two writes that overlap, a result that is neither text and parses all the same.

### DevStack

*State.* `container`, `network`, `volume` of the registry cache, `cluster` and whether it is
`whole`, `helm` with the release of each chart, `forwards` and the command of each process. Nothing
of it is dk's own: each command asks the tools.

*Actions.* One for each call of docker, k3d, helm and kubectl, with its failure. A call that is cut
short, by an interrupt of dk or otherwise, leaves what the tool leaves: a helm release that is
pending (`DeployChart`), on which the next `helm upgrade --install` fails, or a cluster that was not
made or not removed as a whole (`ClusterUp`, `ClusterDown`), which may refuse to start or to stop
and on which helm may fail. `ForwardEnds`: a kubectl may end at any time, and nothing watches it.
`Orphan`: one may outlive its dk. `faulty` is history: a tool has failed, the user has interrupted
or another command ran meanwhile, and nothing that was left behind explains it.

*Limits of the properties.* `dk dev up` is done at once when the cluster runs (`dev.go:193`),
whatever else is missing; `StartedIsComplete` is about one that has started the stack. It says
nothing of whether a port is served: `portforward.go:78` starts kubectl and never looks at it again,
so that a success without any forwarded port is a behaviour of the model. What it does say of ports
is that none is forwarded by an earlier dk's kubectl. `OnlyLeftoversBlock` names what can stand in
the way of a later command (`LeftInTheWay`): orphaned forwards at the port check, a pending release,
a cluster that is not whole. None of them stands in the way of `dk dev down --volumes`, which
removes all but the forwards, and these end with the cluster or must be killed by hand. `dk dev down
--volumes` finds no container after a volume's removal has failed, and reports success.

*Bounds.* Two processes of two releases (which have another cache configuration), two charts of
which one has a forwarded port, any number of commands. Each of the four cases of `LeftInTheWay` is
reached.

*Not modelled.* `dk dev status`, which reads; the values of charts; the dashboard; a cluster that
stops by itself; a tool that goes on after its dk has ended.

### HealthProbe and RunRecords

Parts of the SDK without a caller. `HealthProbe` is a container whose answers come and go, a
`WaitForHealthy` with its counters and thresholds, or a `HealthPoller` with `Start`, `Stop` and its
goroutine: `ChecksAreTrusted` says that a wait ends exactly when, for the first time, as many checks
in a row agree as the thresholds ask for, and that a poller started once and stopped at most once
does not panic, reports no status twice in a row, and nothing more once `Stop` has returned. `Stop`
without `Start` waits for ever and a second `Stop` panics. `RunRecords` has both stores: the one in
memory gives out its own records, which are then changed without its lock, the one in Postgres
copies. `CompleteRun` is four steps, and so is a caller's assignment to its record with `UpdateRun`.

In Postgres a new run has no `duration_ms`, and `Get` and `List` scan that NULL into an `int64`
(`store.go:184-192`, `store.go:264-270`): until someone has called `UpdateRun` for it, a run cannot
be read (`CanBeRead`). `CompleteRun`, "marks a run as complete", then fails at its `Get` and the run
stays running; `ListRuns` fails for its package and environment, and so does `GetPackageStatus`
(`CanBeListed`, `PackageStatus`). `StatusIsOfRuns` says that with Postgres what is stored of a run
is what one call has reported, and that a row can be read just when some call has; and that a failed
newest run shows in every status that can be had. In memory, messages mix and listing has no order,
so that the newest may be any.

*Bounds.* Three runs, two clients, two calls. Two `CompleteRun` that overlap with Postgres need a
third call, the `UpdateRun` before them; the proof is for any number of calls.

### Overrides

*State.* `original` is `dk.yaml`, `base` the document under construction, `applied` the overrides
so far, `command` how far `applyOverrides` (or `applyLintOverrides`) is. A document is a tree of
maps, lists and scalars, no deeper than `Depth`, with keys of `Names`. A map is a function on all of
`Names` that has `Nothing` at the keys that are not there; a null in a text is a scalar. `Nothing`
in a list is the nil with which `SetPath` fills it up. `DeepMerge` and `setPathRecursive` recurse
over the document in the code; here they are recursive functions on the depth and on the length of
the path, because theorems are to be proved of them. A path is the parts that `parsePath` makes of
it; `Address` splits each part with an index into a step by key and one by index.

*Actions.* `ApplyFile` merges an override file, `ApplySet` sets a path, `FailFile` and `FailSet` are
their errors and panics. Files come before paths.

*Limits of the property.* `OverridesAreExact`: at each address the document is what the last
override that says something of it decides, or else what it was. `SetPath` never returns an error,
against its comment; a negative index and a path into an empty file panic.

*Bounds.* Every sequence of at most three overrides, of sets that put maps, lists and scalars in
each other's place, on documents of at most six levels.

## Runs

| Run | Module and configuration | Checks | Bounds |
|---|---|---|---|
| `controller` | `MCPackageDeployment` | `TypeOK`, `StatusIsTruthful`, `NoLostWakeup`, `FollowsLifecycle`, `EventuallySettles` hold | 1 object, 2 replicas, 3 specs, 2 writes, 1 restart: 231,706 states |
| `controller_observed` | `MCPackageDeploymentObserved.cfg` | `ObservedGenerationCatchesUp` is violated | 1 object, 1 replica, 2 writes |
| `runs` | `MCRuns` | `RunsTypeOK`, `LineageMatchesResult`, `CompleteMeansSuccess`, `BackgroundRunStarted`, `RunsEnd`, `InputsAreProduced`, `CompletedMeansSynced`, `NothingIsLeft`, `JobsHaveTheirConfig`, `DocumentsReachTheirPlugins`, `OneLifeIsSafe`, `StopsReturn` hold | 2 runs, 2 IDs; 2 packages, 1 dataset; 2 syncs, 2 IDs, 3 transforms; 2 callers, 2 lives of a heartbeat: 245,221 states |
| `runs_test_passes` | `MCPipelineRunTest.cfg` | `TestPassedMeansNoFailure` is violated | 1 run |
| `runs_runaway` | `MCPipelineRunRunaway.cfg` | `NoRunawayJob` is violated | 1 run |
| `cells` | `MCRunsCells.cfg` | `RefsReachTheirStores` is violated | as `runs` |
| `seed` | `MCTools` | `ToolsTypeOK`, `SkippedIsExact`, `ChecksAreTrusted`, `StatusIsOfRuns`, `OverridesAreExact` hold | 1 seeder, 1 profile, versions 0 to 5; 4 checks, 2 pollers; 3 runs, 2 updates or completions; 3 overrides: 172,803 states |
| `seed_profiles` | `MCSeedProfiles.cfg` | `SkippedIsExact` is violated | 2 profiles |
| `promotion` | `MCRelease` | `TypeOK`, `ProposalIsExact`, `OverridesPreserved`, `CalmBundlesAreWhole`, `TextIsKept`, `TagsAreImmutable`, `PublishesWhole`, `VerifiedLints`, `LintsAgree` hold | 2 promotions, 2 versions, 2 seconds, 2 edits; 2 publishers, 2 versions, 1 edit, 2 commands; 2 `dk lock`, 2 changes: 173,760 states |
| `promotion_lost` | `MCPromotionLost.cfg` | `OverridesPreserved` is violated | 1 promotion |
| `publish_twice` | `MCReleaseTwice.cfg` | `PublishedTwiceFails` is violated | 2 publishers |
| `local` | `MCLocal` | `EffectiveIsConfigured`, `MergedIsEffective`, `CommandTouchesItsKey`, `StartedIsComplete`, `OnlyLeftoversBlock`, `StoppedIsStopped`, `OrderIsTopological`, `FilterKeepsAncestors`, `MultiRunIsSound` hold | 2 scopes, 2 commands; 2 processes, 2 charts, any number of commands; 3 packages, 2 datasets: 566,632 states |

Deadlock is not checked: every composed system may stop, because users need not act, every run,
promotion or command may have ended, or a bound is reached. Symmetry of the processes, versions and
IDs is used where only safety is checked (`promotion`, `local`, `seed`).

What they show. The controller reaches a settled phase in spite of every failure modelled, looks to
its users as one that acts in single steps, never starts an object twice and never claims what its
spec does not justify, because it acts on an object only with the resource version it has read. The
lineage of a run never contradicts its result, even when client, container and process end in
different ways. The checksum of a seeding and the branch per promotion give the guarantees named
above, within the limits named above. A scan never runs a package on inputs that this scan has
failed to produce. A CloudQuery run that says it has completed has synchronised. What a publisher
pushes appears whole or not at all, and a tag is overwritten only in the two cases named. What
failed and interrupted commands leave of the dev stack blocks a later one only by a held port, a
pending helm release or a cluster that was half made or half removed, and `dk dev down --volumes`
works even then. The configuration in effect is always one that somebody wrote, whatever commands
race.

### Findings

1. **`observedGeneration` does not catch up** (`controller_observed`). `handleRunning`,
   `handleFailed` and a scheduled `handleReady` return without a status update, so that a change
   made after an object has settled is neither recorded nor acted upon.
2. **`dk test` passes for a pipeline that crashed** (`runs_test_passes`), against
   `docs/reference/cli.md:707`.
3. **The timeout does not stop the job** (`runs_runaway`), against
   `docs/concepts/pipeline-modes.md:245`: only the docker client is killed.
4. **Switching seed profiles and back leaves the wrong rows** (`seed_profiles`), against
   `seed.go:30-35` and `docs/concepts/datasets.md:157-158`.
5. **A failed read of `values.yaml` removes the overrides** (`promotion_lost`), against `pr.go:67`.
6. **A published version can be overwritten** (`publish_twice`), against `publish.go:31-32`: two
   publishers both find the tag free, or the registry cannot be asked, which `oras.go:212` takes for
   "absent". The comment at `publish.go:152`, that the push will fail if the tag exists, is wrong
   too, and since `Exists` returns no error, lines 150 to 152 are never reached.
7. **References to two cells share one store** (`cells`), against `contracts/transform.go:99-101`:
   `cqconfig.go:208` groups references by connector and store name and leaves out the cell, so that
   a fan-in from two cells reads one of them twice.

Differences met while modelling that no run checks: the lineage table of `pipeline-modes.md:221-228`
has events for streaming runs that a detached run does not emit, and `Heartbeat` has no caller; `dk
stop` is documented (`pipeline-modes.md:198`, `cli.md:545`) and does not exist; `GenerateRunID`
(`runner.go:70`) is unique only by the second; `dk promote` prints "Auto-merge: enabled"
(`promote.go:156`) while `EnableAutoMerge` does nothing; docs and help name the table
`_dk_seed_meta`, the code `_dp_seed_meta`; an empty profile leaves the old rows in place
(`seed.go:124-126`). Of `dk run --set` and `-f`: `dk.yaml` is overwritten in place and nothing
restores it; the backup of a second run replaces the original. `dk publish` does not validate what
it publishes, its help mentions a `--force` that does not exist, and a file such as `schemas.sql` at
the package's root gets into neither layer. `dk lock --verify` does not notice a changed constraint,
against "exits non-zero if stale"; `dk lock --upgrade` is never read; `dk lint --strict` passes some
warnings, against "Treat warnings as errors". `StrictMode`, `ValidatePII` and `SkipSchemaValidation`
are read by no validator. `isValidDuration` accepts "30" and "1hh" and refuses "1.5h". A merged
configuration can hide a broader scope's value that `dk config get` shows, against FR-005 of
`specs/009-plugin-registry/spec.md:112`. `getRuntimeManager` uses the cluster "dk-local" whatever
the configuration says, and the Docker runner reads only the user's file. `generateRunID` of the run
service has a constant in place of its random suffix. With Postgres `CompleteRun` cannot complete a
run that nobody has updated before, against its comment "marks a run as complete" (see RunRecords).
A `dk run` that cannot write its Dockerfile returns an error and emits no FAIL.

## Proofs

Every invariant and every action property that a passing run checks, and each of the refinements, is
proved for every value of the constants; only the liveness properties are not.

| Module | Proved of | Theorems |
|---|---|---|
| `PackageDeploymentProofs` | `PackageDeployment` | `TypeCorrect`, `Truthful`, `NoWakeupLost`, `ControllerFollowsLifecycle` |
| `Induction` | numbers | `LeastNat`, `AllNat`, `Iterates`, lemmas for the others |
| `RunsProofs` | `PipelineRun` | `TypeOKHolds`, `LineageMatchesResultHolds`, `CompleteMeansSuccessHolds`, `BackgroundRunStartedHolds` |
| | `Heartbeat` | `HeartbeatTypeOKHolds`, `OneLifeIsSafeHolds` |
| | `MultiRun` | `MultiRunIsGraph`, `MultiRunIsRun`, `InputsAreProducedHolds`; `RunsTypeOKHolds` of all |
| | `CloudQuery` | `CompletedMeansSyncedHolds`, `NothingIsLeftHolds`, `JobsHaveTheirConfigHolds`, `DocumentsReachTheirPluginsHolds` |
| `PipelineGraphProofs` | `PipelineGraph` | `OrderIsTopologicalHolds`, `FilterKeepsAncestorsHolds`, `MultiRunIsSoundHolds` |
| `ToolsProofs` | `Seed` | `SeedTypeOKHolds`, `SkippedIsExactHolds` |
| | `HealthProbe`, `RunRecords` | `ChecksAreTrustedHolds`; `StatusIsOfRunsHolds` |
| | all of `MCTools` | `ToolsTypeOKHolds` |
| `OverridesProofs` | `Overrides` | `OverridesTypeOKHolds`, `OverridesAreExactHolds` |
| `ReleaseProofs` | `Promotion` | `PromotionTypeCorrect`, `ProposalsAreExact`, `OverridesArePreserved` |
| | `Publish` | `TagsAreImmutableHolds`, `PublishesWholeHolds`, `CalmBundlesAreWholeHolds`, `TextIsKeptHolds` |
| | `Packages` | `LintsAgreeHolds`, `VerifiedLintsHolds` |
| `LocalProofs` | `Config` | `EffectiveIsConfiguredHolds`, `CommandTouchesItsKeyHolds`, `UndisturbedFileHolds`, `MergedIsEffectiveHolds` |
| | `DevStack` | `StartedIsCompleteHolds`, `OnlyLeftoversBlockHolds`, `StoppedIsStoppedHolds` |

A theorem `PHolds` states the property `P`.

*Assumptions.* Those that the modules name, which TLC evaluates in the runs. Most say of what kind a
constant is. The others: sets that a directory or a cluster holds are finite (`Publishers`,
`Datasets`, `Lockers`, what is in `schemas/`); a list in a file is a sequence (`FilesAssumption`);
`MultiRun` runs packages that `PipelineRun` knows (`Packages \subseteq Runs`); the datasets that a
CloudQuery transform refers to have stores, and the stores connectors; no document, and no path of
`--set`, is deeper than `Depth`, which is any number: every text has a depth. Nothing bounds the
number of processes, versions, packages or edits, and the bounds that TLC needs (`MaxWrites` and the
like) are any natural numbers. Two theorems have hypotheses of their own, because without them the
property is false, as a run shows: `OverridesArePreserved` assumes `~ReadsFail` (see
`promotion_lost`) and `~Reverts`; `SkippedIsExactHolds` assumes one seeder, one profile (see
`seed_profiles`) and `~Reverts`.

*The controller.* `StatusIsTruthful` is not inductive by itself: a status is computed from a copy,
read from a cache that lags behind. `IInv` adds what makes copies harmless: a cached or copied
object is no newer than the stored one, and is the stored one when the resource versions agree
(`CopiesAreOld`); the history has the stored object's generation (`AppliedIsCurrent`); a worker
holds only objects whose handler writes (`CopiesAreWritten`). So an accepted update is computed from
the very object it replaces: the new status is truthful for its spec, and to users its step is an
`Advance` of `Lifecycle`. With the users' own steps, which are `Create`, `Change` and `Remove`, and
all others, which write nothing, that is the refinement (`NextFollows`). For `NoLostWakeup` each
step is examined for the name it may take from queue, timer or work: a step that takes it either
puts it elsewhere, leaves the cache different from the stored object (whose version has grown), or
leaves an object that wants nothing.

*The promotion.* `IInv` says that no two calls of `Promote` own one branch (`BranchesAreOwned`), so
that what a call has written to its branch stays (`WorkIsDone`). `OverridesGetNewer`, on top of it,
says that the overrides never get older from a branch's fork to its tip to the base branch, and that
what a promotion has read is no newer than the base branch. A merge then takes the base branch's
overrides, or git refuses it.

*Runs.* `IInv` says for each run what its process has emitted by each point of the code, and what
the docker client it waits for can say of the container; the containers of different runs that run
have different names. `MultiRun` is shown to implement both of its parts, step by step: each step is
one of the loop or a stutter (`MultiRunIsGraph`), and one of a run (`MultiRunIsRun`).
`InputsAreProduced` follows from the invariants of both and `MultiInv`, which says that the loop
takes a package for completed only when its run has returned without an error. `OneLife` says who
may still close which of the heartbeat's two channels; it needs that the heartbeat is started once,
for a second `Start` does not make new ones.

*Recursive functions.* Tlapm has no induction theorem that it can apply to an operator, so induction
is a lemma about sets of numbers, each of which has a least element (`LeastNat` and `AllNat` of
`Induction`, from the well-foundedness of finite sets under inclusion). By it a function that is
defined in steps obeys its equations (`Iterates`), and what it computes is proved step by step.

*The graph.* The order of a scan and the graph that leads to a node are what recursive functions
compute in rounds. The rounds of the order put only nodes after their dependencies, and as many
rounds as there are nodes reach all that can be reached, because a round without a new node is the
last. The loop's invariant, `GraphInv`, says what was started when and with what outcome.

*Overrides.* `MergeIsExact` says what a merged document has at each address, by induction over the
depth: the override's value where the file decides, nothing of the base where a scalar or a list of
the file stands on the way to it, and the base's value where the file says nothing. `SetIsExact`
says the same of a set path, by induction from the path's end: what lies beyond the address is of
the new value, what parts from it in kind (a key where the path has an index, or the other way
round) is gone, and every other address is as it was. `OverridesInv` holds these results together:
at an address below which no override says anything, the document is as the last deciding override
has it (`IsDecided`), or as it was at first. It needs the document's type, that is its depth, in
each step, since a merge goes no deeper than `Depth`.

*CloudQuery.* Runs may share an ID, so that one may find, overwrite or delete the Job and ConfigMap
of another. `Held` says who answers for each ConfigMap and Job: a run that is still at a point of
`runCloudQuery` from which its deferred cleanup is reached. What is in the cluster without such a
run was left by an interruption or a failure, which the properties name.

*Seeding.* `SeedInv` follows the rows through a seeding: what was read of `_dp_seed_meta`, of the
files and of the table, and that the record is written only after the rows. With one seeder, one
profile and rows that only go forward, a recorded checksum is of the rows in the table or older than
what the files hold by then; so an equal one means equal rows.

*Records and health checks.* `RecordsInv` says of each call of `CompleteRun` or `UpdateRun` which
copy it holds and what it has written of it; a status and a message come from one call since
Postgres' update writes both, with the duration. `WaitInv` ties the counters to the trail of checks
they count (`Row`), and says that no threshold was reached before. `PollInv` says who has closed the
poller's two channels.

*Publishing.* `PublishesWhole` is a refinement: `Publish` implements `Registry` under the mapping of
a tag to its artifact if the blobs of that are there. Its core, `TagsInv`, is that a publisher's
blobs are in the registry when it pushes its manifest, and that blobs are never removed.
`BundlesInv` says of each point of a bundling what has been read in calm; `TextInv` where the
developer's text of `dk.yaml` is at each point of a run with overrides, provided no other such run
has begun.

*Packages.* The result of each validator is *sound*: finitely many issues and warnings, and a
verdict that is good unless an issue is an error. `MergeResults` keeps that, and the commands'
verdicts agree on sound results. No issue but the lock's own is an E312 (`Plain`). The references
that lint looks for are among those that `dk lock` collects (`CollectedRefs`). `LockInv` says that a
`dk lock` that has started since the last change of the package holds what is to be locked, and that
`dk.lock` is that once one has ended alone.

*The dev stack and the configuration.* `DevInv` says what docker, k3d, helm and kubectl have at each
point of an undisturbed `up` or `down`, what dk may have found apart; of charts it says that they
are deployed once helm has ended, unless a failure is recorded, for which a tool, a pending release
or the cluster is the cause. `AloneInv`: two undisturbed commands are one. `ConfigInv` says that
each scope's file holds only values that somebody may write into that scope, that a command's
configuration in memory is its file with its own key changed, and that the file of an undisturbed
command is what it has loaded, or empty once truncated, and not malformed (`UndisturbedFileHolds`,
without which `CommandTouchesItsKey` would say nothing of the file). The merge of all scopes is
again a recursive function: from the scope that decides a key on, each narrower one leaves the key's
value alone, unless it names the key without one (`UnmarshalField`).

*Only model-checked.* The liveness properties (`EventuallySettles`, `RunsEnd`, `StopsReturn`), since
fairness and `ENABLED` are out of reach of the installed provers, and the violations, which are
counterexamples.

## What is left

The modules planned are written. One composition was considered and left out: *Delivery*, of
`Promotion` with Argo CD as a reader of `main` and with `PackageDeployment`, to say that a version
that is deployed is one that was merged. What joins the two is Argo CD and a Helm chart, neither of
them code of the repository's own, so that the property would speak of a model of Argo CD; and the
controller looks at a version only to see whether there is one. The parts on either side are proved:
what reaches `main` (`ProposalIsExact`, `OverridesPreserved`) and what becomes of an object that
Argo CD applies (`FollowsLifecycle`).

Three hazards are in no property, for the reasons that `PROJECT.json` notes: two seeders of one
table race without a lock, so that `SkippedIsExact` fails of them as it does of two profiles; a
repeated promotion opens a second pull request, which nothing promises it will not; and what becomes
of a pull request whose base has moved is left to git and its reviewer.

*Not modelled, and why.* The catalog client and the lineage emitters are HTTP requests and printing,
without state. The remaining commands scaffold, format and print. Argo CD and Helm (`gitops/`) are
external. Contracts, metrics and logging are types and counters. The contents of generated
Dockerfiles, pod specifications and chart values are data that no property is about.

## Running

    tlc -config MCPackageDeployment.cfg MCPackageDeployment
    tlapm PackageDeploymentProofs.tla

and likewise for the other configurations and proof modules. The passing runs take between one and
three minutes each, the violations seconds, and the proofs between half a minute and some minutes
each.
