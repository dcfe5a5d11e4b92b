------------------------------ MODULE DevStack ------------------------------
(***************************************************************************)
(* The local development stack: dk dev up and dk dev down of               *)
(* cli/cmd/dev.go, with the registry cache (sdk/localdev/cache.go), the    *)
(* k3d cluster (k3d.go), its Helm charts (charts/deploy.go) and the port   *)
(* forwards (portforward.go).                                              *)
(*                                                                         *)
(* dk keeps no state: each command asks docker, k3d and helm what there is *)
(* and calls them again to change it.  Each call may fail or be cut short, *)
(* and another dk process may act between two calls.  An error of docker   *)
(* inspect reads as no container, and one of k3d in Status as no cluster   *)
(* that runs.                                                              *)
(*                                                                         *)
(* A tool that is killed leaves things half done: k3d a cluster without    *)
(* some of its parts, helm a release that is pending, which makes its next *)
(* install fail.  dk looks for neither.  (A tool that outlives its dk is   *)
(* taken to end before the next command begins.)                           *)
(*                                                                         *)
(* Port forwards are kubectl children that nothing watches while dk runs   *)
(* and nothing stops when it ends: a later dk dev down has a port          *)
(* forwarder of its own, without processes.                                *)
(***************************************************************************)
EXTENDS Naturals, FiniteSets

CONSTANTS
  Charts,      \* the charts
  Forwarded,   \* those that have a forwarded port; the dashboard has none
  Processes,   \* dk processes; one runs another command when it has ended
  Release,     \* the release of dk each is: it sets the cache's configuration
  CI           \* whether IsCI(): then there is no registry cache

ASSUME DevStackAssumption == Forwarded \subseteq Charts /\ CI \in BOOLEAN

Releases == {Release[p] : p \in Processes}

VARIABLES
  container,   \* of the cache: "none", "stopped" or "running", and its label
  network,     \* whether the cache's network exists
  volume,      \* whether the cache's volume exists
  cluster,     \* "none", "stopped" or "running"
  whole,       \* whether no creation or deletion of the cluster was cut short
  helm,        \* the release of each chart: "none", "deployed", or "pending" when an
               \* interrupted helm has left it so
  forwards,    \* forwarded ports and the process that forwards them, or "orphan"
  run          \* the command of each process, where it is and what it has met

clusterVars == <<cluster, whole, helm>>
devVars == <<container, network, volume, clusterVars, forwards, run>>

NoReleases == [c \in Charts |-> "none"]
NoContainer == [state |-> "none", label |-> "none"]
Ports == {f[1] : f \in forwards}

\* How a command ends; "faulty" if it is interrupted, or fails after some tool has
\* failed, or because of that, or after another command has run beside it.
Outcomes == {"done", "failed", "faulty"}

Ended(p) == run[p].pc \in Outcomes
Command(pc, volumes) ==
  [pc |-> pc, volumes |-> volumes, todo |-> {}, bad |-> FALSE,
   faulty |-> FALSE, alone |-> TRUE]

DevInit ==
  /\ container = NoContainer
  /\ network = FALSE /\ volume = FALSE
  /\ cluster = "none" /\ whole = TRUE
  /\ helm = NoReleases
  /\ forwards = {}
  /\ run = [p \in Processes |-> Command("done", FALSE)]

\* The forwards of a process that ends are nobody's.
Orphan(p) == {IF f[2] = p THEN <<f[1], "orphan">> ELSE f : f \in forwards}

\* A command's record when it reaches a point.
At(p, point, faulty) ==
  IF point \notin Outcomes THEN [run[p] EXCEPT !.pc = point, !.faulty = faulty]
  ELSE Command(IF point = "failed" /\ faulty THEN "faulty" ELSE point, FALSE)

GoOn(p, point) ==
  /\ run' = [run EXCEPT ![p] = At(p, point, @.faulty)]
  /\ forwards' = IF point \in Outcomes THEN Orphan(p) ELSE forwards

\* A tool fails although nothing dk did or left behind explains it.
Fault(p, point) ==
  /\ run' = [run EXCEPT ![p] = At(p, point, TRUE)]
  /\ forwards' = IF point \in Outcomes THEN Orphan(p) ELSE forwards

BeginCommand(p, begun) ==
  /\ Ended(p)
  /\ LET busy == {q \in Processes \ {p} : ~Ended(q)}
     IN run' = [q \in Processes |->
                  IF q = p THEN [begun EXCEPT !.alone = busy = {}, !.faulty = busy # {}]
                  ELSE IF q \in busy THEN [run[q] EXCEPT !.alone = FALSE, !.faulty = TRUE]
                  ELSE run[q]]
  /\ UNCHANGED <<container, network, volume, clusterVars, forwards>>

-----------------------------------------------------------------------------
(* dk dev up: the registry cache. *)

DevUp(p) == BeginCommand(p, Command(IF CI THEN "status" ELSE "cache", FALSE))

\* Mutant: a container of another configuration is not removed.
CacheInspectKept(p) ==
  /\ run[p].pc = "cache"
  /\ GoOn(p, IF container.state = "running" /\ container.label = Release[p] THEN "status"
             ELSE IF container.label = Release[p] THEN "start" ELSE "network")
  /\ UNCHANGED <<container, network, volume, clusterVars>>

\* CacheManager.Up: what three calls of docker inspect say of the container.
\* One whose label is that of this release's configuration is kept.
CacheInspect(p) ==
  /\ run[p].pc = "cache"
  /\ \/ /\ container.state = "none"
        /\ GoOn(p, "network")
     \/ /\ container.state # "none"
        /\ GoOn(p, IF container.label # Release[p] THEN "remove"
                   ELSE IF container.state = "running" THEN "status" ELSE "start")
     \/ \E point \in {"network", "start", "remove"} :
          /\ container.state # "none"
          /\ point = "start" => container.label = Release[p]
          /\ Fault(p, point)
  /\ UNCHANGED <<container, network, volume, clusterVars>>

StartContainer(p) ==
  /\ run[p].pc = "start"
  /\ \/ /\ container.state # "none"
        /\ container' = [container EXCEPT !.state = "running"]
        /\ GoOn(p, "status")
     \/ container.state = "none" /\ GoOn(p, "failed") /\ UNCHANGED container
     \/ Fault(p, "failed") /\ UNCHANGED container
  /\ UNCHANGED <<network, volume, clusterVars>>

RemoveContainer(p) ==
  /\ run[p].pc = "remove"
  /\ \/ container' = NoContainer /\ GoOn(p, "network")
     \/ Fault(p, "failed") /\ UNCHANGED container
  /\ UNCHANGED <<network, volume, clusterVars>>

EnsureNetwork(p) ==
  /\ run[p].pc = "network"
  /\ \/ network' = TRUE /\ GoOn(p, "create")
     \/ Fault(p, "failed") /\ UNCHANGED network
  /\ UNCHANGED <<container, volume, clusterVars>>

\* docker run: a container that it creates but cannot start stays.
CreateContainer(p) ==
  /\ run[p].pc = "create"
  /\ \/ /\ container.state = "none"
        /\ container' = [state |-> "running", label |-> Release[p]]
        /\ volume' = TRUE
        /\ GoOn(p, "status")
     \/ /\ container.state # "none"   \* the name is taken
        /\ GoOn(p, "failed")
        /\ UNCHANGED <<container, volume>>
     \/ /\ container.state = "none"
        /\ container' \in {container, [state |-> "stopped", label |-> Release[p]]}
        /\ volume' \in {volume, TRUE}
        /\ Fault(p, "failed")
  /\ UNCHANGED <<network, clusterVars>>

-----------------------------------------------------------------------------
(* dk dev up: the cluster, its charts and the port forwards. *)

CheckStatus(p) ==
  /\ run[p].pc = "status"
  /\ \/ GoOn(p, IF cluster = "running" THEN "done" ELSE "ports")
     \/ cluster = "running" /\ Fault(p, "ports")
  /\ UNCHANGED <<container, network, volume, clusterVars>>

CheckPorts(p) ==
  /\ run[p].pc = "ports"
  /\ \/ GoOn(p, IF Ports = {} THEN "cluster" ELSE "failed")
     \/ Fault(p, "failed")   \* another program listens there
  /\ UNCHANGED <<container, network, volume, clusterVars>>

\* K3dManager.Up: the cluster is created, or started, or it runs already; one that
\* is not whole may not start.  k3d rolls a failed creation back unless it is killed.
ClusterUp(p) ==
  /\ run[p].pc = "cluster"
  /\ \/ /\ cluster' = "running"
        /\ run' = [run EXCEPT ![p].pc = "charts", ![p].todo = Charts]
        /\ UNCHANGED <<whole, forwards>>
     \/ /\ cluster = "stopped" /\ ~whole
        /\ GoOn(p, "failed")
        /\ UNCHANGED <<cluster, whole>>
     \/ /\ cluster # "none"
        /\ cluster' \in {cluster, "running"}
        /\ Fault(p, "failed")
        /\ UNCHANGED whole
     \/ /\ cluster = "none"
        /\ cluster' \in {"none", "stopped", "running"}
        /\ whole' \in IF cluster' = "none" THEN {TRUE} ELSE BOOLEAN
        /\ Fault(p, "failed")
  /\ UNCHANGED <<container, network, volume, helm>>

\* One of the parallel helm upgrade --install --wait calls.  It refuses a release
\* that is pending, and leaves one if it is killed.
DeployChart(p, c) ==
  LET ends(failed, faulty) ==
        run' = [run EXCEPT ![p].todo = @ \ {c}, ![p].bad = @ \/ failed,
                           ![p].faulty = @ \/ faulty]
  IN /\ run[p].pc = "charts"
     /\ c \in run[p].todo
     /\ \/ /\ cluster = "running" /\ helm[c] # "pending"
           /\ helm' = [helm EXCEPT ![c] = "deployed"]
           /\ ends(FALSE, FALSE)
        \/ /\ cluster # "running" \/ helm[c] = "pending" \/ ~whole
           /\ ends(TRUE, FALSE)
           /\ UNCHANGED helm
        \/ /\ helm' \in {helm, [helm EXCEPT ![c] = "pending"]}
           /\ ends(TRUE, TRUE)
     /\ UNCHANGED <<container, network, volume, cluster, whole, forwards>>

\* Mutant: reports what was deployed and goes on whatever failed.
DeployEndsAnyway(p) ==
  /\ run[p].pc = "charts" /\ run[p].todo = {}
  /\ GoOn(p, "forward")
  /\ UNCHANGED <<container, network, volume, clusterVars>>

\* deployCharts: any failure fails the command, once all charts have ended.
DeployEnds(p) ==
  /\ run[p].pc = "charts" /\ run[p].todo = {}
  /\ GoOn(p, IF run[p].bad THEN "failed" ELSE "forward")
  /\ UNCHANGED <<container, network, volume, clusterVars>>

\* startPortForwarding: each kubectl runs in the background, and ends at once and
\* unseen when its port is taken; ForwardEnds has the other reasons.  If one cannot
\* be started, stopLocked kills those that were.
startPortForwarding(p) ==
  /\ run[p].pc = "forward"
  /\ \/ /\ run' = [run EXCEPT ![p].pc = "healthy"]
        /\ forwards' = forwards \cup {<<c, p>> : c \in Forwarded \ Ports}
     \/ Fault(p, "failed")
  /\ UNCHANGED <<container, network, volume, clusterVars>>

\* WaitForHealthy has a timeout, and its error is only a warning.
WaitForHealthy(p) ==
  /\ run[p].pc = "healthy"
  /\ GoOn(p, "done")
  /\ UNCHANGED <<container, network, volume, clusterVars>>

-----------------------------------------------------------------------------
(* dk dev down. *)

DevDown(p, volumes) == BeginCommand(p, Command("down", volumes))

\* Deleting a cluster takes its charts with it.
DeleteCluster ==
  /\ cluster' = "none" /\ whole' = TRUE
  /\ helm' = NoReleases

StopCluster ==
  /\ cluster' = "stopped"
  /\ UNCHANGED <<whole, helm>>

\* Mutant: goes on with the cache when k3d fails.
ClusterDownUnchecked(p) ==
  /\ run[p].pc = "down"
  /\ \/ /\ IF run[p].volumes \/ cluster = "none" THEN DeleteCluster ELSE StopCluster
        /\ GoOn(p, "cache_down")
     \/ Fault(p, "cache_down") /\ UNCHANGED clusterVars
  /\ UNCHANGED <<container, network, volume>>

\* K3dManager.Down, which is done when there is no cluster.  One that is not whole
\* may not stop; a deletion that is cut short leaves one that is not.
ClusterDown(p) ==
  /\ run[p].pc = "down"
  /\ LET next == IF CI THEN "done" ELSE "cache_down"
     IN \/ /\ IF run[p].volumes \/ cluster = "none" THEN DeleteCluster ELSE StopCluster
           /\ GoOn(p, next)
        \/ /\ ~run[p].volumes /\ cluster # "none" /\ ~whole
           /\ GoOn(p, "failed")
           /\ UNCHANGED clusterVars
        \/ /\ Fault(p, "failed")
           /\ \/ UNCHANGED clusterVars
              \/ cluster # "none" /\ ~run[p].volumes /\ StopCluster
              \/ cluster # "none" /\ run[p].volumes /\ DeleteCluster
              \/ /\ cluster # "none" /\ run[p].volumes
                 /\ cluster' \in {cluster, "stopped"} /\ whole' = FALSE
                 /\ UNCHANGED helm
  /\ UNCHANGED <<container, network, volume>>

\* CacheManager.Down: without a container, or with one docker does not tell of,
\* it is done.  A container that does not stop is removed, if that works.
CacheDown(p) ==
  /\ run[p].pc = "cache_down"
  /\ LET next == IF run[p].volumes THEN "volume" ELSE "done"
     IN \/ /\ container.state = "none"
           /\ GoOn(p, "done")
           /\ UNCHANGED container
        \/ /\ container.state # "none"
           /\ Fault(p, "done")
           /\ UNCHANGED container
        \/ /\ container.state # "none"
           /\ container' = [container EXCEPT !.state = "stopped"]
           /\ GoOn(p, next)
        \/ /\ container.state # "none"
           /\ container' \in {container, NoContainer}
           /\ Fault(p, next)
  /\ UNCHANGED <<network, volume, clusterVars>>

\* The container goes first, to release the volume; its error is ignored.
RemoveVolume(p) ==
  /\ run[p].pc = "volume"
  /\ \/ container' = NoContainer /\ volume' = FALSE /\ GoOn(p, "done")
     \/ /\ container' \in {container, NoContainer}
        /\ UNCHANGED volume
        /\ Fault(p, "failed")
  /\ UNCHANGED <<network, clusterVars>>

-----------------------------------------------------------------------------
\* The developer interrupts dk.  What the tool that runs then leaves is what one that
\* is cut short leaves, see each Fault; a kubectl that a terminal interrupts as well
\* is one that ends.
InterruptDev(p) ==
  /\ ~Ended(p)
  /\ Fault(p, "faulty")
  /\ UNCHANGED <<container, network, volume, clusterVars>>

\* kubectl port-forward may end at any time, even at once: no pod of the service is
\* ready, the connection to it is lost, the cluster stops.
ForwardEnds(f) ==
  /\ f \in forwards
  /\ forwards' = forwards \ {f}
  /\ UNCHANGED <<container, network, volume, clusterVars, run>>

Up(p) ==
  \/ CacheInspect(p) \/ StartContainer(p) \/ RemoveContainer(p)
  \/ EnsureNetwork(p) \/ CreateContainer(p)
  \/ CheckStatus(p) \/ CheckPorts(p) \/ ClusterUp(p)
  \/ \E c \in Charts : DeployChart(p, c)
  \/ DeployEnds(p) \/ startPortForwarding(p) \/ WaitForHealthy(p)

Down(p) == ClusterDown(p) \/ CacheDown(p) \/ RemoveVolume(p)

DevNext ==
  \/ \E p \in Processes :
       \/ DevUp(p) \/ \E volumes \in BOOLEAN : DevDown(p, volumes)
       \/ Up(p) \/ Down(p) \/ InterruptDev(p)
  \/ \E f \in forwards : ForwardEnds(f)

DevSpec == DevInit /\ [][DevNext]_devVars

-----------------------------------------------------------------------------
(* Properties. *)

\* The step in which p's command ends with an outcome.
EndsAs(p, as) == ~Ended(p) /\ run'[p].pc = as

\* "Local development stack is running!": when dk dev up has started the stack,
\* and no other dk command ran meanwhile, the cluster runs and every chart is
\* installed, whatever earlier commands have left; and a port that is forwarded is
\* so by this command, not by an earlier one's kubectl to a cluster that has gone.
\* (Whether its own kubectl still runs, nothing in the code asks.  The command is
\* also done, at CheckStatus, whenever the cluster runs already.)
StartedIsComplete ==
  [][\A p \in Processes : EndsAs(p, "done") /\ run[p].pc = "healthy" /\ run[p].alone =>
       /\ cluster = "running"
       /\ \A c \in Charts : helm[c] = "deployed"
       /\ \A f \in forwards : f[2] = p]_devVars

\* What can make an undisturbed command fail at a point although no tool does: a
\* port an earlier dk's kubectl holds, a release that is pending, and a cluster
\* that is not whole.
LeftInTheWay(p) ==
  \/ run[p].pc = "ports" /\ Ports # {}
  \/ run[p].pc = "charts" /\ (~whole \/ \E c \in Charts : helm[c] = "pending")
  \/ run[p].pc = "cluster" /\ ~whole
  \/ run[p].pc = "down" /\ ~whole /\ ~run[p].volumes

\* Of what failed or interrupted commands, or ones of another release, leave behind,
\* nothing else ever stands in the way: no container, network or volume of the
\* cache, and no cluster or chart that is as dk made it.  And dk dev down --volumes,
\* after which no release is pending and no cluster in parts, always works.
OnlyLeftoversBlock ==
  [][\A p \in Processes : EndsAs(p, "failed") /\ run[p].alone => LeftInTheWay(p)]_devVars

\* "Local development stack stopped": after an undisturbed dk dev down that
\* succeeds the cluster does not run; with --volumes it is gone, with whatever was
\* half done in it, and so is the cache's volume unless docker showed no container.
StoppedIsStopped ==
  [][\A p \in Processes :
       EndsAs(p, "done") /\ run[p].pc \in {"down", "cache_down", "volume"} /\ run[p].alone =>
         /\ cluster' # "running"
         /\ run[p].volumes => cluster' = "none" /\ helm' = NoReleases /\ whole'
         /\ run[p].pc = "volume" => ~volume' /\ container'.state = "none"]_devVars
=============================================================================
