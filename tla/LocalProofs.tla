---------------------------- MODULE LocalProofs ----------------------------
(***************************************************************************)
(* Proofs about DevStack and Config.                                       *)
(***************************************************************************)
EXTENDS Config, DevStack, PipelineGraphProofs

-----------------------------------------------------------------------------
(* DevStack. *)

UpPoints == {"cache", "start", "remove", "network", "create", "status", "ports",
             "cluster", "charts", "forward", "healthy"}
DownPoints == {"down", "cache_down", "volume"}
Points == UpPoints \cup DownPoints \cup Outcomes

CommandType ==
  [pc : Points, volumes : BOOLEAN, todo : SUBSET Charts, bad : BOOLEAN,
   faulty : BOOLEAN, alone : BOOLEAN]

DevTypes ==
  /\ container \in [state : {"none", "stopped", "running"}, label : Releases \cup {"none"}]
  /\ network \in BOOLEAN /\ volume \in BOOLEAN
  /\ cluster \in {"none", "stopped", "running"} /\ whole \in BOOLEAN
  /\ helm \in [Charts -> {"none", "deployed", "pending"}]
  /\ forwards \subseteq Charts \X (Processes \cup {"orphan"})
  /\ run \in [Processes -> CommandType]

\* No other command has run since p's began.
Alone(p) == ~Ended(p) /\ run[p].alone

AloneInv == \A p, q \in Processes : Alone(p) /\ ~Ended(q) => p = q

\* What an undisturbed command may count on at each point.
Knows(p) ==
  LET at(points) == run[p].pc \in points
      faulty == run[p].faulty
  IN /\ run[p].bad => at({"charts"})
     /\ at({"start"}) => faulty \/ container.state # "none"
     /\ at({"network", "create"}) => faulty \/ container.state = "none"
     /\ at({"cluster", "charts", "forward"}) => Ports = {}
     /\ at({"charts", "forward", "healthy"}) => cluster = "running"
     /\ at({"charts"}) =>
          IF run[p].bad THEN faulty \/ ~whole \/ \E c \in Charts : helm[c] = "pending"
          ELSE \A c \in Charts \ run[p].todo : helm[c] = "deployed"
     /\ at({"forward", "healthy"}) => \A c \in Charts : helm[c] = "deployed"
     /\ at({"healthy"}) => \A f \in forwards : f[2] = p
     /\ at({"cache_down", "volume"}) =>
          /\ cluster # "running"
          /\ run[p].volumes => cluster = "none" /\ helm = NoReleases /\ whole

DevInv ==
  /\ DevTypes
  /\ AloneInv
  /\ \A p \in Processes : Alone(p) => Knows(p)

\* What GoOn and Fault do.
Moves(p, point, faulty) ==
  /\ run' = [run EXCEPT ![p] = At(p, point, faulty)]
  /\ forwards' = IF point \in Outcomes THEN Orphan(p) ELSE forwards

\* A command that goes on, with a fault or without, moves itself only.
LEMMA GoOnMoves ==
  ASSUME NEW p \in Processes, NEW point
  PROVE  /\ GoOn(p, point) => Moves(p, point, run[p].faulty)
         /\ Fault(p, point) => Moves(p, point, TRUE)
BY DEF GoOn, Fault, Moves

\* A dk that ends leaves its forwards behind, on the same ports.
LEMMA OrphanIs ==
  ASSUME DevTypes, NEW p \in Processes
  PROVE  /\ Orphan(p) \subseteq Charts \X (Processes \cup {"orphan"})
         /\ {f[1] : f \in Orphan(p)} = Ports
<1>1. \A f \in forwards : f[1] \in Charts /\ f = <<f[1], f[2]>> /\ f[2] \in Processes \cup {"orphan"}
  BY DEF DevTypes
<1>2. \A f \in forwards : /\ <<f[1], "orphan">> \in Charts \X (Processes \cup {"orphan"})
                          /\ <<f[1], "orphan">>[1] = f[1]
  BY <1>1
<1>3. Orphan(p) \subseteq Charts \X (Processes \cup {"orphan"})
  BY <1>2 DEF Orphan, DevTypes
<1>4. \A f \in forwards : (IF f[2] = p THEN <<f[1], "orphan">> ELSE f)[1] = f[1]
  OBVIOUS
<1>5. {f[1] : f \in Orphan(p)} = Ports
  BY <1>4 DEF Orphan, Ports
<1>6. QED
  BY <1>3, <1>5

\* A command that is taken to a point of the code, or to its end.
LEMMA AtIs ==
  ASSUME DevTypes, NEW p \in Processes, NEW point \in Points, NEW faulty \in BOOLEAN
  PROVE  LET r == At(p, point, faulty) IN
         /\ r \in CommandType
         /\ point \notin Outcomes =>
              /\ r.pc = point /\ r.faulty = faulty /\ r.alone = run[p].alone
              /\ r.todo = run[p].todo /\ r.bad = run[p].bad /\ r.volumes = run[p].volumes
         /\ point \in Outcomes =>
              /\ r.pc \in Outcomes
              /\ r.pc = "done" => point = "done"
              /\ r.pc = "failed" => point = "failed" /\ ~faulty
<1>1. run[p] \in CommandType
  BY DEF DevTypes
<1>2. CASE point \notin Outcomes
  BY <1>1, <1>2 DEF At, CommandType
<1>3. CASE point \in Outcomes
  BY <1>1, <1>3 DEF At, Command, CommandType, Outcomes, Points
<1>4. QED
  BY <1>2, <1>3

\* A move leaves the other commands and the ports as they are.
LEMMA MoveIs ==
  ASSUME DevTypes, NEW p \in Processes, NEW point \in Points, NEW faulty \in BOOLEAN,
         Moves(p, point, faulty)
  PROVE  /\ run' \in [Processes -> CommandType]
         /\ \A q \in Processes \ {p} : run'[q] = run[q]
         /\ forwards' \subseteq Charts \X (Processes \cup {"orphan"})
         /\ Ports' = Ports
         /\ point \notin Outcomes =>
              /\ run'[p].pc = point /\ run'[p].faulty = faulty /\ run'[p].alone = run[p].alone
              /\ run'[p].todo = run[p].todo /\ run'[p].bad = run[p].bad
              /\ run'[p].volumes = run[p].volumes
         /\ point \in Outcomes =>
              /\ run'[p].pc \in Outcomes
              /\ run'[p].pc = "done" => point = "done"
              /\ run'[p].pc = "failed" => point = "failed" /\ ~faulty
<1>1. run'[p] = At(p, point, faulty)
  BY DEF Moves, DevTypes
<1>2. At(p, point, faulty) \in CommandType
  BY AtIs
<1>3. run' \in [Processes -> CommandType] /\ \A q \in Processes \ {p} : run'[q] = run[q]
  BY <1>2 DEF Moves, DevTypes
<1>4. forwards' \subseteq Charts \X (Processes \cup {"orphan"}) /\ Ports' = Ports
  <2>1. CASE point \in Outcomes
    BY <2>1, OrphanIs DEF Moves, Ports
  <2>2. CASE point \notin Outcomes
    BY <2>2 DEF Moves, DevTypes, Ports
  <2>3. QED
    BY <2>1, <2>2
<1>5. QED
  BY <1>1, <1>3, <1>4, AtIs
\* What the three properties say of a step of p.
Promised(p) ==
  LET done == run'[p].pc = "done" IN
  /\ done /\ run[p].pc = "healthy" =>
       /\ cluster = "running"
       /\ \A c \in Charts : helm[c] = "deployed"
       /\ \A f \in forwards : f[2] = p
  /\ run'[p].pc = "failed" => LeftInTheWay(p)
  /\ done /\ run[p].pc \in DownPoints =>
       /\ cluster' # "running"
       /\ run[p].volumes => cluster' = "none" /\ helm' = NoReleases /\ whole'
       /\ run[p].pc = "volume" => ~volume' /\ container'.state = "none"

\* What a step of p's command does.
StepOf(p) ==
  /\ ~Ended(p) /\ DevTypes'
  /\ \A q \in Processes \ {p} : run'[q] = run[q]
  /\ Alone(p)' => run[p].alone
  /\ run[p].alone /\ Knows(p) => (~Ended(p)' => Knows(p)') /\ Promised(p)

\* The states of the cache's container.
LEMMA ContainersAre ==
  /\ NoContainer \in [state : {"none", "stopped", "running"}, label : Releases \cup {"none"}]
  /\ NoContainer.state = "none"
  /\ \A c \in [state : {"none", "stopped", "running"}, label : Releases \cup {"none"}] :
       \A s \in {"stopped", "running"} :
         LET d == [c EXCEPT !.state = s] IN
         /\ d \in [state : {"none", "stopped", "running"}, label : Releases \cup {"none"}]
         /\ d.state = s
BY DEF NoContainer

\* What a command is.
LEMMA CommandIs ==
  ASSUME DevTypes, NEW p \in Processes
  PROVE  /\ run[p].pc \in Points /\ run[p].faulty \in BOOLEAN /\ run[p].bad \in BOOLEAN
         /\ run[p].todo \subseteq Charts /\ run[p] \in CommandType
BY DEF DevTypes, CommandType

\* The inspection of the cache's container is a step of its command.
LEMMA CacheSteps ==
  ASSUME DevTypes, NEW p \in Processes, CacheInspect(p) PROVE StepOf(p)
<1>1. run[p].pc = "cache" /\ UNCHANGED <<container, network, volume, cluster, whole, helm>>
  BY DEF CacheInspect, clusterVars
<1>2. PICK point \in {"network", "start", "remove", "status"}, faulty \in BOOLEAN :
        /\ Moves(p, point, faulty)
        /\ ~faulty => (point = "start" => container.state # "none")
                        /\ (point = "network" => container.state = "none")
  <2>1. run[p].faulty \in BOOLEAN
    BY CommandIs
  <2>2. CASE container.state = "none" /\ GoOn(p, "network")
    BY <2>1, <2>2, GoOnMoves
  <2>3. CASE /\ container.state # "none"
             /\ \E point \in {"remove", "status", "start"} : GoOn(p, point)
    BY <2>1, <2>3, GoOnMoves
  <2>4. CASE \E point \in {"network", "start", "remove"} : Fault(p, point)
    BY <2>4, GoOnMoves
  <2>5. QED
    BY <2>2, <2>3, <2>4 DEF CacheInspect
<1>3. /\ point \in Points /\ point \notin Outcomes
      /\ point \notin {"create", "cluster", "charts", "forward", "healthy", "cache_down", "volume"}
  BY DEF Points, UpPoints, Outcomes
<1>4. /\ run' \in [Processes -> CommandType] /\ \A q \in Processes \ {p} : run'[q] = run[q]
      /\ forwards' \subseteq Charts \X (Processes \cup {"orphan"})
      /\ run'[p].pc = point /\ run'[p].faulty = faulty /\ run'[p].alone = run[p].alone
      /\ run'[p].bad = run[p].bad
  BY <1>2, <1>3, MoveIs
<1>5. QED
  BY <1>1, <1>2, <1>3, <1>4
     DEF StepOf, Ended, Alone, Knows, Promised, DevTypes, DownPoints, Outcomes
\* The calls that start, remove and create the cache's container are, too.
LEMMA ContainerSteps ==
  ASSUME DevTypes, NEW p \in Processes,
         StartContainer(p) \/ RemoveContainer(p) \/ EnsureNetwork(p) \/ CreateContainer(p)
  PROVE  StepOf(p)
<1>1. /\ run[p].faulty \in BOOLEAN /\ UNCHANGED <<cluster, whole, helm>>
      /\ run[p].pc \in {"start", "remove", "network", "create"}
  BY CommandIs DEF StartContainer, RemoveContainer, EnsureNetwork, CreateContainer, clusterVars
<1>2. Release[p] \in Releases
  BY DEF Releases
<1>3. PICK point \in {"network", "create", "status", "failed"}, faulty \in BOOLEAN :
        /\ Moves(p, point, faulty)
        /\ container' \in [state : {"none", "stopped", "running"}, label : Releases \cup {"none"}]
        /\ network' \in BOOLEAN /\ volume' \in BOOLEAN
        /\ point = "network" => container'.state = "none"
        /\ point = "create" => /\ run[p].pc = "network" /\ UNCHANGED container
                               /\ ~faulty => ~run[p].faulty
        /\ point = "failed" /\ ~faulty =>
             /\ ~run[p].faulty
             /\ \/ run[p].pc = "start" /\ container.state = "none"
                \/ run[p].pc = "create" /\ container.state # "none"
  <2>1. CASE StartContainer(p)
    <3>1. container \in [state : {"none", "stopped", "running"}, label : Releases \cup {"none"}]
          /\ network \in BOOLEAN /\ volume \in BOOLEAN
      BY DEF DevTypes
    <3>2. CASE container' = [container EXCEPT !.state = "running"] /\ GoOn(p, "status")
      BY <1>1, <2>1, <3>1, <3>2, GoOnMoves, ContainersAre DEF StartContainer
    <3>3. CASE container.state = "none" /\ GoOn(p, "failed") /\ UNCHANGED container
      BY <1>1, <2>1, <3>1, <3>3, GoOnMoves DEF StartContainer
    <3>4. CASE Fault(p, "failed") /\ UNCHANGED container
      BY <2>1, <3>1, <3>4, GoOnMoves DEF StartContainer
    <3>5. QED
      BY <2>1, <3>2, <3>3, <3>4 DEF StartContainer
  <2>2. CASE RemoveContainer(p)
    BY <1>1, <2>2, GoOnMoves, ContainersAre DEF RemoveContainer, DevTypes
  <2>3. CASE EnsureNetwork(p)
    BY <1>1, <2>3, GoOnMoves DEF EnsureNetwork, DevTypes
  <2>4. CASE CreateContainer(p)
    <3>1. network' \in BOOLEAN
      BY <2>4 DEF CreateContainer, DevTypes
    <3>2. volume' \in BOOLEAN
      BY <2>4 DEF CreateContainer, DevTypes
    <3>3. container' \in [state : {"none", "stopped", "running"}, label : Releases \cup {"none"}]
      <4>1. \A s \in {"stopped", "running"} :
              [state |-> s, label |-> Release[p]]
                \in [state : {"none", "stopped", "running"}, label : Releases \cup {"none"}]
        BY <1>2
      <4>2. \/ container' = container
            \/ \E s \in {"stopped", "running"} : container' = [state |-> s, label |-> Release[p]]
        BY <2>4 DEF CreateContainer
      <4>3. QED
        BY <4>1, <4>2 DEF DevTypes
    <3>4. run[p].pc = "create" /\ \/ GoOn(p, "status") \/ Fault(p, "failed")
                                  \/ container.state # "none" /\ GoOn(p, "failed")
      BY <2>4 DEF CreateContainer
    <3>5. QED
      BY <1>1, <3>1, <3>2, <3>3, <3>4, GoOnMoves
  <2>5. QED
    BY <2>1, <2>2, <2>3, <2>4
<1>4. point \in Points /\ (point \in Outcomes <=> point = "failed")
  BY DEF Points, UpPoints, Outcomes
<1>5. /\ run' \in [Processes -> CommandType] /\ \A q \in Processes \ {p} : run'[q] = run[q]
      /\ forwards' \subseteq Charts \X (Processes \cup {"orphan"})
      /\ point # "failed" =>
           /\ run'[p].pc = point /\ run'[p].faulty = faulty /\ run'[p].alone = run[p].alone
           /\ run'[p].bad = run[p].bad
      /\ point = "failed" =>
           run'[p].pc \in Outcomes /\ run'[p].pc # "done" /\ (run'[p].pc = "failed" => ~faulty)
  BY <1>3, <1>4, MoveIs
<1>6. DevTypes'
  BY <1>1, <1>3, <1>5 DEF DevTypes
<1>7. ~Ended(p) /\ (Alone(p)' => run[p].alone)
  BY <1>1, <1>4, <1>5 DEF Ended, Alone, Outcomes
<1>8. ASSUME run[p].alone, Knows(p) PROVE Promised(p)
  BY <1>1, <1>3, <1>4, <1>5, <1>8 DEF Promised, Knows, Outcomes
<1>9. ASSUME run[p].alone, Knows(p), ~Ended(p)' PROVE Knows(p)'
  <2>1. /\ point # "failed" /\ run'[p].pc = point /\ run'[p].faulty = faulty
        /\ ~run'[p].bad
    BY <1>1, <1>4, <1>5, <1>9 DEF Ended, Knows
  <2>2. point \in {"network", "create"} => faulty \/ container'.state = "none"
    BY <1>1, <1>3, <1>9 DEF Knows
  <2>3. QED
    BY <1>3, <2>1, <2>2 DEF Knows
<1>10. QED
  BY <1>5, <1>6, <1>7, <1>8, <1>9 DEF StepOf

\* So are the check of the cluster and of the ports.
LEMMA CheckSteps ==
  ASSUME DevTypes, NEW p \in Processes, CheckStatus(p) \/ CheckPorts(p) PROVE StepOf(p)
<1>1. /\ run[p].faulty \in BOOLEAN
      /\ UNCHANGED <<container, network, volume, cluster, whole, helm>>
      /\ run[p].pc \in {"status", "ports"}
  BY CommandIs DEF CheckStatus, CheckPorts, clusterVars
<1>2. PICK point \in {"ports", "cluster", "done", "failed"}, faulty \in BOOLEAN :
        /\ Moves(p, point, faulty)
        /\ point = "cluster" => Ports = {}
        /\ point = "failed" /\ ~faulty => run[p].pc = "ports" /\ Ports # {}
  <2>1. CASE CheckStatus(p)
    BY <1>1, <2>1, GoOnMoves DEF CheckStatus
  <2>2. CASE CheckPorts(p)
    BY <1>1, <2>2, GoOnMoves DEF CheckPorts
  <2>3. QED
    BY <2>1, <2>2
<1>3. point \in Points /\ (point \in Outcomes <=> point \in {"done", "failed"})
  BY DEF Points, UpPoints, Outcomes
<1>4. /\ run' \in [Processes -> CommandType] /\ \A q \in Processes \ {p} : run'[q] = run[q]
      /\ forwards' \subseteq Charts \X (Processes \cup {"orphan"}) /\ Ports' = Ports
      /\ point \notin Outcomes =>
           /\ run'[p].pc = point /\ run'[p].faulty = faulty /\ run'[p].alone = run[p].alone
           /\ run'[p].bad = run[p].bad
      /\ point \in Outcomes =>
           run'[p].pc \in Outcomes /\ (run'[p].pc = "failed" => point = "failed" /\ ~faulty)
  BY <1>2, <1>3, MoveIs
<1>5. Promised(p)
  BY <1>1, <1>2, <1>3, <1>4 DEF Promised, LeftInTheWay, DownPoints, Outcomes
<1>6. Knows(p) /\ ~Ended(p)' => Knows(p)'
  BY <1>1, <1>2, <1>3, <1>4 DEF Knows, Ended
<1>7. QED
  BY <1>1, <1>3, <1>4, <1>5, <1>6 DEF StepOf, Ended, Alone, DevTypes, Outcomes
\* So is the start or creation of the cluster.
LEMMA ClusterUpSteps ==
  ASSUME DevTypes, NEW p \in Processes, ClusterUp(p) PROVE StepOf(p)
<1>1. /\ run[p] \in CommandType /\ run[p].pc = "cluster" /\ run[p].faulty \in BOOLEAN
      /\ UNCHANGED <<container, network, volume, helm>>
      /\ cluster' \in {"none", "stopped", "running"} /\ whole' \in BOOLEAN
  <2>1. cluster' \in {"none", "stopped", "running"} /\ whole' \in BOOLEAN
    BY DEF ClusterUp, DevTypes
  <2>2. QED
    BY <2>1, CommandIs DEF ClusterUp
<1>2. CASE /\ cluster' = "running" /\ UNCHANGED <<whole, forwards>>
           /\ run' = [run EXCEPT ![p].pc = "charts", ![p].todo = Charts]
  <2> DEFINE r == [run[p] EXCEPT !.pc = "charts", !.todo = Charts]
  <2>1. /\ r \in CommandType /\ r.pc = "charts" /\ r.todo = Charts
        /\ r.alone = run[p].alone /\ r.bad = run[p].bad
    BY <1>1 DEF CommandType, Points, UpPoints
  <2>2. run' = [run EXCEPT ![p] = r]
    BY <1>2 DEF DevTypes
  <2> HIDE DEF r
  <2>3. /\ run' \in [Processes -> CommandType] /\ run'[p] = r
        /\ \A q \in Processes \ {p} : run'[q] = run[q]
    BY <2>1, <2>2 DEF DevTypes
  <2>4. DevTypes'
    BY <1>1, <1>2, <2>3 DEF DevTypes
  <2>5. ~Ended(p) /\ ~Ended(p)' /\ (Alone(p)' => run[p].alone)
    BY <1>1, <2>1, <2>3 DEF Ended, Alone, Outcomes
  <2>6. Knows(p) => Knows(p)' /\ Promised(p)
    <3>1. Ports' = Ports
      BY <1>2 DEF Ports
    <3>2. QED
      BY <1>1, <1>2, <2>1, <2>3, <3>1 DEF Knows, Promised
  <2>7. QED
    BY <2>3, <2>4, <2>5, <2>6 DEF StepOf
<1>3. ASSUME NEW faulty \in BOOLEAN, Moves(p, "failed", faulty), ~faulty => ~whole
      PROVE  StepOf(p)
  <2>1. "failed" \in Points /\ "failed" \in Outcomes
    BY DEF Points, Outcomes
  <2>2. /\ run' \in [Processes -> CommandType] /\ \A q \in Processes \ {p} : run'[q] = run[q]
        /\ forwards' \subseteq Charts \X (Processes \cup {"orphan"})
        /\ run'[p].pc \in Outcomes \ {"done"} /\ (run'[p].pc = "failed" => ~whole)
    BY <1>3, <2>1, MoveIs
  <2>3. DevTypes'
    BY <1>1, <2>2 DEF DevTypes
  <2>4. QED
    BY <1>1, <2>2, <2>3 DEF StepOf, Ended, Alone, Promised, LeftInTheWay, Outcomes
<1>4. QED
  BY <1>1, <1>2, <1>3, GoOnMoves DEF ClusterUp

\* So is the deployment of a chart.
LEMMA DeployChartSteps ==
  ASSUME DevTypes, NEW p \in Processes, NEW c \in Charts, DeployChart(p, c) PROVE StepOf(p)
<1> DEFINE Held == ~whole \/ \E d \in Charts : helm[d] = "pending"
<1>1. /\ run[p] \in CommandType /\ run[p].pc = "charts"
      /\ UNCHANGED <<container, network, volume, cluster, whole, forwards>>
  BY CommandIs DEF DeployChart
<1>2. PICK r \in CommandType :
        /\ run' = [run EXCEPT ![p] = r]
        /\ r.pc = "charts" /\ r.alone = run[p].alone /\ r.todo = run[p].todo \ {c}
        /\ \/ /\ helm[c] # "pending" /\ helm' = [helm EXCEPT ![c] = "deployed"]
              /\ r.bad = run[p].bad /\ r.faulty = run[p].faulty
           \/ (cluster # "running" \/ Held) /\ r.bad /\ UNCHANGED helm
           \/ r.bad /\ r.faulty /\ helm' \in {helm, [helm EXCEPT ![c] = "pending"]}
  <2> DEFINE r1 == [run[p] EXCEPT !.todo = @ \ {c}, !.bad = @ \/ FALSE, !.faulty = @ \/ FALSE]
             r2 == [run[p] EXCEPT !.todo = @ \ {c}, !.bad = @ \/ TRUE, !.faulty = @ \/ FALSE]
             r3 == [run[p] EXCEPT !.todo = @ \ {c}, !.bad = @ \/ TRUE, !.faulty = @ \/ TRUE]
  <2>1. /\ r1 \in CommandType /\ r1.pc = "charts" /\ r1.alone = run[p].alone
        /\ r1.todo = run[p].todo \ {c} /\ r1.bad = run[p].bad /\ r1.faulty = run[p].faulty
    BY <1>1 DEF CommandType
  <2>2. /\ r2 \in CommandType /\ r2.pc = "charts" /\ r2.alone = run[p].alone
        /\ r2.todo = run[p].todo \ {c} /\ r2.bad
    BY <1>1 DEF CommandType
  <2>3. /\ r3 \in CommandType /\ r3.pc = "charts" /\ r3.alone = run[p].alone
        /\ r3.todo = run[p].todo \ {c} /\ r3.bad /\ r3.faulty
    BY <1>1 DEF CommandType
  <2>4. \/ /\ run' = [run EXCEPT ![p] = r1]
           /\ helm[c] # "pending" /\ helm' = [helm EXCEPT ![c] = "deployed"]
        \/ /\ run' = [run EXCEPT ![p] = r2] /\ UNCHANGED helm
           /\ cluster # "running" \/ helm[c] = "pending" \/ ~whole
        \/ /\ run' = [run EXCEPT ![p] = r3]
           /\ helm' \in {helm, [helm EXCEPT ![c] = "pending"]}
    BY DEF DeployChart, DevTypes
  <2> HIDE DEF r1, r2, r3
  <2>5. QED
    BY <2>1, <2>2, <2>3, <2>4
<1>3. /\ run' \in [Processes -> CommandType] /\ run'[p] = r
      /\ \A q \in Processes \ {p} : run'[q] = run[q]
  BY <1>2 DEF DevTypes
<1>4. DevTypes'
  BY <1>1, <1>2, <1>3 DEF DevTypes
<1>5. ~Ended(p) /\ ~Ended(p)' /\ (Alone(p)' => run[p].alone)
  BY <1>1, <1>2, <1>3 DEF Ended, Alone, Outcomes
<1>6. ASSUME Knows(p) PROVE Knows(p)' /\ Promised(p)
  <2>1. cluster = "running" /\ Ports = {} /\ Ports' = {}
    BY <1>1, <1>6 DEF Knows, Ports
  <2>2. IF run'[p].bad
        THEN run'[p].faulty \/ ~whole' \/ \E d \in Charts : helm'[d] = "pending"
        ELSE \A d \in Charts \ run'[p].todo : helm'[d] = "deployed"
    <3>1. IF run[p].bad THEN run[p].faulty \/ Held
          ELSE \A d \in Charts \ run[p].todo : helm[d] = "deployed"
      BY <1>1, <1>6 DEF Knows
    <3>2. CASE /\ helm[c] # "pending" /\ helm' = [helm EXCEPT ![c] = "deployed"]
               /\ r.bad = run[p].bad /\ r.faulty = run[p].faulty
      BY <1>1, <1>2, <1>3, <3>1, <3>2 DEF DevTypes
    <3>3. CASE Held /\ r.bad /\ UNCHANGED helm
      BY <1>1, <1>3, <3>3
    <3>4. CASE r.bad /\ r.faulty
      BY <1>3, <3>4
    <3>5. QED
      BY <1>2, <2>1, <3>2, <3>3, <3>4
  <2>3. QED
    BY <1>1, <1>2, <1>3, <2>1, <2>2 DEF Knows, Promised
<1>7. QED
  BY <1>3, <1>4, <1>5, <1>6 DEF StepOf

\* So is the end of the deployments.
LEMMA DeployEndsSteps ==
  ASSUME DevTypes, NEW p \in Processes, DeployEnds(p) PROVE StepOf(p)
<1>1. /\ run[p].pc = "charts" /\ run[p].todo = {} /\ run[p].faulty \in BOOLEAN
      /\ run[p].bad \in BOOLEAN
      /\ UNCHANGED <<container, network, volume, cluster, whole, helm>>
  BY CommandIs DEF DeployEnds, clusterVars
<1>2. PICK point \in {"failed", "forward"} :
        Moves(p, point, run[p].faulty) /\ (point = "failed" <=> run[p].bad)
  BY <1>1, GoOnMoves DEF DeployEnds
<1>3. point \in Points /\ (point \in Outcomes <=> point = "failed")
  BY DEF Points, UpPoints, Outcomes
<1>4. /\ run' \in [Processes -> CommandType] /\ \A q \in Processes \ {p} : run'[q] = run[q]
      /\ forwards' \subseteq Charts \X (Processes \cup {"orphan"}) /\ Ports' = Ports
      /\ point # "failed" =>
           /\ run'[p].pc = point /\ run'[p].faulty = run[p].faulty
           /\ run'[p].alone = run[p].alone /\ run'[p].bad = run[p].bad
      /\ point = "failed" =>
           /\ run'[p].pc \in Outcomes /\ run'[p].pc # "done"
           /\ run'[p].pc = "failed" => ~run[p].faulty
  BY <1>1, <1>2, <1>3, MoveIs
<1>5. DevTypes'
  BY <1>1, <1>4 DEF DevTypes
<1>6. ~Ended(p) /\ (Alone(p)' => run[p].alone)
  BY <1>1, <1>3, <1>4 DEF Ended, Alone, Outcomes
<1>7. Knows(p) => Promised(p)
  BY <1>1, <1>2, <1>3, <1>4 DEF Knows, Promised, LeftInTheWay, Outcomes
<1>8. Knows(p) /\ ~Ended(p)' => Knows(p)'
  BY <1>1, <1>2, <1>3, <1>4 DEF Knows, Ended
<1>9. QED
  BY <1>4, <1>5, <1>6, <1>7, <1>8 DEF StepOf

\* So is the start of the port forwards.
LEMMA ForwardSteps ==
  ASSUME DevTypes, NEW p \in Processes, startPortForwarding(p) PROVE StepOf(p)
<1>1. /\ run[p] \in CommandType /\ run[p].pc = "forward"
      /\ UNCHANGED <<container, network, volume, cluster, whole, helm>>
  BY CommandIs DEF startPortForwarding, clusterVars
<1>2. CASE /\ run' = [run EXCEPT ![p].pc = "healthy"]
           /\ forwards' = forwards \cup {<<c, p>> : c \in Forwarded \ Ports}
  <2> DEFINE r == [run[p] EXCEPT !.pc = "healthy"]
  <2>1. /\ r \in CommandType /\ r.pc = "healthy"
        /\ r.alone = run[p].alone /\ r.bad = run[p].bad
    BY <1>1 DEF CommandType, Points, UpPoints
  <2>2. run' = [run EXCEPT ![p] = r]
    BY <1>2 DEF DevTypes
  <2> HIDE DEF r
  <2>3. /\ run' \in [Processes -> CommandType] /\ run'[p] = r
        /\ \A q \in Processes \ {p} : run'[q] = run[q]
    BY <2>1, <2>2 DEF DevTypes
  <2>4. \A f \in forwards' \ forwards : f \in Charts \X Processes /\ f[2] = p
    BY <1>2, DevStackAssumption
  <2>5. DevTypes'
    BY <1>1, <2>3, <2>4 DEF DevTypes
  <2>6. ~Ended(p) /\ ~Ended(p)' /\ (Alone(p)' => run[p].alone)
    BY <1>1, <2>1, <2>3 DEF Ended, Alone, Outcomes
  <2>7. ASSUME Knows(p) PROVE Knows(p)' /\ Promised(p)
    <3>1. forwards = {}
      BY <1>1, <2>7 DEF Knows, Ports
    <3>2. \A f \in forwards' : f[2] = p
      BY <2>4, <3>1
    <3>3. QED
      BY <1>1, <2>1, <2>3, <2>7, <3>2 DEF Knows, Promised
  <2>8. QED
    BY <2>3, <2>5, <2>6, <2>7 DEF StepOf
<1>3. CASE Fault(p, "failed")
  <2>1. Moves(p, "failed", TRUE) /\ "failed" \in Points /\ "failed" \in Outcomes
    BY <1>3, GoOnMoves DEF Points, Outcomes
  <2>2. /\ run' \in [Processes -> CommandType] /\ \A q \in Processes \ {p} : run'[q] = run[q]
        /\ forwards' \subseteq Charts \X (Processes \cup {"orphan"})
        /\ run'[p].pc \in Outcomes \ {"done", "failed"}
    BY <2>1, MoveIs
  <2>3. QED
    BY <1>1, <2>2 DEF StepOf, Ended, Alone, Promised, DevTypes, Outcomes
<1>4. QED
  BY <1>2, <1>3 DEF startPortForwarding

\* So is the wait for health.
LEMMA ForwardEndSteps ==
  ASSUME DevTypes, NEW p \in Processes, WaitForHealthy(p) PROVE StepOf(p)
<1>1. /\ run[p].pc = "healthy" /\ run[p].faulty \in BOOLEAN
      /\ UNCHANGED <<container, network, volume, cluster, whole, helm>>
  BY CommandIs DEF WaitForHealthy, clusterVars
<1>2. Moves(p, "done", run[p].faulty) /\ "done" \in Points \cap Outcomes
  BY GoOnMoves DEF WaitForHealthy, Points, Outcomes
<1>3. /\ run' \in [Processes -> CommandType] /\ \A q \in Processes \ {p} : run'[q] = run[q]
      /\ forwards' \subseteq Charts \X (Processes \cup {"orphan"})
      /\ run'[p].pc \in Outcomes \ {"failed"}
  BY <1>1, <1>2, MoveIs
<1>4. DevTypes'
  BY <1>1, <1>3 DEF DevTypes
<1>5. ~Ended(p) /\ Ended(p)'
  BY <1>1, <1>3 DEF Ended, Outcomes
<1>6. Knows(p) => Promised(p)
  BY <1>1, <1>3 DEF Knows, Promised, DownPoints
<1>7. QED
  BY <1>3, <1>4, <1>5, <1>6 DEF StepOf, Alone

\* So is the stop or deletion of the cluster.
LEMMA ClusterDownSteps ==
  ASSUME DevTypes, NEW p \in Processes, ClusterDown(p) PROVE StepOf(p)
<1>1. /\ run[p].pc = "down" /\ run[p].faulty \in BOOLEAN /\ run[p].bad \in BOOLEAN
      /\ UNCHANGED <<container, network, volume>>
  BY CommandIs DEF ClusterDown
<1>2. PICK point \in {"cache_down", "done", "failed"}, faulty \in BOOLEAN :
        /\ Moves(p, point, faulty)
        /\ point = "failed" => faulty \/ (~whole /\ ~run[p].volumes)
        /\ point # "failed" => IF run[p].volumes \/ cluster = "none" THEN DeleteCluster
                               ELSE StopCluster
        /\ \/ DeleteCluster \/ StopCluster \/ UNCHANGED clusterVars
           \/ cluster' \in {cluster, "stopped"} /\ whole' = FALSE /\ UNCHANGED helm
  <2>1. CASE \E point \in {"cache_down", "done"} :
               /\ IF run[p].volumes \/ cluster = "none" THEN DeleteCluster ELSE StopCluster
               /\ GoOn(p, point)
    BY <1>1, <2>1, GoOnMoves
  <2>2. CASE ~run[p].volumes /\ ~whole /\ GoOn(p, "failed") /\ UNCHANGED clusterVars
    BY <1>1, <2>2, GoOnMoves
  <2>3. CASE /\ Fault(p, "failed")
             /\ \/ DeleteCluster \/ StopCluster \/ UNCHANGED clusterVars
                \/ cluster' \in {cluster, "stopped"} /\ whole' = FALSE /\ UNCHANGED helm
    BY <2>3, GoOnMoves
  <2>4. QED
    BY <2>1, <2>2, <2>3 DEF ClusterDown
<1>3. point \in Points /\ (point \in Outcomes <=> point \in {"done", "failed"})
  BY DEF Points, DownPoints, Outcomes
<1>4. /\ run' \in [Processes -> CommandType] /\ \A q \in Processes \ {p} : run'[q] = run[q]
      /\ forwards' \subseteq Charts \X (Processes \cup {"orphan"})
      /\ point \notin Outcomes =>
           /\ run'[p].pc = point /\ run'[p].alone = run[p].alone
           /\ run'[p].bad = run[p].bad /\ run'[p].volumes = run[p].volumes
      /\ point \in Outcomes =>
           run'[p].pc \in Outcomes /\ (run'[p].pc = "failed" => point = "failed" /\ ~faulty)
  BY <1>2, <1>3, MoveIs
<1>5. /\ cluster' \in {"none", "stopped", "running"} /\ whole' \in BOOLEAN
      /\ helm' \in [Charts -> {"none", "deployed", "pending"}]
  BY <1>2 DEF DevTypes, DeleteCluster, StopCluster, NoReleases, clusterVars
<1>6. DevTypes'
  BY <1>1, <1>4, <1>5 DEF DevTypes
<1>7. ~Ended(p) /\ (Alone(p)' => run[p].alone)
  BY <1>1, <1>3, <1>4 DEF Ended, Alone, Outcomes
<1>8. run'[p].pc = "failed" => LeftInTheWay(p)
  BY <1>1, <1>2, <1>3, <1>4 DEF Outcomes, LeftInTheWay
<1>9. run'[p].pc \in {"done", "cache_down"} =>
        /\ cluster' # "running"
        /\ run[p].volumes => cluster' = "none" /\ helm' = NoReleases /\ whole'
  <2>1. ASSUME run'[p].pc = "done" PROVE point # "failed"
    BY <1>2, <1>3, <1>4, <2>1, MoveIs
  <2>2. ASSUME run'[p].pc = "cache_down" PROVE point # "failed"
    BY <1>3, <1>4, <2>2 DEF Outcomes
  <2>3. QED
    BY <1>2, <2>1, <2>2 DEF DeleteCluster, StopCluster
<1>10. Promised(p)
  BY <1>1, <1>8, <1>9 DEF Promised
<1>11. Knows(p) /\ ~Ended(p)' => Knows(p)'
  BY <1>1, <1>3, <1>4, <1>9 DEF Knows, Ended
<1>12. QED
  BY <1>4, <1>6, <1>7, <1>10, <1>11 DEF StepOf

\* So are the removal of the cache and of its volume.
LEMMA CacheDownSteps ==
  ASSUME DevTypes, NEW p \in Processes, CacheDown(p) \/ RemoveVolume(p) PROVE StepOf(p)
<1>1. /\ run[p].pc \in {"cache_down", "volume"} /\ run[p].faulty \in BOOLEAN
      /\ run[p].bad \in BOOLEAN /\ UNCHANGED <<network, cluster, whole, helm>>
  BY CommandIs DEF CacheDown, RemoveVolume, clusterVars
<1>2. /\ container \in [state : {"none", "stopped", "running"}, label : Releases \cup {"none"}]
      /\ volume \in BOOLEAN
  BY DEF DevTypes
<1>3. PICK point \in {"volume", "done", "failed"}, faulty \in BOOLEAN :
        /\ Moves(p, point, faulty)
        /\ container' \in [state : {"none", "stopped", "running"}, label : Releases \cup {"none"}]
        /\ volume' \in BOOLEAN
        /\ point = "failed" => faulty
        /\ run[p].pc = "volume" /\ point = "done" => ~volume' /\ container'.state = "none"
  <2>1. CASE CacheDown(p)
    <3>1. PICK point \in {"volume", "done"}, faulty \in BOOLEAN : Moves(p, point, faulty)
      BY <1>1, <2>1, GoOnMoves DEF CacheDown
    <3>2. container' = container \/ container' = NoContainer
            \/ container' = [container EXCEPT !.state = "stopped"]
      BY <2>1 DEF CacheDown
    <3>3. container' \in [state : {"none", "stopped", "running"}, label : Releases \cup {"none"}]
      BY <1>2, <3>2, ContainersAre
    <3>4. run[p].pc = "cache_down" /\ UNCHANGED volume
      BY <2>1 DEF CacheDown
    <3>5. QED
      BY <1>2, <3>1, <3>3, <3>4
  <2>2. CASE RemoveVolume(p)
    BY <1>1, <1>2, <2>2, GoOnMoves, ContainersAre DEF RemoveVolume
  <2>3. QED
    BY <2>1, <2>2
<1>4. point \in Points /\ (point \in Outcomes <=> point \in {"done", "failed"})
  BY DEF Points, DownPoints, Outcomes
<1>5. /\ run' \in [Processes -> CommandType] /\ \A q \in Processes \ {p} : run'[q] = run[q]
      /\ forwards' \subseteq Charts \X (Processes \cup {"orphan"})
      /\ point \notin Outcomes =>
           /\ run'[p].pc = point /\ run'[p].alone = run[p].alone
           /\ run'[p].bad = run[p].bad /\ run'[p].volumes = run[p].volumes
      /\ point \in Outcomes =>
           /\ run'[p].pc \in Outcomes
           /\ run'[p].pc = "done" => point = "done"
           /\ run'[p].pc = "failed" => point = "failed" /\ ~faulty
  BY <1>3, <1>4, MoveIs
<1>6. DevTypes'
  BY <1>1, <1>3, <1>5 DEF DevTypes
<1>7. ~Ended(p) /\ (Alone(p)' => run[p].alone)
  BY <1>1, <1>4, <1>5 DEF Ended, Alone, Outcomes
<1>8. run'[p].pc # "failed" /\ (run'[p].pc = "done" => point = "done")
  BY <1>3, <1>4, <1>5 DEF Outcomes
<1>9. Knows(p) => Promised(p)
  BY <1>1, <1>3, <1>8 DEF Promised, Knows
<1>10. Knows(p) /\ ~Ended(p)' => Knows(p)'
  BY <1>1, <1>4, <1>5 DEF Knows, Ended
<1>11. QED
  BY <1>5, <1>6, <1>7, <1>9, <1>10 DEF StepOf

\* So is an interruption.
LEMMA InterruptSteps ==
  ASSUME DevTypes, NEW p \in Processes, InterruptDev(p) PROVE StepOf(p)
<1>1. /\ ~Ended(p) /\ Moves(p, "faulty", TRUE)
      /\ UNCHANGED <<container, network, volume, cluster, whole, helm>>
  BY GoOnMoves DEF InterruptDev, clusterVars
<1>2. "faulty" \in Points /\ "faulty" \in Outcomes
  BY DEF Points, Outcomes
<1>3. /\ run' \in [Processes -> CommandType] /\ \A q \in Processes \ {p} : run'[q] = run[q]
      /\ forwards' \subseteq Charts \X (Processes \cup {"orphan"})
      /\ run'[p].pc \in Outcomes \ {"done", "failed"}
  BY <1>1, <1>2, MoveIs
<1>4. QED
  BY <1>1, <1>3 DEF StepOf, Ended, Alone, Promised, DevTypes, Outcomes
\* A command that begins knows nothing yet, and those it disturbs no longer count.
LEMMA BeginKeeps ==
  ASSUME DevInv, NEW p \in Processes, NEW point \in {"cache", "status", "down"},
         NEW volumes \in BOOLEAN, BeginCommand(p, Command(point, volumes))
  PROVE  /\ DevInv' /\ Ended(p)
         /\ \A q \in Processes \ {p} : run'[q].pc = run[q].pc
<1> DEFINE busy == {q \in Processes \ {p} : ~Ended(q)}
           mine == [Command(point, volumes) EXCEPT !.alone = busy = {}, !.faulty = busy # {}]
           disturbed(q) == [run[q] EXCEPT !.alone = FALSE, !.faulty = TRUE]
<1>1. /\ Ended(p) /\ UNCHANGED <<container, network, volume, cluster, whole, helm, forwards>>
      /\ run' = [q \in Processes |-> IF q = p THEN mine
                                     ELSE IF q \in busy THEN disturbed(q) ELSE run[q]]
  BY DEF BeginCommand, clusterVars
<1>2. /\ mine \in CommandType /\ mine.pc = point /\ ~mine.bad
      /\ mine.alone => busy = {}
  <2>1. (busy = {}) \in BOOLEAN /\ (busy # {}) \in BOOLEAN
    OBVIOUS
  <2> HIDE DEF busy
  <2>2. QED
    BY <2>1 DEF Command, CommandType, Points, UpPoints, DownPoints
<1>3. \A q \in Processes : /\ run[q] \in CommandType /\ disturbed(q) \in CommandType
                           /\ ~disturbed(q).alone /\ disturbed(q).pc = run[q].pc
  BY DEF DevInv, DevTypes, CommandType
<1>4. /\ run'[p] = mine
      /\ \A q \in busy : run'[q] = disturbed(q)
      /\ \A q \in Processes \ {p} : q \notin busy => run'[q] = run[q]
  BY <1>1
<1> HIDE DEF mine, disturbed
<1>5. run' \in [Processes -> CommandType]
  BY <1>1, <1>2, <1>3
<1>6. \A q \in Processes \ {p} : /\ run'[q].pc = run[q].pc
                                 /\ q \in busy => ~run'[q].alone
  BY <1>3, <1>4
<1>7. \A q \in Processes \ {p} : ~Alone(q)'
  BY <1>6 DEF Alone, Ended
<1>8. AloneInv'
  <2> SUFFICES ASSUME NEW q \in Processes, NEW r \in Processes, Alone(q)', ~Ended(r)'
               PROVE  q = r
    BY DEF AloneInv
  <2>1. q = p /\ busy = {}
    BY <1>2, <1>4, <1>7 DEF Alone
  <2>2. r \notin Processes \ {p}
    BY <1>6, <2>1 DEF Ended
  <2>3. QED
    BY <2>1, <2>2
<1>9. Knows(p)'
  BY <1>2, <1>4 DEF Knows
<1>10. DevTypes'
  BY <1>1, <1>5 DEF DevInv, DevTypes
<1>11. QED
  BY <1>1, <1>6, <1>7, <1>8, <1>9, <1>10 DEF DevInv

\* Every other step of a process is one of its command.
LEMMA StepsOfCommands ==
  ASSUME DevTypes, NEW p \in Processes, Up(p) \/ Down(p) \/ InterruptDev(p) PROVE StepOf(p)
BY CacheSteps, ContainerSteps, CheckSteps, ClusterUpSteps, DeployChartSteps, DeployEndsSteps,
   ForwardSteps, ForwardEndSteps, ClusterDownSteps, CacheDownSteps, InterruptSteps
   DEF Up, Down

\* A step of one command disturbs none that is alone.
LEMMA StepKeeps ==
  ASSUME DevInv, NEW p \in Processes, StepOf(p)
  PROVE  /\ DevInv'
         /\ \A q \in Processes : run[q].alone /\ ~Ended(q) /\ Ended(q)' => Promised(q)
<1>1. ASSUME NEW q \in Processes, q # p, Alone(q) PROVE FALSE
  BY <1>1 DEF StepOf, DevInv, AloneInv
<1>2. \A q \in Processes \ {p} : run'[q] = run[q]
  BY DEF StepOf
<1>3. \A q \in Processes \ {p} : ~Alone(q)'
  BY <1>1, <1>2 DEF Alone, Ended
<1>4. AloneInv'
  <2> SUFFICES ASSUME NEW q \in Processes, NEW r \in Processes, Alone(q)', ~Ended(r)'
               PROVE  q = r
    BY DEF AloneInv
  <2>1. q = p /\ Alone(p)
    BY <1>3 DEF StepOf, Alone
  <2>2. r # p => ~Ended(r)
    BY <1>2 DEF Ended
  <2>3. QED
    BY <2>1, <2>2 DEF DevInv, AloneInv
<1>5. Alone(p)' => Knows(p)'
  BY DEF StepOf, Alone, DevInv
<1>6. \A q \in Processes : run[q].alone /\ ~Ended(q) /\ Ended(q)' => Promised(q)
  <2> SUFFICES ASSUME NEW q \in Processes, run[q].alone, ~Ended(q), Ended(q)' PROVE Promised(q)
    OBVIOUS
  <2>1. q = p
    BY <1>2 DEF Ended
  <2>2. QED
    BY <2>1 DEF StepOf, DevInv, Alone
<1>7. QED
  BY <1>3, <1>4, <1>5, <1>6 DEF StepOf, DevInv

\* A port forward that ends keeps the invariant.
LEMMA ForwardEndsKeeps ==
  ASSUME DevInv, NEW f \in forwards, ForwardEnds(f) PROVE DevInv' /\ UNCHANGED run
<1>1. /\ forwards' = forwards \ {f}
      /\ UNCHANGED <<container, network, volume, cluster, whole, helm, run>>
  BY DEF ForwardEnds, clusterVars
<1>2. DevTypes'
  BY <1>1 DEF DevInv, DevTypes
<1>3. \A p \in Processes : (Alone(p)' <=> Alone(p)) /\ (Ended(p)' <=> Ended(p))
  BY <1>1 DEF Alone, Ended
<1>4. \A p \in Processes : Alone(p) => Knows(p)'
  <2>1. Ports = {} => Ports' = {}
    BY <1>1 DEF Ports
  <2>2. QED
    BY <1>1, <2>1 DEF DevInv, Knows
<1>5. QED
  BY <1>1, <1>2, <1>3, <1>4 DEF DevInv, AloneInv

\* Every step keeps the invariant, and an undisturbed command ends as promised.
LEMMA NextDev ==
  ASSUME DevInv, [DevNext]_devVars
  PROVE  /\ DevInv'
         /\ \A p \in Processes : run[p].alone /\ ~Ended(p) /\ Ended(p)' => Promised(p)
<1>1. CASE UNCHANGED devVars
  <2>1. DevTypes'
    BY <1>1 DEF devVars, clusterVars, DevInv, DevTypes
  <2>2. \A p \in Processes : /\ (Alone(p)' <=> Alone(p)) /\ (Ended(p)' <=> Ended(p))
                             /\ (Knows(p)' <=> Knows(p))
    BY <1>1 DEF devVars, clusterVars, Alone, Ended, Knows, Ports
  <2>3. QED
    BY <2>1, <2>2 DEF DevInv, AloneInv
<1>2. ASSUME NEW p \in Processes, NEW volumes \in BOOLEAN, DevUp(p) \/ DevDown(p, volumes)
      PROVE  /\ DevInv'
             /\ \A q \in Processes : run[q].alone /\ ~Ended(q) /\ Ended(q)' => Promised(q)
  <2>1. PICK point \in {"cache", "status", "down"}, v \in BOOLEAN :
          BeginCommand(p, Command(point, v))
    BY <1>2 DEF DevUp, DevDown
  <2>2. /\ DevInv' /\ Ended(p)
        /\ \A q \in Processes \ {p} : run'[q].pc = run[q].pc
    BY <2>1, BeginKeeps
  <2>3. QED
    BY <2>2 DEF Ended
<1>3. ASSUME NEW p \in Processes, Up(p) \/ Down(p) \/ InterruptDev(p)
      PROVE  /\ DevInv'
             /\ \A q \in Processes : run[q].alone /\ ~Ended(q) /\ Ended(q)' => Promised(q)
  BY <1>3, StepsOfCommands, StepKeeps DEF DevInv
<1>4. ASSUME NEW f \in forwards, ForwardEnds(f)
      PROVE  /\ DevInv'
             /\ \A q \in Processes : run[q].alone /\ ~Ended(q) /\ Ended(q)' => Promised(q)
  BY <1>4, ForwardEndsKeeps DEF Ended
<1>5. QED
  BY <1>1, <1>2, <1>3, <1>4 DEF DevNext

\* The invariant holds before any command.
LEMMA InitDev == DevInit => DevInv
<1> SUFFICES ASSUME DevInit PROVE DevInv
  OBVIOUS
<1>1. Command("done", FALSE) \in CommandType /\ Command("done", FALSE).pc \in Outcomes
  BY DEF Command, CommandType, Points, Outcomes
<1>2. /\ run \in [Processes -> CommandType] /\ \A p \in Processes : Ended(p)
      /\ container = NoContainer /\ network = FALSE /\ volume = FALSE /\ cluster = "none"
      /\ whole = TRUE /\ helm = NoReleases /\ forwards = {}
  BY <1>1 DEF DevInit, Ended
<1>3. DevTypes
  BY <1>2, ContainersAre DEF DevTypes, NoReleases
<1>4. QED
  BY <1>2, <1>3 DEF DevInv, AloneInv, Alone

\* For any number of charts and of dk processes of any releases: a dk dev up that has
\* started the stack, and that no other command disturbed, leaves the cluster running
\* with every chart installed, and no port forwarded but by its own kubectl, whatever
\* it found.
THEOREM StartedIsCompleteHolds == DevSpec => StartedIsComplete
<1>1. ASSUME DevInv, DevNext
      PROVE  \A p \in Processes : EndsAs(p, "done") /\ run[p].pc = "healthy" /\ run[p].alone =>
               /\ cluster = "running"
               /\ \A c \in Charts : helm[c] = "deployed"
               /\ \A f \in forwards : f[2] = p
  BY <1>1, NextDev DEF EndsAs, Ended, Outcomes, Promised
<1>2. DevInv /\ [DevNext]_devVars =>
        DevInv' /\ [\A p \in Processes :
          EndsAs(p, "done") /\ run[p].pc = "healthy" /\ run[p].alone =>
            /\ cluster = "running"
            /\ \A c \in Charts : helm[c] = "deployed"
            /\ \A f \in forwards : f[2] = p]_devVars
  BY <1>1, NextDev
<1>3. QED
  BY <1>2, InitDev, PTL DEF DevSpec, StartedIsComplete

\* Likewise an undisturbed command in which no tool fails does not fail either, but
\* for a port that an earlier one's kubectl holds, a release or a cluster that an
\* interrupted helm or k3d has left half done; and with those, dk dev down --volumes
\* does not.
THEOREM OnlyLeftoversBlockHolds == DevSpec => OnlyLeftoversBlock
<1>1. ASSUME DevInv, DevNext
      PROVE  \A p \in Processes : EndsAs(p, "failed") /\ run[p].alone => LeftInTheWay(p)
  BY <1>1, NextDev DEF EndsAs, Ended, Outcomes, Promised
<1>2. DevInv /\ [DevNext]_devVars =>
        DevInv' /\ [\A p \in Processes :
          EndsAs(p, "failed") /\ run[p].alone => LeftInTheWay(p)]_devVars
  BY <1>1, NextDev
<1>3. QED
  BY <1>2, InitDev, PTL DEF DevSpec, OnlyLeftoversBlock

\* Likewise an undisturbed dk dev down that succeeds has stopped the cluster, and
\* with --volumes removed it with its charts, whole or not, and the cache's volume.
THEOREM StoppedIsStoppedHolds == DevSpec => StoppedIsStopped
<1>1. ASSUME DevInv, DevNext
      PROVE  \A p \in Processes :
               EndsAs(p, "done") /\ run[p].pc \in {"down", "cache_down", "volume"} /\ run[p].alone =>
                 /\ cluster' # "running"
                 /\ run[p].volumes => cluster' = "none" /\ helm' = NoReleases /\ whole'
                 /\ run[p].pc = "volume" => ~volume' /\ container'.state = "none"
  BY <1>1, NextDev DEF EndsAs, Ended, Outcomes, Promised, DownPoints
<1>2. DevInv /\ [DevNext]_devVars =>
        DevInv' /\ [\A p \in Processes :
          EndsAs(p, "done") /\ run[p].pc \in {"down", "cache_down", "volume"} /\ run[p].alone =>
            /\ cluster' # "running"
            /\ run[p].volumes => cluster' = "none" /\ helm' = NoReleases /\ whole'
            /\ run[p].pc = "volume" => ~volume' /\ container'.state = "none"]_devVars
  BY <1>1, NextDev
<1>3. QED
  BY <1>2, InitDev, PTL DEF DevSpec, StoppedIsStopped
-----------------------------------------------------------------------------
(* Config: what loading, changing and saving a file do to its keys. *)

IsFile(file) ==
  file = [static |-> file.static, entries |-> file.entries, mirrors |-> file.mirrors]

\* A Config in memory: every static key has a value.
IsConfig(config) == IsFile(config) /\ DOMAIN config.static = StaticKeys

\* A key is a static one or the field of an entry.
LEMMA KeysAre ==
  ASSUME NEW key \in Keys
  PROVE  \/ IsStatic(key) /\ key[1] \in StaticKeys /\ key = <<key[1]>> /\ ~IsMapValue(key)
         \/ ~IsStatic(key) /\ key \in DynamicKeys /\ key = <<key[1], key[2]>>
BY ConfigAssumption DEF Keys, IsStatic, IsMapValue

\* GetField, without the sets.
LEMMA FieldIs ==
  ASSUME NEW file, NEW key
  PROVE  /\ IsStatic(key) =>
              GetField(file, key) =
                IF key[1] \in DOMAIN file.static THEN {file.static[key[1]]} \ {Empty} ELSE {}
         /\ ~IsStatic(key) =>
              GetField(file, key) =
                IF key[1] \in DOMAIN file.entries /\ key[2] \in DOMAIN file.entries[key[1]]
                THEN {file.entries[key[1]][key[2]]} ELSE {}
<1>1. ASSUME IsStatic(key)
      PROVE  GetField(file, key) =
               IF key[1] \in DOMAIN file.static THEN {file.static[key[1]]} \ {Empty} ELSE {}
  BY <1>1 DEF GetField
<1>2. ASSUME ~IsStatic(key)
      PROVE  GetField(file, key) =
               IF key[1] \in DOMAIN file.entries /\ key[2] \in DOMAIN file.entries[key[1]]
               THEN {file.entries[key[1]][key[2]]} ELSE {}
  <2> DEFINE inner(e) == {file.entries[e][f] : f \in {key[2]} \cap DOMAIN file.entries[e]}
  <2>1. GetField(file, key) = UNION {inner(e) : e \in {key[1]} \cap DOMAIN file.entries}
    BY <1>2 DEF GetField
  <2>2. \A e : inner(e) = IF key[2] \in DOMAIN file.entries[e]
                          THEN {file.entries[e][key[2]]} ELSE {}
    OBVIOUS
  <2> HIDE DEF inner
  <2>3. CASE key[1] \in DOMAIN file.entries
    <3>1. {inner(e) : e \in {key[1]} \cap DOMAIN file.entries} = {inner(key[1])}
      BY <2>3
    <3>2. QED
      BY <2>1, <2>2, <2>3, <3>1
  <2>4. CASE key[1] \notin DOMAIN file.entries
    <3>1. {inner(e) : e \in {key[1]} \cap DOMAIN file.entries} = {}
      BY <2>4
    <3>2. QED
      BY <2>1, <2>4, <3>1
  <2>5. QED
    BY <2>3, <2>4
<1>3. QED
  BY <1>1, <1>2

\* A file that is not there has no fields.
LEMMA FieldOfNoFile == \A key : GetField(NoFile, key) = {}
<1>1. NoFile.static = <<>> /\ NoFile.entries = <<>>
  BY DEF NoFile
<1>2. DOMAIN <<>> = {}
  OBVIOUS
<1>3. QED
  BY <1>1, <1>2, FieldIs

\* A default is not empty.
LEMMA DefaultsAre == \A k \in Defaulted : BuiltIn(k) # Empty
BY DEF Defaulted, BuiltIn, Empty

\* Loading gives every static key a value, and only defaults are new.
LEMMA LoadIs ==
  ASSUME NEW file, IsFile(file)
  PROVE  LET config == LoadConfigFromPath(file) IN
         /\ IsConfig(config)
         /\ config.entries = file.entries /\ config.mirrors = file.mirrors
         /\ \A k \in StaticKeys :
              config.static[k] = IF k \in Defaulted /\ Lookup(file.static, k, Empty) = Empty
                                 THEN BuiltIn(k) ELSE Lookup(file.static, k, Empty)
<1> DEFINE static == [k \in StaticKeys |->
                        IF k \in Defaulted /\ Lookup(file.static, k, Empty) = Empty
                        THEN BuiltIn(k) ELSE Lookup(file.static, k, Empty)]
<1>1. DOMAIN static = StaticKeys
  OBVIOUS
<1>2. LoadConfigFromPath(file) = [static |-> static, entries |-> file.entries, mirrors |-> file.mirrors]
  <2>1. LoadConfigFromPath(file) = [file EXCEPT !.static = static]
    BY DEF LoadConfigFromPath
  <2> HIDE DEF static
  <2>2. QED
    BY <2>1 DEF IsFile
<1>3. \A k \in StaticKeys :
        static[k] = IF k \in Defaulted /\ Lookup(file.static, k, Empty) = Empty
                    THEN BuiltIn(k) ELSE Lookup(file.static, k, Empty)
  OBVIOUS
<1> HIDE DEF static
<1>4. QED
  BY <1>1, <1>2, <1>3 DEF IsConfig, IsFile

\* Loading keeps every field, or writes down a default.
LEMMA LoadKeepsFields ==
  ASSUME NEW file, IsFile(file), NEW key \in Keys
  PROVE  LET config == LoadConfigFromPath(file) IN
         \/ GetField(config, key) = GetField(file, key)
         \/ Materialised(file, config, key)
<1> DEFINE config == LoadConfigFromPath(file)
           k == key[1]
<1>1. /\ IsConfig(config) /\ config.entries = file.entries
      /\ k \in StaticKeys =>
           config.static[k] = IF k \in Defaulted /\ Lookup(file.static, k, Empty) = Empty
                              THEN BuiltIn(k) ELSE Lookup(file.static, k, Empty)
  BY LoadIs
<1> SUFFICES \/ GetField(config, key) = GetField(file, key)
             \/ Materialised(file, config, key)
  OBVIOUS
<1> HIDE DEF config
<1>2. CASE IsStatic(key)
  <2>1. k \in StaticKeys /\ DOMAIN config.static = StaticKeys
    BY <1>1, <1>2, KeysAre DEF IsConfig
  <2>2. GetField(config, key) = {config.static[k]} \ {Empty}
    BY <1>2, <2>1, FieldIs
  <2>3. GetField(file, key) = {Lookup(file.static, k, Empty)} \ {Empty}
    BY <1>2, FieldIs DEF Lookup
  <2>4. CASE k \in Defaulted /\ Lookup(file.static, k, Empty) = Empty
    BY <1>1, <1>2, <2>1, <2>2, <2>3, <2>4, DefaultsAre DEF Materialised
  <2>5. CASE ~(k \in Defaulted /\ Lookup(file.static, k, Empty) = Empty)
    BY <1>1, <2>1, <2>2, <2>3, <2>5
  <2>6. QED
    BY <2>4, <2>5
<1>3. CASE ~IsStatic(key)
  BY <1>1, <1>3, FieldIs
<1>4. QED
  BY <1>2, <1>3

\* Saving leaves out nothing but static keys without a value.
LEMMA SaveKeepsFields ==
  ASSUME NEW config, IsConfig(config), NEW key \in Keys
  PROVE  GetField(SaveConfigToPath(config), key) = GetField(config, key)
<1> DEFINE kept == {j \in StaticKeys : j \in AlwaysWritten \/ config.static[j] # Empty}
           static == [k \in kept |-> config.static[k]]
           saved == SaveConfigToPath(config)
<1>1. /\ DOMAIN static = kept
      /\ \A k \in kept : static[k] = config.static[k]
  OBVIOUS
<1>2. saved.static = static /\ saved.entries = config.entries
  <2>1. saved = [config EXCEPT !.static = static]
    BY DEF SaveConfigToPath
  <2> HIDE DEF static, saved
  <2>2. QED
    BY <2>1 DEF IsConfig, IsFile
<1> HIDE DEF static, saved
<1>3. CASE IsStatic(key)
  <2>1. key[1] \in StaticKeys /\ DOMAIN config.static = StaticKeys
    BY <1>3, KeysAre DEF IsConfig
  <2>2. QED
    BY <1>1, <1>2, <1>3, <2>1, FieldIs DEF saved
<1>4. CASE ~IsStatic(key)
  BY <1>2, <1>4, FieldIs DEF saved
<1>5. QED
  BY <1>3, <1>4

\* A function with and without an element.
LEMMA WithDomain == ASSUME NEW f, NEW x, NEW v PROVE DOMAIN With(f, x, v) = DOMAIN f \cup {x}
BY DEF With

\* A function set at a point has that value there.
LEMMA WithThere == ASSUME NEW f, NEW x, NEW v PROVE With(f, x, v)[x] = v
BY DEF With

\* A function set at a point is elsewhere as it was.
LEMMA WithElsewhere ==
  ASSUME NEW f, NEW x, NEW v
  PROVE  \A y \in DOMAIN f \ {x} : With(f, x, v)[y] = f[y]
BY DEF With

\* A function without a point is elsewhere as it was.
LEMMA WithoutIs ==
  ASSUME NEW f, NEW x
  PROVE  /\ DOMAIN Without(f, x) = DOMAIN f \ {x}
         /\ \A y \in DOMAIN f \ {x} : Without(f, x)[y] = f[y]
BY DEF Without

\* The two shapes of a change: a static key gets a value, or an entry is replaced by
\* one that differs in a field, or that goes when it has no other.
SetsStatic(config, new, key, v) ==
  /\ IsStatic(key) /\ new.entries = config.entries /\ new.static[key[1]] = v
  /\ \A k \in StaticKeys \ {key[1]} : new.static[k] = config.static[k]

SetsEntry(config, new, key, entry) ==
  /\ ~IsStatic(key) /\ new.static = config.static
  /\ \A e \in DOMAIN config.entries \ {key[1]} :
       e \in DOMAIN new.entries /\ new.entries[e] = config.entries[e]
  /\ \A e \in DOMAIN new.entries : e = key[1] \/ e \in DOMAIN config.entries
  /\ IF key[1] \in DOMAIN new.entries THEN new.entries[key[1]] = entry ELSE DOMAIN entry = {}
  /\ LET old == Lookup(config.entries, key[1], <<>>) IN
       \A f : f # key[2] => /\ f \in DOMAIN entry <=> f \in DOMAIN old
                            /\ f \in DOMAIN entry => entry[f] = old[f]

\* Setting a static key changes nothing else.
LEMMA StaticChange ==
  ASSUME NEW config, NEW v, IsConfig(config), NEW key \in Keys, IsStatic(key)
  PROVE  LET new == [config EXCEPT !.static[key[1]] = v] IN
         /\ IsConfig(new) /\ new.mirrors = config.mirrors /\ SetsStatic(config, new, key, v)
<1> DEFINE static == [config.static EXCEPT ![key[1]] = v]
           new == [config EXCEPT !.static[key[1]] = v]
<1>1. key[1] \in StaticKeys /\ DOMAIN config.static = StaticKeys
  BY KeysAre DEF IsConfig
<1>2. /\ DOMAIN static = StaticKeys /\ static[key[1]] = v
      /\ \A k \in StaticKeys \ {key[1]} : static[k] = config.static[k]
  BY <1>1
<1>3. new = [static |-> static, entries |-> config.entries, mirrors |-> config.mirrors]
  <2>1. new = [config EXCEPT !.static = static]
    BY DEF IsConfig, IsFile
  <2> HIDE DEF static, new
  <2>2. QED
    BY <2>1 DEF IsConfig, IsFile
<1> HIDE DEF static
<1>4. new.static = static /\ new.entries = config.entries /\ new.mirrors = config.mirrors
  BY <1>3
<1>5. QED
  BY <1>2, <1>3, <1>4 DEF IsConfig, IsFile, SetsStatic

\* Setting the entries changes nothing else.
LEMMA EntryChange ==
  ASSUME NEW config, NEW entries, IsConfig(config)
  PROVE  LET new == [config EXCEPT !.entries = entries] IN
         /\ IsConfig(new) /\ new.mirrors = config.mirrors
         /\ new.static = config.static /\ new.entries = entries
<1> DEFINE new == [config EXCEPT !.entries = entries]
<1>1. new = [static |-> config.static, entries |-> entries, mirrors |-> config.mirrors]
  BY DEF IsConfig, IsFile
<1> HIDE DEF new
<1>2. new.static = config.static /\ new.entries = entries /\ new.mirrors = config.mirrors
  BY <1>1
<1>3. IsConfig(new)
  BY <1>1, <1>2 DEF IsConfig, IsFile
<1>4. QED
  BY <1>2, <1>3 DEF new

\* A static change gives its key the value, and changes no other.
LEMMA SetsStaticFields ==
  ASSUME NEW config, NEW new, NEW v, IsConfig(config), IsConfig(new), NEW key \in Keys,
         SetsStatic(config, new, key, v)
  PROVE  /\ GetField(new, key) = {v} \ {Empty}
         /\ \A other \in Keys \ {key} : GetField(new, other) = GetField(config, other)
<1>1. /\ IsStatic(key) /\ key[1] \in StaticKeys /\ key = <<key[1]>>
      /\ DOMAIN new.static = StaticKeys /\ DOMAIN config.static = StaticKeys
  BY KeysAre DEF IsConfig, SetsStatic
<1>2. GetField(new, key) = {v} \ {Empty}
  BY <1>1, FieldIs DEF SetsStatic
<1>3. ASSUME NEW other \in Keys \ {key} PROVE GetField(new, other) = GetField(config, other)
  <2>1. CASE IsStatic(other)
    <3>1. other[1] \in StaticKeys \ {key[1]}
      BY <1>1, <2>1, KeysAre
    <3>2. QED
      BY <1>1, <2>1, <3>1, FieldIs DEF SetsStatic
  <2>2. CASE ~IsStatic(other)
    BY <2>2, FieldIs DEF SetsStatic
  <2>3. QED
    BY <2>1, <2>2
<1>4. QED
  BY <1>2, <1>3

\* And so does the change of an entry.
LEMMA SetsEntryFields ==
  ASSUME NEW config, NEW new, NEW entry, IsConfig(config), IsConfig(new), NEW key \in Keys,
         SetsEntry(config, new, key, entry)
  PROVE  /\ GetField(new, key) = IF key[2] \in DOMAIN entry THEN {entry[key[2]]} ELSE {}
         /\ \A other \in Keys \ {key} : GetField(new, other) = GetField(config, other)
<1>1. ~IsStatic(key) /\ key = <<key[1], key[2]>>
  BY KeysAre DEF SetsEntry
<1>2. GetField(new, key) = IF key[2] \in DOMAIN entry THEN {entry[key[2]]} ELSE {}
  BY <1>1, FieldIs DEF SetsEntry
<1>3. ASSUME NEW other \in Keys \ {key} PROVE GetField(new, other) = GetField(config, other)
  <2>1. CASE IsStatic(other)
    <3>1. new.static = config.static
      BY DEF SetsEntry
    <3>2. QED
      BY <2>1, <3>1, FieldIs
  <2>2. CASE ~IsStatic(other) /\ other[1] # key[1]
    <3>1. other[1] \in DOMAIN new.entries <=> other[1] \in DOMAIN config.entries
      BY <2>2 DEF SetsEntry
    <3>2. other[1] \in DOMAIN config.entries =>
            new.entries[other[1]] = config.entries[other[1]]
      BY <2>2 DEF SetsEntry
    <3>3. QED
      BY <2>2, <3>1, <3>2, FieldIs
  <2>3. CASE ~IsStatic(other) /\ other[1] = key[1]
    <3> DEFINE old == Lookup(config.entries, key[1], <<>>)
               f == other[2]
    <3>1. f # key[2]
      BY <1>1, <2>3, KeysAre
    <3>2. GetField(new, other) = IF f \in DOMAIN entry THEN {entry[f]} ELSE {}
      BY <2>3, FieldIs DEF SetsEntry
    <3>3. DOMAIN <<>> = {}
      OBVIOUS
    <3>4. GetField(config, other) = IF f \in DOMAIN old THEN {old[f]} ELSE {}
      <4>1. CASE key[1] \in DOMAIN config.entries
        BY <2>3, <4>1, FieldIs DEF Lookup
      <4>2. CASE key[1] \notin DOMAIN config.entries
        BY <2>3, <3>3, <4>2, FieldIs DEF Lookup
      <4>3. QED
        BY <4>1, <4>2
    <3>5. /\ f \in DOMAIN entry <=> f \in DOMAIN old
          /\ f \in DOMAIN entry => entry[f] = old[f]
      BY <3>1 DEF SetsEntry
    <3>6. QED
      BY <3>2, <3>4, <3>5
  <2>4. QED
    BY <2>1, <2>2, <2>3
<1>4. QED
  BY <1>2, <1>3

\* SetField gives the key its value and leaves all others.
LEMMA SetFieldIs ==
  ASSUME NEW config, IsConfig(config), NEW key \in Keys, NEW value
  PROVE  LET new == SetField(config, key, value) IN
         /\ IsConfig(new)
         /\ GetField(new, key) = IF IsMapValue(key) THEN {value} ELSE {value} \ {Empty}
         /\ \A other \in Keys \ {key} : GetField(new, other) = GetField(config, other)
<1> DEFINE new == SetField(config, key, value)
<1> SUFFICES /\ IsConfig(new)
             /\ GetField(new, key) = IF IsMapValue(key) THEN {value} ELSE {value} \ {Empty}
             /\ \A other \in Keys \ {key} : GetField(new, other) = GetField(config, other)
  OBVIOUS
<1>1. CASE IsStatic(key)
  <2>1. new = [config EXCEPT !.static[key[1]] = value] /\ ~IsMapValue(key)
    BY <1>1, KeysAre DEF SetField
  <2> HIDE DEF new
  <2>2. IsConfig(new) /\ SetsStatic(config, new, key, value)
    BY <1>1, <2>1, StaticChange
  <2>3. QED
    BY <2>1, <2>2, SetsStaticFields
<1>2. CASE ~IsStatic(key)
  <2> DEFINE old == Lookup(config.entries, key[1], <<>>)
             entry == IF value = Empty /\ ~IsMapValue(key) THEN Without(old, key[2])
                      ELSE With(old, key[2], value)
             entries == With(config.entries, key[1], entry)
  <2>1. new = [config EXCEPT !.entries = entries]
    BY <1>2 DEF SetField
  <2> HIDE DEF entry
  <2>2. /\ DOMAIN entries = DOMAIN config.entries \cup {key[1]} /\ entries[key[1]] = entry
        /\ \A e \in DOMAIN config.entries \ {key[1]} : entries[e] = config.entries[e]
    <3>1. DOMAIN entries = DOMAIN config.entries \cup {key[1]}
      BY WithDomain
    <3>2. entries[key[1]] = entry
      BY WithThere
    <3>3. \A e \in DOMAIN config.entries \ {key[1]} : entries[e] = config.entries[e]
      BY WithElsewhere
    <3>4. QED
      BY <3>1, <3>2, <3>3
  <2> USE DEF entry
  <2>3. /\ \A f : f # key[2] => /\ f \in DOMAIN entry <=> f \in DOMAIN old
                                /\ f \in DOMAIN entry => entry[f] = old[f]
        /\ value = Empty /\ ~IsMapValue(key) => key[2] \notin DOMAIN entry
        /\ ~(value = Empty /\ ~IsMapValue(key)) =>
             key[2] \in DOMAIN entry /\ entry[key[2]] = value
    <3>1. CASE value = Empty /\ ~IsMapValue(key)
      <4>1. entry = Without(old, key[2])
        BY <3>1
      <4> HIDE DEF entry, old
      <4>2. /\ DOMAIN entry = DOMAIN old \ {key[2]}
            /\ \A f \in DOMAIN old \ {key[2]} : entry[f] = old[f]
        BY <4>1, WithoutIs
      <4>3. QED
        BY <3>1, <4>2
    <3>2. CASE ~(value = Empty /\ ~IsMapValue(key))
      <4>1. entry = With(old, key[2], value)
        BY <3>2
      <4> HIDE DEF entry, old
      <4>2. /\ DOMAIN entry = DOMAIN old \cup {key[2]} /\ entry[key[2]] = value
            /\ \A f \in DOMAIN old \ {key[2]} : entry[f] = old[f]
        <5>1. DOMAIN entry = DOMAIN old \cup {key[2]}
          BY <4>1, WithDomain
        <5>2. entry[key[2]] = value
          BY <4>1, WithThere
        <5>3. \A f \in DOMAIN old \ {key[2]} : entry[f] = old[f]
          BY <4>1, WithElsewhere
        <5>4. QED
          BY <5>1, <5>2, <5>3
      <4>3. QED
        BY <3>2, <4>2
    <3>3. QED
      BY <3>1, <3>2
  <2> HIDE DEF new, entries, entry
  <2>4. IsConfig(new) /\ new.static = config.static /\ new.entries = entries
    BY <2>1, EntryChange
  <2>5. SetsEntry(config, new, key, entry)
    BY <1>2, <2>2, <2>3, <2>4 DEF SetsEntry
  <2>6. QED
    BY <2>3, <2>4, <2>5, SetsEntryFields
<1>3. QED
  BY <1>1, <1>2

\* UnsetField takes the key's value away and leaves all others.
LEMMA UnsetFieldIs ==
  ASSUME NEW config, IsConfig(config), NEW key \in Keys
  PROVE  LET new == UnsetField(config, key) IN
         /\ IsConfig(new)
         /\ GetField(new, key) = {}
         /\ \A other \in Keys \ {key} : GetField(new, other) = GetField(config, other)
<1> DEFINE new == UnsetField(config, key)
<1> SUFFICES /\ IsConfig(new)
             /\ GetField(new, key) = {}
             /\ \A other \in Keys \ {key} : GetField(new, other) = GetField(config, other)
  OBVIOUS
<1>1. CASE IsStatic(key)
  <2>1. new = [config EXCEPT !.static[key[1]] = Empty]
    BY <1>1 DEF UnsetField
  <2> HIDE DEF new
  <2>2. IsConfig(new) /\ SetsStatic(config, new, key, Empty)
    BY <1>1, <2>1, StaticChange
  <2>3. QED
    BY <2>2, SetsStaticFields
<1>2. CASE ~IsStatic(key) /\ key[1] \notin DOMAIN config.entries
  <2>1. new = config
    BY <1>2 DEF UnsetField
  <2>2. QED
    BY <1>2, <2>1, FieldIs
<1>3. CASE ~IsStatic(key) /\ key[1] \in DOMAIN config.entries
  <2> DEFINE old == config.entries[key[1]]
             entry == Without(old, key[2])
             entries == IF DOMAIN entry = {} THEN Without(config.entries, key[1])
                        ELSE With(config.entries, key[1], entry)
  <2>1. new = [config EXCEPT !.entries = entries]
    BY <1>3 DEF UnsetField
  <2> HIDE DEF old
  <2>2. DOMAIN entry = DOMAIN old \ {key[2]} /\ \A f \in DOMAIN old \ {key[2]} : entry[f] = old[f]
    BY WithoutIs
  <2> HIDE DEF entry
  <2>3. /\ \A e \in DOMAIN config.entries \ {key[1]} :
             e \in DOMAIN entries /\ entries[e] = config.entries[e]
        /\ \A e \in DOMAIN entries : e = key[1] \/ e \in DOMAIN config.entries
        /\ IF key[1] \in DOMAIN entries THEN entries[key[1]] = entry ELSE DOMAIN entry = {}
    <3>1. CASE DOMAIN entry = {}
      <4>1. entries = Without(config.entries, key[1])
        BY <3>1
      <4> HIDE DEF entries
      <4>2. /\ DOMAIN entries = DOMAIN config.entries \ {key[1]}
            /\ \A e \in DOMAIN config.entries \ {key[1]} : entries[e] = config.entries[e]
        BY <4>1, WithoutIs
      <4>3. QED
        BY <3>1, <4>2
    <3>2. CASE DOMAIN entry # {}
      <4>1. entries = With(config.entries, key[1], entry)
        BY <3>2
      <4> HIDE DEF entries
      <4>2. /\ DOMAIN entries = DOMAIN config.entries \cup {key[1]} /\ entries[key[1]] = entry
            /\ \A e \in DOMAIN config.entries \ {key[1]} : entries[e] = config.entries[e]
        <5>1. DOMAIN entries = DOMAIN config.entries \cup {key[1]}
          BY <4>1, WithDomain
        <5>2. entries[key[1]] = entry
          BY <4>1, WithThere
        <5>3. \A e \in DOMAIN config.entries \ {key[1]} : entries[e] = config.entries[e]
          BY <4>1, WithElsewhere
        <5>4. QED
          BY <5>1, <5>2, <5>3
      <4>3. QED
        BY <4>2
    <3>3. QED
      BY <3>1, <3>2
  <2> HIDE DEF new, entries
  <2>4. IsConfig(new) /\ new.static = config.static /\ new.entries = entries
    BY <2>1, EntryChange
  <2>5. old = Lookup(config.entries, key[1], <<>>)
    BY <1>3 DEF Lookup, old
  <2>6. SetsEntry(config, new, key, entry)
    BY <1>3, <2>2, <2>3, <2>4, <2>5 DEF SetsEntry
  <2>7. QED
    BY <2>2, <2>4, <2>6, SetsEntryFields
<1>4. QED
  BY <1>1, <1>2, <1>3
-----------------------------------------------------------------------------
(* Config: the files and the commands. *)

\* What a key may be worth in a scope's file.
Allowed(s, key) ==
  Texts[s] \cup {Empty} \cup (IF IsStatic(key) THEN {BuiltIn(key[1])} ELSE {})

HasAllowed(s, file) == \A key \in Keys : GetField(file, key) \subseteq Allowed(s, key)

\* What a command is to make of its key, and what it has changed in memory.
Wanted(c) == IF IsMapValue(c.key) THEN c.value ELSE c.value \ {Empty}

Touches(c, config) ==
  /\ c.key \in Keys => GetField(config, c.key) = Wanted(c)
  /\ \A other \in Keys \ {c.key} :
       \/ GetField(config, other) = GetField(c.loaded, other)
       \/ Materialised(c.loaded, config, other)

IsCommand(c) ==
  /\ c = [pc |-> c.pc, scope |-> c.scope, key |-> c.key, value |-> c.value,
          loaded |-> c.loaded, config |-> c.config]
  /\ c.pc \in {"saving", "writing"} /\ c.scope \in ConfigScope
  /\ IsConfig(c.config) /\ HasAllowed(c.scope, c.config) /\ Touches(c, c.config)

FilesInv ==
  /\ DOMAIN files = ConfigScope
  /\ \A s \in ConfigScope : IsFile(files[s]) /\ HasAllowed(s, files[s])

CommandsInv ==
  /\ DOMAIN command = Commanders
  /\ \A p \in Commanders : command[p] = NoCommand \/ IsCommand(command[p])

\* The file of a command alone with it is still what the command has loaded, or
\* what the command has truncated, and in either case can be read.
UndisturbedInv ==
  /\ alone \subseteq Commanders
  /\ \A p \in alone :
       /\ command[p] # NoCommand /\ command[p].scope \notin malformed
       /\ files[command[p].scope] =
            IF command[p].pc = "saving" THEN command[p].loaded ELSE NoFile

ConfigInv == FilesInv /\ CommandsInv /\ UndisturbedInv

\* What HasAllowed and Touches say depends on nothing but the fields of the keys.
LEMMA ChangeIs ==
  ASSUME NEW s, NEW c, NEW config, IsFile(c.loaded), HasAllowed(s, c.loaded),
         c.key \in Keys => GetField(config, c.key) = Wanted(c)
                             /\ GetField(config, c.key) \subseteq Allowed(s, c.key),
         \A other \in Keys \ {c.key} :
           GetField(config, other) = GetField(LoadConfigFromPath(c.loaded), other)
  PROVE  HasAllowed(s, config) /\ Touches(c, config)
<1> DEFINE base == LoadConfigFromPath(c.loaded)
<1>1. ASSUME NEW other \in Keys \ {c.key}
      PROVE  \/ GetField(config, other) = GetField(c.loaded, other)
             \/ Materialised(c.loaded, config, other)
  <2>1. \/ GetField(base, other) = GetField(c.loaded, other)
        \/ Materialised(c.loaded, base, other)
    BY LoadKeepsFields
  <2>2. GetField(config, other) = GetField(base, other)
    OBVIOUS
  <2> HIDE DEF base
  <2>3. QED
    BY <2>1, <2>2 DEF Materialised
<1>2. ASSUME NEW other \in Keys \ {c.key}
      PROVE  GetField(config, other) \subseteq Allowed(s, other)
  <2>1. GetField(c.loaded, other) \subseteq Allowed(s, other)
    BY DEF HasAllowed
  <2>2. Materialised(c.loaded, config, other) => GetField(config, other) \subseteq Allowed(s, other)
    BY DEF Materialised, Allowed
  <2>3. QED
    BY <1>1, <2>1, <2>2
<1>3. QED
  BY <1>1, <1>2 DEF HasAllowed, Touches

\* What a developer writes by hand is a file with values of its scope.
LEMMA HandWrittenIs ==
  ASSUME NEW s \in ConfigScope, NEW file \in HandWritten(s)
  PROVE  IsFile(file) /\ HasAllowed(s, file)
<1>1. /\ NoFile = [static |-> NoFile.static, entries |-> NoFile.entries,
                   mirrors |-> NoFile.mirrors]
      /\ NoFile.static = <<>> /\ NoFile.entries = <<>> /\ NoFile.mirrors = <<>>
  BY DEF NoFile
<1>2. DOMAIN <<>> = {}
  OBVIOUS
<1>3. CASE file = NoFile
  BY <1>1, <1>3, FieldOfNoFile DEF IsFile, HasAllowed
<1>4. ASSUME NEW k, NEW v \in Texts[s], file = [NoFile EXCEPT !.static = [j \in {k} |-> v]]
      PROVE  IsFile(file) /\ HasAllowed(s, file)
  <2> DEFINE static == [j \in {k} |-> v]
  <2>1. DOMAIN static = {k} /\ static[k] = v
    OBVIOUS
  <2> HIDE DEF static
  <2>2. file = [static |-> static, entries |-> <<>>, mirrors |-> <<>>]
    BY <1>1, <1>4 DEF static
  <2>3. file.static = static /\ file.entries = <<>> /\ IsFile(file)
    BY <2>2 DEF IsFile
  <2>4. ASSUME NEW key \in Keys PROVE GetField(file, key) \subseteq Texts[s]
    BY <1>2, <2>1, <2>3, FieldIs
  <2>5. QED
    BY <2>3, <2>4 DEF HasAllowed, Allowed
<1>5. ASSUME NEW e, NEW F, NEW v \in Texts[s],
             file = [NoFile EXCEPT !.entries = [a \in {e} |-> [f \in F |-> v]]]
      PROVE  IsFile(file) /\ HasAllowed(s, file)
  <2> DEFINE entry == [f \in F |-> v]
             entries == [a \in {e} |-> entry]
  <2>1. DOMAIN entry = F /\ \A f \in F : entry[f] = v
    OBVIOUS
  <2> HIDE DEF entry
  <2>2. DOMAIN entries = {e} /\ entries[e] = entry
    OBVIOUS
  <2> HIDE DEF entries
  <2>3. file = [static |-> <<>>, entries |-> entries, mirrors |-> <<>>]
    BY <1>1, <1>5 DEF entries, entry
  <2>4. file.static = <<>> /\ file.entries = entries /\ IsFile(file)
    BY <2>3 DEF IsFile
  <2>5. ASSUME NEW key \in Keys PROVE GetField(file, key) \subseteq Texts[s]
    BY <1>2, <2>1, <2>2, <2>4, FieldIs
  <2>6. QED
    BY <2>4, <2>5 DEF HasAllowed, Allowed
<1>6. ASSUME NEW m, file = [NoFile EXCEPT !.mirrors = <<m>>]
      PROVE  IsFile(file) /\ HasAllowed(s, file)
  <2>1. file = [static |-> <<>>, entries |-> <<>>, mirrors |-> <<m>>]
    BY <1>1, <1>6
  <2>2. file.static = <<>> /\ file.entries = <<>> /\ IsFile(file)
    BY <2>1 DEF IsFile
  <2>3. ASSUME NEW key \in Keys PROVE GetField(file, key) = {}
    BY <1>2, <2>2, FieldIs
  <2>4. QED
    BY <2>2, <2>3 DEF HasAllowed
<1>7. CASE file \in {OneKey(k, v) : k \in StaticKeys \ {"dev.runtime"}, v \in Texts[s]}
  <2>1. PICK k \in StaticKeys, v \in Texts[s] : file = OneKey(k, v)
    BY <1>7
  <2>2. QED
    BY <1>4, <2>1 DEF OneKey
<1>8. CASE file \in {OneEntry(key[1], v) : key \in DynamicKeys, v \in Texts[s]}
  <2>1. PICK key \in DynamicKeys, v \in Texts[s] : file = OneEntry(key[1], v)
    BY <1>8
  <2>2. QED
    BY <1>5, <2>1 DEF OneEntry
<1>9. CASE file \in {OneMirror(m) : m \in Mirrors}
  <2>1. PICK m \in Mirrors : file = OneMirror(m)
    BY <1>9
  <2>2. QED
    BY <1>6, <2>1 DEF OneMirror
<1>10. QED
  BY <1>3, <1>7, <1>8, <1>9 DEF HandWritten

\* The invariant holds of the files there are at first.
LEMMA InitConfig == ConfigInit => ConfigInv
<1> SUFFICES ASSUME ConfigInit PROVE ConfigInv
  OBVIOUS
<1>1. FilesInv
  BY HandWrittenIs DEF ConfigInit, FilesInv
<1>2. CommandsInv
  BY DEF ConfigInit, CommandsInv
<1>3. UndisturbedInv
  BY DEF ConfigInit, UndisturbedInv
<1>4. QED
  BY <1>1, <1>2, <1>3 DEF ConfigInv

\* A command that loads its file and changes its key keeps the invariant.
LEMMA LoadKeeps ==
  ASSUME ConfigInv, NEW p \in Commanders, NEW s \in ConfigScope, NEW key, NEW value, NEW config,
         LoadAndChange(p, s, key, value, config), IsConfig(config),
         key \in Keys => /\ GetField(config, key) = IF IsMapValue(key) THEN value
                                                    ELSE value \ {Empty}
                         /\ GetField(config, key) \subseteq Allowed(s, key),
         \A other \in Keys \ {key} :
           GetField(config, other) = GetField(LoadConfigForScope(s), other)
  PROVE  ConfigInv'
<1> DEFINE c == [pc |-> "saving", scope |-> s, key |-> key, value |-> value,
                 loaded |-> files[s], config |-> config]
<1>1. /\ command' = [command EXCEPT ![p] = c] /\ command[p] = NoCommand
      /\ files' = files /\ malformed' = malformed /\ s \notin malformed
      /\ alone' = alone \cup {p}
  BY DEF LoadAndChange
<1>2. /\ c.pc = "saving" /\ c.scope = s /\ c.key = key /\ c.value = value
      /\ c.loaded = files[s] /\ c.config = config
      /\ c = [pc |-> c.pc, scope |-> c.scope, key |-> c.key, value |-> c.value,
              loaded |-> c.loaded, config |-> c.config]
  OBVIOUS
<1> HIDE DEF c
<1>3. IsFile(c.loaded) /\ HasAllowed(s, c.loaded)
  BY <1>2 DEF ConfigInv, FilesInv
<1>4. \A other \in Keys \ {c.key} :
        GetField(config, other) = GetField(LoadConfigFromPath(c.loaded), other)
  BY <1>2 DEF LoadConfigForScope
<1>5. c.key \in Keys => /\ GetField(config, c.key) = Wanted(c)
                        /\ GetField(config, c.key) \subseteq Allowed(s, c.key)
  BY <1>2 DEF Wanted
<1>6. HasAllowed(s, config) /\ Touches(c, config)
  BY <1>3, <1>4, <1>5, ChangeIs
<1>7. IsCommand(c)
  <2>1. IsConfig(c.config) /\ HasAllowed(c.scope, c.config) /\ Touches(c, c.config)
    BY <1>2, <1>6
  <2>2. c.pc \in {"saving", "writing"} /\ c.scope \in ConfigScope
    BY <1>2
  <2>3. QED
    BY <1>2, <2>1, <2>2, Zenon DEF IsCommand
<1>8. c # NoCommand
  <2>1. NoCommand.pc = "idle"
    BY DEF NoCommand
  <2>2. QED
    BY <1>2, <2>1
<1>9. DOMAIN command = Commanders /\ command'[p] = c
      /\ DOMAIN command' = Commanders
      /\ \A q \in Commanders \ {p} : command'[q] = command[q]
  BY <1>1 DEF ConfigInv, CommandsInv
<1>10. FilesInv'
  BY <1>1 DEF ConfigInv, FilesInv, HasAllowed
<1>11. CommandsInv'
  BY <1>7, <1>9 DEF ConfigInv, CommandsInv
<1>12. UndisturbedInv'
  BY <1>1, <1>2, <1>8, <1>9 DEF ConfigInv, UndisturbedInv
<1>13. QED
  BY <1>10, <1>11, <1>12 DEF ConfigInv

\* dk config set keeps the invariant.
LEMMA SetKeeps ==
  ASSUME ConfigInv, NEW p \in Commanders, NEW s \in ConfigScope, NEW key \in Keys,
         NEW value \in Texts[s] \cup {Empty}, ConfigSet(p, s, key, value)
  PROVE  ConfigInv'
<1> DEFINE base == LoadConfigForScope(s)
           new == SetField(base, key, value)
<1>1. IsConfig(base)
  BY LoadIs DEF ConfigInv, FilesInv, LoadConfigForScope
<1> HIDE DEF base
<1>2. /\ IsConfig(new)
      /\ GetField(new, key) = IF IsMapValue(key) THEN {value} ELSE {value} \ {Empty}
      /\ \A other \in Keys \ {key} : GetField(new, other) = GetField(base, other)
  BY <1>1, SetFieldIs
<1>3. LoadAndChange(p, s, key, {value}, new)
  BY DEF ConfigSet, base
<1> HIDE DEF new
<1>4. GetField(new, key) \subseteq Allowed(s, key)
  BY <1>2 DEF Allowed
<1>5. QED
  BY <1>2, <1>3, <1>4, LoadKeeps DEF base

\* dk config unset keeps the invariant.
LEMMA UnsetKeeps ==
  ASSUME ConfigInv, NEW p \in Commanders, NEW s \in ConfigScope, NEW key \in Keys,
         ConfigUnset(p, s, key)
  PROVE  ConfigInv'
<1> DEFINE base == LoadConfigForScope(s)
           new == UnsetField(base, key)
<1>1. IsConfig(base)
  BY LoadIs DEF ConfigInv, FilesInv, LoadConfigForScope
<1> HIDE DEF base
<1>2. /\ IsConfig(new) /\ GetField(new, key) = {}
      /\ \A other \in Keys \ {key} : GetField(new, other) = GetField(base, other)
  BY <1>1, UnsetFieldIs
<1>3. LoadAndChange(p, s, key, {}, new)
  BY DEF ConfigUnset, base
<1> HIDE DEF new
<1>4. QED
  BY <1>2, <1>3, LoadKeeps DEF base

\* A mirror command changes no key.
LEMMA MirrorKeeps ==
  ASSUME ConfigInv, NEW p \in Commanders, NEW s \in ConfigScope, NEW mirrors,
         LoadAndChange(p, s, <<>>, {}, [LoadConfigForScope(s) EXCEPT !.mirrors = mirrors])
  PROVE  ConfigInv'
<1> DEFINE base == LoadConfigForScope(s)
           new == [base EXCEPT !.mirrors = mirrors]
<1>1. IsConfig(base)
  BY LoadIs DEF ConfigInv, FilesInv, LoadConfigForScope
<1>2. LoadAndChange(p, s, <<>>, {}, new)
  OBVIOUS
<1> HIDE DEF base
<1>3. new = [static |-> base.static, entries |-> base.entries, mirrors |-> mirrors]
  BY <1>1 DEF IsConfig, IsFile
<1> HIDE DEF new
<1>4. new.static = base.static /\ new.entries = base.entries /\ new.mirrors = mirrors
  BY <1>3
<1>5. IsConfig(new)
  BY <1>1, <1>3, <1>4 DEF IsConfig, IsFile
<1>6. \A other \in Keys : GetField(new, other) = GetField(base, other)
  BY <1>4, FieldIs
<1>7. <<>> \notin Keys
  BY KeysAre
<1>8. QED
  BY <1>2, <1>5, <1>6, <1>7, LoadKeeps DEF base

\* The truncation of a file by os.WriteFile keeps the invariant.
LEMMA TruncateKeeps ==
  ASSUME ConfigInv, NEW p \in Commanders, TruncateFile(p)
  PROVE  ConfigInv'
<1> DEFINE c == command[p]
           new == [c EXCEPT !.pc = "writing"]
<1>1. /\ c.pc = "saving" /\ alone' = Disturbs(p) /\ command' = [command EXCEPT ![p] = new]
      /\ files' = [files EXCEPT ![c.scope] = NoFile] /\ malformed' = malformed \ {c.scope}
  BY DEF TruncateFile
<1>2. c # NoCommand /\ NoCommand.pc = "idle"
  BY <1>1 DEF NoCommand
<1>3. IsCommand(c) /\ DOMAIN command = Commanders
  BY <1>2 DEF ConfigInv, CommandsInv
<1>4. new = [pc |-> "writing", scope |-> c.scope, key |-> c.key, value |-> c.value,
             loaded |-> c.loaded, config |-> c.config]
  BY <1>3 DEF IsCommand
<1> HIDE DEF c, new
<1>5. /\ new.pc = "writing" /\ new.scope = c.scope /\ new.key = c.key
      /\ new.value = c.value /\ new.loaded = c.loaded /\ new.config = c.config
  BY <1>4
<1>6. IsCommand(new) /\ new # NoCommand
  <2>1. IsConfig(new.config) /\ HasAllowed(new.scope, new.config) /\ c.scope \in ConfigScope
    BY <1>3, <1>5 DEF IsCommand
  <2>2. Touches(new, new.config)
    BY <1>3, <1>5 DEF IsCommand, Touches, Wanted
  <2>3. new.pc \in {"saving", "writing"} /\ new.scope \in ConfigScope
    BY <1>5, <2>1
  <2>4. new = [pc |-> new.pc, scope |-> new.scope, key |-> new.key, value |-> new.value,
               loaded |-> new.loaded, config |-> new.config]
    BY <1>4, <1>5
  <2>5. QED
    BY <1>2, <1>5, <2>1, <2>2, <2>3, <2>4, Zenon DEF IsCommand
<1>7. /\ DOMAIN command' = Commanders /\ command'[p] = new
      /\ \A q \in Commanders \ {p} : command'[q] = command[q]
  BY <1>1, <1>3
<1>8. /\ DOMAIN files' = DOMAIN files
      /\ c.scope \in ConfigScope /\ DOMAIN files = ConfigScope /\ files'[c.scope] = NoFile
      /\ \A s \in ConfigScope \ {c.scope} : files'[s] = files[s]
  BY <1>1, <1>3 DEF ConfigInv, FilesInv, IsCommand
<1>9. FilesInv'
  <2>1. IsFile(NoFile)
    BY DEF IsFile, NoFile
  <2>2. QED
    BY <1>8, <2>1, FieldOfNoFile DEF ConfigInv, FilesInv, HasAllowed
<1>10. CommandsInv'
  BY <1>6, <1>7 DEF ConfigInv, CommandsInv
<1>11. UndisturbedInv'
  <2>1. alone' \subseteq Commanders
    BY <1>1 DEF ConfigInv, UndisturbedInv, Disturbs
  <2>2. ASSUME NEW q \in alone'
        PROVE  /\ command'[q] # NoCommand /\ command'[q].scope \notin malformed'
               /\ files'[command'[q].scope] =
                    IF command'[q].pc = "saving" THEN command'[q].loaded ELSE NoFile
    <3>1. q \in alone /\ q \in Commanders /\ (q = p \/ command[q].scope # c.scope)
      BY <1>1, <2>1, <2>2 DEF Disturbs, c
    <3>2. CASE q = p
      BY <1>1, <1>5, <1>6, <1>7, <1>8, <3>2
    <3>3. CASE q # p
      <4>1. /\ command'[q] = command[q] /\ command[q] # NoCommand
            /\ command[q].scope \notin malformed
            /\ files[command[q].scope] =
                 IF command[q].pc = "saving" THEN command[q].loaded ELSE NoFile
        BY <1>7, <3>1, <3>3 DEF ConfigInv, UndisturbedInv
      <4>2. command[q].scope \in ConfigScope
        BY <3>1, <4>1 DEF ConfigInv, CommandsInv, IsCommand
      <4>3. QED
        BY <1>1, <1>8, <3>1, <3>3, <4>1, <4>2
    <3>4. QED
      BY <3>2, <3>3
  <2>3. QED
    BY <2>1, <2>2 DEF UndisturbedInv
<1>12. QED
  BY <1>9, <1>10, <1>11 DEF ConfigInv

\* The write of a file keeps the invariant.
LEMMA WriteKeeps ==
  ASSUME ConfigInv, NEW p \in Commanders, WriteFile(p)
  PROVE  ConfigInv'
<1> DEFINE c == command[p]
           saved == SaveConfigToPath(c.config)
<1>1. /\ c.pc = "writing" /\ alone' = Disturbs(p) \ {p}
      /\ command' = [command EXCEPT ![p] = NoCommand]
      /\ files' = [files EXCEPT ![c.scope] = saved] \/ files' = [files EXCEPT ![c.scope] = NoFile]
      /\ malformed' \subseteq malformed \cup {c.scope}
  BY DEF WriteFile
<1>2. c # NoCommand
  BY <1>1 DEF NoCommand
<1>3. /\ c.scope \in ConfigScope /\ IsConfig(c.config) /\ HasAllowed(c.scope, c.config)
      /\ DOMAIN command = Commanders
  BY <1>2 DEF ConfigInv, CommandsInv, IsCommand
<1>4. IsFile(saved) /\ HasAllowed(c.scope, saved)
  <2>1. HasAllowed(c.scope, saved)
    BY <1>3, SaveKeepsFields DEF HasAllowed
  <2>2. IsFile(saved)
    <3> DEFINE static == [k \in {j \in StaticKeys :
                                   j \in AlwaysWritten \/ c.config.static[j] # Empty} |->
                           c.config.static[k]]
    <3>1. saved = [c.config EXCEPT !.static = static]
      BY DEF SaveConfigToPath
    <3> HIDE DEF static, saved
    <3>2. saved = [static |-> static, entries |-> c.config.entries,
                   mirrors |-> c.config.mirrors]
      BY <1>3, <3>1 DEF IsConfig, IsFile
    <3>3. QED
      BY <3>2 DEF IsFile
  <2>3. QED
    BY <2>1, <2>2
<1> HIDE DEF c, saved
<1>5. /\ DOMAIN command' = Commanders /\ command'[p] = NoCommand
      /\ \A q \in Commanders \ {p} : command'[q] = command[q]
  BY <1>1, <1>3
<1>6. /\ DOMAIN files' = DOMAIN files /\ DOMAIN files = ConfigScope
      /\ files'[c.scope] \in {saved, NoFile}
      /\ \A s \in ConfigScope \ {c.scope} : files'[s] = files[s]
  BY <1>1, <1>3 DEF ConfigInv, FilesInv
<1>7. FilesInv'
  <2>1. IsFile(NoFile) /\ HasAllowed(c.scope, NoFile)
    BY FieldOfNoFile DEF IsFile, NoFile, HasAllowed
  <2>2. QED
    BY <1>4, <1>6, <2>1 DEF ConfigInv, FilesInv, HasAllowed
<1>8. CommandsInv'
  BY <1>5 DEF ConfigInv, CommandsInv
<1>9. UndisturbedInv'
  <2>1. alone' \subseteq Commanders
    BY <1>1 DEF ConfigInv, UndisturbedInv, Disturbs
  <2>2. ASSUME NEW q \in alone'
        PROVE  /\ command'[q] # NoCommand /\ command'[q].scope \notin malformed'
               /\ files'[command'[q].scope] =
                    IF command'[q].pc = "saving" THEN command'[q].loaded ELSE NoFile
    <3>1. q \in alone /\ q \in Commanders /\ q # p /\ command[q].scope # c.scope
      BY <1>1, <2>1, <2>2 DEF Disturbs, c
    <3>2. /\ command'[q] = command[q] /\ command[q] # NoCommand
          /\ command[q].scope \notin malformed
          /\ files[command[q].scope] =
               IF command[q].pc = "saving" THEN command[q].loaded ELSE NoFile
      BY <1>5, <3>1 DEF ConfigInv, UndisturbedInv
    <3>3. command[q].scope \in ConfigScope
      BY <3>1, <3>2 DEF ConfigInv, CommandsInv, IsCommand
    <3>4. QED
      BY <1>1, <1>6, <3>1, <3>2, <3>3
  <2>3. QED
    BY <2>1, <2>2 DEF UndisturbedInv
<1>10. QED
  BY <1>7, <1>8, <1>9 DEF ConfigInv

\* An interruption keeps the invariant.
LEMMA InterruptKeeps ==
  ASSUME ConfigInv, NEW p \in Commanders, InterruptCommand(p)
  PROVE  ConfigInv'
<1>1. /\ DOMAIN command' = Commanders /\ command'[p] = NoCommand
      /\ \A q \in Commanders \ {p} : command'[q] = command[q]
      /\ files' = files /\ malformed' = malformed /\ alone' = alone \ {p}
  BY DEF ConfigInv, CommandsInv, InterruptCommand
<1>2. FilesInv'
  BY <1>1 DEF ConfigInv, FilesInv, HasAllowed
<1>3. CommandsInv'
  BY <1>1 DEF ConfigInv, CommandsInv
<1>4. UndisturbedInv'
  BY <1>1 DEF ConfigInv, UndisturbedInv
<1>5. QED
  BY <1>2, <1>3, <1>4 DEF ConfigInv

\* Every step of the configuration keeps the invariant.
LEMMA NextConfig == ConfigInv /\ [ConfigNext]_configVars => ConfigInv'
<1> SUFFICES ASSUME ConfigInv, [ConfigNext]_configVars PROVE ConfigInv'
  OBVIOUS
<1>1. CASE UNCHANGED configVars
  BY <1>1 DEF configVars, ConfigInv, FilesInv, CommandsInv, UndisturbedInv, HasAllowed
<1>2. CASE ConfigNext
  <2>1. PICK p \in Commanders :
          \/ \E s \in ConfigScope :
               \/ \E key \in Keys, v \in Texts[s] \cup {Empty} : ConfigSet(p, s, key, v)
               \/ \E key \in Keys : ConfigUnset(p, s, key)
               \/ \E m \in Mirrors : ConfigAddMirror(p, s, m) \/ ConfigRemoveMirror(p, s, m)
          \/ TruncateFile(p) \/ WriteFile(p) \/ InterruptCommand(p)
    BY <1>2 DEF ConfigNext
  <2>2. ASSUME NEW s \in ConfigScope, NEW m \in Mirrors,
               ConfigAddMirror(p, s, m) \/ ConfigRemoveMirror(p, s, m)
        PROVE  ConfigInv'
    <3> DEFINE old == LoadConfigForScope(s).mirrors
    <3>1. CASE ConfigAddMirror(p, s, m)
      <4>1. LoadAndChange(p, s, <<>>, {},
              [LoadConfigForScope(s) EXCEPT !.mirrors = Append(old, m)])
        BY <3>1 DEF ConfigAddMirror
      <4>2. QED
        BY <4>1, MirrorKeeps
    <3>2. CASE ConfigRemoveMirror(p, s, m)
      <4>1. LoadAndChange(p, s, <<>>, {},
              [LoadConfigForScope(s) EXCEPT !.mirrors = SelectSeq(old, LAMBDA n : n # m)])
        BY <3>2 DEF ConfigRemoveMirror
      <4>2. QED
        BY <4>1, MirrorKeeps
    <3>3. QED
      BY <2>2, <3>1, <3>2
  <2>3. QED
    BY <2>1, <2>2, SetKeeps, UnsetKeeps, TruncateKeeps, WriteKeeps, InterruptKeeps
<1>3. QED
  BY <1>1, <1>2

\* The invariant of the configuration holds in every reachable state.
LEMMA ConfigInvariant == ConfigSpec => []ConfigInv
BY InitConfig, NextConfig, PTL DEF ConfigSpec

\* The scope a value comes from is one that gives it.
LEMMA SourceIs ==
  ASSUME NEW fs, NEW key, Setting(fs, key) # {}
  PROVE  /\ EffectiveSource(fs, key) \in ConfigScope
         /\ GetField(fs[EffectiveSource(fs, key)], key) # {}
<1> DEFINE is == Setting(fs, key)
<1>1. is \subseteq DOMAIN Scopes /\ DOMAIN Scopes \subseteq Nat
  BY ConfigAssumption DEF Setting
<1>2. \E i \in is : \A j \in is : i <= j
  <2> HIDE DEF is
  <2>1. QED
    BY <1>1, LeastNat DEF is
<1>3. Narrowest(is) \in is
  BY <1>2 DEF Narrowest
<1>4. EffectiveSource(fs, key) = Scopes[Narrowest(is)]
  BY DEF EffectiveSource
<1>5. \A i \in is : Scopes[i] \in ConfigScope /\ GetField(fs[Scopes[i]], key) # {}
  BY DEF Setting, ConfigScope, Range
<1> HIDE DEF is
<1>6. QED
  BY <1>3, <1>4, <1>5

\* The effective value is one of its source's file.
LEMMA ValueIs ==
  ASSUME NEW fs, NEW key, Setting(fs, key) # {}
  PROVE  EffectiveValue(fs, key) \in GetField(fs[EffectiveSource(fs, key)], key)
BY SourceIs DEF EffectiveValue

\* dk config get: whatever commands race, are interrupted or are lost, the value
\* in effect has been configured in the very scope that is named as its source,
\* or it is a built-in default.
THEOREM EffectiveIsConfiguredHolds == ConfigSpec => []EffectiveIsConfigured
<1>1. ConfigInv => EffectiveIsConfigured
  <2> SUFFICES ASSUME ConfigInv, NEW key \in Keys
               PROVE  LET source == EffectiveSource(files, key)
                          value == EffectiveValue(files, key)
                      IN \/ source \in ConfigScope /\ value \in Texts[source]
                         \/ value = Empty
                         \/ IsStatic(key) /\ value = BuiltIn(key[1])
    BY DEF EffectiveIsConfigured
  <2>1. CASE Setting(files, key) = {}
    BY <2>1 DEF EffectiveValue
  <2>2. CASE Setting(files, key) # {}
    <3> DEFINE source == EffectiveSource(files, key)
               value == EffectiveValue(files, key)
    <3>1. source \in ConfigScope /\ value \in GetField(files[source], key)
      BY <2>2, SourceIs, ValueIs
    <3> HIDE DEF source, value
    <3>2. value \in Allowed(source, key)
      BY <3>1 DEF ConfigInv, FilesInv, HasAllowed
    <3>3. QED
      BY <3>1, <3>2 DEF Allowed, source, value
  <2>3. QED
    BY <2>1, <2>2
<1>2. QED
  BY <1>1, ConfigInvariant, PTL

\* What is in effect depends on nothing but the values the files give.
LEMMA SameEffect ==
  ASSUME NEW fs, NEW gs, NEW key,
         \A s \in ConfigScope : GetField(fs[s], key) = GetField(gs[s], key)
  PROVE  EffectiveValue(fs, key) = EffectiveValue(gs, key)
<1>1. Setting(fs, key) = Setting(gs, key)
  BY DEF Setting, ConfigScope, Range
<1>2. EffectiveSource(fs, key) = EffectiveSource(gs, key)
  BY <1>1 DEF EffectiveSource
<1>3. CASE Setting(fs, key) = {}
  BY <1>1, <1>3 DEF EffectiveValue
<1>4. CASE Setting(fs, key) # {}
  <2>1. GetField(fs[EffectiveSource(fs, key)], key) = GetField(gs[EffectiveSource(gs, key)], key)
    BY <1>2, <1>4, SourceIs
  <2>2. QED
    BY <1>1, <1>4, <2>1 DEF EffectiveValue
<1>5. QED
  BY <1>3, <1>4

\* A write to a file that nobody else has written gives the command's key what was
\* wanted, and leaves the others as they were in the file the command has loaded, or
\* with their default.
LEMMA WriteTouches ==
  ASSUME ConfigInv, NEW p \in Commanders, p \in alone, WriteFile(p)
  PROVE  LET c == command[p] IN
         /\ Touches(c, files'[c.scope])
         /\ c.key \in Keys /\ Wanted(c) = {} =>
              EffectiveValue(files', c.key) = EffectiveWithout(files, c.scope, c.key)
<1> DEFINE c == command[p]
           saved == SaveConfigToPath(c.config)
<1>1. c.pc = "writing" /\ files' = [files EXCEPT ![c.scope] = saved]
  <2>1. c.pc = "writing" => files[c.scope] = NoFile /\ c.scope \notin malformed
    BY DEF ConfigInv, UndisturbedInv
  <2>2. QED
    BY <2>1 DEF WriteFile
<1>2. IsCommand(c)
  BY <1>1 DEF NoCommand, ConfigInv, CommandsInv
<1>3. /\ DOMAIN files = ConfigScope /\ c.scope \in ConfigScope
      /\ IsConfig(c.config) /\ Touches(c, c.config)
  BY <1>2 DEF ConfigInv, FilesInv, IsCommand
<1>4. \A key \in Keys : GetField(saved, key) = GetField(c.config, key)
  BY <1>3, SaveKeepsFields
<1> SUFFICES /\ Touches(c, files'[c.scope])
             /\ c.key \in Keys /\ Wanted(c) = {} =>
                  EffectiveValue(files', c.key) = EffectiveWithout(files, c.scope, c.key)
  OBVIOUS
<1> HIDE DEF c, saved
<1>5. /\ files'[c.scope] = saved
      /\ \A s \in ConfigScope \ {c.scope} : files'[s] = files[s]
  BY <1>1, <1>3
<1>6. Touches(c, saved)
  BY <1>3, <1>4 DEF Touches, Materialised
<1>7. ASSUME c.key \in Keys, Wanted(c) = {}
      PROVE  EffectiveValue(files', c.key) = EffectiveWithout(files, c.scope, c.key)
  <2> DEFINE gs == [files EXCEPT ![c.scope] = NoFile]
  <2>1. gs[c.scope] = NoFile /\ \A s \in ConfigScope \ {c.scope} : gs[s] = files[s]
    BY <1>3
  <2> HIDE DEF gs
  <2>2. GetField(files'[c.scope], c.key) = {}
    BY <1>5, <1>6, <1>7 DEF Touches
  <2>3. \A s \in ConfigScope : GetField(files'[s], c.key) = GetField(gs[s], c.key)
    BY <1>5, <2>1, <2>2, FieldOfNoFile
  <2>4. QED
    BY <2>3, SameEffect DEF EffectiveWithout, gs
<1>8. QED
  BY <1>5, <1>6, <1>7

\* The step that ends a command by changing a file is its own write.
LEMMA OnlyWriteEnds ==
  ASSUME ConfigNext, NEW p \in Commanders, command[p].pc = "writing", files' # files,
         command'[p] = NoCommand, DOMAIN command = Commanders
  PROVE  WriteFile(p)
<1>1. command[p] # NoCommand
  BY DEF NoCommand
<1>2. PICK q \in Commanders : TruncateFile(q) \/ WriteFile(q)
  BY DEF ConfigNext, ConfigSet, ConfigUnset, ConfigAddMirror, ConfigRemoveMirror,
         LoadAndChange, InterruptCommand
<1>3. q = p
  BY <1>1, <1>2 DEF TruncateFile, WriteFile
<1>4. QED
  BY <1>2, <1>3 DEF TruncateFile

\* dk config set and unset: a command whose file nobody else writes meanwhile
\* gives its key, in that scope, the value it was asked for, or none; no other key
\* changes its value, but for the defaults the command writes down.
THEOREM CommandTouchesItsKeyHolds == ConfigSpec => CommandTouchesItsKey
<1>1. ASSUME ConfigInv, [ConfigNext]_configVars, NEW p \in alone,
             command[p].pc = "writing", files' # files, command'[p] = NoCommand
      PROVE  LET s == command[p].scope
                 key == command[p].key
                 loaded == command[p].loaded
                 wanted == IF IsMapValue(key) THEN command[p].value
                           ELSE command[p].value \ {Empty}
             IN /\ key \in Keys =>
                     /\ GetField(files'[s], key) = wanted
                     /\ wanted = {} =>
                          EffectiveValue(files', key) = EffectiveWithout(files, s, key)
                /\ \A other \in Keys \ {key} :
                     \/ GetField(files'[s], other) = GetField(loaded, other)
                     \/ Materialised(loaded, files'[s], other)
  <2>1. p \in Commanders /\ DOMAIN command = Commanders
    BY <1>1 DEF ConfigInv, UndisturbedInv, CommandsInv
  <2>2. ConfigNext
    BY <1>1 DEF configVars
  <2>3. WriteFile(p)
    BY <1>1, <2>1, <2>2, OnlyWriteEnds
  <2>4. LET c == command[p] IN
        /\ Touches(c, files'[c.scope])
        /\ c.key \in Keys /\ Wanted(c) = {} =>
             EffectiveValue(files', c.key) = EffectiveWithout(files, c.scope, c.key)
    BY <1>1, <2>1, <2>3, WriteTouches
  <2>5. QED
    BY <2>4 DEF Touches, Wanted
<1>2. ConfigInv /\ [ConfigNext]_configVars =>
        [\A p \in alone :
          command[p].pc = "writing" /\ files' # files =>
            LET s == command[p].scope
                key == command[p].key
                loaded == command[p].loaded
                wanted == IF IsMapValue(key) THEN command[p].value
                          ELSE command[p].value \ {Empty}
            IN p \notin alone' /\ command'[p] = NoCommand =>
                 /\ key \in Keys =>
                      /\ GetField(files'[s], key) = wanted
                      /\ wanted = {} =>
                           EffectiveValue(files', key) = EffectiveWithout(files, s, key)
                 /\ \A other \in Keys \ {key} :
                      \/ GetField(files'[s], other) = GetField(loaded, other)
                      \/ Materialised(loaded, files'[s], other)]_configVars
  BY <1>1
<1>3. QED
  BY <1>2, ConfigInvariant, PTL DEF ConfigSpec, CommandTouchesItsKey

\* What makes the loaded file the reference: until a command truncates it, the file
\* that nobody else writes holds what the command has loaded, and until the command
\* writes it, nothing.
THEOREM UndisturbedFileHolds == ConfigSpec => []UndisturbedInv
<1>1. ConfigInv => UndisturbedInv
  BY DEF ConfigInv
<1>2. QED
  BY <1>1, ConfigInvariant, PTL

-----------------------------------------------------------------------------
(* The merge of all scopes.                                                *)

\* What the merge's loop has after n scopes.
LEMMA MergeIterates ==
  ASSUME NEW fs
  PROVE  \E g : /\ MergeScopes(fs) = applyDefaults(g[Len(Scopes)])
                /\ g[0] = EmptyConfig
                /\ \A n \in 1 .. Len(Scopes) :
                     g[n] = Unmarshal(fs[Scopes[Len(Scopes) - n + 1]], g[n - 1])
<1> DEFINE L == Len(Scopes)
           Add(n, config) == Unmarshal(fs[Scopes[L - n + 1]], config)
           IsUpTo(g, n) == /\ DOMAIN g = 0 .. n /\ g[0] = EmptyConfig
                           /\ \A k \in 1 .. n : g[k] = Add(k, g[k - 1])
           T == {n \in Nat : \E g : IsUpTo(g, n)}
<1>0. L \in Nat
  BY ConfigAssumption, LenProperties
<1>1. 0 \in T
  <2>1. IsUpTo([k \in 0 .. 0 |-> EmptyConfig], 0)
    OBVIOUS
  <2> HIDE DEF IsUpTo
  <2>2. QED
    BY <2>1
<1>2. ASSUME NEW n \in T PROVE n + 1 \in T
  <2> HIDE DEF Add
  <2>1. PICK g : IsUpTo(g, n)
    OBVIOUS
  <2> DEFINE h == [k \in 0 .. (n + 1) |-> IF k <= n THEN g[k] ELSE Add(n + 1, g[n])]
  <2>2. n \in Nat
    OBVIOUS
  <2>3. DOMAIN h = 0 .. (n + 1) /\ h[0] = EmptyConfig
    BY <2>1, <2>2
  <2>4. ASSUME NEW k \in 1 .. (n + 1) PROVE h[k] = Add(k, h[k - 1])
    <3>1. CASE k = n + 1
      BY <2>2, <3>1
    <3>2. CASE k <= n
      BY <2>1, <2>2, <3>2
    <3>3. QED
      BY <2>2, <3>1, <3>2
  <2>5. IsUpTo(h, n + 1)
    <3> HIDE DEF h
    <3> QED
      BY <2>3, <2>4
  <2> HIDE DEF IsUpTo
  <2>6. QED
    BY <2>2, <2>5
<1>3. \E g : IsUpTo(g, L)
  <2>1. T = Nat
    <3> HIDE DEF T
    <3> QED
      BY <1>1, <1>2, AllNat DEF T
  <2> HIDE DEF IsUpTo, L
  <2>2. QED
    BY <1>0, <2>1
<1>4. PICK g : IsUpTo(g, L)
  BY <1>3
<1> DEFINE Merged == CHOOSE m : m = [n \in 0 .. L |->
                       IF n = 0 THEN EmptyConfig ELSE Add(n, m[n - 1])]
           f == [n \in 0 .. L |-> g[n]]
<1>5. f = [n \in 0 .. L |-> IF n = 0 THEN EmptyConfig ELSE Add(n, f[n - 1])]
  <2> HIDE DEF Add, L
  <2>1. \A n \in 0 .. L : g[n] = IF n = 0 THEN EmptyConfig ELSE Add(n, f[n - 1])
    BY <1>0, <1>4
  <2>2. QED
    BY <2>1
<1>6. Merged = [n \in 0 .. L |-> IF n = 0 THEN EmptyConfig ELSE Add(n, Merged[n - 1])]
  <2> HIDE DEF Add, L, f
  <2> QED
    BY <1>5, Zenon
<1>7. MergeScopes(fs) = applyDefaults(Merged[L])
  BY Zenon DEF MergeScopes
<1> HIDE DEF Merged, Add
<1>8. Merged[0] = EmptyConfig /\ \A n \in 1 .. L : Merged[n] = Add(n, Merged[n - 1])
  BY <1>0, <1>6
<1>9. QED
  BY <1>7, <1>8 DEF Add

IsMerged(config) == "static" \in DOMAIN config /\ DOMAIN config.static = StaticKeys

\* A file that gives the key a value decides it, and one that does not name it leaves it.
LEMMA UnmarshalField ==
  ASSUME NEW key \in Keys, NEW file, NEW config, IsMerged(config)
  PROVE  /\ IsMerged(Unmarshal(file, config))
         /\ GetField(file, key) # {} =>
              GetField(Unmarshal(file, config), key) = GetField(file, key)
         /\ key[1] \notin DOMAIN file.static \cup DOMAIN file.entries =>
              GetField(Unmarshal(file, config), key) = GetField(config, key)
<1> DEFINE new == Unmarshal(file, config)
           k == key[1]
<1>1. /\ new.static = [j \in StaticKeys |-> Lookup(file.static, j, config.static[j])]
      /\ new.entries = [e \in DOMAIN config.entries \cup DOMAIN file.entries |->
                          Lookup(file.entries, e, Lookup(config.entries, e, <<>>))]
      /\ "static" \in DOMAIN new
  BY DEF Unmarshal
<1> HIDE DEF new
<1>2. CASE IsStatic(key)
  <2>1. k \in StaticKeys
    BY <1>2, KeysAre
  <2>2. \A c : GetField(c, key) = IF k \in DOMAIN c.static THEN {c.static[k]} \ {Empty} ELSE {}
    BY <1>2, FieldIs
  <2> HIDE DEF k
  <2>3. k \in DOMAIN new.static /\ k \in DOMAIN config.static
        /\ new.static[k] = IF k \in DOMAIN file.static THEN file.static[k] ELSE config.static[k]
    BY <1>1, <2>1 DEF Lookup, IsMerged
  <2>4. /\ GetField(new, key) = {new.static[k]} \ {Empty}
        /\ GetField(config, key) = {config.static[k]} \ {Empty}
        /\ k \in DOMAIN file.static => GetField(file, key) = {file.static[k]} \ {Empty}
        /\ k \notin DOMAIN file.static => GetField(file, key) = {}
    BY <2>2, <2>3
  <2>5. QED
    BY <1>1, <2>3, <2>4 DEF IsMerged, new, k
<1>3. CASE ~IsStatic(key)
  <2> DEFINE f == key[2]
  <2>1. \A c : GetField(c, key) = IF k \in DOMAIN c.entries /\ f \in DOMAIN c.entries[k]
                                 THEN {c.entries[k][f]} ELSE {}
    BY <1>3, FieldIs
  <2> HIDE DEF k, f
  <2>2. k \in DOMAIN file.entries => k \in DOMAIN new.entries /\ new.entries[k] = file.entries[k]
    BY <1>1 DEF Lookup
  <2>3. k \notin DOMAIN file.entries =>
          /\ k \in DOMAIN new.entries <=> k \in DOMAIN config.entries
          /\ k \in DOMAIN config.entries => new.entries[k] = config.entries[k]
    BY <1>1 DEF Lookup
  <2>4. GetField(file, key) # {} => k \in DOMAIN file.entries /\ GetField(new, key) = GetField(file, key)
    BY <2>1, <2>2
  <2>5. k \notin DOMAIN file.entries => GetField(new, key) = GetField(config, key)
    BY <2>1, <2>3
  <2>6. QED
    BY <1>1, <2>4, <2>5 DEF IsMerged, new, k
<1>4. QED
  BY <1>2, <1>3

\* applyDefaults gives a static key without a value its default, and leaves all others.
LEMMA DefaultsField ==
  ASSUME NEW key \in Keys, NEW config, IsMerged(config)
  PROVE  LET merged == GetField(applyDefaults(config), key)
         IN IF GetField(config, key) = {} /\ IsStatic(key)
              THEN merged = {BuiltIn(key[1])} \ {Empty} ELSE merged = GetField(config, key)
<1> DEFINE new == applyDefaults(config)
           k == key[1]
<1>1. CASE IsStatic(key)
  <2>1. k \in StaticKeys
    BY <1>1, KeysAre
  <2>2. \A c : GetField(c, key) = IF k \in DOMAIN c.static THEN {c.static[k]} \ {Empty} ELSE {}
    BY <1>1, FieldIs
  <2> HIDE DEF k
  <2>3. new.static = [j \in StaticKeys |-> IF config.static[j] = Empty THEN BuiltIn(j)
                                           ELSE config.static[j]]
    BY DEF applyDefaults, IsMerged
  <2>4. k \in DOMAIN new.static
        /\ new.static[k] = IF config.static[k] = Empty THEN BuiltIn(k) ELSE config.static[k]
    BY <2>1, <2>3
  <2> HIDE DEF new
  <2>5. /\ GetField(new, key) = {new.static[k]} \ {Empty}
        /\ GetField(config, key) = {config.static[k]} \ {Empty}
    BY <2>1, <2>2, <2>4 DEF IsMerged
  <2>6. QED
    BY <1>1, <2>4, <2>5 DEF new, k
<1>2. CASE ~IsStatic(key)
  <2>1. new.entries = config.entries
    BY DEF applyDefaults
  <2> HIDE DEF new
  <2>2. QED
    BY <1>2, <2>1, FieldIs DEF new
<1>3. QED
  BY <1>1, <1>2

\* A scope narrower than the first that gives a key a value does not name the key.
LEMMA NarrowerAreSilent ==
  ASSUME NEW key, ~Shadowed(key), NEW i \in DOMAIN Scopes,
         \A t \in Setting(files, key) : i < t
  PROVE  key[1] \notin DOMAIN files[Scopes[i]].static \cup DOMAIN files[Scopes[i]].entries
BY DEF Shadowed, ConfigScope, Range

\* dk config get and the merged configuration, which there is when every file can be
\* read, agree, for any number of scopes and keys: from the scope that decides a key
\* on, the merge keeps its value.
THEOREM MergedIsEffectiveHolds == ConfigSpec => []MergedIsEffective
<1>1. ASSUME NEW key \in Keys, ~Shadowed(key)
      PROVE  GetField(MergeScopes(files), key) \ {Empty}
               = {EffectiveValue(files, key)} \ {Empty}
  <2> DEFINE L == Len(Scopes)
             set == Setting(files, key)
             file(i) == files[Scopes[i]]
  <2>1. L \in Nat /\ DOMAIN Scopes = 1 .. L /\ set \subseteq 1 .. L
    BY ConfigAssumption, LenProperties DEF Setting
  <2>2. PICK g : /\ MergeScopes(files) = applyDefaults(g[L])
                 /\ g[0] = EmptyConfig
                 /\ \A n \in 1 .. L : g[n] = Unmarshal(file(L - n + 1), g[n - 1])
    BY MergeIterates
  <2>3. IsMerged(EmptyConfig)
    BY DEF IsMerged, EmptyConfig, NoFile
  <2>4. \A n \in 0 .. L : IsMerged(g[n])
    <3> DEFINE T == {n \in Nat : n <= L => IsMerged(g[n])}
    <3>1. 0 \in T
      BY <2>2, <2>3
    <3>2. ASSUME NEW n \in T, n + 1 <= L PROVE IsMerged(g[n + 1])
      <4>1. n + 1 \in 1 .. L /\ (n + 1) - 1 = n /\ IsMerged(g[n])
        BY <2>1, <3>2
      <4>2. QED
        BY <1>1, <2>2, <4>1, UnmarshalField
    <3>3. T = Nat
      <4>1. \A n \in T : n + 1 \in T
        BY <3>2
      <4> HIDE DEF T
      <4>2. QED
        BY <3>1, <4>1, AllNat DEF T
    <3>4. QED
      BY <2>1, <3>3
  <2>5. ASSUME NEW n \in 1 .. L
        PROVE  /\ L - n + 1 \in 1 .. L
               /\ GetField(file(L - n + 1), key) # {} =>
                    GetField(g[n], key) = GetField(file(L - n + 1), key)
               /\ (\A t \in set : L - n + 1 < t) => GetField(g[n], key) = GetField(g[n - 1], key)
    <3>1. L - n + 1 \in 1 .. L /\ n - 1 \in 0 .. L
      BY <2>1
    <3>2. IsMerged(g[n - 1]) /\ g[n] = Unmarshal(file(L - n + 1), g[n - 1])
      BY <2>2, <2>4, <3>1
    <3>3. (\A t \in set : L - n + 1 < t) =>
            key[1] \notin DOMAIN file(L - n + 1).static \cup DOMAIN file(L - n + 1).entries
      BY <1>1, <2>1, <3>1, NarrowerAreSilent
    <3> HIDE DEF set, file
    <3>4. QED
      BY <1>1, <3>1, <3>2, <3>3, UnmarshalField
  <2>6. L \in 0 .. L /\ IsMerged(g[L])
    BY <2>1, <2>4
  <2>7. CASE set = {}
    <3> DEFINE T == {n \in Nat : n <= L => GetField(g[n], key) = {}}
    <3>1. 0 \in T
      <4>1. GetField(EmptyConfig, key) = {}
        BY FieldIs DEF EmptyConfig, NoFile
      <4>2. QED
        BY <2>2, <4>1
    <3>2. ASSUME NEW n \in T, n + 1 <= L PROVE GetField(g[n + 1], key) = {}
      <4>1. n + 1 \in 1 .. L /\ (n + 1) - 1 = n /\ GetField(g[n], key) = {}
        BY <2>1, <3>2
      <4>2. QED
        BY <2>5, <2>7, <4>1
    <3>3. T = Nat
      <4>1. ASSUME NEW n \in T PROVE n + 1 \in T
        <5>1. n + 1 \in Nat
          OBVIOUS
        <5>2. ASSUME n + 1 <= L PROVE GetField(g[n + 1], key) = {}
          BY <3>2, <5>2, Zenon
        <5>3. QED
          BY <5>1, <5>2, Zenon
      <4> HIDE DEF T
      <4>2. QED
        BY <3>1, <4>1, AllNat DEF T
    <3>4. GetField(g[L], key) = {}
      BY <2>1, <3>3
    <3>5. EffectiveValue(files, key) = IF IsStatic(key) THEN BuiltIn(key[1]) ELSE Empty
      BY <2>7 DEF EffectiveValue
    <3>6. QED
      BY <1>1, <2>2, <2>6, <3>4, <3>5, DefaultsField
  <2>8. CASE set # {}
    <3> DEFINE m == Narrowest(set)
    <3>1. m \in set /\ \A t \in set : m <= t
      <4>1. \E i \in set : \A j \in set : i <= j
        <5> HIDE DEF set
        <5>1. set \subseteq Nat
          BY <2>1
        <5>2. QED
          BY <2>8, <5>1, LeastNat
      <4> HIDE DEF set
      <4>2. QED
        BY <4>1 DEF Narrowest
    <3>2. m \in 1 .. L /\ GetField(file(m), key) # {}
      BY <2>1, <3>1 DEF Setting
    <3>3. EffectiveValue(files, key) = CHOOSE v \in GetField(file(m), key) : TRUE
      BY <2>8 DEF EffectiveValue, EffectiveSource
    <3>4. GetField(file(m), key) = {EffectiveValue(files, key)}
      <4>1. \E v : GetField(file(m), key) = {v}
        BY <3>2, FieldIs
      <4>2. QED
        BY <3>3, <4>1
    <3> HIDE DEF m, set
    <3> DEFINE T == {n \in Nat : (L - m + 1) + n <= L =>
                       GetField(g[(L - m + 1) + n], key) = GetField(file(m), key)}
    <3>5. 0 \in T
      <4>1. L - m + 1 \in 1 .. L /\ L - (L - m + 1) + 1 = m /\ (L - m + 1) + 0 = L - m + 1
        BY <2>1, <3>2
      <4> HIDE DEF file
      <4>2. QED
        BY <2>5, <3>2, <4>1
    <3>6. ASSUME NEW n \in T, (L - m + 1) + (n + 1) <= L
          PROVE  GetField(g[(L - m + 1) + (n + 1)], key) = GetField(file(m), key)
      <4> DEFINE k == (L - m + 1) + (n + 1)
      <4>1. n \in Nat /\ m \in Nat
        BY <3>2
      <4>2. /\ k \in 1 .. L /\ k - 1 = (L - m + 1) + n /\ L - k + 1 < m
            /\ (L - m + 1) + n <= L
        BY <2>1, <3>2, <3>6, <4>1
      <4>3. GetField(g[k - 1], key) = GetField(file(m), key)
        BY <4>2
      <4> HIDE DEF k, file
      <4>4. \A t \in set : L - k + 1 < t
        BY <2>1, <3>1, <4>1, <4>2
      <4>5. QED
        BY <2>5, <4>2, <4>3, <4>4 DEF k
    <3>7. T = Nat
      <4>1. ASSUME NEW n \in T PROVE n + 1 \in T
        <5>1. n + 1 \in Nat
          OBVIOUS
        <5>2. ASSUME (L - m + 1) + (n + 1) <= L
              PROVE  GetField(g[(L - m + 1) + (n + 1)], key) = GetField(file(m), key)
          BY <3>6, <5>2, Zenon
        <5>3. QED
          BY <5>1, <5>2, Zenon
      <4> HIDE DEF T
      <4>2. QED
        BY <3>5, <4>1, AllNat DEF T
    <3>8. GetField(g[L], key) = {EffectiveValue(files, key)}
      <4>1. m - 1 \in Nat /\ (L - m + 1) + (m - 1) = L
        BY <2>1, <3>2
      <4>2. \A n \in Nat : (L - m + 1) + n <= L =>
              GetField(g[(L - m + 1) + n], key) = GetField(file(m), key)
        BY <3>7
      <4>3. GetField(g[L], key) = GetField(file(m), key)
        <5> HIDE DEF file
        <5> QED
          BY <2>1, <4>1, <4>2
      <4>4. QED
        BY <3>4, <4>3
    <3>9. QED
      BY <1>1, <2>2, <2>6, <3>8, DefaultsField
  <2>9. QED
    BY <2>7, <2>8
<1>2. MergedIsEffective
  <2>1. ASSUME NEW config \in LoadHierarchicalConfig PROVE config = MergeScopes(files)
    BY DEF LoadHierarchicalConfig
  <2>2. QED
    BY <1>1, <2>1 DEF MergedIsEffective
<1>3. QED
  BY <1>2, PTL
=============================================================================
