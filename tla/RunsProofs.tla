----------------------------- MODULE RunsProofs -----------------------------
(***************************************************************************)
(* Proofs about PipelineRun, Heartbeat, MultiRun and CloudQuery, for any   *)
(* number of runs, IDs, packages, callers, lives and records.              *)
(*                                                                         *)
(* MultiRun is a run of packages as PipelineRun has them and a loop over a *)
(* graph as PipelineGraph has it, whose theorems hold of it; what is true  *)
(* only of the two together comes after them.                              *)
(***************************************************************************)
EXTENDS MCRuns, PipelineGraphProofs

-----------------------------------------------------------------------------
(* PipelineRun. *)

Types == {"START", "COMPLETE", "FAIL"}

(* The lineages of a run, which proofs need not look into. *)
Silent == <<>>
Unbuilt == <<"FAIL">>
Started == <<"START">>
Completed == <<"START", "COMPLETE">>
Broken == <<"START", "FAIL">>
Lineages == {Silent, Unbuilt, Started, Completed, Broken}

\* What is known of a run by where its process is.
PointSays(p) ==
  /\ pc[p] = "idle" => p \notin signalled
  /\ pc[p] \in {"idle", "building"} => events[p] = Silent /\ client[p] = "none"
  /\ pc[p] = "starting" => events[p] = Started /\ client[p] = "none"
  /\ pc[p] \in {"waiting", "draining", "testing"} => events[p] = Started
  /\ pc[p] = "waiting" => client[p] # "none"
  /\ pc[p] = "draining" => p \in signalled
  /\ pc[p] = "testing" => kind[p] = "test"
  /\ pc[p] \in {"idle", "building", "starting", "waiting", "draining"} => error[p] = "none"
  /\ pc[p] = "testing" => error[p] = "nil"

\* What its lineage tells of a run, wherever its process is.
EventsSay(p) ==
  /\ events[p] \in {Unbuilt, Broken} => error[p] = "error"
  /\ error[p] = "error" =>
       \/ events[p] \in {Unbuilt, Broken}
       \/ events[p] = Silent /\ status[p] = "pending" /\ client[p] = "none"
  /\ events[p] = Completed =>
       /\ status[p] = "completed" /\ error[p] = "nil"
       /\ kind[p] \in {"batch", "attached"}
       /\ p \notin signalled => client[p] = "ok"
  /\ events[p] = Started /\ pc[p] = "returned" => error[p] = "nil"
  /\ events[p] = Started /\ error[p] = "nil" =>
       kind[p] \in {"detached", "test"} /\ client[p] = "ok"

\* The docker client's exit tells of the container.
ClientSays(p) ==
  /\ client[p] = "ok" =>
       IF kind[p] \in {"batch", "attached"} THEN container[p] = "ok"
                                            ELSE container[p] # "none"
  /\ client[p] # "none" => events[p] \in {Started, Completed, Broken}
  /\ p \in signalled => kind[p] = "attached"

IInv ==
  /\ TypeOK
  /\ events \in [Runs -> Lineages]
  /\ \A p \in Runs : PointSays(p) /\ EventsSay(p) /\ ClientSays(p)

\* What the events of emitLineage add up to.
LEMMA Emitted ==
  /\ Append(Silent, "START") = Started
  /\ Append(Silent, "FAIL") = Unbuilt
  /\ Append(Started, "COMPLETE") = Completed
  /\ Append(Started, "FAIL") = Broken
<1>1. Append(Silent, "START") = Started
  BY DEF Silent, Started
<1>2. Append(Silent, "FAIL") = Unbuilt
  BY DEF Silent, Unbuilt
<1>3. Append(Started, "COMPLETE") = Completed
  <2>1. Started \in Seq(Types) /\ "COMPLETE" \in Types /\ Completed \in Seq(Types)
    BY DEF Types, Started, Completed
  <2>2. /\ Append(Started, "COMPLETE") \in Seq(Types)
        /\ Len(Append(Started, "COMPLETE")) = 2
        /\ Append(Started, "COMPLETE")[1] = "START"
        /\ Append(Started, "COMPLETE")[2] = "COMPLETE"
    BY <2>1, AppendProperties DEF Started
  <2>3. Len(Completed) = 2 /\ Completed[1] = "START" /\ Completed[2] = "COMPLETE"
    BY DEF Completed
  <2>4. QED
    BY <2>1, <2>2, <2>3, SeqEqual
<1>4. Append(Started, "FAIL") = Broken
  <2>1. Started \in Seq(Types) /\ "FAIL" \in Types /\ Broken \in Seq(Types)
    BY DEF Types, Started, Broken
  <2>2. /\ Append(Started, "FAIL") \in Seq(Types)
        /\ Len(Append(Started, "FAIL")) = 2
        /\ Append(Started, "FAIL")[1] = "START"
        /\ Append(Started, "FAIL")[2] = "FAIL"
    BY <2>1, AppendProperties DEF Started
  <2>3. Len(Broken) = 2 /\ Broken[1] = "START" /\ Broken[2] = "FAIL"
    BY DEF Broken
  <2>4. QED
    BY <2>1, <2>2, <2>3, SeqEqual
<1>5. QED
  BY <1>1, <1>2, <1>3, <1>4

\* The lineages are five sequences.
LEMMA LineagesDiffer ==
  /\ Lineages \subseteq Seq(Types)
  /\ Silent # Unbuilt /\ Silent # Started /\ Silent # Completed /\ Silent # Broken
  /\ Unbuilt # Started /\ Unbuilt # Completed /\ Unbuilt # Broken
  /\ Started # Completed /\ Started # Broken /\ Completed # Broken
<1> USE DEF Silent, Unbuilt, Started, Completed, Broken
<1>1. Lineages \subseteq Seq(Types)
  BY DEF Lineages, Types
<1>2. /\ Silent # Unbuilt /\ Silent # Started /\ Silent # Completed /\ Silent # Broken
      /\ Unbuilt # Started /\ Unbuilt # Completed /\ Unbuilt # Broken
  OBVIOUS
<1>3. Started # Completed /\ Started # Broken /\ Completed # Broken
  OBVIOUS
<1>4. QED
  BY <1>1, <1>2, <1>3

\* Before its call a run has nothing.
LEMMA InitIInv == Init => IInv
  BY LineagesDiffer, IdsAssumption
  DEF Init, IInv, TypeOK, PointSays, EventsSay, ClientSays, Lineages, Silent,
      Points, Kinds, Statuses

\* Every step keeps the invariant: the run that takes it has what its point
\* says, and the others keep what they have.
LEMMA NextIInv == IInv /\ [Next]_vars => IInv'
<1> SUFFICES ASSUME IInv, [Next]_vars PROVE IInv'
  OBVIOUS
<1> USE LineagesDiffer
    DEF IInv, TypeOK, PointSays, EventsSay, ClientSays, Goto, Types,
        Points, Kinds, Statuses, Lineages
<1>1. ASSUME NEW p \in Runs, NEW k \in Kinds, NEW i \in Ids, Begin(p, k, i)
      PROVE  IInv'
  BY <1>1 DEF Begin
<1>2. ASSUME NEW p \in Runs, BuildFails(p)
      PROVE  IInv'
  <2>1. CASE Return(p, "failed", "error", "FAIL")
    <3>1. events' = [events EXCEPT ![p] = Unbuilt]
      BY <1>2, <2>1, Emitted DEF BuildFails, Return, emitLineage
    <3>2. QED
      BY <1>2, <2>1, <3>1 DEF BuildFails, Return
  <2>2. CASE Goto(p, "returned", "pending") /\ error' = [error EXCEPT ![p] = "error"]
               /\ UNCHANGED events
    BY <1>2, <2>2 DEF BuildFails
  <2>3. QED
    BY <1>2, <2>1, <2>2 DEF BuildFails
<1>3. ASSUME NEW p \in Runs, DryRun(p)
      PROVE  IInv'
  BY <1>3 DEF DryRun
<1>4. ASSUME NEW p \in Runs, EmitStart(p)
      PROVE  IInv'
  <2>1. events' = [events EXCEPT ![p] = Started]
    BY <1>4, Emitted DEF EmitStart, Return, emitLineage
  <2>2. QED
    BY <1>4, <2>1 DEF EmitStart, Return
<1>5. ASSUME NEW p \in Runs, StartClient(p)
      PROVE  IInv'
  BY <1>5 DEF StartClient, StatusOnStart
<1>6. ASSUME NEW p \in Runs, StartFails(p)
      PROVE  IInv'
  <2>1. events' = [events EXCEPT ![p] = Broken]
    BY <1>6, Emitted DEF StartFails, Return, emitLineage
  <2>2. /\ pc[p] = "starting"
        /\ pc' = [pc EXCEPT ![p] = "returned"]
        /\ \E st \in Statuses : status' = [status EXCEPT ![p] = st]
        /\ error' = [error EXCEPT ![p] = "error"]
        /\ UNCHANGED <<kind, id, client, container, signalled>>
    BY <1>6 DEF StartFails, Return
  <2>3. QED
    BY <2>1, <2>2
<1>7. ASSUME NEW p \in Runs, CreateContainer(p)
      PROVE  IInv'
  BY <1>7 DEF CreateContainer, NameTaken
<1>8. ASSUME NEW p \in Runs, CreateFails(p)
      PROVE  IInv'
  BY <1>8 DEF CreateFails
<1>9. ASSUME NEW p \in Runs, ClientExits(p)
      PROVE  IInv'
  BY <1>9 DEF ClientExits
<1>10. ASSUME NEW p \in Runs, Timeout(p)
      PROVE  IInv'
  BY <1>10 DEF Timeout
<1>11. ASSUME NEW p \in Runs, ClientReturns(p)
      PROVE  IInv'
  <2>1. CASE client[p] = "ok"
    <3>1. events' = [events EXCEPT ![p] = Completed]
      BY <1>11, <2>1, Emitted DEF ClientReturns, Return, emitLineage
    <3>2. /\ pc[p] = "waiting" /\ kind[p] \in {"batch", "attached"}
          /\ pc' = [pc EXCEPT ![p] = "returned"]
          /\ status' = [status EXCEPT ![p] = "completed"]
          /\ error' = [error EXCEPT ![p] = "nil"]
          /\ UNCHANGED <<kind, id, client, container, signalled>>
      BY <1>11, <2>1 DEF ClientReturns, Return
    <3>3. QED
      BY <2>1, <3>1, <3>2
  <2>2. CASE client[p] # "ok"
    <3>1. events' = [events EXCEPT ![p] = Broken]
      BY <1>11, <2>2, Emitted DEF ClientReturns, Return, emitLineage
    <3>2. /\ pc[p] = "waiting" /\ kind[p] \in {"batch", "attached"}
          /\ pc' = [pc EXCEPT ![p] = "returned"]
          /\ status' = [status EXCEPT ![p] = "failed"]
          /\ error' = [error EXCEPT ![p] = "error"]
          /\ UNCHANGED <<kind, id, client, container, signalled>>
      BY <1>11, <2>2 DEF ClientReturns, Return
    <3>3. QED
      BY <2>2, <3>1, <3>2
  <2>3. QED
    BY <2>1, <2>2
<1>12. ASSUME NEW p \in Runs, Signal(p)
      PROVE  IInv'
  BY <1>12 DEF Signal
<1>13. ASSUME NEW p \in Runs, BeginDrain(p)
      PROVE  IInv'
  BY <1>13 DEF BeginDrain
<1>14. ASSUME NEW p \in Runs, EndDrain(p)
      PROVE  IInv'
  <2>1. events' = [events EXCEPT ![p] = Completed]
    BY <1>14, Emitted DEF EndDrain, Return, emitLineage
  <2>2. /\ pc[p] = "draining"
        /\ client' = [client EXCEPT
              ![p] = IF client[p] \in {"ok", "failed", "killed"} THEN client[p] ELSE "killed"]
    BY <1>14 DEF EndDrain, ClientDone
  <2>3. /\ pc' = [pc EXCEPT ![p] = "returned"]
        /\ status' = [status EXCEPT ![p] = "completed"]
        /\ error' = [error EXCEPT ![p] = "nil"]
        /\ UNCHANGED <<kind, id, container, signalled>>
    BY <1>14 DEF EndDrain, Return
  <2>4. QED
    BY <2>1, <2>2, <2>3
<1>15. ASSUME NEW p \in Runs, DetachedReturns(p)
      PROVE  IInv'
  <2>1. CASE client[p] = "ok"
    <3>1. /\ pc[p] = "waiting" /\ kind[p] \in {"detached", "test"}
          /\ status' = [status EXCEPT ![p] = "running"]
          /\ error' = [error EXCEPT ![p] = "nil"]
          /\ UNCHANGED <<kind, id, client, container, signalled, events>>
      BY <1>15, <2>1 DEF DetachedReturns
    <3>2. CASE kind[p] = "test"
      <4>1. pc' = [pc EXCEPT ![p] = "testing"]
        BY <1>15, <2>1, <3>2 DEF DetachedReturns
      <4>2. QED
        BY <2>1, <3>1, <3>2, <4>1
    <3>3. CASE kind[p] # "test"
      <4>1. pc' = [pc EXCEPT ![p] = "returned"]
        BY <1>15, <2>1, <3>3 DEF DetachedReturns
      <4>2. QED
        BY <2>1, <3>1, <3>3, <4>1
    <3>4. QED
      BY <3>2, <3>3
  <2>2. CASE client[p] # "ok"
    <3>1. events' = [events EXCEPT ![p] = Broken]
      BY <1>15, <2>2, Emitted DEF DetachedReturns, Return, emitLineage
    <3>2. /\ pc[p] = "waiting" /\ kind[p] \in {"detached", "test"}
          /\ pc' = [pc EXCEPT ![p] = "returned"]
          /\ status' = [status EXCEPT ![p] = "failed"]
          /\ error' = [error EXCEPT ![p] = "error"]
          /\ UNCHANGED <<kind, id, client, container, signalled>>
      BY <1>15, <2>2 DEF DetachedReturns, Return
    <3>3. QED
      BY <2>2, <3>1, <3>2
  <2>3. QED
    BY <2>1, <2>2
<1>16. ASSUME NEW p \in Runs, EndTest(p)
      PROVE  IInv'
  BY <1>16 DEF EndTest
<1>17. ASSUME NEW p \in Runs, Crash(p)
      PROVE  IInv'
  BY <1>17 DEF Crash
<1>18. ASSUME NEW p \in Runs, NEW exit \in {"ok", "failed"}, ContainerExits(p, exit)
      PROVE  IInv'
  BY <1>18 DEF ContainerExits
<1>19. CASE UNCHANGED vars
  BY <1>19 DEF vars
<1>20. QED
  <2> HIDE LineagesDiffer
      DEF IInv, TypeOK, PointSays, EventsSay, ClientSays, Goto, Types,
          Points, Kinds, Statuses, Lineages
  <2>1. ASSUME NEW p \in Runs, Process(p) PROVE IInv'
    BY <1>2, <1>3, <1>4, <1>5, <1>6, <1>10, <1>11, <1>13, <1>14, <1>15, <1>16, <2>1 DEF Process
  <2>2. ASSUME NEW p \in Runs, Docker(p) PROVE IInv'
    BY <1>7, <1>8, <1>9, <2>2 DEF Docker
  <2>3. CASE Next
    BY <1>1, <1>12, <1>17, <1>18, <2>1, <2>2, <2>3 DEF Next
  <2>4. QED
    BY <1>19, <2>3

\* IInv holds in every reachable state.
LEMMA IInvHolds == Spec => []IInv
<1>1. Init => IInv
  BY InitIInv
<1>2. IInv /\ [Next]_vars => IInv'
  BY NextIInv
<1>3. QED
  BY <1>1, <1>2, PTL DEF Spec

\* Every variable of PipelineRun holds values of its kind, and no two running
\* containers have one name.
THEOREM TypeOKHolds == Spec => []TypeOK
<1>1. IInv => TypeOK
  BY DEF IInv
<1>2. QED
  BY <1>1, IInvHolds, PTL

\* The terminal events of the five lineages.
LEMMA LastEvents ==
  /\ Silent = <<>>
  /\ Unbuilt[Len(Unbuilt)] = "FAIL" /\ Broken[Len(Broken)] = "FAIL"
  /\ Started[Len(Started)] # "FAIL" /\ Completed[Len(Completed)] # "FAIL"
  BY DEF Silent, Unbuilt, Broken, Started, Completed

\* However a run ends, what it has emitted to the lineage is START and the
\* one event that goes with what Run returns; an error before the build alone
\* leaves nothing there.
THEOREM LineageMatchesResultHolds == Spec => []LineageMatchesResult
<1>1. IInv => LineageMatchesResult
  <2>1. ASSUME IInv, NEW p \in Runs
        PROVE  /\ events[p] \in Lineages
               /\ events[p] # Silent /\ events[p][Len(events[p])] = "FAIL" =>
                    error[p] = "error"
               /\ error[p] = "error" =>
                    \/ events[p] # Silent /\ events[p][Len(events[p])] = "FAIL"
                    \/ events[p] = Silent /\ status[p] = "pending" /\ client[p] = "none"
               /\ events[p] = Completed => status[p] = "completed" /\ error[p] = "nil"
               /\ pc[p] = "returned" /\ events[p] = Started =>
                    kind[p] \in {"detached", "test"}
    <3>1. events[p] \in Lineages /\ EventsSay(p)
      BY <2>1 DEF IInv
    <3>2. events[p] # Silent /\ events[p][Len(events[p])] = "FAIL" <=>
            events[p] \in {Unbuilt, Broken}
      BY <3>1, LineagesDiffer, LastEvents DEF EventsSay, Lineages
    <3>3. QED
      BY <3>1, <3>2 DEF EventsSay
  <2>2. QED
    BY <2>1 DEF LineageMatchesResult, Untold, Lineages, Silent, Unbuilt, Started, Completed, Broken
<1>2. QED
  BY <1>1, IInvHolds, PTL

\* Without a signal, a COMPLETE event means that the run's own container has
\* exited with 0.
THEOREM CompleteMeansSuccessHolds == Spec => []CompleteMeansSuccess
<1>1. IInv => CompleteMeansSuccess
  BY DEF IInv, EventsSay, ClientSays, CompleteMeansSuccess, Completed
<1>2. QED
  BY <1>1, IInvHolds, PTL

\* A run put in the background without an error has had a container.
THEOREM BackgroundRunStartedHolds == Spec => []BackgroundRunStarted
<1>1. IInv => BackgroundRunStarted
  <2>1. ASSUME IInv, NEW p \in Runs,
               kind[p] \in {"detached", "test"}, error[p] = "nil", events[p] # Silent
        PROVE  container[p] # "none"
    <3>1. events[p] \in Lineages /\ EventsSay(p) /\ ClientSays(p)
      BY <2>1 DEF IInv
    <3>2. events[p] = Started
      BY <2>1, <3>1, LineagesDiffer DEF EventsSay, Lineages
    <3>3. QED
      BY <2>1, <3>1, <3>2 DEF EventsSay, ClientSays
  <2>2. QED
    BY <2>1 DEF BackgroundRunStarted, Silent
<1>2. QED
  BY <1>1, IInvHolds, PTL
-----------------------------------------------------------------------------
(* Heartbeat. *)

\* The goroutine of a life that has not begun is not there.
Unborn == \A l \in Lives : l > lives => routine[l] = "none"

\* As long as it was started at most once, one caller at most has stopped it, and the
\* channels tell of that caller and of its goroutine.
OneLife ==
  /\ panicked = FALSE
  /\ running = TRUE => stopCh = FALSE /\ \A c \in HeartbeatCallers : caller[c] = "free"
  /\ \A c, d \in HeartbeatCallers : caller[c] # "free" /\ caller[d] # "free" => c = d
  /\ \A c \in HeartbeatCallers : caller[c] = "closing" => stopCh = FALSE
  /\ stoppedCh = TRUE <=> \E l \in Lives : routine[l] = "ended"
  /\ stopped = TRUE => stoppedCh = TRUE
  /\ lives = 0 => /\ running = FALSE /\ stopCh = FALSE
                  /\ \A c \in HeartbeatCallers : caller[c] = "free"

HeartbeatInv == HeartbeatTypeOK /\ Unborn /\ (lives <= 1 => OneLife)

\* The invariant holds of a new heartbeat.
LEMMA InitHeartbeatInv == NewHeartbeat => HeartbeatInv
<1> SUFFICES ASSUME NewHeartbeat PROVE HeartbeatInv
  OBVIOUS
<1>1. HeartbeatTypeOK
  <2>1. /\ running \in BOOLEAN /\ stopCh \in BOOLEAN /\ stoppedCh \in BOOLEAN
        /\ cancelled \in BOOLEAN /\ stopped \in BOOLEAN /\ panicked \in BOOLEAN
    BY DEF NewHeartbeat
  <2>2. 0 \in 0 .. MaxHeartbeats /\ 0 \in 0 .. MaxRecords
    BY HeartbeatAssumption
  <2>3. QED
    BY <2>1, <2>2 DEF NewHeartbeat, HeartbeatTypeOK
<1>2. Unborn /\ OneLife
  BY DEF NewHeartbeat, Unborn, OneLife
<1>3. QED
  BY <1>1, <1>2 DEF HeartbeatInv

\* Every step of a heartbeat and its callers keeps the invariant.
LEMMA NextHeartbeatInv == HeartbeatInv /\ [HeartbeatNext]_heartbeatVars => HeartbeatInv'
<1> SUFFICES ASSUME HeartbeatInv, [HeartbeatNext]_heartbeatVars PROVE HeartbeatInv'
  OBVIOUS
<1> USE HeartbeatAssumption DEF HeartbeatInv, HeartbeatTypeOK, Unborn, OneLife, Lives
<1>1. ASSUME NEW c \in HeartbeatCallers, Start(c)
      PROVE  HeartbeatInv'
  BY <1>1 DEF Start
<1>2. ASSUME NEW c \in HeartbeatCallers, Stop(c)
      PROVE  HeartbeatInv'
  BY <1>2 DEF Stop
<1>3. ASSUME NEW c \in HeartbeatCallers, CloseStopCh(c)
      PROVE  HeartbeatInv'
  BY <1>3 DEF CloseStopCh
<1>4. ASSUME NEW c \in HeartbeatCallers, StopReturns(c)
      PROVE  HeartbeatInv'
  BY <1>4 DEF StopReturns
<1>5. ASSUME NEW c \in HeartbeatCallers, UpdateRecordsProcessed(c)
      PROVE  HeartbeatInv'
  BY <1>5 DEF UpdateRecordsProcessed
<1>6. ASSUME NEW l \in Lives, ReadRecords(l)
      PROVE  HeartbeatInv'
  BY <1>6 DEF ReadRecords
<1>7. ASSUME NEW l \in Lives, NEW sent \in BOOLEAN, Emit(l, sent)
      PROVE  HeartbeatInv'
  BY <1>7 DEF Emit
<1>8. ASSUME NEW l \in Lives, Tick(l)
      PROVE  HeartbeatInv'
  BY <1>8 DEF Tick
<1>9. ASSUME NEW l \in Lives, Leave(l)
      PROVE  HeartbeatInv'
  BY <1>9 DEF Leave
<1>10. CASE CancelContext
  BY <1>10 DEF CancelContext
<1>11. CASE UNCHANGED heartbeatVars
  BY <1>11 DEF heartbeatVars
<1>12. QED
  BY <1>1, <1>2, <1>3, <1>4, <1>5, <1>6, <1>7, <1>8, <1>9, <1>10, <1>11
  DEF HeartbeatNext, Calls, run

\* The heartbeat's invariant holds in every reachable state.
LEMMA HeartbeatInvHolds == HeartbeatSpec => []HeartbeatInv
<1>1. NewHeartbeat => HeartbeatInv
  BY InitHeartbeatInv
<1>2. HeartbeatInv /\ [HeartbeatNext]_heartbeatVars => HeartbeatInv'
  BY NextHeartbeatInv
<1>3. QED
  BY <1>1, <1>2, PTL DEF HeartbeatSpec

\* Every variable of the heartbeat holds values of its kind.
THEOREM HeartbeatTypeOKHolds == HeartbeatSpec => []HeartbeatTypeOK
<1>1. HeartbeatInv => HeartbeatTypeOK
  BY DEF HeartbeatInv
<1>2. QED
  BY <1>1, HeartbeatInvHolds, PTL

\* A heartbeat that is started once never panics, and is silent when its Stop returns.
THEOREM OneLifeIsSafeHolds == HeartbeatSpec => []OneLifeIsSafe
<1>1. HeartbeatInv => OneLifeIsSafe
  <2> SUFFICES ASSUME HeartbeatInv, lives <= 1
               PROVE  ~panicked /\ (stopped => \A l \in Lives : routine[l] \in {"none", "ended"})
    BY DEF OneLifeIsSafe
  <2>1. OneLife
    BY DEF HeartbeatInv
  <2>2. ~panicked
    BY <2>1 DEF OneLife
  <2>3. ASSUME stopped, NEW l \in Lives
        PROVE  routine[l] \in {"none", "ended"}
    <3>1. PICK k \in Lives : routine[k] = "ended"
      BY <2>1, <2>3 DEF OneLife, HeartbeatInv, HeartbeatTypeOK
    <3>2. k = l \/ l > lives
      BY <3>1, HeartbeatAssumption DEF HeartbeatInv, HeartbeatTypeOK, Unborn, Lives
    <3>3. QED
      BY <3>1, <3>2 DEF HeartbeatInv, Unborn
  <2>4. QED
    BY <2>2, <2>3
<1>2. QED
  BY <1>1, HeartbeatInvHolds, PTL
-----------------------------------------------------------------------------
(* MultiRun: the loop. *)

\* What MultiNext does to the graph's loop.
LEMMA MultiNextIsGraphNext ==
  ASSUME [MultiNext]_<<vars, graphVars>>
  PROVE  [GraphNext]_graphVars
<1> SUFFICES ASSUME ~ UNCHANGED graphVars
             PROVE  GraphNext
  OBVIOUS
<1>1. ~ UNCHANGED <<vars, graphVars>>
  OBVIOUS
<1>2. \/ (Plan \/ StartNext \/ Summary) /\ UNCHANGED vars
      \/ PackageCompletes \/ PackageFails
  BY <1>1 DEF MultiNext, BeginPackage, RunPackage, CrashMulti, Surroundings
<1>3. QED
  BY <1>2 DEF GraphNext, PackageCompletes, PackageFails

\* dk run --scan-dir implements the loop over the graph: whatever the runs of
\* packages do, Docker and the user included, is no step of the loop, or one of it.
THEOREM MultiRunIsGraph == MultiSpec => GraphSpec
<1>1. MultiInit => GraphInit
  BY DEF MultiInit
<1>2. [MultiNext]_<<vars, graphVars>> => [GraphNext]_graphVars
  BY MultiNextIsGraphNext
<1>3. QED
  BY <1>1, <1>2, PTL DEF MultiSpec, GraphSpec

\* The loop's invariant holds in a scan, which implements the loop.
LEMMA MultiGraphInvHolds == MultiSpec => []GraphInv
BY MultiRunIsGraph, GraphInvIsInductive, PTL DEF GraphSpec

\* The package at which the loop is has a run.
LEMMA CurrentIsRun ==
  ASSUME GraphInv, graphPc = "running"
  PROVE  Current \in Runs /\ Current \in Packages
<1>1. started \in Seq(Packages) /\ started # <<>>
  BY DEF GraphInv, GraphTypeOK, WhatRan
<1>2. Len(started) \in 1 .. Len(started)
  BY <1>1, EmptySeq
<1>3. started[Len(started)] \in Packages
  BY <1>1, <1>2, ElementOfSeq
<1>4. QED
  BY <1>3, MultiRunAssumption DEF Current, Last

\* What MultiNext does to the runs.
LEMMA MultiNextIsNext ==
  ASSUME GraphInv, [MultiNext]_<<vars, graphVars>>
  PROVE  [Next]_vars
<1>1. CASE UNCHANGED vars
  BY <1>1
<1>2. CASE ~ UNCHANGED vars
  <2>1. \/ \E k \in Kinds, i \in Ids : BeginPackage(k, i)
        \/ RunPackage \/ CrashMulti \/ Surroundings
    BY <1>2 DEF MultiNext, PackageCompletes, PackageFails
  <2>2. ASSUME NEW k \in Kinds, NEW i \in Ids, BeginPackage(k, i) PROVE Next
    BY <2>2, CurrentIsRun DEF BeginPackage, Next
  <2>3. CASE RunPackage
    BY <2>3, CurrentIsRun DEF RunPackage, Next
  <2>4. CASE CrashMulti
    BY <2>4, CurrentIsRun DEF CrashMulti, Next
  <2>5. CASE Surroundings
    BY <2>5 DEF Surroundings, Next
  <2>6. QED
    BY <2>1, <2>2, <2>3, <2>4, <2>5
<1>3. QED
  BY <1>1, <1>2

\* It also implements PipelineRun: every step of the loop's packages is one that a
\* run of a package takes when dk run runs it alone.
THEOREM MultiRunIsRun == MultiSpec => Spec
<1>1. MultiInit => Init
  BY DEF MultiInit
<1>2. GraphInv /\ [MultiNext]_<<vars, graphVars>> => [Next]_vars
  BY MultiNextIsNext
<1>3. QED
  BY <1>1, <1>2, MultiGraphInvHolds, PTL DEF MultiSpec, Spec

-----------------------------------------------------------------------------
(* MultiRun: what packages are run on. *)

MultiInv ==
  /\ SameOptions
  /\ \A p \in Runs : kind[p] \in {"batch", "attached"}
  /\ \A p \in Packages : outcome[p] = "completed" => pc[p] = "returned" /\ error[p] = "nil"

\* A step of a run's process is none of any other run, and of no run that has returned.
LEMMA ProcessIsOfOne ==
  ASSUME TypeOK, NEW p \in Runs, Process(p)
  PROVE  /\ pc[p] # "returned" /\ kind' = kind
         /\ \A q \in Runs \ {p} : pc'[q] = pc[q] /\ error'[q] = error[q]
<1> USE DEF TypeOK, Goto, Return
<1>1. CASE BuildFails(p)
  BY <1>1 DEF BuildFails
<1>2. CASE DryRun(p)
  BY <1>2 DEF DryRun
<1>3. CASE EmitStart(p)
  BY <1>3 DEF EmitStart
<1>4. CASE StartClient(p)
  BY <1>4 DEF StartClient
<1>5. CASE StartFails(p)
  BY <1>5 DEF StartFails
<1>6. CASE Timeout(p)
  BY <1>6 DEF Timeout
<1>7. CASE ClientReturns(p)
  BY <1>7 DEF ClientReturns
<1>8. CASE BeginDrain(p)
  BY <1>8 DEF BeginDrain
<1>9. CASE EndDrain(p)
  BY <1>9 DEF EndDrain
<1>10. CASE DetachedReturns(p)
  BY <1>10 DEF DetachedReturns
<1>11. CASE EndTest(p)
  BY <1>11 DEF EndTest
<1>12. QED
  BY <1>1, <1>2, <1>3, <1>4, <1>5, <1>6, <1>7, <1>8, <1>9, <1>10, <1>11 DEF Process

\* Every step of a scan keeps what ties the loop to its runs.
LEMMA NextMultiInv ==
  ASSUME GraphInv, TypeOK, MultiInv, [MultiNext]_<<vars, graphVars>>
  PROVE  MultiInv'
<1> USE DEF MultiInv
<1>1. outcome \in [Packages -> {"none", "completed", "error"}] /\ Packages \subseteq Runs
  BY MultiRunAssumption DEF GraphInv, GraphTypeOK
<1>2. ASSUME UNCHANGED <<pc, kind, error, events, outcome>> PROVE MultiInv'
  BY <1>2 DEF SameOptions, DryRan
<1>3. CASE (Plan \/ StartNext \/ Summary) /\ UNCHANGED vars
  BY <1>2, <1>3 DEF Plan, StartNext, Summary, vars
<1>4. ASSUME NEW k \in Kinds, NEW i \in Ids, BeginPackage(k, i) PROVE MultiInv'
  <2> DEFINE c == Current
  <2>1. c \in Runs /\ k \in {"batch", "attached"} /\ UNCHANGED outcome /\ Begin(c, k, i)
    BY <1>4, CurrentIsRun DEF BeginPackage, graphVars
  <2> HIDE DEF c
  <2>2. /\ pc[c] = "idle" /\ pc' = [pc EXCEPT ![c] = "building"]
        /\ kind' = [kind EXCEPT ![c] = k] /\ UNCHANGED <<error, events>>
    BY <2>1 DEF Begin, Goto
  <2>3. \A p \in Runs : DryRan(p)' => DryRan(p)
    BY <2>1, <2>2 DEF DryRan, TypeOK
  <2>4. SameOptions'
    BY <2>2, <2>3 DEF SameOptions
  <2>5. \A p \in Runs : kind'[p] \in {"batch", "attached"}
    BY <2>1, <2>2 DEF TypeOK
  <2>6. \A p \in Packages : outcome'[p] = "completed" => pc'[p] = "returned" /\ error'[p] = "nil"
    BY <1>1, <2>1, <2>2 DEF TypeOK
  <2>7. QED
    BY <2>4, <2>5, <2>6
<1>5. CASE RunPackage
  <2>1. Current \in Runs /\ Process(Current) /\ SameOptions' /\ UNCHANGED outcome
    BY <1>5, CurrentIsRun DEF RunPackage, graphVars
  <2>2. /\ pc[Current] # "returned" /\ kind' = kind
        /\ \A q \in Runs \ {Current} : pc'[q] = pc[q] /\ error'[q] = error[q]
    BY <2>1, ProcessIsOfOne
  <2>3. QED
    BY <1>1, <2>1, <2>2
<1>6. CASE PackageCompletes
  <2> DEFINE c == Current
  <2>1. /\ c \in Packages /\ pc[c] = "returned" /\ error[c] = "nil" /\ UNCHANGED vars
        /\ outcome' = [outcome EXCEPT ![c] = "completed"]
    BY <1>6, CurrentIsRun DEF PackageCompletes, Completes, Ends, Current
  <2> HIDE DEF c
  <2>2. UNCHANGED <<pc, kind, error, events>>
    BY <2>1 DEF vars
  <2>3. SameOptions'
    BY <2>2 DEF SameOptions, DryRan
  <2>4. \A p \in Packages : outcome'[p] = "completed" => pc[p] = "returned" /\ error[p] = "nil"
    BY <1>1, <2>1
  <2>5. QED
    BY <2>2, <2>3, <2>4
<1>7. CASE PackageFails
  <2> DEFINE c == Current
  <2>1. /\ c \in Packages /\ UNCHANGED vars
        /\ outcome' = [outcome EXCEPT ![c] = "error"]
    BY <1>7, CurrentIsRun DEF PackageFails, Fails, Ends, Current
  <2> HIDE DEF c
  <2>2. UNCHANGED <<pc, kind, error, events>>
    BY <2>1 DEF vars
  <2>3. SameOptions'
    BY <2>2 DEF SameOptions, DryRan
  <2>4. \A p \in Packages : outcome'[p] = "completed" => pc[p] = "returned" /\ error[p] = "nil"
    BY <1>1, <2>1
  <2>5. QED
    BY <2>2, <2>3, <2>4
<1>8. CASE CrashMulti
  <2> DEFINE c == Current
  <2>1. c \in Runs /\ Crash(c) /\ UNCHANGED outcome
    BY <1>8, CurrentIsRun DEF CrashMulti, graphVars
  <2> HIDE DEF c
  <2>2. /\ pc[c] # "returned" /\ pc' = [pc EXCEPT ![c] = "dead"]
        /\ UNCHANGED <<kind, error, events>>
    BY <2>1 DEF Crash
  <2>3. \A p \in Runs : DryRan(p)' => DryRan(p)
    BY <2>1, <2>2 DEF DryRan, TypeOK
  <2>4. SameOptions'
    BY <2>2, <2>3 DEF SameOptions
  <2>5. \A p \in Packages : outcome'[p] = "completed" => pc'[p] = "returned" /\ error'[p] = "nil"
    BY <1>1, <2>1, <2>2 DEF TypeOK
  <2>6. QED
    BY <2>2, <2>4, <2>5
<1>9. CASE Surroundings
  BY <1>2, <1>9
  DEF Surroundings, Docker, CreateContainer, CreateFails, ClientExits, ContainerExits, Signal,
      graphVars
<1>10. CASE UNCHANGED <<vars, graphVars>>
  BY <1>2, <1>10 DEF vars, graphVars
<1>11. QED
  BY <1>3, <1>4, <1>5, <1>6, <1>7, <1>8, <1>9, <1>10 DEF MultiNext

\* The three invariants of a scan hold in every reachable state.
LEMMA MultiInvHolds == MultiSpec => [](GraphInv /\ IInv /\ MultiInv)
<1>1. MultiInit => MultiInv
  <2> SUFFICES ASSUME MultiInit PROVE MultiInv
    OBVIOUS
  <2>1. \A p \in Runs : pc[p] = "idle" /\ kind[p] = "batch"
    BY DEF MultiInit, Init
  <2>2. \A p \in Packages : outcome[p] = "none"
    BY DEF MultiInit, GraphInit
  <2>3. QED
    BY <2>1, <2>2 DEF MultiInv, SameOptions, DryRan
<1>2. GraphInv /\ IInv /\ MultiInv /\ [MultiNext]_<<vars, graphVars>> => MultiInv'
  BY NextMultiInv DEF IInv
<1>3. MultiSpec => []IInv
  BY MultiRunIsRun, IInvHolds, PTL
<1>4. QED
  BY <1>1, <1>2, <1>3, MultiGraphInvHolds, PTL DEF MultiSpec

\* A package that is really run comes with START in its lineage.
LEMMA StartIsIn ==
  ASSUME NEW e \in {Started, Completed, Broken}
  PROVE  "START" \in Range(e) /\ e # <<>>
<1>1. 1 \in DOMAIN e /\ e[1] = "START"
  BY DEF Started, Completed, Broken
<1>2. "START" \in Range(e)
  BY <1>1 DEF Range
<1>3. QED
  BY LineagesDiffer, <1>2 DEF Silent

\* A package that has completed, of which another one is really run, has done its
\* work: its own container has exited with 0, unless the user has ended it.
LEMMA CompletedHasRun ==
  ASSUME IInv, MultiInv, NEW q \in Packages, outcome[q] = "completed",
         NEW p \in Runs, container[p] # "none"
  PROVE  container[q] = "ok" \/ q \in signalled
<1>1. /\ q \in Runs /\ pc[q] = "returned" /\ error[q] = "nil"
      /\ kind[q] \in {"batch", "attached"}
  BY MultiRunAssumption DEF MultiInv
<1>2. "START" \in Range(events[p])
  <2>1. client[p] # "none" /\ ClientSays(p)
    BY DEF IInv, TypeOK
  <2>2. QED
    BY <2>1, StartIsIn DEF ClientSays
<1>3. events[q] # Silent
  BY <1>1, <1>2 DEF MultiInv, SameOptions, DryRan, Silent
<1>4. events[q] \in Lineages /\ EventsSay(q) /\ ClientSays(q)
  BY <1>1 DEF IInv
<1>5. events[q] = Completed
  BY <1>1, <1>3, <1>4 DEF Lineages, EventsSay
<1>6. QED
  BY <1>1, <1>4, <1>5 DEF EventsSay, ClientSays

\* In a scan of any number of packages, run with any interleaving of the dk process,
\* Docker, the containers and the user, a package gets a container only when who
\* alone produces its input has exited with 0 or was ended by the user.
THEOREM InputsAreProducedHolds == MultiSpec => []InputsAreProduced
<1>1. ASSUME GraphInv, IInv, MultiInv PROVE InputsAreProduced
  <2>1. started \in Seq(Packages)
    BY <1>1 DEF GraphInv, GraphTypeOK
  <2>2. SUFFICES ASSUME NEW p \in Range(started), container[p] # "none",
                        NEW d \in interface[p].inputs, NEW w \in Packages,
                        {q \in Packages : d \in interface[q].outputs} = {w},
                        names[w] # names[p]
                 PROVE  \E q \in Packages : /\ names[q] = names[w]
                                            /\ container[q] = "ok" \/ q \in signalled
    BY DEF InputsAreProduced
  <2>3. PICK i \in DOMAIN started : started[i] = p
    BY DEF Range
  <2>4. DOMAIN started = 1 .. Len(started) /\ Len(started) \in Nat /\ p \in Packages
    BY <2>1, <2>3, LenProperties, ElementOfSeq
  <2>5. PICK j \in 1 .. (i - 1) : names[started[j]] = names[w]
    BY <1>1, <2>2, <2>3, ProducersComeFirst
  <2>6. j \in 1 .. Len(started) /\ j < Len(started)
    BY <2>4
  <2>7. outcome[started[j]] = "completed" /\ started[j] \in Packages
    BY <1>1, <2>1, <2>6, ElementOfSeq DEF GraphInv, WhatRan
  <2>8. container[started[j]] = "ok" \/ started[j] \in signalled
    BY <1>1, <2>2, <2>4, <2>7, CompletedHasRun, MultiRunAssumption
  <2>9. QED
    BY <2>5, <2>7, <2>8
<1>2. QED
  BY <1>1, MultiInvHolds, PTL
-----------------------------------------------------------------------------
(* CloudQuery, for any transforms, runs and IDs. *)

CqPoints == {"verify", "configmap", "apply", "logs", "status", "delete job", "delete config",
             "profiles", "dbt", "returned", "error", "dead"}
CqStatuses == {"running", "dry run", "completed", "failed"}

\* Runs that have not begun, and those that have.
Fresh == [pc |-> "begin", status |-> "none", faulty |-> FALSE]
Begun == [pc : CqPoints, status : CqStatuses, faulty : BOOLEAN, id : SyncIds,
          transform : Transforms]
SyncJobs == [of : Syncs, state : {"active", "succeeded", "failed"}]

SyncOK == sync \in [Syncs -> {Fresh} \cup Begun]

CqTypeOK ==
  /\ SyncOK
  /\ configMaps \in [SyncIds -> Syncs \cup {"none"}]
  /\ jobs \in [SyncIds -> {NoJob} \cup SyncJobs]
  /\ synced \subseteq Syncs

Holding == {"apply", "logs", "status", "delete job", "delete config"}
Running == {"logs", "status", "delete job"}

\* A run from the creation of its ConfigMap to the end of its cleanup has the ConfigMap
\* of its ID, so that no other run is there with the same ID.
HoldsConfig(p) ==
  sync[p].pc \in Holding => configMaps[sync[p].id] = p

\* A ConfigMap is that of such a run, of one that was interrupted, or of one that had a
\* call fail after all.
ConfigIsHeld(i) ==
  configMaps[i] # "none" =>
    LET p == configMaps[i]
    IN /\ sync[p] \in Begun /\ sync[p].id = i
       /\ sync[p].pc \in Holding \cup {"dead"} \/ sync[p].faulty = TRUE

\* So is a Job, whose ConfigMap is there before and after.
JobIsHeld(i) ==
  jobs[i] # NoJob =>
    LET p == jobs[i].of
    IN /\ sync[p] \in Begun /\ sync[p].id = i /\ ValidJob(sync[p].transform)
       /\ \/ configMaps[i] = p /\ sync[p].pc \in Running \cup {"dead"}
          \/ sync[p].faulty = TRUE
       /\ jobs[i].state = "succeeded" => p \in synced

Held ==
  /\ \A p \in Syncs : HoldsConfig(p)
  /\ \A i \in SyncIds : ConfigIsHeld(i) /\ JobIsHeld(i)

-----------------------------------------------------------------------------
\* The invariant holds of an empty cluster.
LEMMA InitCq == CqInit => CqTypeOK /\ Held
<1> SUFFICES ASSUME CqInit PROVE CqTypeOK /\ Held
  OBVIOUS
<1>1. CqTypeOK
  BY DEF CqInit, CqTypeOK, SyncOK, Fresh
<1>2. Held
  <2>1. \A p \in Syncs : HoldsConfig(p)
    BY DEF CqInit, HoldsConfig, Holding
  <2>2. \A i \in SyncIds : ConfigIsHeld(i) /\ JobIsHeld(i)
    BY DEF CqInit, ConfigIsHeld, JobIsHeld
  <2>3. QED
    BY <2>1, <2>2 DEF Held
<1>3. QED
  BY <1>1, <1>2

\* What a run that has begun keeps when it moves on.
LEMMA Begins ==
  ASSUME CqTypeOK, NEW p \in Syncs, sync[p].pc # "begin"
  PROVE  sync[p] \in Begun
  BY DEF CqTypeOK, SyncOK, Fresh

\* A run that answers for objects in the cluster has an ID.
LEMMA HoldersHaveIds ==
  ASSUME CqTypeOK, NEW p \in Syncs, sync[p].pc \in Holding
  PROVE  sync[p].id \in SyncIds
  BY Begins DEF Holding, Begun

Moves(p, to) ==
  /\ SyncOK'
  /\ sync[p] \in Begun /\ sync'[p] \in Begun
  /\ sync'[p].pc = to /\ sync'[p].id = sync[p].id
  /\ sync'[p].transform = sync[p].transform
  /\ \A q \in Syncs \ {p} : sync'[q] = sync[q]

\* A kubectl call that succeeds moves its own run only.
LEMMA StepMoves ==
  ASSUME CqTypeOK, NEW p \in Syncs, NEW from, NEW to \in CqPoints,
         Step(p, from, to), from # "begin"
  PROVE  /\ Moves(p, to) /\ sync[p].pc = from
         /\ sync'[p].faulty = sync[p].faulty /\ sync'[p].status = sync[p].status
<1>1. sync[p] \in Begun /\ sync[p].pc = from
  BY Begins DEF Step
<1>2. [sync[p] EXCEPT !.pc = to] \in Begun
  BY <1>1 DEF Begun
<1>3. QED
  BY <1>1, <1>2 DEF Step, Moves, CqTypeOK, SyncOK, Begun

\* A kubectl call that fails moves its own run only, and is remembered.
LEMMA StepFaultyMoves ==
  ASSUME CqTypeOK, NEW p \in Syncs, NEW from, NEW to \in CqPoints,
         StepFaulty(p, from, to), from # "begin"
  PROVE  /\ Moves(p, to) /\ sync[p].pc = from
         /\ sync'[p].faulty = TRUE /\ sync'[p].status = sync[p].status
<1>1. sync[p] \in Begun /\ sync[p].pc = from
  BY Begins DEF StepFaulty
<1>2. [sync[p] EXCEPT !.pc = to, !.faulty = TRUE] \in Begun
  BY <1>1 DEF Begun
<1>3. QED
  BY <1>1, <1>2 DEF StepFaulty, Moves, CqTypeOK, SyncOK, Begun

\* A run that ends moves itself only.
LEMMA EndMoves ==
  ASSUME CqTypeOK, NEW p \in Syncs, NEW to \in CqPoints, NEW end \in CqStatuses,
         sync[p].pc # "begin", sync' = [sync EXCEPT ![p].pc = to, ![p].status = end]
  PROVE  Moves(p, to) /\ sync'[p].faulty = sync[p].faulty /\ sync'[p].status = end
<1>1. sync[p] \in Begun
  BY Begins
<1>2. [sync[p] EXCEPT !.pc = to, !.status = end] \in Begun
  BY <1>1 DEF Begun
<1>3. QED
  BY <1>1, <1>2 DEF Moves, CqTypeOK, SyncOK, Begun

\* A run that moves on, and leaves the cluster alone, goes on to hold what it held.
LEMMA QuietHeld ==
  ASSUME CqTypeOK, Held, NEW p \in Syncs, NEW to, Moves(p, to),
         UNCHANGED <<configMaps, jobs>>, synced \subseteq synced',
         sync[p].faulty = TRUE => sync'[p].faulty = TRUE,
         to \in Holding => sync[p].pc \in Holding,
         sync[p].pc \in Holding \cup {"dead"} => to \in Holding \cup {"dead"},
         sync[p].pc \in Running \cup {"dead"} => to \in Running \cup {"dead"}
  PROVE  Held'
<1>1. \A q \in Syncs : HoldsConfig(q)'
  BY DEF Held, HoldsConfig, Moves
<1>2. ASSUME NEW i \in SyncIds PROVE ConfigIsHeld(i)'
  BY DEF Held, ConfigIsHeld, Moves, CqTypeOK
<1>3. ASSUME NEW i \in SyncIds PROVE JobIsHeld(i)'
  BY DEF Held, JobIsHeld, Moves, CqTypeOK, SyncJobs
<1>4. QED
  BY <1>1, <1>2, <1>3 DEF Held

\* A Job, or a ConfigMap, of another run than the one that moves on.
LEMMA OthersJob ==
  ASSUME NEW i \in SyncIds, JobIsHeld(i), jobs'[i] = jobs[i], configMaps'[i] = configMaps[i],
         synced \subseteq synced', jobs[i] # NoJob => sync'[jobs[i].of] = sync[jobs[i].of]
  PROVE  JobIsHeld(i)'
BY DEF JobIsHeld

\* Who answers for a ConfigMap does so still when neither has changed.
LEMMA OthersConfig ==
  ASSUME NEW i \in SyncIds, ConfigIsHeld(i), configMaps'[i] = configMaps[i],
         configMaps[i] # "none" => sync'[configMaps[i]] = sync[configMaps[i]]
  PROVE  ConfigIsHeld(i)'
BY DEF ConfigIsHeld

\* Every step of CloudQuery runs keeps types and answers.
LEMMA NextHeld == CqTypeOK /\ Held /\ [CqNext]_cqVars => (CqTypeOK /\ Held)'
<1> SUFFICES ASSUME CqTypeOK, Held, [CqNext]_cqVars PROVE (CqTypeOK /\ Held)'
  OBVIOUS
<1>n. "none" \notin Syncs
  BY CloudQueryAssumption
<1>q. ASSUME NEW p \in Syncs, NEW to, Moves(p, to), Held',
             UNCHANGED <<configMaps, jobs>>, synced' \subseteq Syncs
      PROVE  (CqTypeOK /\ Held)'
  BY <1>q DEF Moves, CqTypeOK
<1>1. ASSUME NEW p \in Syncs, NEW i \in SyncIds, NEW t \in Transforms,
             NEW first \in {"verify", "profiles"}, Register(p, i, t, first)
      PROVE  (CqTypeOK /\ Held)'
  <2>1. /\ SyncOK' /\ sync[p] \notin Begun
        /\ sync'[p].pc = first /\ \A q \in Syncs \ {p} : sync'[q] = sync[q]
    BY <1>1 DEF Register, CqTypeOK, SyncOK, Begun, CqStatuses, CqPoints
  <2>2. UNCHANGED <<configMaps, jobs, synced>>
    BY <1>1 DEF Register
  <2>3. \A q \in Syncs : HoldsConfig(q)'
    BY <2>1, <2>2 DEF Held, HoldsConfig, Holding
  <2>4. ASSUME NEW j \in SyncIds PROVE ConfigIsHeld(j)'
    BY <2>1, <2>2 DEF Held, ConfigIsHeld, CqTypeOK
  <2>5. ASSUME NEW j \in SyncIds PROVE JobIsHeld(j)'
    BY <2>1, <2>2 DEF Held, JobIsHeld, CqTypeOK, SyncJobs
  <2>6. QED
    BY <2>1, <2>2, <2>3, <2>4, <2>5 DEF Held, CqTypeOK
<1>2. ASSUME NEW p \in Syncs, DryRunSync(p)
      PROVE  (CqTypeOK /\ Held)'
  <2>1. Moves(p, "returned") /\ sync'[p].faulty = sync[p].faulty
    BY <1>2, EndMoves DEF DryRunSync, CqStatuses, CqPoints
  <2>2. QED
    BY <1>2, <1>q, <2>1, QuietHeld DEF DryRunSync, CqTypeOK, Holding, Running
<1>3. ASSUME NEW p \in Syncs, VerifyCluster(p)
      PROVE  (CqTypeOK /\ Held)'
  <2>1. PICK to \in {"configmap", "error"} :
          /\ Moves(p, to) /\ sync[p].pc = "verify"
          /\ sync[p].faulty = TRUE => sync'[p].faulty = TRUE
    BY <1>3, StepMoves, StepFaultyMoves DEF VerifyCluster, CqPoints
  <2>2. QED
    BY <1>3, <1>q, <2>1, QuietHeld DEF VerifyCluster, CqTypeOK, Holding, Running
<1>4. ASSUME NEW p \in Syncs, CreateConfigMap(p)
      PROVE  (CqTypeOK /\ Held)'
  <2>1. PICK to \in {"apply", "error"} :
          /\ Moves(p, to) /\ sync[p].pc = "configmap"
          /\ sync[p].faulty = TRUE => sync'[p].faulty = TRUE
          /\ \/ to = "error" /\ UNCHANGED configMaps
             \/ /\ configMaps[sync[p].id] = "none"
                /\ configMaps' = [configMaps EXCEPT ![sync[p].id] = p]
                /\ to = "error" => sync'[p].faulty = TRUE
    BY <1>4, StepMoves, StepFaultyMoves DEF CreateConfigMap, CqPoints
  <2>2. jobs' = jobs /\ synced' = synced
    BY <1>4 DEF CreateConfigMap
  <2>3. CASE UNCHANGED configMaps /\ to = "error"
    BY <1>q, <2>1, <2>2, <2>3, QuietHeld DEF CqTypeOK, Holding, Running
  <2>4. CASE /\ configMaps[sync[p].id] = "none"
             /\ configMaps' = [configMaps EXCEPT ![sync[p].id] = p]
             /\ to = "error" => sync'[p].faulty = TRUE
    <3>1. Moves(p, to) /\ sync[p].id \in SyncIds
      BY <2>1 DEF Moves, Begun
    <3>2. /\ configMaps[sync[p].id] = "none" /\ configMaps'[sync[p].id] = p
          /\ \A i \in SyncIds \ {sync[p].id} : configMaps'[i] = configMaps[i]
          /\ configMaps' \in [SyncIds -> Syncs \cup {"none"}]
      BY <2>4, <3>1 DEF CqTypeOK
    <3>3. /\ sync[p].pc \notin Running \cup {"dead"}
          /\ to \in Holding \cup {"dead"} \/ sync'[p].faulty = TRUE
          /\ sync[p].faulty = TRUE => sync'[p].faulty = TRUE
      BY <2>1, <2>4 DEF Holding, Running
    <3>4. ASSUME NEW q \in Syncs PROVE HoldsConfig(q)'
      <4>1. CASE q = p
        BY <3>1, <3>2, <4>1 DEF HoldsConfig, Moves
      <4>2. CASE q # p
        BY <1>n, <3>1, <3>2, <4>2, HoldersHaveIds DEF Held, HoldsConfig, Moves
      <4>3. QED
        BY <4>1, <4>2
    <3>5. ASSUME NEW i \in SyncIds PROVE ConfigIsHeld(i)'
      <4>1. CASE i = sync[p].id
        BY <3>1, <3>2, <3>3, <4>1 DEF ConfigIsHeld, Moves
      <4>2. CASE i # sync[p].id
        BY <3>1, <3>2, <4>2 DEF Held, ConfigIsHeld, Moves, CqTypeOK
      <4>3. QED
        BY <4>1, <4>2
    <3>6. ASSUME NEW i \in SyncIds PROVE JobIsHeld(i)'
      <4>1. CASE jobs[i] = NoJob
        BY <2>2, <4>1 DEF JobIsHeld
      <4>2. CASE jobs[i] # NoJob /\ jobs[i].of = p
        BY <2>2, <3>1, <3>3, <4>2 DEF Held, JobIsHeld, Moves
      <4>3. CASE jobs[i] # NoJob /\ jobs[i].of # p
        <5>1. jobs[i].of \in Syncs \ {p}
          BY <4>3 DEF CqTypeOK, SyncJobs
        <5>2. i # sync[p].id \/ configMaps[i] # jobs[i].of
          BY <1>n, <3>2, <5>1
        <5>3. QED
          BY <2>2, <3>1, <3>2, <4>3, <5>1, <5>2 DEF Held, JobIsHeld, Moves
      <4>4. QED
        BY <4>1, <4>2, <4>3
    <3>7. QED
      BY <2>2, <3>1, <3>2, <3>4, <3>5, <3>6 DEF Held, Moves, CqTypeOK
  <2>5. QED
    BY <2>1, <2>3, <2>4
<1>5. ASSUME NEW p \in Syncs, ApplyJob(p)
      PROVE  (CqTypeOK /\ Held)'
  <2>1. PICK to \in {"logs", "delete job"} :
          /\ Moves(p, to) /\ sync[p].pc = "apply"
          /\ sync[p].faulty = TRUE => sync'[p].faulty = TRUE
    BY <1>5, StepMoves, StepFaultyMoves DEF ApplyJob, CqPoints
  <2>2. configMaps' = configMaps /\ synced' = synced
    BY <1>5 DEF ApplyJob
  <2>3. CASE UNCHANGED jobs
    BY <1>q, <2>1, <2>2, <2>3, QuietHeld DEF CqTypeOK, Holding, Running
  <2>4. CASE /\ ValidJob(sync[p].transform)
             /\ jobs' = [jobs EXCEPT ![sync[p].id] = [of |-> p, state |-> "active"]]
    <3>1. Moves(p, to) /\ sync[p].id \in SyncIds
      BY <2>1 DEF Moves, Begun
    <3>2. /\ sync[p].pc \in Holding /\ to \in Holding /\ to \in Running
          /\ sync[p].pc \notin Running \cup {"dead"}
          /\ sync[p].faulty = TRUE => sync'[p].faulty = TRUE
      BY <2>1 DEF Holding, Running
    <3>3. configMaps[sync[p].id] = p
      BY <3>2 DEF Held, HoldsConfig
    <3>4. /\ jobs'[sync[p].id] = [of |-> p, state |-> "active"]
          /\ \A i \in SyncIds \ {sync[p].id} : jobs'[i] = jobs[i]
          /\ jobs' \in [SyncIds -> {NoJob} \cup SyncJobs]
      BY <2>4, <3>1 DEF CqTypeOK, SyncJobs
    <3>5. ASSUME NEW q \in Syncs PROVE HoldsConfig(q)'
      BY <2>2, <3>1, <3>2 DEF Held, HoldsConfig, Moves
    <3>6. ASSUME NEW i \in SyncIds PROVE ConfigIsHeld(i)'
      <4> DEFINE q == configMaps[i]
      <4>1. configMaps'[i] = q /\ ConfigIsHeld(i)
        BY <2>2 DEF Held
      <4>2. CASE q = "none"
        BY <4>1, <4>2 DEF ConfigIsHeld
      <4>3. CASE q = p
        <5>1. sync'[p] \in Begun /\ sync'[p].id = sync[p].id /\ sync'[p].pc \in Holding
          BY <3>1, <3>2 DEF Moves
        <5>2. sync[p].id = i /\ q # "none" => sync'[p].id = i
          BY <5>1
        <5>3. q # "none" => sync[p].id = i
          BY <4>1, <4>3 DEF ConfigIsHeld
        <5>4. QED
          BY <4>1, <4>3, <5>1, <5>2, <5>3 DEF ConfigIsHeld
      <4>4. CASE q # "none" /\ q # p
        <5>1. q \in Syncs \ {p}
          BY <4>4 DEF CqTypeOK
        <5>2. sync'[q] = sync[q]
          BY <3>1, <5>1 DEF Moves
        <5>3. QED
          BY <4>1, <4>4, <5>2 DEF ConfigIsHeld
      <4>5. QED
        BY <4>2, <4>3, <4>4
    <3>7. ASSUME NEW i \in SyncIds PROVE JobIsHeld(i)'
      <4>1. CASE i = sync[p].id
        BY <2>2, <2>4, <3>1, <3>2, <3>3, <3>4, <4>1 DEF JobIsHeld, Moves
      <4>2. CASE i # sync[p].id /\ jobs[i] # NoJob
        <5>1. jobs'[i] = jobs[i] /\ jobs[i].of \in Syncs
          BY <3>4, <4>2 DEF CqTypeOK, SyncJobs
        <5>2. jobs[i].of # p
          BY <4>2 DEF Held, JobIsHeld
        <5>3. sync'[jobs[i].of] = sync[jobs[i].of]
          BY <3>1, <5>1, <5>2 DEF Moves
        <5>4. QED
          BY <2>2, <5>1, <5>3, OthersJob DEF Held
      <4>3. CASE i # sync[p].id /\ jobs[i] = NoJob
        BY <3>4, <4>3 DEF JobIsHeld
      <4>4. QED
        BY <4>1, <4>2, <4>3
    <3>8. QED
      BY <2>2, <3>1, <3>4, <3>5, <3>6, <3>7 DEF Held, Moves, CqTypeOK
  <2>5. QED
    BY <1>5, <2>3, <2>4 DEF ApplyJob
<1>6. ASSUME NEW p \in Syncs, FollowLogs(p)
      PROVE  (CqTypeOK /\ Held)'
  <2>1. Moves(p, "status") /\ sync[p].pc = "logs" /\ sync'[p].faulty = sync[p].faulty
    BY <1>6, StepMoves DEF FollowLogs, CqPoints
  <2>2. QED
    BY <1>6, <1>q, <2>1, QuietHeld DEF FollowLogs, CqTypeOK, Holding, Running
<1>7. ASSUME NEW p \in Syncs, JobSucceeded(p)
      PROVE  (CqTypeOK /\ Held)'
  <2>1. Moves(p, "delete job") /\ sync[p].pc = "status" /\ sync'[p].faulty = sync[p].faulty
    BY <1>7, EndMoves DEF JobSucceeded, CqStatuses, CqPoints
  <2>2. QED
    BY <1>7, <1>q, <2>1, QuietHeld DEF JobSucceeded, CqTypeOK, Holding, Running
<1>8. ASSUME NEW p \in Syncs, DeleteJob(p)
      PROVE  (CqTypeOK /\ Held)'
  <2>1. /\ Moves(p, "delete config") /\ sync[p].pc = "delete job"
        /\ sync[p].faulty = TRUE => sync'[p].faulty = TRUE
        /\ \/ jobs' = [jobs EXCEPT ![sync[p].id] = NoJob]
           \/ UNCHANGED jobs /\ sync'[p].faulty = TRUE
    BY <1>8, StepMoves, StepFaultyMoves DEF DeleteJob, CqPoints
  <2>2. configMaps' = configMaps /\ synced' = synced
    BY <1>8 DEF DeleteJob
  <2>3. Moves(p, "delete config") /\ sync[p].id \in SyncIds
    BY <2>1 DEF Moves, Begun
  <2>4. /\ sync[p].pc \in Holding /\ "delete config" \in Holding
        /\ sync[p].faulty = TRUE => sync'[p].faulty = TRUE
    BY <2>1 DEF Holding
  <2>5. /\ jobs'[sync[p].id] = NoJob \/ sync'[p].faulty = TRUE
        /\ \A i \in SyncIds : jobs'[i] \in {jobs[i], NoJob}
        /\ jobs' \in [SyncIds -> {NoJob} \cup SyncJobs]
    BY <2>1, <2>3 DEF CqTypeOK
  <2>6. ASSUME NEW q \in Syncs PROVE HoldsConfig(q)'
    BY <2>2, <2>3, <2>4 DEF Held, HoldsConfig, Moves
  <2>7. ASSUME NEW i \in SyncIds PROVE ConfigIsHeld(i)'
    <3>1. CASE configMaps[i] = p
      BY <1>n, <2>2, <2>3, <2>4, <3>1 DEF Held, ConfigIsHeld, Moves
    <3>2. CASE configMaps[i] # p
      <4>1. configMaps[i] # "none" => sync'[configMaps[i]] = sync[configMaps[i]]
        BY <2>3, <3>2 DEF Moves, CqTypeOK
      <4>2. QED
        BY <2>2, <4>1, OthersConfig DEF Held
    <3>3. QED
      BY <3>1, <3>2
  <2>8. ASSUME NEW i \in SyncIds PROVE JobIsHeld(i)'
    <3>1. CASE jobs'[i] = NoJob
      BY <3>1 DEF JobIsHeld
    <3>2. CASE jobs'[i] # NoJob
      <4>1. jobs'[i] = jobs[i] /\ jobs[i].of \in Syncs
        BY <2>5, <3>2 DEF CqTypeOK, SyncJobs
      <4>2. jobs[i].of = p => sync'[p].faulty = TRUE
        BY <2>5, <3>2, <4>1 DEF Held, JobIsHeld
      <4>3. CASE jobs[i].of = p
        BY <2>2, <2>3, <3>2, <4>1, <4>2, <4>3 DEF Held, JobIsHeld, Moves
      <4>4. CASE jobs[i].of # p
        <5>1. sync'[jobs[i].of] = sync[jobs[i].of]
          BY <2>3, <4>1, <4>4 DEF Moves
        <5>2. QED
          BY <2>2, <4>1, <5>1, OthersJob DEF Held
      <4>5. QED
        BY <4>3, <4>4
    <3>3. QED
      BY <3>1, <3>2
  <2>9. QED
    BY <2>2, <2>3, <2>5, <2>6, <2>7, <2>8 DEF Held, Moves, CqTypeOK
<1>9. ASSUME NEW p \in Syncs, DeleteConfigMap(p)
      PROVE  (CqTypeOK /\ Held)'
  <2>1. PICK to \in {"error", "returned"} :
          /\ Moves(p, to) /\ sync[p].pc = "delete config"
          /\ sync[p].faulty = TRUE => sync'[p].faulty = TRUE
          /\ \/ configMaps' = [configMaps EXCEPT ![sync[p].id] = "none"]
             \/ UNCHANGED configMaps /\ sync'[p].faulty = TRUE
    BY <1>9, StepMoves, StepFaultyMoves DEF DeleteConfigMap, CqPoints
  <2>2. jobs' = jobs /\ synced' = synced
    BY <1>9 DEF DeleteConfigMap
  <2>3. Moves(p, to) /\ sync[p].id \in SyncIds
    BY <2>1 DEF Moves, Begun
  <2>4. /\ sync[p].pc \in Holding /\ sync[p].pc \notin Running \cup {"dead"}
        /\ to \notin Holding
        /\ sync[p].faulty = TRUE => sync'[p].faulty = TRUE
    BY <2>1 DEF Holding, Running
  <2>5. configMaps[sync[p].id] = p
    BY <2>4 DEF Held, HoldsConfig
  <2>6. /\ \/ configMaps'[sync[p].id] = "none"
           \/ configMaps'[sync[p].id] = p /\ sync'[p].faulty = TRUE
        /\ \A i \in SyncIds \ {sync[p].id} : configMaps'[i] = configMaps[i]
        /\ configMaps' \in [SyncIds -> Syncs \cup {"none"}]
    BY <2>1, <2>3, <2>5 DEF CqTypeOK
  <2>7. ASSUME NEW q \in Syncs PROVE HoldsConfig(q)'
    <3>1. CASE q = p
      BY <2>3, <2>4, <3>1 DEF HoldsConfig, Moves
    <3>2. CASE q # p
      BY <2>3, <2>5, <2>6, <3>2, HoldersHaveIds DEF Held, HoldsConfig, Moves
    <3>3. QED
      BY <3>1, <3>2
  <2>8. ASSUME NEW i \in SyncIds PROVE ConfigIsHeld(i)'
    <3>1. CASE i = sync[p].id
      BY <2>3, <2>6, <3>1 DEF ConfigIsHeld, Moves
    <3>2. CASE i # sync[p].id
      BY <2>3, <2>6, <3>2 DEF Held, ConfigIsHeld, Moves, CqTypeOK
    <3>3. QED
      BY <3>1, <3>2
  <2>9. ASSUME NEW i \in SyncIds PROVE JobIsHeld(i)'
    <3>1. CASE jobs[i] = NoJob
      BY <2>2, <3>1 DEF JobIsHeld
    <3>2. CASE jobs[i] # NoJob /\ jobs[i].of = p
      BY <2>2, <2>3, <2>4, <3>2 DEF Held, JobIsHeld, Moves
    <3>3. CASE jobs[i] # NoJob /\ jobs[i].of # p
      <4>1. jobs[i].of \in Syncs \ {p}
        BY <3>3 DEF CqTypeOK, SyncJobs
      <4>2. i # sync[p].id \/ configMaps[i] # jobs[i].of
        BY <2>5, <4>1
      <4>3. QED
        BY <2>2, <2>3, <2>6, <3>3, <4>1, <4>2 DEF Held, JobIsHeld, Moves
    <3>4. QED
      BY <3>1, <3>2, <3>3
  <2>10. QED
    BY <2>2, <2>3, <2>6, <2>7, <2>8, <2>9 DEF Held, Moves, CqTypeOK
<1>10. ASSUME NEW p \in Syncs, GenerateProfiles(p)
       PROVE  (CqTypeOK /\ Held)'
  <2>1. PICK to \in {"dbt", "error"} :
          /\ Moves(p, to) /\ sync[p].pc = "profiles"
          /\ sync[p].faulty = TRUE => sync'[p].faulty = TRUE
    BY <1>10, StepMoves, StepFaultyMoves DEF GenerateProfiles, CqPoints
  <2>2. QED
    BY <1>10, <1>q, <2>1, QuietHeld DEF GenerateProfiles, CqTypeOK, Holding, Running
<1>11. ASSUME NEW p \in Syncs, DbtEnds(p)
       PROVE  (CqTypeOK /\ Held)'
  <2>1. Moves(p, "returned") /\ sync[p].pc = "dbt" /\ sync'[p].faulty = sync[p].faulty
    BY <1>11, EndMoves DEF DbtEnds, CqStatuses, CqPoints
  <2>2. synced \subseteq synced' /\ synced' \subseteq Syncs /\ UNCHANGED <<configMaps, jobs>>
    BY <1>11 DEF DbtEnds, CqTypeOK
  <2>3. QED
    BY <1>q, <2>1, <2>2, QuietHeld DEF Holding, Running
<1>12. ASSUME NEW p \in Syncs, InterruptSync(p)
       PROVE  (CqTypeOK /\ Held)'
  <2>1. Step(p, sync[p].pc, "dead") /\ sync[p].pc # "begin"
    BY <1>12 DEF InterruptSync, Step
  <2>2. Moves(p, "dead") /\ sync'[p].faulty = sync[p].faulty
    BY <2>1, StepMoves DEF CqPoints
  <2>3. QED
    BY <1>12, <1>q, <2>2, QuietHeld DEF InterruptSync, CqTypeOK, Holding, Running
<1>13. ASSUME NEW i \in SyncIds, JobEnds(i)
       PROVE  (CqTypeOK /\ Held)'
  <2>1. PICK state \in {"succeeded", "failed"} :
          /\ jobs' = [jobs EXCEPT ![i].state = state]
          /\ synced' = IF state = "succeeded" THEN synced \cup {jobs[i].of} ELSE synced
    BY <1>13 DEF JobEnds
  <2>2. jobs[i] \in SyncJobs /\ sync' = sync /\ configMaps' = configMaps
    BY <1>13 DEF JobEnds, CqTypeOK, NoJob
  <2>3. jobs' \in [SyncIds -> {NoJob} \cup SyncJobs] /\ jobs'[i].of = jobs[i].of
    BY <2>1, <2>2 DEF CqTypeOK, SyncJobs
  <2>4. ASSUME NEW j \in SyncIds PROVE JobIsHeld(j)'
    <3>1. CASE j = i
      <4>1. jobs[i] # NoJob /\ JobIsHeld(i)
        BY <2>2 DEF Held, SyncJobs, NoJob
      <4>2. jobs'[i].state = "succeeded" => jobs[i].of \in synced'
        BY <2>1, <2>2 DEF SyncJobs, CqTypeOK
      <4>3. QED
        BY <2>2, <2>3, <3>1, <4>1, <4>2 DEF JobIsHeld
    <3>2. CASE j # i
      <4>1. jobs'[j] = jobs[j] /\ synced \subseteq synced'
        BY <2>1, <3>2 DEF CqTypeOK
      <4>2. QED
        BY <2>2, <4>1 DEF Held, JobIsHeld
    <3>3. QED
      BY <3>1, <3>2
  <2>5. synced' \subseteq Syncs
    BY <2>1, <2>2 DEF CqTypeOK, SyncJobs
  <2>6. (\A p \in Syncs : HoldsConfig(p)') /\ (\A j \in SyncIds : ConfigIsHeld(j)')
    BY <2>2 DEF Held, HoldsConfig, ConfigIsHeld
  <2>7. QED
    BY <2>2, <2>3, <2>4, <2>5, <2>6 DEF Held, CqTypeOK, SyncOK
<1>14. CASE UNCHANGED cqVars
  BY <1>14 DEF cqVars, CqTypeOK, SyncOK, Held, HoldsConfig, ConfigIsHeld, JobIsHeld
<1>15. QED
  BY <1>1, <1>2, <1>3, <1>4, <1>5, <1>6, <1>7, <1>8, <1>9, <1>10, <1>11, <1>12, <1>13, <1>14
  DEF CqNext, RunCloudQuery, RunDBT
-----------------------------------------------------------------------------
(* Runs that completed. *)

\* A run that completed, or an untidy one with its ID, has synchronised its data.
CqCompleted(p) ==
  sync[p].status = "completed" =>
    \/ p \in synced
    \/ \E q \in synced \ {p} : /\ sync[q] \in Begun /\ sync[q].id = sync[p].id
                               /\ sync[q].faulty = TRUE \/ sync[q].pc = "dead"

\* What every step of a run does but for its status: the dead stay dead.
Goes(p) ==
  /\ \E to : Moves(p, to)
  /\ sync[p].pc # "dead"
  /\ sync[p].faulty = TRUE => sync'[p].faulty = TRUE
  /\ synced \subseteq synced'

\* A step of one run leaves what was completed by the others.
LEMMA OthersComplete ==
  ASSUME CqTypeOK, \A q \in Syncs : CqCompleted(q), NEW p \in Syncs, Goes(p)
  PROVE  /\ \A q \in Syncs \ {p} : CqCompleted(q)'
         /\ sync'[p].status = sync[p].status => CqCompleted(p)'
<1>1. PICK to : Moves(p, to)
  BY DEF Goes
<1>2. ASSUME NEW q \in synced, sync[q] \in Begun,
             sync[q].faulty = TRUE \/ sync[q].pc = "dead"
      PROVE  /\ q \in synced' /\ sync'[q] \in Begun /\ sync'[q].id = sync[q].id
             /\ sync'[q].faulty = TRUE \/ sync'[q].pc = "dead"
  <2>1. q \in Syncs /\ q \in synced'
    BY DEF CqTypeOK, Goes
  <2>2. CASE q = p
    BY <1>1, <1>2, <2>1, <2>2 DEF Moves, Goes
  <2>3. CASE q # p
    BY <1>1, <1>2, <2>1, <2>3 DEF Moves
  <2>4. QED
    BY <2>2, <2>3
<1>3. ASSUME NEW q \in Syncs, sync'[q].status = sync[q].status, sync'[q].id = sync[q].id
      PROVE  CqCompleted(q)'
  <2>1. SUFFICES ASSUME sync[q].status = "completed", q \notin synced
                 PROVE  CqCompleted(q)'
    BY <1>3 DEF CqCompleted, Goes
  <2>2. PICK r \in synced \ {q} : /\ sync[r] \in Begun /\ sync[r].id = sync[q].id
                                  /\ sync[r].faulty = TRUE \/ sync[r].pc = "dead"
    BY <2>1 DEF CqCompleted
  <2>3. QED
    BY <1>2, <1>3, <2>2 DEF CqCompleted
<1>4. ASSUME NEW q \in Syncs \ {p} PROVE CqCompleted(q)'
  BY <1>1, <1>3 DEF Moves
<1>5. QED
  BY <1>1, <1>3, <1>4 DEF Moves

\* Every step keeps that completed runs have synchronised.
LEMMA NextCompleted ==
  CqTypeOK /\ Held /\ (\A p \in Syncs : CqCompleted(p)) /\ [CqNext]_cqVars
    => \A p \in Syncs : CqCompleted(p)'
<1> SUFFICES ASSUME CqTypeOK, Held, \A p \in Syncs : CqCompleted(p), [CqNext]_cqVars
             PROVE  \A p \in Syncs : CqCompleted(p)'
  OBVIOUS
<1>q. ASSUME NEW p \in Syncs, Goes(p), sync'[p].status # "completed"
      PROVE  \A q \in Syncs : CqCompleted(q)'
  BY <1>q, OthersComplete DEF CqCompleted
<1>s. ASSUME NEW p \in Syncs, Goes(p), sync'[p].status = sync[p].status
      PROVE  \A q \in Syncs : CqCompleted(q)'
  BY <1>s, OthersComplete
<1>1. ASSUME NEW p \in Syncs, NEW i \in SyncIds, NEW t \in Transforms,
             NEW first \in {"verify", "profiles"}, Register(p, i, t, first)
      PROVE  \A q \in Syncs : CqCompleted(q)'
  <2>1. /\ sync[p] \notin Begun /\ sync'[p].status = "running"
        /\ \A q \in Syncs \ {p} : sync'[q] = sync[q]
    BY <1>1 DEF Register, CqTypeOK, SyncOK, Begun, CqPoints
  <2>2. synced' = synced
    BY <1>1 DEF Register
  <2>3. ASSUME NEW q \in Syncs \ {p} PROVE CqCompleted(q)'
    <3>1. SUFFICES ASSUME sync[q].status = "completed", q \notin synced
                   PROVE  CqCompleted(q)'
      BY <2>1, <2>2 DEF CqCompleted
    <3>2. PICK r \in synced \ {q} : /\ sync[r] \in Begun /\ sync[r].id = sync[q].id
                                    /\ sync[r].faulty = TRUE \/ sync[r].pc = "dead"
      BY <3>1 DEF CqCompleted
    <3>3. sync'[r] = sync[r] /\ sync'[q] = sync[q]
      BY <2>1, <3>2 DEF CqTypeOK
    <3>4. QED
      BY <2>2, <3>2, <3>3 DEF CqCompleted
  <2>4. QED
    BY <2>1, <2>3 DEF CqCompleted
<1>2. ASSUME NEW p \in Syncs, DryRunSync(p)
      PROVE  \A q \in Syncs : CqCompleted(q)'
  <2>1. /\ Moves(p, "returned") /\ sync'[p].faulty = sync[p].faulty
        /\ sync'[p].status = "dry run"
    BY <1>2, EndMoves DEF DryRunSync, CqStatuses, CqPoints
  <2>2. sync[p].pc # "dead" /\ synced' = synced
    BY <1>2 DEF DryRunSync
  <2>3. QED
    BY <1>q, <2>1, <2>2 DEF Goes
<1>3. ASSUME NEW p \in Syncs,
             NEW from \in CqPoints \ {"dead"}, NEW to \in CqPoints,
             Step(p, from, to) \/ StepFaulty(p, from, to), synced' = synced
      PROVE  \A q \in Syncs : CqCompleted(q)'
  <2>1. from # "begin" /\ from # "dead"
    BY DEF CqPoints
  <2>2. Moves(p, to) /\ sync[p].pc = from /\ sync'[p].status = sync[p].status
    BY <1>3, <2>1, StepMoves, StepFaultyMoves
  <2>3. sync[p].faulty = TRUE => sync'[p].faulty = TRUE
    BY <1>3, <2>1, StepMoves, StepFaultyMoves
  <2>4. QED
    BY <1>3, <1>s, <2>1, <2>2, <2>3 DEF Goes
<1>4. ASSUME NEW p \in Syncs, JobSucceeded(p)
      PROVE  \A q \in Syncs : CqCompleted(q)'
  <2>1. PICK answer \in {"completed", "failed"} :
          /\ answer = "completed" => jobs[sync[p].id].state = "succeeded"
          /\ sync' = [sync EXCEPT ![p].pc = "delete job", ![p].status = answer]
    BY <1>4 DEF JobSucceeded
  <2>2. /\ Moves(p, "delete job") /\ sync'[p].faulty = sync[p].faulty
        /\ sync'[p].status = answer /\ sync[p].pc = "status"
    BY <1>4, <2>1, EndMoves DEF JobSucceeded, CqStatuses, CqPoints
  <2>3. Goes(p) /\ synced' = synced
    BY <1>4, <2>2 DEF JobSucceeded, Goes
  <2>4. CASE answer = "failed"
    BY <1>q, <2>2, <2>3, <2>4
  <2>5. CASE answer = "completed"
    <3>1. sync[p].pc \in Holding /\ sync[p].id \in SyncIds
      BY <2>2, HoldersHaveIds DEF Holding
    <3>2. configMaps[sync[p].id] = p
      BY <3>1 DEF Held, HoldsConfig
    <3> DEFINE q == jobs[sync[p].id].of
    <3>3. /\ jobs[sync[p].id] # NoJob /\ JobIsHeld(sync[p].id)
          /\ jobs[sync[p].id].state = "succeeded"
      <4>1. jobs[sync[p].id].state = "succeeded"
        BY <2>1, <2>5
      <4>2. jobs[sync[p].id] # NoJob
        BY <4>1 DEF NoJob
      <4>3. QED
        BY <3>1, <4>1, <4>2 DEF Held
    <3>4. /\ q \in synced /\ sync[q] \in Begun /\ sync[q].id = sync[p].id
          /\ q # p => sync[q].faulty = TRUE
      BY <3>2, <3>3 DEF JobIsHeld
    <3>5. q # p => sync'[q] = sync[q]
      BY <2>2, <3>4 DEF Moves, CqTypeOK
    <3>6. CqCompleted(p)'
      BY <2>2, <2>3, <3>4, <3>5 DEF CqCompleted, Moves
    <3>7. QED
      BY <2>3, <3>6, OthersComplete
  <2>6. QED
    BY <2>4, <2>5
<1>5. ASSUME NEW p \in Syncs, DbtEnds(p)
      PROVE  \A q \in Syncs : CqCompleted(q)'
  <2>1. PICK ok \in BOOLEAN :
          /\ sync' = [sync EXCEPT ![p].pc = "returned",
                                  ![p].status = IF ok THEN "completed" ELSE "failed"]
          /\ synced' = IF ok THEN synced \cup {p} ELSE synced
    BY <1>5 DEF DbtEnds
  <2>2. Moves(p, "returned") /\ sync'[p].faulty = sync[p].faulty /\ sync[p].pc = "dbt"
        /\ sync'[p].status = IF ok THEN "completed" ELSE "failed"
    BY <1>5, <2>1, EndMoves DEF DbtEnds, CqStatuses, CqPoints
  <2>3. Goes(p)
    BY <2>1, <2>2 DEF Goes
  <2>4. CqCompleted(p)'
    BY <2>1, <2>2 DEF CqCompleted
  <2>5. QED
    BY <2>3, <2>4, OthersComplete
<1>6. ASSUME NEW p \in Syncs, InterruptSync(p)
      PROVE  \A q \in Syncs : CqCompleted(q)'
  <2>1. Step(p, sync[p].pc, "dead") /\ sync[p].pc \notin {"begin", "dead"} /\ synced' = synced
    BY <1>6 DEF InterruptSync, Step
  <2>2. sync[p].pc \in CqPoints \ {"dead"} /\ "dead" \in CqPoints
    BY <2>1, Begins DEF Begun, CqPoints
  <2>3. QED
    BY <1>3, <2>1, <2>2
<1>7. ASSUME NEW i \in SyncIds, JobEnds(i)
      PROVE  \A q \in Syncs : CqCompleted(q)'
  <2>1. sync' = sync /\ synced \subseteq synced'
    BY <1>7 DEF JobEnds
  <2>2. QED
    BY <2>1 DEF CqCompleted
<1>8. CASE UNCHANGED cqVars
  BY <1>8 DEF cqVars, CqCompleted
<1>9. ASSUME NEW p \in Syncs,
             \/ VerifyCluster(p) \/ CreateConfigMap(p) \/ ApplyJob(p) \/ FollowLogs(p)
             \/ DeleteJob(p) \/ DeleteConfigMap(p) \/ GenerateProfiles(p)
      PROVE  \A q \in Syncs : CqCompleted(q)'
  <2>1. CASE VerifyCluster(p)
    BY <1>3, <2>1 DEF VerifyCluster, CqPoints
  <2>2. CASE CreateConfigMap(p)
    BY <1>3, <2>2 DEF CreateConfigMap, CqPoints
  <2>3. CASE ApplyJob(p)
    BY <1>3, <2>3 DEF ApplyJob, CqPoints
  <2>4. CASE FollowLogs(p)
    BY <1>3, <2>4 DEF FollowLogs, CqPoints
  <2>5. CASE DeleteJob(p)
    BY <1>3, <2>5 DEF DeleteJob, CqPoints
  <2>6. CASE DeleteConfigMap(p)
    BY <1>3, <2>6 DEF DeleteConfigMap, CqPoints
  <2>7. CASE GenerateProfiles(p)
    BY <1>3, <2>7 DEF GenerateProfiles, CqPoints
  <2>8. QED
    BY <1>9, <2>1, <2>2, <2>3, <2>4, <2>5, <2>6, <2>7
<1>10. QED
  BY <1>1, <1>2, <1>4, <1>5, <1>6, <1>7, <1>8, <1>9 DEF CqNext, RunCloudQuery, RunDBT

-----------------------------------------------------------------------------
(* The theorems. *)

CqInv == CqTypeOK /\ Held /\ \A p \in Syncs : CqCompleted(p)

\* The invariant of CloudQuery runs holds in every reachable state.
LEMMA CqHolds == CqSpec => []CqInv
<1>1. CqInit => CqInv
  <2>1. CqInit => \A p \in Syncs : CqCompleted(p)
    BY DEF CqInit, CqCompleted
  <2>2. QED
    BY <2>1, InitCq DEF CqInv
<1>2. CqInv /\ [CqNext]_cqVars => CqInv'
  BY NextHeld, NextCompleted DEF CqInv
<1>3. QED
  BY <1>1, <1>2, PTL DEF CqSpec

\* A run that reports success has synchronised its data, unless it was told of the
\* success of a Job that another run left behind under the same ID (JobSucceeded).
THEOREM CompletedMeansSyncedHolds == CqSpec => []CompletedMeansSynced
<1>1. CqInv => CompletedMeansSynced
  BY DEF CqInv, CqCompleted, CompletedMeansSynced, Untidy
<1>2. QED
  BY <1>1, CqHolds, PTL

\* The deferred cleanup of runCloudQuery leaves nothing behind, at any number of runs
\* with one ID.
THEOREM NothingIsLeftHolds == CqSpec => []NothingIsLeft
<1>1. CqInv => NothingIsLeft
  <2>1. SUFFICES ASSUME CqInv, NEW p \in Syncs, sync[p].pc \in {"returned", "error"},
                        sync[p].faulty # TRUE, NEW i \in SyncIds
                 PROVE  configMaps[i] # p /\ jobs[i].of # p
    BY DEF NothingIsLeft
  <2>2. sync[p].pc \notin Holding \cup Running \cup {"dead"} /\ p # "none"
    BY <2>1, CloudQueryAssumption DEF Holding, Running
  <2>3. configMaps[i] # p
    BY <2>1, <2>2 DEF CqInv, Held, ConfigIsHeld
  <2>4. jobs[i].of # p
    <3>1. CASE jobs[i] = NoJob
      BY <2>2, <3>1 DEF NoJob
    <3>2. CASE jobs[i] # NoJob
      <4>1. JobIsHeld(i)
        BY <2>1 DEF CqInv, Held
      <4>2. QED
        BY <2>1, <2>2, <3>2, <4>1 DEF JobIsHeld
    <3>3. QED
      BY <3>1, <3>2
  <2>5. QED
    BY <2>3, <2>4
<1>2. QED
  BY <1>1, CqHolds, PTL

\* The ConfigMap outlives the Job, whichever runs have its name.
THEOREM JobsHaveTheirConfigHolds == CqSpec => []JobsHaveTheirConfig
<1>1. CqInv => JobsHaveTheirConfig
  <2>1. SUFFICES ASSUME CqInv, NEW i \in SyncIds, jobs[i] # NoJob, configMaps[i] = "none"
                 PROVE  sync[jobs[i].of].faulty
    BY DEF JobsHaveTheirConfig
  <2>2. jobs[i].of \in Syncs /\ jobs[i].of # "none"
    BY <2>1, CloudQueryAssumption DEF CqInv, CqTypeOK, SyncJobs
  <2>3. QED
    BY <2>1, <2>2 DEF CqInv, Held, JobIsHeld
<1>2. QED
  BY <1>1, CqHolds, PTL

\* A document goes to the port of the last plugin of its name (rewriteCQConfigForGRPC),
\* which is its own, as Kubernetes accepts a Job only if its sidecars' names differ.
THEOREM DocumentsReachTheirPluginsHolds == CqSpec => []DocumentsReachTheirPlugins
<1>1. ASSUME NEW docs, IsInjective([i \in DOMAIN docs |-> docs[i].name]),
             NEW i \in DOMAIN docs
      PROVE  rewriteCQConfigForGRPC(docs)[i] = i
  <2>1. \A j \in DOMAIN docs : docs[j].name = docs[i].name => j = i
    BY <1>1 DEF IsInjective
  <2>2. \A j \in DOMAIN docs :
          /\ docs[j].name = docs[i].name
          /\ \A k \in DOMAIN docs \ {j} : docs[k].name = docs[i].name => k < j
          <=> j = i
    BY <2>1
  <2>3. QED
    BY <2>2 DEF rewriteCQConfigForGRPC
<1>2. CqInv => DocumentsReachTheirPlugins
  <2>1. SUFFICES ASSUME CqInv, NEW p \in Syncs, sync[p].pc = "logs",
                        jobs[sync[p].id].of = p
                 PROVE  ValidJob(sync[p].transform)
    BY <1>1 DEF DocumentsReachTheirPlugins, ValidJob
  <2>2. sync[p].id \in SyncIds /\ p # "none"
    BY <2>1, HoldersHaveIds, CloudQueryAssumption DEF CqInv, Holding
  <2>3. jobs[sync[p].id] # NoJob
    BY <2>1, <2>2 DEF NoJob
  <2>4. QED
    BY <2>1, <2>2, <2>3 DEF CqInv, Held, JobIsHeld
<1>3. QED
  BY <1>2, CqHolds, PTL
-----------------------------------------------------------------------------
(* The runs that MCRuns puts together. *)

\* Every variable of the runs and of the heartbeat holds values of its kind, also
\* in a scan of several packages; no two running containers have one name.
THEOREM RunsTypeOKHolds == AllSpec => []RunsTypeOK
<1>1. AllInit => GraphInit /\ Init /\ NewHeartbeat
  BY DEF AllInit, MultiInit
<1>2. [AllNext]_allVars => [GraphNext]_graphVars
  <2>1. [MultiNext]_<<vars, graphVars>> => [GraphNext]_graphVars
    BY MultiNextIsGraphNext
  <2>2. QED
    BY <2>1 DEF AllNext, allVars
<1>3. GraphInv /\ [AllNext]_allVars => [Next]_vars
  BY MultiNextIsNext DEF AllNext, allVars
<1>4. [AllNext]_allVars => [HeartbeatNext]_heartbeatVars
  BY DEF AllNext, allVars
<1>5. AllSpec => GraphSpec /\ HeartbeatSpec
  BY <1>1, <1>2, <1>4, PTL DEF AllSpec, GraphSpec, HeartbeatSpec
<1>6. AllSpec => []GraphInv
  BY <1>5, GraphInvIsInductive, PTL DEF GraphSpec
<1>7. AllSpec => Spec
  BY <1>1, <1>3, <1>6, PTL DEF AllSpec, Spec
<1>8. QED
  BY <1>5, <1>7, TypeOKHolds, HeartbeatTypeOKHolds, PTL DEF RunsTypeOK
=============================================================================
