---------------------------- MODULE PipelineRun ----------------------------
(***************************************************************************)
(* Executions of a Transform package by DockerRunner (sdk/runner) and by   *)
(* the streaming test of the CLI (cli/cmd/test.go).                        *)
(*                                                                         *)
(* Each run is one dk process: Run registers a result, builds an image,    *)
(* emits the START lineage event, starts the docker client as a child      *)
(* process, waits for it and emits COMPLETE or FAIL.  The child only       *)
(* stands for the container, which lives in the docker daemon under the    *)
(* run's ID as its name: it may fail, exit or go on running whatever       *)
(* becomes of the child and of the dk process.                             *)
(***************************************************************************)
EXTENDS Naturals, Sequences

CONSTANTS
  Runs,   \* calls of Run, by different processes
  Ids,    \* what GenerateRunID returns: package name and second
  NoId    \* the ID of a run that has not begun

ASSUME IdsAssumption == NoId \notin Ids

\* How a package is run: in batch mode, or in streaming mode attached to the
\* terminal, in the background, or in the background by dk test.
Kinds == {"batch", "attached", "detached", "test"}

\* pc of a dk process.  "testing" is runStreamingTest's sleep, "draining" the
\* wait for a graceful shutdown, "dead" a process that was killed.
Points == {"idle", "building", "starting", "waiting", "draining", "testing",
           "returned", "dead"}

Statuses == {"none", "pending", "running", "completed", "failed"}

VARIABLES
  pc, kind, id,
  status,      \* RunResult.Status of each run
  error,       \* what Run returned: "none" yet, "nil" or "error"
  client,      \* the docker client: "none", "running", "ok", "failed", "killed"
  container,   \* the container: "none", "running", or how it has exited: "ok",
               \* "failed" by itself, "stopped" with an error on docker stop
  signalled,   \* runs whose process received SIGINT or SIGTERM
  events       \* lineage events each run has emitted

vars == <<pc, kind, id, status, error, client, container, signalled, events>>

Init ==
  /\ pc = [p \in Runs |-> "idle"]
  /\ kind = [p \in Runs |-> "batch"]
  /\ id = [p \in Runs |-> NoId]
  /\ status = [p \in Runs |-> "none"]
  /\ error = [p \in Runs |-> "none"]
  /\ client = [p \in Runs |-> "none"]
  /\ container = [p \in Runs |-> "none"]
  /\ signalled = {}
  /\ events = [p \in Runs |-> <<>>]

emitLineage(p, type) == events' = [events EXCEPT ![p] = Append(@, type)]

\* Run returns; it has emitted the event that goes with err.
Return(p, st, err, type) ==
  /\ pc' = [pc EXCEPT ![p] = "returned"]
  /\ status' = [status EXCEPT ![p] = st]
  /\ error' = [error EXCEPT ![p] = err]
  /\ emitLineage(p, type)

Goto(p, point, st) ==
  /\ pc' = [pc EXCEPT ![p] = point]
  /\ status' = [status EXCEPT ![p] = st]

-----------------------------------------------------------------------------
(* Run, up to the start of the docker client. *)

\* Mutant: the run is registered before its ID is made.
BeginNoId(p, k, i) ==
  /\ pc[p] = "idle"
  /\ kind' = [kind EXCEPT ![p] = k]
  /\ Goto(p, "building", "pending")
  /\ UNCHANGED <<id, error, client, container, signalled, events>>

\* Two processes that begin within a second have the same ID.
Begin(p, k, i) ==
  /\ pc[p] = "idle"
  /\ kind' = [kind EXCEPT ![p] = k]
  /\ id' = [id EXCEPT ![p] = i]
  /\ Goto(p, "building", "pending")
  /\ UNCHANGED <<error, client, container, signalled, events>>

\* The image is not built; or, without a directory or a Dockerfile to build it
\* from, Run returns no result, emits nothing and leaves the run pending.
BuildFails(p) ==
  /\ pc[p] = "building"
  /\ \/ Return(p, "failed", "error", "FAIL")
     \/ /\ Goto(p, "returned", "pending")
        /\ error' = [error EXCEPT ![p] = "error"]
        /\ UNCHANGED events
  /\ UNCHANGED <<kind, id, client, container, signalled>>

\* opts.DryRun: no container, no lineage.
DryRun(p) ==
  /\ pc[p] = "building"
  /\ kind[p] # "test"
  /\ Goto(p, "returned", "completed")
  /\ error' = [error EXCEPT ![p] = "nil"]
  /\ UNCHANGED <<kind, id, client, container, signalled, events>>

EmitStart(p) ==
  /\ pc[p] = "building"
  /\ Goto(p, "starting", "pending")
  /\ emitLineage(p, "START")
  /\ UNCHANGED <<kind, id, error, client, container, signalled>>

\* RunBatch and runStreamingAttached set the status before cmd.Start,
\* runStreamingDetached only after cmd.Output.
StatusOnStart(p) ==
  IF kind[p] \in {"batch", "attached"} THEN "running" ELSE "pending"

StartClient(p) ==
  /\ pc[p] = "starting"
  /\ Goto(p, "waiting", StatusOnStart(p))
  /\ client' = [client EXCEPT ![p] = "running"]
  /\ UNCHANGED <<kind, id, error, container, signalled, events>>

\* cmd.Start fails; or, attached, one of the pipes, which leaves the status.
StartFails(p) ==
  /\ pc[p] = "starting"
  /\ \/ Return(p, "failed", "error", "FAIL")
     \/ kind[p] = "attached" /\ Return(p, "running", "error", "FAIL")
  /\ UNCHANGED <<kind, id, client, container, signalled>>

-----------------------------------------------------------------------------
(* Docker: the client and the daemon. *)

NameTaken(i) == \E p \in Runs : id[p] = i /\ container[p] = "running"

CreateContainer(p) ==
  /\ client[p] = "running" /\ container[p] = "none"
  /\ ~NameTaken(id[p])
  /\ container' = [container EXCEPT ![p] = "running"]
  /\ UNCHANGED <<pc, kind, id, status, error, client, signalled, events>>

\* The name is taken, the image is not there, or the daemon is not.
CreateFails(p) ==
  /\ client[p] = "running" /\ container[p] = "none"
  /\ client' = [client EXCEPT ![p] = "failed"]
  /\ UNCHANGED <<pc, kind, id, status, error, container, signalled, events>>

\* The container exits, by itself or on a signal; --rm frees its name.
ContainerExits(p, exit) ==
  /\ container[p] = "running"
  /\ container' = [container EXCEPT ![p] = exit]
  /\ UNCHANGED <<pc, kind, id, status, error, client, signalled, events>>

\* docker run exits as the container did; docker run -d once it runs.
ClientExits(p) ==
  /\ client[p] = "running"
  /\ IF kind[p] \in {"batch", "attached"}
       THEN container[p] \in {"ok", "failed", "stopped"}
       ELSE container[p] # "none"
  /\ client' = [client EXCEPT
       ![p] = IF kind[p] \in {"batch", "attached"} /\ container[p] # "ok"
                THEN "failed" ELSE "ok"]
  /\ UNCHANGED <<pc, kind, id, status, error, container, signalled, events>>

-----------------------------------------------------------------------------
(* Run, from there on. *)

ClientDone(p) == client[p] \in {"ok", "failed", "killed"}

\* Mutant: opts.Timeout does not reach the context.
TimeoutUnset(p) == FALSE

\* RunBatch's context expires: the client is killed, not the container.
Timeout(p) ==
  /\ pc[p] = "waiting" /\ kind[p] = "batch" /\ client[p] = "running"
  /\ client' = [client EXCEPT ![p] = "killed"]
  /\ UNCHANGED <<pc, kind, id, status, error, container, signalled, events>>

\* Mutant: the exit of a client that was killed is not taken for an error.
ClientReturnsKilledIsNil(p) ==
  /\ pc[p] = "waiting" /\ kind[p] \in {"batch", "attached"}
  /\ ClientDone(p)
  /\ IF client[p] # "failed" THEN Return(p, "completed", "nil", "COMPLETE")
                             ELSE Return(p, "failed", "error", "FAIL")
  /\ UNCHANGED <<kind, id, client, container, signalled>>

\* Mutant: the error of RunBatch is assigned to a shadow of runErr.
ClientReturnsShadowed(p) ==
  /\ pc[p] = "waiting" /\ kind[p] \in {"batch", "attached"}
  /\ ClientDone(p)
  /\ IF client[p] = "ok" THEN Return(p, "completed", "nil", "COMPLETE")
       ELSE /\ Goto(p, "returned", "failed")
            /\ error' = [error EXCEPT ![p] = "nil"]
            /\ UNCHANGED events
  /\ UNCHANGED <<kind, id, client, container, signalled>>

\* cmd.Wait returns in RunBatch, or wins the select of runStreamingAttached.
ClientReturns(p) ==
  /\ pc[p] = "waiting" /\ kind[p] \in {"batch", "attached"}
  /\ ClientDone(p)
  /\ IF client[p] = "ok" THEN Return(p, "completed", "nil", "COMPLETE")
                         ELSE Return(p, "failed", "error", "FAIL")
  /\ UNCHANGED <<kind, id, client, container, signalled>>

\* SIGINT or SIGTERM while runStreamingAttached listens to them.
Signal(p) ==
  /\ pc[p] = "waiting" /\ kind[p] = "attached"
  /\ p \notin signalled
  /\ signalled' = signalled \cup {p}
  /\ UNCHANGED <<pc, kind, id, status, error, client, container, events>>

\* The signal wins the select; it is passed on to the client.
BeginDrain(p) ==
  /\ pc[p] = "waiting" /\ p \in signalled
  /\ pc' = [pc EXCEPT ![p] = "draining"]
  /\ UNCHANGED <<kind, id, status, error, client, container, signalled, events>>

\* The client exits, with any result, or is killed after 30 seconds.
EndDrain(p) ==
  /\ pc[p] = "draining"
  /\ client' = [client EXCEPT ![p] = IF ClientDone(p) THEN @ ELSE "killed"]
  /\ Return(p, "completed", "nil", "COMPLETE")
  /\ UNCHANGED <<kind, id, container, signalled>>

\* Mutant: cmd.Start is called instead of cmd.Output.
DetachedReturnsAtOnce(p) ==
  /\ pc[p] = "waiting" /\ kind[p] \in {"detached", "test"}
  /\ Goto(p, IF kind[p] = "test" THEN "testing" ELSE "returned", "running")
  /\ error' = [error EXCEPT ![p] = "nil"]
  /\ UNCHANGED <<kind, id, client, container, signalled, events>>

\* docker run -d returns.  There is no lineage event for a run that goes on.
DetachedReturns(p) ==
  /\ pc[p] = "waiting" /\ kind[p] \in {"detached", "test"}
  /\ ClientDone(p)
  /\ IF client[p] = "ok"
       THEN /\ Goto(p, IF kind[p] = "test" THEN "testing" ELSE "returned", "running")
            /\ error' = [error EXCEPT ![p] = "nil"]
            /\ UNCHANGED events
       ELSE Return(p, "failed", "error", "FAIL")
  /\ UNCHANGED <<kind, id, client, container, signalled>>

\* runStreamingTest, when the test's duration is over: docker stop takes the
\* run's ID; when it fails, there is a warning.
EndTest(p) ==
  /\ pc[p] = "testing"
  /\ \/ \E exit \in {"ok", "stopped"} :
          container' = [q \in Runs |->
                         IF id[q] = id[p] /\ container[q] = "running"
                           THEN exit ELSE container[q]]
     \/ UNCHANGED container
  /\ Goto(p, "returned", "completed")
  /\ UNCHANGED <<kind, id, error, client, signalled, events>>

\* The dk process dies: of a SIGINT, which only runStreamingAttached handles,
\* or otherwise.  Its child and the container stay.
Crash(p) ==
  /\ pc[p] \notin {"idle", "returned", "dead"}
  /\ pc' = [pc EXCEPT ![p] = "dead"]
  /\ UNCHANGED <<kind, id, status, error, client, container, signalled, events>>

Docker(p) == CreateContainer(p) \/ CreateFails(p) \/ ClientExits(p)

Process(p) ==
  \/ BuildFails(p) \/ DryRun(p) \/ EmitStart(p)
  \/ StartClient(p) \/ StartFails(p)
  \/ Timeout(p) \/ ClientReturns(p)
  \/ BeginDrain(p) \/ EndDrain(p)
  \/ DetachedReturns(p) \/ EndTest(p)

Next ==
  \E p \in Runs :
    \/ \E k \in Kinds, i \in Ids : Begin(p, k, i)
    \/ Process(p)
    \/ Docker(p)
    \/ \E exit \in {"ok", "failed"} : ContainerExits(p, exit)
    \/ Signal(p)
    \/ Crash(p)

Spec == Init /\ [][Next]_vars

(***************************************************************************)
(* Fairness: dk processes and the docker client take their next step, and  *)
(* timers fire.  Containers need not exit, users need not send a signal.   *)
(***************************************************************************)
Fairness == \A p \in Runs : WF_vars(Process(p)) /\ WF_vars(Docker(p))

FairSpec == Spec /\ Fairness

-----------------------------------------------------------------------------
(* Properties. *)

\* Every variable holds values of its kind, a run that has begun has an ID, a
\* container has a client, and no two containers have one name.
TypeOK ==
  /\ pc \in [Runs -> Points]
  /\ kind \in [Runs -> Kinds]
  /\ id \in [Runs -> Ids \cup {NoId}]
  /\ status \in [Runs -> Statuses]
  /\ error \in [Runs -> {"none", "nil", "error"}]
  /\ client \in [Runs -> {"none", "running", "ok", "failed", "killed"}]
  /\ container \in [Runs -> {"none", "running", "ok", "failed", "stopped"}]
  /\ signalled \subseteq Runs
  /\ \A p \in Runs :
       /\ events[p] \in Seq({"START", "COMPLETE", "FAIL"})
       /\ pc[p] # "idle" => id[p] \in Ids
       /\ container[p] # "none" => client[p] # "none"
       /\ container[p] = "running" =>
            \A q \in Runs \ {p} : container[q] = "running" => id[q] # id[p]

\* An error of Run that the lineage does not tell of: the run had no Dockerfile,
\* it is still pending, and its docker client was never started.
Untold(p) == events[p] = <<>> /\ status[p] = "pending" /\ client[p] = "none"

\* The lineage of a run: START comes first but for a failed build, at most one
\* terminal event follows and none follows it, and it is the one that goes
\* with what Run returned: FAIL only for an error, and for every error but one
\* that comes before the build.  A run that returned without an error and was
\* neither a dry run nor put in the background has its COMPLETE.
LineageMatchesResult ==
  \A p \in Runs :
    /\ events[p] \in {<<>>, <<"FAIL">>, <<"START">>, <<"START", "COMPLETE">>,
                      <<"START", "FAIL">>}
    /\ LET failed == events[p] # <<>> /\ events[p][Len(events[p])] = "FAIL"
       IN  /\ failed => error[p] = "error"
           /\ error[p] = "error" => failed \/ Untold(p)
    /\ events[p] = <<"START", "COMPLETE">> =>
         status[p] = "completed" /\ error[p] = "nil"
    /\ pc[p] = "returned" /\ events[p] = <<"START">> =>
         kind[p] \in {"detached", "test"}

\* COMPLETE, when nobody has asked the run to stop, means that the run's own
\* container has exited with 0: not that it never got one (another run holds
\* the name), nor that the client was killed by the timeout.
CompleteMeansSuccess ==
  \A p \in Runs :
    events[p] = <<"START", "COMPLETE">> /\ p \notin signalled =>
      container[p] = "ok"

\* dk run ends: in batch mode, because of the timeout, even if the container
\* never exits; attached, once it has been signalled, even if the container
\* ignores SIGTERM; and, started, it ends with a terminal event.
RunsEnd ==
  \A p \in Runs :
    pc[p] \in {"waiting", "draining"} /\ (kind[p] = "batch" \/ p \in signalled)
      ~> \/ pc[p] = "dead"
         \/ pc[p] = "returned" /\ Len(events[p]) = 2

\* "Pipeline started in background": a run put in the background without an
\* error has, or has had, a container of its own, even if its name was taken
\* by another run when it began.
BackgroundRunStarted ==
  \A p \in Runs :
    kind[p] \in {"detached", "test"} /\ error[p] = "nil" /\ events[p] # <<>> =>
      container[p] # "none"

\* dk test "reports success if no errors during run": it does not report one
\* for a pipeline whose container has failed by the end of the test's duration.
TestPassedMeansNoFailure ==
  [][\A p \in Runs :
       kind[p] = "test" /\ pc[p] = "testing" /\ status'[p] = "completed" =>
         container[p] # "failed"]_vars

\* "Always set a timeout to prevent runaway jobs": no container of a batch run
\* is left running once the run has returned.
NoRunawayJob ==
  \A p \in Runs :
    kind[p] = "batch" /\ pc[p] = "returned" => container[p] # "running"
=============================================================================
