------------------------------ MODULE MultiRun ------------------------------
(***************************************************************************)
(* dk run --scan-dir as a whole: the loop of runMultiTransform             *)
(* (PipelineGraph), each of whose packages is run by a DockerRunner of its *)
(* own (PipelineRun), in one dk process and one after the other.           *)
(*                                                                         *)
(* The run of a package has the package's number; a run ID is made of the  *)
(* package's name.                                                         *)
(***************************************************************************)
EXTENDS PipelineRun, PipelineGraph

ASSUME MultiRunAssumption == Packages \subseteq Runs

MultiInit == Init /\ GraphInit

Current == Last(started)

\* --dry-run is for all packages or for none.
DryRan(p) == pc[p] = "returned" /\ error[p] = "nil" /\ events[p] = <<>>
SameOptions == ~ \E p, q \in Runs : DryRan(p) /\ "START" \in Range(events[q])

\* The package's runner is created, and calls Run: never in the background.
BeginPackage(k, i) ==
  /\ graphPc = "running"
  /\ k \in {"batch", "attached"}
  /\ \A q \in Runs : id[q] = i => names[q] = names[Current]
  /\ Begin(Current, k, i)
  /\ UNCHANGED graphVars

RunPackage ==
  /\ graphPc = "running"
  /\ Process(Current)
  /\ SameOptions'
  /\ UNCHANGED graphVars

PackageCompletes ==
  /\ graphPc = "running" /\ pc[Current] = "returned" /\ error[Current] = "nil"
  /\ Completes
  /\ UNCHANGED vars

\* Also when no runner can be created, or Run returns before it has begun.
PackageFails ==
  /\ graphPc = "running"
  /\ pc[Current] = "idle" \/ error[Current] = "error"
  /\ Fails
  /\ UNCHANGED vars

\* dk dies with the run it is at.
CrashMulti == graphPc = "running" /\ Crash(Current) /\ UNCHANGED graphVars

\* Docker, the containers and the user, who signals the dk process.
Surroundings ==
  /\ \E p \in Runs :
       \/ Docker(p)
       \/ \E exit \in {"ok", "failed"} : ContainerExits(p, exit)
       \/ Signal(p)
  /\ UNCHANGED graphVars

MultiNext ==
  \/ (Plan \/ StartNext \/ Summary) /\ UNCHANGED vars
  \/ \E k \in Kinds, i \in Ids : BeginPackage(k, i)
  \/ RunPackage \/ PackageCompletes \/ PackageFails \/ CrashMulti
  \/ Surroundings

MultiSpec == MultiInit /\ [][MultiNext]_<<vars, graphVars>>

-----------------------------------------------------------------------------
\* What a package is run on: when it has a container, the container of each
\* package that is the only producer of one of its inputs, in this scan, has exited
\* with 0, unless the user has ended that run with a signal.
InputsAreProduced ==
  \A p \in Range(started) :
    container[p] # "none" =>
      \A d \in interface[p].inputs, w \in Packages :
        /\ {q \in Packages : d \in interface[q].outputs} = {w}
        /\ names[w] # names[p]
        => \E q \in Packages : /\ names[q] = names[w]
                               /\ container[q] = "ok" \/ q \in signalled
=============================================================================
