---------------------------- MODULE PipelineGraph ----------------------------
(***************************************************************************)
(* The graph of transforms and datasets (sdk/pipeline/graph.go) and        *)
(* dk run --scan-dir, which runs the transforms it finds one after the     *)
(* other in the graph's order (runMultiTransform in cli/cmd/run.go).       *)
(*                                                                         *)
(* Packages are numbered in the order in which the scan meets their        *)
(* dk.yaml; the names of transforms are numbers too, in alphabetical       *)
(* order.  Nothing prevents two packages from having one name, two         *)
(* transforms from producing one dataset, or a cycle.                      *)
(***************************************************************************)
EXTENDS Naturals, Sequences, SequencesExt, FiniteSets, Graphs

CONSTANTS
  NumPackages,
  Namings,      \* the name of each package: sequences of numbers
  Datasets,
  Interfaces    \* what packages read and write: records of two sets

Packages == 1..NumPackages

ASSUME PipelineGraphAssumption ==
  /\ NumPackages \in Nat /\ IsFiniteSet(Datasets)
  /\ Namings \subseteq [Packages -> Nat]
  /\ Interfaces \subseteq [inputs : SUBSET Datasets, outputs : SUBSET Datasets]

VARIABLES
  names, interface,   \* the manifests that scanManifests finds
  plan,               \* packages still to be run, in order
  started,            \* the packages that were run, in order
  outcome,            \* how each of them ended
  graphPc             \* "start", "next", "running", "summary", "done" or "failed"

graphVars == <<names, interface, plan, started, outcome, graphPc>>

-----------------------------------------------------------------------------
(* graph.go. *)

Transform(n) == <<"transform", n>>
Dataset(d) == <<"dataset", d>>
Names == Range(names)

\* A dataset without a manifest is a node as well.
BuildGraph ==
  [node |-> {Transform(n) : n \in Names} \cup {Dataset(d) : d \in Datasets},
   edge |-> UNION {{<<Dataset(d), Transform(names[p])>> : d \in interface[p].inputs}
                     \cup {<<Transform(names[p]), Dataset(d)>> : d \in interface[p].outputs} :
                   p \in Packages}]

\* Mutant: what the destination leads to.
filterToDestinationForward(dest) ==
  LET graph == BuildGraph
      keep[n \in Nat] ==
        IF n = 0 THEN {dest}
        ELSE LET kept == keep[n - 1] IN kept \cup AllSuccessors(graph, kept)
  IN keep[Cardinality(graph.node)]

\* The nodes that a search backward from the destination meets.
filterToDestination(dest) ==
  LET graph == BuildGraph
      keep[n \in Nat] ==
        IF n = 0 THEN {dest}
        ELSE LET kept == keep[n - 1] IN kept \cup AllPredecessors(graph, kept)
  IN keep[Cardinality(graph.node)]

\* producedBy: the last edge to a dataset says who produces it; the others that
\* do are forgotten.
Producers(d) ==
  LET writers == {p \in Packages : d \in interface[p].outputs}
  IN {names[p] : p \in {w \in writers : \A v \in writers : v <= w}}

\* The names that the packages of one name depend on.
Deps(n) ==
  (UNION {Producers(d) : d \in UNION {interface[p].inputs : p \in {q \in Packages : names[q] = n}}})
    \ {n}

\* Mutant: a dependency counts once for every dataset that makes it.
TopologicalSortByEdges ==
  LET degree(n) == {e \in Deps(n) \X Datasets :
                      /\ e[1] \in Producers(e[2])
                      /\ \E p \in Packages : names[p] = n /\ e[2] \in interface[p].inputs}
      order[k \in Nat] ==
        IF k = 0 THEN <<>>
        ELSE LET before == order[k - 1]
                 out == Range(before)
                 queue == {n \in Names \ out : Cardinality(degree(n)) = Cardinality(Deps(n) \cap out)}
             IN IF queue = {} THEN before
                ELSE Append(before, CHOOSE n \in queue : \A m \in queue : n <= m)
  IN order[Cardinality(Names)]

\* Kahn's algorithm with a sorted queue: the least of the names all of whose
\* dependencies are out is the next one.  On a cycle and behind it none ever is.
TopologicalSort ==
  LET order[k \in Nat] ==
        IF k = 0 THEN <<>>
        ELSE LET before == order[k - 1]
                 out == Range(before)
                 queue == {n \in Names \ out : Deps(n) \subseteq out}
             IN IF queue = {} THEN before
                ELSE Append(before, CHOOSE n \in queue : \A m \in queue : n <= m)
  IN order[Cardinality(Names)]

\* One directory for each name; of packages with one name it is any.
TransformDirs ==
  {dirs \in [DOMAIN TopologicalSort -> Packages] :
     \A i \in DOMAIN dirs : names[dirs[i]] = TopologicalSort[i]}

-----------------------------------------------------------------------------
(* runMultiTransform. *)

GraphInit ==
  /\ names \in Namings
  /\ interface \in [Packages -> Interfaces]
  /\ plan = <<>> /\ started = <<>>
  /\ outcome = [p \in Packages |-> "none"]
  /\ graphPc = "start"

Plan ==
  /\ graphPc = "start"
  /\ plan' \in TransformDirs
  /\ graphPc' = "next"
  /\ UNCHANGED <<names, interface, started, outcome>>

StartNext ==
  /\ graphPc = "next" /\ plan # <<>>
  /\ started' = Append(started, Head(plan))
  /\ plan' = Tail(plan)
  /\ graphPc' = "running"
  /\ UNCHANGED <<names, interface, outcome>>

\* How the run of a package ends.  DockerRunner.Run never says that it failed
\* without an error, so that the loop's case for that status is never taken.
Ends(result, next) ==
  /\ graphPc = "running"
  /\ outcome' = [outcome EXCEPT ![Last(started)] = result]
  /\ graphPc' = next
  /\ UNCHANGED <<names, interface, plan, started>>

\* Also a dry run, and a streaming transform that is interrupted: the loop goes on.
Completes == Ends("completed", "next")

\* Mutant: the loop goes on.
FailsAndGoesOn == Ends("error", "next")

\* Creating the runner, or Run: the loop ends.
Fails == Ends("error", "summary")

Summary ==
  /\ graphPc = "summary" \/ (graphPc = "next" /\ plan = <<>>)
  /\ graphPc' = IF \E p \in Packages : outcome[p] = "error" THEN "failed" ELSE "done"
  /\ UNCHANGED <<names, interface, plan, started, outcome>>

GraphNext == Plan \/ StartNext \/ Completes \/ Fails \/ Summary

GraphSpec == GraphInit /\ [][GraphNext]_graphVars

-----------------------------------------------------------------------------
(* Properties. *)

\* The transforms that are on a cycle or behind one: each of a set of them depends
\* on one in the set.
Blocked == UNION {C \in SUBSET Names : \A n \in C : Deps(n) \cap C # {}}

\* "Transforms that appear earlier can be run before those that appear later":
\* every transform comes once and after all that it depends on, but for those on
\* a cycle or behind one, which do not come at all.
OrderIsTopological ==
  graphPc = "next" /\ started = <<>> =>
  LET order == TopologicalSort
  IN /\ IsInjective(order)
     /\ Range(order) = Names \ Blocked
     /\ \A i, j \in DOMAIN order : order[i] \in Deps(order[j]) => i < j

\* dk pipeline show <dataset>: the graph "leading to" it is the least that has it
\* and all that leads to what it has.
FilterKeepsAncestors ==
  graphPc = "next" /\ started = <<>> =>
    LET graph == BuildGraph
    IN \A node \in graph.node :
         LET leading == {K \in SUBSET graph.node : node \in K /\ AllPredecessors(graph, K) \subseteq K}
             kept == filterToDestination(node)
         IN kept \in leading /\ \A K \in leading : kept \subseteq K

\* "Stop on first failure - downstream transforms depend on this one": when a
\* package is run, each of its inputs that exactly one package produces, and that
\* of another name, has been produced in this run, successfully.
RunsOnFreshData ==
  \A i \in DOMAIN started :
    \A d \in interface[started[i]].inputs, w \in Packages :
      /\ {p \in Packages : d \in interface[p].outputs} = {w}
      /\ names[w] # names[started[i]]
      => \E j \in 1..(i - 1) : names[started[j]] = names[w] /\ outcome[started[j]] = "completed"

\* A run that reports no failure has run every package successfully, but for
\* those whose names are blocked or also those of other packages.
DoneMeansAll ==
  graphPc = "done" =>
    \A p \in Packages :
      \/ outcome[p] = "completed"
      \/ names[p] \in Blocked
      \/ \E q \in Packages \ {p} : names[q] = names[p]

\* Both: a run of several packages stops at what has failed, and reports success
\* only of the whole.
MultiRunIsSound == RunsOnFreshData /\ DoneMeansAll
=============================================================================
