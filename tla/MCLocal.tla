------------------------------ MODULE MCLocal ------------------------------
(***************************************************************************)
(* What dk does on the developer's machine, for TLC: configuration, the    *)
(* local stack, and runs of the packages in a directory.  The three share  *)
(* no state, so a behaviour is of one of them, chosen at the start.        *)
(***************************************************************************)
EXTENDS Config, DevStack, PipelineGraph, TLC

VARIABLE part    \* "config", "stack" or "graph"

allVars == <<configVars, devVars, graphVars, part>>

\* Constant definitions of the instance: two scopes, a static key with a default
\* and one without, and two entries, one of which has two fields.
MCScopes == <<"repo", "user">>
MCStaticKeys == {"dev.workspace", "dev.k3d.clusterName"}
MCDynamicKeys == {<<"pg", "image">>, <<"chart", "version">>, <<"chart", "values">>}
MCTexts == [s \in {"repo", "user"} |-> IF s = "repo" THEN {"r"} ELSE {"u"}]

\* Two releases of dk.
MCRelease == [p \in {"p", "q"} |-> IF p = "p" THEN "old" ELSE "new"]

\* Packages met in and against alphabetical order, and two of one name; each
\* writes one dataset at most.
MCNamings == {<<1, 2, 3>>, <<3, 1, 2>>, <<2, 1, 1>>}
MCInterfaces == [inputs : SUBSET Datasets, outputs : {{}} \cup {{d} : d \in Datasets}]

\* The parts that a behaviour is not of stay in an initial state.
Init ==
  /\ part \in {"config", "stack", "graph"}
  /\ part # "config" => files = [s \in ConfigScope |-> NoFile] /\ malformed = {}
  /\ part # "graph" =>
       /\ names = [p \in Packages |-> p]
       /\ interface = [p \in Packages |-> [inputs |-> {}, outputs |-> {}]]
  /\ ConfigInit /\ DevInit /\ GraphInit

Next ==
  \/ part = "config" /\ ConfigNext /\ UNCHANGED <<devVars, graphVars, part>>
  \/ part = "stack" /\ DevNext /\ UNCHANGED <<configVars, graphVars, part>>
  \/ part = "graph" /\ GraphNext /\ UNCHANGED <<configVars, devVars, part>>

\* dk config processes differ in nothing but their name.
Symmetry == Permutations(Commanders)

Spec == Init /\ [][Next]_allVars
=============================================================================
