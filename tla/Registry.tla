------------------------------ MODULE Registry ------------------------------
(***************************************************************************)
(* What publishing promises, whatever its steps: a tag of the registry     *)
(* names nothing or one whole artifact, and goes from one to the other at  *)
(* once.  An artifact is released under a tag only if a publisher offers   *)
(* it for that very tag, and a tag never vanishes.                         *)
(***************************************************************************)
CONSTANTS
  Tags,        \* versions
  Nothing      \* what a tag names before anything is published

VARIABLES
  named,       \* what each tag names
  offers       \* pairs of a tag and the artifact that a publisher offers for it

registryVars == <<named, offers>>

RegistryInit ==
  /\ named = [t \in Tags |-> Nothing]
  /\ offers = {}

\* A publisher has an artifact ready, or gives up.
Offer ==
  /\ \E o \in offers' : o[1] \in Tags /\ o[2] # Nothing /\ offers' = offers \cup {o}
  /\ UNCHANGED named

Withdraw ==
  /\ \E o \in offers : offers' = offers \ {o}
  /\ UNCHANGED named

Release ==
  \E o \in offers :
    /\ named' = [named EXCEPT ![o[1]] = o[2]]
    /\ offers' = offers \ {o}

RegistrySpec == RegistryInit /\ [][Offer \/ Withdraw \/ Release]_registryVars
=============================================================================
