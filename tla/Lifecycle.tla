----------------------------- MODULE Lifecycle -----------------------------
(***************************************************************************)
(* What the controller promises of PackageDeployment objects, whatever its *)
(* replicas, caches, retries and restarts: that it works as if it were one *)
(* process which acts, in a single step, on the object as it is.  An       *)
(* object goes forward one phase at a time, for a reason that its present  *)
(* spec gives, and says which generation that was.                         *)
(***************************************************************************)
EXTENDS Naturals

CONSTANTS
  Deployments,   \* names of objects
  Specs          \* the specs that users write

VARIABLE objects   \* what each name stands for: an object, or Gone

Gone == [phase |-> "Absent"]
New(s) == [spec |-> s, gen |-> 1, phase |-> "", reason |-> "None", seen |-> 0]

LifecycleInit == objects = [d \in Deployments |-> Gone]

Create(d, s) ==
  /\ objects[d] = Gone
  /\ objects' = [objects EXCEPT ![d] = New(s)]

\* A change of the spec leaves the status.
Change(d, s) ==
  /\ objects[d] # Gone
  /\ objects' = [objects EXCEPT ![d].spec = s, ![d].gen = @ + 1]

Remove(d) ==
  /\ objects[d] # Gone
  /\ objects' = [objects EXCEPT ![d] = Gone]

Advance(d) ==
  LET o == objects[d]
      To(phase, reason) ==
        objects' = [objects EXCEPT ![d].phase = phase, ![d].reason = reason,
                                   ![d].seen = o.gen]
  IN \/ o.phase = "" /\ o.spec.named /\ To("Pulling", "Pulling")
     \/ o.phase = "" /\ ~o.spec.named /\ To("Failed", "ValidationFailed")
     \/ o.phase = "Pulling" /\ To("Ready", "PackageReady")
     \/ o.phase = "Ready" /\ o.spec.mode = "streaming" /\ To("Running", "DeploymentRunning")
     \/ o.phase = "Ready" /\ o.spec.mode # "streaming" /\ ~o.spec.cron
          /\ To("Running", "JobRunning")

LifecycleNext ==
  \E d \in Deployments :
    \/ \E s \in Specs : Create(d, s) \/ Change(d, s)
    \/ Remove(d)
    \/ Advance(d)

LifecycleSpec == LifecycleInit /\ [][LifecycleNext]_objects
=============================================================================
