------------------------- MODULE PackageDeployment -------------------------
(***************************************************************************)
(* The Kubernetes controller of PackageDeployment objects:                 *)
(* platform/controller/internal/controller.  Users (ArgoCD, kubectl)       *)
(* write the objects' specs in the API server; every replica of the        *)
(* controller reads them from its own informer cache, which lags behind,   *)
(* and writes their status back with the resource version it has read.     *)
(*                                                                         *)
(* One Reconcile call is two steps, because other writers act between its  *)
(* Get and its Status().Update: BeginReconcile reads the cache, and one of *)
(* StatusCommitted, StatusError or StatusReplyLost ends it.  A handler     *)
(* that writes nothing is a single step.                                   *)
(*                                                                         *)
(* The work queue, the delayed adds and the informer are those of          *)
(* controller-runtime, as SetupWithManager configures it: For() without    *)
(* predicates, one worker, so each event of an object enqueues its name.   *)
(***************************************************************************)
EXTENDS Naturals, FiniteSets

CONSTANTS
  Deployments,   \* names of PackageDeployment objects
  Replicas,      \* running controller processes (leader election is a flag)
  Specs,         \* the specs users write: a subset of SpecType
  MaxWrites,     \* bound: specs users write, in total; none are deleted after
  MaxRestarts    \* bound: controller restarts, in total

(***************************************************************************)
(* What the handlers look at in a PackageDeploymentSpec: whether package   *)
(* name and version are both set, the mode, whether a cron expression is   *)
(* set and whether the schedule is suspended.                              *)
(***************************************************************************)
SpecType == [named : BOOLEAN, mode : {"", "batch", "streaming"},
             cron : BOOLEAN, suspend : BOOLEAN]

ASSUME SpecsAssumption == Specs \subseteq SpecType /\ Specs # {}
ASSUME BoundsAssumption == MaxWrites \in Nat /\ MaxRestarts \in Nat

\* "Absent" stands for an object that is not there.
Phases == {"Absent", "", "Pending", "Pulling", "Ready", "Running", "Failed"}

Reasons == {"None", "ValidationFailed", "Pulling", "PackageReady",
            "GenerationFailed", "JobRunning", "DeploymentRunning"}

(***************************************************************************)
(* A stored object.  The rv of an absent one is that of its deletion.      *)
(* gen, obsGen, reason and condGen are metadata.generation,                *)
(* status.observedGeneration and the reason and observedGeneration of the  *)
(* Ready condition.                                                        *)
(***************************************************************************)
Object == [rv : Nat, gen : Nat, spec : Specs, phase : Phases,
           obsGen : Nat, reason : Reasons, condGen : Nat]

Live(o) == o.phase # "Absent"

NoStatus(phase, rv, gen, s) ==
  [rv |-> rv, gen |-> gen, spec |-> s, phase |-> phase,
   obsGen |-> 0, reason |-> "None", condGen |-> 0]

Created(rv, s) == NoStatus("", rv, 1, s)

AnySpec == CHOOSE s \in Specs : TRUE
Absent(rv) == NoStatus("Absent", rv, 0, AnySpec)

VARIABLES
  api,       \* the API server: Deployments -> Object
  cache,     \* each replica's informer cache: Replicas -> Deployments -> Object
  queue,     \* each replica's work queue, a set of names
  timer,     \* names with a delayed add pending (RequeueAfter, retry back-off)
  work,      \* the name each replica is reconciling: at most one
  copy,      \* the object its Get returned
  applied,   \* history: <<generation, spec>> pairs of each live object
  writes,    \* specs users have written so far
  restarts   \* restarts so far

vars == <<api, cache, queue, timer, work, copy, applied, writes, restarts>>

Init ==
  /\ api = [d \in Deployments |-> Absent(0)]
  /\ cache = [r \in Replicas |-> api]
  /\ queue = [r \in Replicas |-> {}]
  /\ timer = [r \in Replicas |-> {}]
  /\ work = [r \in Replicas |-> {}]
  /\ copy = [r \in Replicas |-> Absent(0)]
  /\ applied = [d \in Deployments |-> {}]
  /\ writes = 0
  /\ restarts = 0

-----------------------------------------------------------------------------
(* The handlers: what each does to an object with spec s. *)

\* What a handler does: it updates the status to phase and reason, or returns
\* without an update; then it asks to be called again, or is done.
Update(phase, reason, then) == [phase |-> phase, reason |-> reason, then |-> then]
NoUpdate(then) == [phase |-> "Same", reason |-> "None", then |-> then]

\* The guards of the workload generators.
JobGeneratorFails(s) == s.mode = "streaming"
CronJobGeneratorFails(s) == s.mode = "streaming" \/ ~s.cron
DeploymentGeneratorFails(s) == s.mode # "streaming"

HandlePending(s) ==
  IF s.named THEN Update("Pulling", "Pulling", "requeue")
             ELSE Update("Failed", "ValidationFailed", "done")

HandlePulling(s) ==
  Update("Ready", "PackageReady",
         IF s.cron /\ ~s.suspend THEN "requeue" ELSE "done")

HandleStreamingDeployment(s) ==
  IF DeploymentGeneratorFails(s)
    THEN Update("Failed", "GenerationFailed", "done")
    ELSE Update("Running", "DeploymentRunning", "requeue")

HandleBatchDeployment(s) ==
  CASE s.cron /\ s.suspend -> NoUpdate("done")
    [] s.cron /\ ~s.suspend ->
         IF CronJobGeneratorFails(s)
           THEN Update("Failed", "GenerationFailed", "done")
           ELSE NoUpdate("done")
    [] OTHER ->
         IF JobGeneratorFails(s)
           THEN Update("Failed", "GenerationFailed", "done")
           ELSE Update("Running", "JobRunning", "requeue")

\* Mutant: an empty mode is no longer taken for batch.
HandleReadyNoDefault(s) ==
  IF s.mode = "batch" THEN HandleBatchDeployment(s)
                      ELSE HandleStreamingDeployment(s)

HandleReady(s) ==
  IF s.mode = "streaming" THEN HandleStreamingDeployment(s)
                          ELSE HandleBatchDeployment(s)

HandleRunning(s) == NoUpdate("requeue")
HandleFailed(s) == NoUpdate("done")

\* Reconcile's switch on the phase.
Handle(o) ==
  CASE o.phase \in {"", "Pending"} -> HandlePending(o.spec)
    [] o.phase = "Pulling" -> HandlePulling(o.spec)
    [] o.phase = "Ready"   -> HandleReady(o.spec)
    [] o.phase = "Running" -> HandleRunning(o.spec)
    [] o.phase = "Failed"  -> HandleFailed(o.spec)

Writes(o) == Handle(o).phase # "Same"
Requeues(o) == Handle(o).then = "requeue"

\* The status as the handler sends it: Reconcile has set observedGeneration,
\* setCondition the Ready condition with the generation of the object read.
NewStatus(o) ==
  [phase |-> Handle(o).phase, reason |-> Handle(o).reason,
   obsGen |-> o.gen, condGen |-> o.gen]

-----------------------------------------------------------------------------
(* Users. *)

\* kubectl apply of a manifest with spec s.  Applying the same spec again
\* changes nothing and is not an action.
Apply(d, s) ==
  /\ writes < MaxWrites
  /\ \/ /\ ~Live(api[d])
        /\ api' = [api EXCEPT ![d] = Created(@.rv + 1, s)]
        /\ applied' = [applied EXCEPT ![d] = {<<1, s>>}]
     \/ /\ Live(api[d])
        /\ s # api[d].spec
        /\ api' = [api EXCEPT ![d].rv = @ + 1, ![d].gen = @ + 1, ![d].spec = s]
        /\ applied' = [applied EXCEPT ![d] = @ \cup {<<api[d].gen + 1, s>>}]
  /\ writes' = writes + 1
  /\ UNCHANGED <<cache, queue, timer, work, copy, restarts>>

Delete(d) ==
  /\ writes < MaxWrites
  /\ Live(api[d])
  /\ api' = [api EXCEPT ![d] = Absent(@.rv + 1)]
  /\ applied' = [applied EXCEPT ![d] = {}]
  /\ UNCHANGED <<cache, queue, timer, work, copy, writes, restarts>>

-----------------------------------------------------------------------------
(* The controller. *)

\* The informer of replica r sees the latest version of d and enqueues it.
WatchEvent(r, d) ==
  /\ cache[r][d] # api[d]
  /\ cache' = [cache EXCEPT ![r][d] = api[d]]
  /\ queue' = [queue EXCEPT ![r] = @ \cup {d}]
  /\ UNCHANGED <<api, timer, work, copy, applied, writes, restarts>>

\* A delayed add comes due.
TimerFires(r, d) ==
  /\ d \in timer[r]
  /\ timer' = [timer EXCEPT ![r] = @ \ {d}]
  /\ queue' = [queue EXCEPT ![r] = @ \cup {d}]
  /\ UNCHANGED <<api, cache, work, copy, applied, writes, restarts>>

\* The worker of r takes d from its queue and reads it from the cache.
Dequeue(r, d) ==
  /\ work[r] = {}
  /\ d \in queue[r]
  /\ queue' = [queue EXCEPT ![r] = @ \ {d}]
  /\ UNCHANGED <<api, cache, applied, writes, restarts>>

\* Get does not find the object: IgnoreNotFound, nothing else to do.
ReconcileNotFound(r, d) ==
  /\ Dequeue(r, d)
  /\ ~Live(cache[r][d])
  /\ UNCHANGED <<timer, work, copy>>

\* Mutant: RequeueAfter is left out of the result.
ReconcileNoUpdateOnce(r, d) ==
  /\ Dequeue(r, d)
  /\ Live(cache[r][d])
  /\ ~Writes(cache[r][d])
  /\ UNCHANGED <<timer, work, copy>>

\* The handler for the phase read writes nothing.
ReconcileNoUpdate(r, d) ==
  /\ Dequeue(r, d)
  /\ Live(cache[r][d])
  /\ ~Writes(cache[r][d])
  /\ timer' = [timer EXCEPT ![r] = IF Requeues(cache[r][d])
                                     THEN @ \cup {d} ELSE @]
  /\ UNCHANGED <<work, copy>>

\* Mutant: a Get that finds nothing does not return.
BeginReconcileUnfound(r, d) ==
  /\ Dequeue(r, d)
  /\ Live(cache[r][d]) => Writes(cache[r][d])
  /\ work' = [work EXCEPT ![r] = {d}]
  /\ copy' = [copy EXCEPT ![r] = cache[r][d]]
  /\ UNCHANGED timer

\* The handler for the phase read goes on to Status().Update.
BeginReconcile(r, d) ==
  /\ Dequeue(r, d)
  /\ Live(cache[r][d])
  /\ Writes(cache[r][d])
  /\ work' = [work EXCEPT ![r] = {d}]
  /\ copy' = [copy EXCEPT ![r] = cache[r][d]]
  /\ UNCHANGED timer

EndReconcile(r) ==
  /\ work' = [work EXCEPT ![r] = {}]
  /\ copy' = [copy EXCEPT ![r] = Absent(0)]
  /\ UNCHANGED <<cache, queue, applied, writes, restarts>>

\* Mutant: a patch of the status, which carries no resource version.
UpdateAcceptedUnversioned(d, o) == Live(api[d])

\* Status().Update sends the object it has read, resource version included.
UpdateAccepted(d, o) == Live(api[d]) /\ api[d].rv = o.rv

\* The API server stores a status: the status subresource leaves the spec.
WithStatus(o, status) ==
  [rv |-> o.rv + 1, gen |-> o.gen, spec |-> o.spec, phase |-> status.phase,
   obsGen |-> status.obsGen, reason |-> status.reason,
   condGen |-> status.condGen]

StoreStatus(r, d) ==
  /\ d \in work[r]
  /\ UpdateAccepted(d, copy[r])
  /\ api' = [api EXCEPT ![d] = WithStatus(@, NewStatus(copy[r]))]

StatusCommitted(r, d) ==
  /\ StoreStatus(r, d)
  /\ timer' = [timer EXCEPT ![r] = IF Requeues(copy[r])
                                     THEN @ \cup {d} ELSE @]
  /\ EndReconcile(r)

\* The update is stored but the call fails (a timeout, a cut connection).
StatusReplyLost(r, d) ==
  /\ StoreStatus(r, d)
  /\ timer' = [timer EXCEPT ![r] = @ \cup {d}]
  /\ EndReconcile(r)

\* Mutant: the error of Status().Update is dropped instead of returned.
StatusErrorDropped(r, d) ==
  /\ d \in work[r]
  /\ EndReconcile(r)
  /\ UNCHANGED <<api, timer>>

\* Status().Update fails, on a conflict or for any other reason: Reconcile
\* returns the error and the name is added again after a back-off.
StatusError(r, d) ==
  /\ d \in work[r]
  /\ timer' = [timer EXCEPT ![r] = @ \cup {d}]
  /\ EndReconcile(r)
  /\ UNCHANGED api

\* The process restarts: it lists every object, and its queue holds the names.
Restart(r) ==
  /\ restarts < MaxRestarts
  /\ restarts' = restarts + 1
  /\ cache' = [cache EXCEPT ![r] = api]
  /\ queue' = [queue EXCEPT ![r] = {d \in Deployments : Live(api[d])}]
  /\ timer' = [timer EXCEPT ![r] = {}]
  /\ work' = [work EXCEPT ![r] = {}]
  /\ copy' = [copy EXCEPT ![r] = Absent(0)]
  /\ UNCHANGED <<api, applied, writes>>

Next ==
  \/ \E d \in Deployments, s \in Specs : Apply(d, s)
  \/ \E d \in Deployments : Delete(d)
  \/ \E r \in Replicas, d \in Deployments :
       \/ WatchEvent(r, d)
       \/ TimerFires(r, d)
       \/ ReconcileNotFound(r, d)
       \/ ReconcileNoUpdate(r, d)
       \/ BeginReconcile(r, d)
       \/ StatusCommitted(r, d)
       \/ StatusReplyLost(r, d)
       \/ StatusError(r, d)
  \/ \E r \in Replicas : Restart(r)

Spec == Init /\ [][Next]_vars

(***************************************************************************)
(* Fairness: the informer delivers, delayed adds come due, the work queue  *)
(* is first-in first-out, so that no name waits for ever behind others,    *)
(* every API call returns, and an update that is retried with an           *)
(* up-to-date object again and again is at last stored and acknowledged.   *)
(* Users and restarts are not fair.                                        *)
(***************************************************************************)
Reconcile(r, d) ==
  ReconcileNotFound(r, d) \/ ReconcileNoUpdate(r, d) \/ BeginReconcile(r, d)

UpdateReturns(r, d) ==
  StatusCommitted(r, d) \/ StatusReplyLost(r, d) \/ StatusError(r, d)

Fairness ==
  \A r \in Replicas, d \in Deployments :
    /\ WF_vars(WatchEvent(r, d))
    /\ WF_vars(TimerFires(r, d))
    /\ SF_vars(Reconcile(r, d))
    /\ WF_vars(UpdateReturns(r, d))
    /\ SF_vars(StatusCommitted(r, d))

FairSpec == Spec /\ Fairness

-----------------------------------------------------------------------------
(* Properties. *)

\* Every variable holds values of its kind; a replica reconciles one object at
\* a time, and its copy is a live object exactly while it does.
TypeOK ==
  /\ api \in [Deployments -> Object]
  /\ cache \in [Replicas -> [Deployments -> Object]]
  /\ queue \in [Replicas -> SUBSET Deployments]
  /\ timer \in [Replicas -> SUBSET Deployments]
  /\ work \in [Replicas -> SUBSET Deployments]
  /\ copy \in [Replicas -> Object]
  /\ applied \in [Deployments -> SUBSET (Nat \X Specs)]
  /\ writes \in 0..MaxWrites
  /\ restarts \in 0..MaxRestarts
  /\ \A r \in Replicas : \A d1, d2 \in work[r] : d1 = d2
  /\ \A r \in Replicas : Live(copy[r]) <=> work[r] # {}

\* What a reason says of the spec it was computed from.
Justified(reason, s) ==
  CASE reason = "ValidationFailed"  -> ~s.named
    [] reason = "Pulling"           -> s.named
    [] reason = "PackageReady"      -> TRUE
    [] reason = "JobRunning"        -> s.mode # "streaming" /\ ~s.cron
    [] reason = "DeploymentRunning" -> s.mode = "streaming"
    [] OTHER                        -> FALSE

PhaseOf(reason) ==
  CASE reason = "None" -> ""
    [] reason = "Pulling" -> "Pulling"
    [] reason = "PackageReady" -> "Ready"
    [] reason \in {"ValidationFailed", "GenerationFailed"} -> "Failed"
    [] reason \in {"JobRunning", "DeploymentRunning"} -> "Running"

\* The status a user reads is one the controller has truly established: phase
\* and Ready condition agree, the generation the condition names is one this
\* object (not an earlier object of the same name) has had, observedGeneration
\* is that same generation, and the spec of that generation justifies the
\* reason: JobRunning only for an unscheduled batch spec, DeploymentRunning only
\* for a streaming one.  In particular the workload generators' own guards
\* never fail, since handleReady dispatches on the mode they check.
StatusIsTruthful ==
  \A d \in Deployments : Live(api[d]) =>
    /\ api[d].phase = PhaseOf(api[d].reason)
    /\ api[d].obsGen = api[d].condGen
    /\ api[d].reason # "None" =>
         \E s \in Specs : /\ <<api[d].condGen, s>> \in applied[d]
                          /\ Justified(api[d].reason, s)

\* A handler that would still act on the object: write its status or ask for
\* another call.
Wanted(o) == Live(o) /\ (Writes(o) \/ Requeues(o))

\* No wake-up is lost: as long as an object wants a reconciliation, every
\* replica has its name in the queue, under way or in a delayed add, or has an
\* event of it still to receive - whatever conflicts, errors, lost replies,
\* deletions, re-creations and restarts have happened.
NoLostWakeup ==
  \A r \in Replicas, d \in Deployments :
    Wanted(api[d]) => \/ d \in queue[r] \cup timer[r] \cup work[r]
                      \/ cache[r][d] # api[d]

\* An object as its users see it.
Seen(o) ==
  IF Live(o)
  THEN [spec |-> o.spec, gen |-> o.gen, phase |-> o.phase, reason |-> o.reason,
        seen |-> o.obsGen]
  ELSE [phase |-> "Absent"]

L == INSTANCE Lifecycle WITH objects <- [d \in Deployments |-> Seen(api[d])]

\* However many replicas there are and however stale their caches, lost their replies
\* and frequent their retries and restarts, users see an object go forward as if one
\* process acted on it in single steps: never on a spec that is no longer the
\* object's, never back, never twice, and never across a deletion.
FollowsLifecycle == L!LifecycleSpec

\* Where an object may stay: running, failed, or ready with a schedule, which
\* the code leaves to a CronJob it does not create yet.
Settled(o) == ~Live(o) \/ o.phase \in {"Running", "Failed"}
                      \/ (o.phase = "Ready" /\ o.spec.cron)

\* Once users stop writing, every object settles and stays so.
EventuallySettles == \A d \in Deployments : <>[]Settled(api[d])

\* "ObservedGeneration is the last observed generation": once users stop
\* writing, the status of every object names its current generation.
ObservedGenerationCatchesUp ==
  \A d \in Deployments : <>[](Live(api[d]) => api[d].obsGen = api[d].gen)
=============================================================================
