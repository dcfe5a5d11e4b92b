---------------------- MODULE PackageDeploymentProofs ----------------------
(***************************************************************************)
(* Proofs about PackageDeployment, for any number of objects, replicas,    *)
(* writes and restarts.  The inductive invariant says that a copy of an    *)
(* object, in a cache or in a worker's hands, is never newer than the      *)
(* object and is the object itself when the resource versions agree.       *)
(***************************************************************************)
EXTENDS PackageDeployment, TLAPS

\* Copy o of object p is p itself or an older version of it.
OldCopy(o, p) == o.rv <= p.rv /\ (o.rv = p.rv => o = p)

CopiesAreOld ==
  \A r \in Replicas, d \in Deployments :
    /\ OldCopy(cache[r][d], api[d])
    /\ d \in work[r] => OldCopy(copy[r], api[d])

\* The history holds the current generation of every object.
AppliedIsCurrent ==
  \A d \in Deployments :
    Live(api[d]) => <<api[d].gen, api[d].spec>> \in applied[d]

\* A copy in a worker's hands is of an object its handler writes.
CopiesAreWritten == \A r \in Replicas : Live(copy[r]) => Writes(copy[r])

IInv ==
  /\ TypeOK
  /\ CopiesAreOld
  /\ AppliedIsCurrent
  /\ CopiesAreWritten
  /\ StatusIsTruthful

-----------------------------------------------------------------------------
(* The handlers. *)

\* An absent object and a new one have the type of an object.
LEMMA AbsentType ==
  ASSUME NEW rv \in Nat
  PROVE  Absent(rv) \in Object /\ Absent(rv).rv = rv /\ ~Live(Absent(rv))
<1>1. AnySpec \in Specs
  BY SpecsAssumption DEF AnySpec
<1>2. QED
  BY <1>1 DEF Absent, NoStatus, Live, Object, Phases, Reasons

\* A new object has the type of an object.
LEMMA CreatedType ==
  ASSUME NEW rv \in Nat, NEW s \in Specs
  PROVE  Created(rv, s) \in Object /\ Created(rv, s).rv = rv
  BY DEF Created, NoStatus, Object, Phases, Reasons

\* An update that sends object o forward as the life cycle allows it.
GoesForward(o, update) ==
  \/ /\ o.phase = "" /\ o.spec.named
     /\ update.phase = "Pulling" /\ update.reason = "Pulling"
  \/ /\ o.phase = "" /\ ~o.spec.named
     /\ update.phase = "Failed" /\ update.reason = "ValidationFailed"
  \/ /\ o.phase = "Pulling"
     /\ update.phase = "Ready" /\ update.reason = "PackageReady"
  \/ /\ o.phase = "Ready" /\ o.spec.mode = "streaming"
     /\ update.phase = "Running" /\ update.reason = "DeploymentRunning"
  \/ /\ o.phase = "Ready" /\ o.spec.mode # "streaming" /\ ~o.spec.cron
     /\ update.phase = "Running" /\ update.reason = "JobRunning"

\* What Reconcile's switch and its handlers do with an object whose status is
\* truthful: an update sends it forward, and GenerationFailed is never reached.
LEMMA HandleUpdates ==
  ASSUME NEW o \in Object, Writes(o), o.phase \notin {"Pending", "Absent"}
  PROVE  GoesForward(o, Handle(o))
<1>1. o.spec \in SpecType /\ o.phase \in Phases
  BY SpecsAssumption DEF Object
<1>2. CASE o.phase = ""
  BY <1>1, <1>2 DEF Handle, HandlePending, Update, GoesForward, SpecType
<1>3. CASE o.phase = "Pulling"
  BY <1>3 DEF Handle, HandlePulling, Update, GoesForward
<1>4. CASE o.phase = "Ready"
  <2>1. Handle(o) = HandleReady(o.spec)
    BY <1>4 DEF Handle
  <2>2. CASE o.spec.mode = "streaming"
    <3>1. Handle(o) = Update("Running", "DeploymentRunning", "requeue")
      BY <2>1, <2>2 DEF HandleReady, HandleStreamingDeployment,
                        DeploymentGeneratorFails
    <3>2. QED
      BY <1>4, <2>2, <3>1 DEF Update, GoesForward
  <2>3. CASE o.spec.mode # "streaming" /\ o.spec.cron
    <3>1. Handle(o) = NoUpdate("done")
      BY <1>1, <2>1, <2>3 DEF HandleReady, HandleBatchDeployment,
                              CronJobGeneratorFails, SpecType
    <3>2. QED
      BY <3>1 DEF NoUpdate, Writes
  <2>4. CASE o.spec.mode # "streaming" /\ ~o.spec.cron
    <3>1. Handle(o) = Update("Running", "JobRunning", "requeue")
      BY <1>1, <2>1, <2>4 DEF HandleReady, HandleBatchDeployment,
                              JobGeneratorFails, SpecType
    <3>2. QED
      BY <1>4, <2>4, <3>1 DEF Update, GoesForward
  <2>5. QED
    BY <1>1, <2>2, <2>3, <2>4 DEF SpecType
<1>5. CASE o.phase \in {"Running", "Failed"}
  BY <1>5 DEF Handle, HandleRunning, HandleFailed, NoUpdate, Writes
<1>6. QED
  BY <1>1, <1>2, <1>3, <1>4, <1>5 DEF Phases

\* An update that sends an object forward gives a reason that goes with the
\* phase and that the spec of the object justifies.
LEMMA ForwardIsTruthful ==
  ASSUME NEW o, NEW update, GoesForward(o, update)
  PROVE  /\ update.phase \in Phases \ {"Absent"}
         /\ update.reason \in Reasons \ {"None"}
         /\ update.phase = PhaseOf(update.reason)
         /\ Justified(update.reason, o.spec)
  BY DEF GoesForward, Phases, Reasons, PhaseOf, Justified

-----------------------------------------------------------------------------
(* The inductive invariant, group of actions by group of actions. *)

\* No object is there at first, so the invariant holds of nothing.
LEMMA InitIInv == Init => IInv
<1> SUFFICES ASSUME Init PROVE IInv
  OBVIOUS
<1>1. Absent(0) \in Object /\ Absent(0).rv = 0 /\ ~Live(Absent(0))
  BY AbsentType
<1>2. TypeOK
  BY <1>1, BoundsAssumption DEF Init, TypeOK
<1>3. CopiesAreOld /\ AppliedIsCurrent /\ CopiesAreWritten /\ StatusIsTruthful
  BY <1>1 DEF Init, CopiesAreOld, OldCopy, AppliedIsCurrent, CopiesAreWritten,
              StatusIsTruthful
<1>4. QED
  BY <1>2, <1>3 DEF IInv

\* A write by a user gives the object a new version.
LEMMA UserVersion ==
  ASSUME IInv, NEW d \in Deployments,
         (\E s \in Specs : Apply(d, s)) \/ Delete(d)
  PROVE  api'[d].rv = api[d].rv + 1
<1>1. api \in [Deployments -> Object] /\ api[d].rv \in Nat
  BY DEF IInv, TypeOK, Object
<1>2. CASE Delete(d)
  <2>1. api[d].rv + 1 \in Nat /\ api'[d] = Absent(api[d].rv + 1)
    BY <1>1, <1>2 DEF Delete
  <2>2. QED
    BY <2>1, AbsentType
<1>3. ASSUME NEW s \in Specs, Apply(d, s), ~Live(api[d])
      PROVE  api'[d].rv = api[d].rv + 1
  <2>1. api'[d] = Created(api[d].rv + 1, s)
    BY <1>1, <1>3 DEF Apply
  <2>2. api[d].rv + 1 \in Nat
    BY <1>1
  <2>3. QED
    BY <2>1, <2>2, CreatedType
<1>4. ASSUME NEW s \in Specs, Apply(d, s), Live(api[d])
      PROVE  api'[d].rv = api[d].rv + 1
  <2>1. api'[d] = [api[d] EXCEPT !.rv = @ + 1, !.gen = @ + 1, !.spec = s]
    BY <1>1, <1>4 DEF Apply
  <2>2. QED
    BY <1>1, <2>1 DEF Object
<1>5. QED
  BY <1>2, <1>3, <1>4

\* A write by a user makes every copy of the object old.
LEMMA UserIInv ==
  ASSUME IInv, NEW d \in Deployments,
         (\E s \in Specs : Apply(d, s)) \/ Delete(d)
  PROVE  IInv'
<1>1. PICK o \in Object :
        /\ api' = [api EXCEPT ![d] = o]
        /\ o.rv = api[d].rv + 1
        /\ Live(o) =>
             /\ <<o.gen, o.spec>> \in applied'[d]
             /\ \/ /\ o.phase = "" /\ o.reason = "None"
                   /\ o.obsGen = o.condGen
                \/ /\ Live(api[d])
                   /\ applied[d] \subseteq applied'[d]
                   /\ o.phase = api[d].phase /\ o.reason = api[d].reason
                   /\ o.obsGen = api[d].obsGen /\ o.condGen = api[d].condGen
  <2>1. api[d] \in Object
    BY DEF IInv, TypeOK
  <2>2. CASE \E s \in Specs : Apply(d, s)
    <3>1. PICK s \in Specs : Apply(d, s)
      BY <2>2
    <3>2. CASE ~Live(api[d])
      <4> DEFINE o == Created(api[d].rv + 1, s)
      <4>1. api[d].rv + 1 \in Nat /\ o \in Object
        BY <2>1, CreatedType DEF Object
      <4>2. api' = [api EXCEPT ![d] = o] /\ applied'[d] = {<<1, s>>}
        BY <3>1, <3>2 DEF Apply, IInv, TypeOK
      <4>3. QED
        BY <4>1, <4>2 DEF Created, NoStatus
    <3>3. CASE Live(api[d])
      <4> DEFINE o == [api[d] EXCEPT !.rv = @ + 1, !.gen = @ + 1, !.spec = s]
      <4>1. o \in Object
        <5>1. api[d].rv + 1 \in Nat /\ api[d].gen + 1 \in Nat
          BY <2>1 DEF Object
        <5>2. QED
          BY <2>1, <5>1 DEF Object
      <4>2. /\ api' = [api EXCEPT ![d] = o]
            /\ applied'[d] = applied[d] \cup {<<api[d].gen + 1, s>>}
        BY <3>1, <3>3 DEF Apply, IInv, TypeOK, Object
      <4>3. /\ o.rv = api[d].rv + 1 /\ o.gen = api[d].gen + 1 /\ o.spec = s
            /\ o.phase = api[d].phase /\ o.reason = api[d].reason
            /\ o.obsGen = api[d].obsGen /\ o.condGen = api[d].condGen
        BY <2>1 DEF Object
      <4>4. QED
        BY <3>3, <4>1, <4>2, <4>3
    <3>4. QED
      BY <3>2, <3>3
  <2>3. CASE Delete(d)
    <3> DEFINE o == Absent(api[d].rv + 1)
    <3>1. api[d].rv + 1 \in Nat
      BY <2>1 DEF Object
    <3>. HIDE DEF o
    <3>4. o \in Object /\ o.rv = api[d].rv + 1 /\ ~Live(o)
      BY <3>1, AbsentType DEF o
    <3>2. api' = [api EXCEPT ![d] = o]
      BY <2>3 DEF Delete, o
    <3>3. QED
      BY <3>4, <3>2
  <2>4. QED
    BY <2>2, <2>3
<1>2. /\ UNCHANGED <<cache, queue, timer, work, copy, restarts>>
      /\ writes' \in 0..MaxWrites
  BY BoundsAssumption DEF IInv, TypeOK, Apply, Delete
<1>3. /\ \A e \in Deployments \ {d} : applied'[e] = applied[e]
      /\ applied' \in [Deployments -> SUBSET (Nat \X Specs)]
  <2>1. api[d].gen + 1 \in Nat
    BY DEF IInv, TypeOK, Object
  <2>2. \E a \in SUBSET (Nat \X Specs) : applied' = [applied EXCEPT ![d] = a]
    BY <2>1 DEF IInv, TypeOK, Apply, Delete
  <2>3. QED
    BY <2>2 DEF IInv, TypeOK
<1>4. TypeOK'
  BY <1>1, <1>2, <1>3 DEF IInv, TypeOK
<1>5. CopiesAreOld'
  <2> SUFFICES ASSUME NEW r \in Replicas, NEW e \in Deployments
               PROVE  /\ OldCopy(cache[r][e], api'[e])
                      /\ e \in work[r] => OldCopy(copy[r], api'[e])
    BY <1>2 DEF CopiesAreOld
  <2>1. /\ OldCopy(cache[r][e], api[e])
        /\ e \in work[r] => OldCopy(copy[r], api[e])
    BY DEF IInv, CopiesAreOld
  <2>2. cache[r][e].rv \in Nat /\ copy[r].rv \in Nat /\ api[e].rv \in Nat
    BY DEF IInv, TypeOK, Object
  <2>3. /\ e = d => api'[e].rv = api[e].rv + 1
        /\ e # d => api'[e] = api[e]
    BY <1>1 DEF IInv, TypeOK
  <2>4. CASE e = d
    BY <2>1, <2>2, <2>3, <2>4 DEF OldCopy
  <2>5. CASE e # d
    BY <2>1, <2>3, <2>5
  <2>6. QED
    BY <2>4, <2>5
<1>6. AppliedIsCurrent' /\ CopiesAreWritten'
  BY <1>1, <1>2, <1>3 DEF IInv, TypeOK, AppliedIsCurrent, CopiesAreWritten
<1>7. StatusIsTruthful'
  BY <1>1, <1>2, <1>3 DEF IInv, TypeOK, StatusIsTruthful, PhaseOf
<1>8. QED
  BY <1>4, <1>5, <1>6, <1>7 DEF IInv

\* The steps of the controller that write nothing to the API server only copy
\* objects from it to a cache, or from a cache to a worker: such copying keeps
\* the invariant.
CachesCopied ==
  /\ cache' \in [Replicas -> [Deployments -> Object]]
  /\ \A r \in Replicas, d \in Deployments :
       cache'[r][d] \in {cache[r][d], api[d]}

WorkCopied ==
  /\ work' \in [Replicas -> SUBSET Deployments]
  /\ copy' \in [Replicas -> Object]
  /\ \A r \in Replicas :
       \/ work'[r] = work[r] /\ copy'[r] = copy[r]
       \/ work'[r] = {} /\ ~Live(copy'[r])
       \/ \E d \in Deployments :
            /\ work'[r] = {d} /\ copy'[r] = cache[r][d]
            /\ Live(copy'[r]) /\ Writes(copy'[r])

\* Steps that write nothing in the API server and copy only from it to caches,
\* and from caches to workers, keep the invariant.
LEMMA CopyingIInv ==
  ASSUME IInv, UNCHANGED <<api, applied, writes>>, restarts' \in 0..MaxRestarts,
         queue' \in [Replicas -> SUBSET Deployments],
         timer' \in [Replicas -> SUBSET Deployments],
         CachesCopied, WorkCopied
  PROVE  IInv'
<1>1. TypeOK'
  <2>1. \A q \in Replicas : \A e1, e2 \in work'[q] : e1 = e2
    BY DEF IInv, TypeOK, WorkCopied
  <2>2. \A q \in Replicas : Live(copy'[q]) <=> work'[q] # {}
    BY DEF IInv, TypeOK, WorkCopied
  <2>3. QED
    BY <2>1, <2>2 DEF IInv, TypeOK, CachesCopied, WorkCopied
<1>2. CopiesAreOld'
  <2> SUFFICES ASSUME NEW q \in Replicas, NEW e \in Deployments
               PROVE  /\ OldCopy(cache'[q][e], api[e])
                      /\ e \in work'[q] => OldCopy(copy'[q], api[e])
    BY DEF CopiesAreOld
  <2>1. OldCopy(cache[q][e], api[e]) /\ (e \in work[q] => OldCopy(copy[q], api[e]))
    BY DEF IInv, CopiesAreOld
  <2>2. OldCopy(api[e], api[e])
    BY DEF IInv, TypeOK, Object, OldCopy
  <2>3. OldCopy(cache'[q][e], api[e])
    BY <2>1, <2>2 DEF CachesCopied
  <2>4. e \in work'[q] => OldCopy(copy'[q], api[e])
    BY <2>1 DEF WorkCopied
  <2>5. QED
    BY <2>3, <2>4
<1>3. CopiesAreWritten'
  BY DEF IInv, CopiesAreWritten, WorkCopied
<1>4. AppliedIsCurrent' /\ StatusIsTruthful'
  BY DEF IInv, AppliedIsCurrent, StatusIsTruthful
<1>5. QED
  BY <1>1, <1>2, <1>3, <1>4 DEF IInv

\* The steps of a controller that write nothing keep the invariant.
LEMMA LocalIInv ==
  ASSUME IInv, NEW r \in Replicas, NEW d \in Deployments,
         \/ WatchEvent(r, d) \/ TimerFires(r, d) \/ ReconcileNotFound(r, d)
         \/ ReconcileNoUpdate(r, d) \/ BeginReconcile(r, d)
         \/ StatusError(r, d)
  PROVE  IInv'
<1>1. UNCHANGED <<api, applied, writes, restarts>>
  BY DEF WatchEvent, TimerFires, ReconcileNotFound, Dequeue,
         ReconcileNoUpdate, BeginReconcile, StatusError, EndReconcile
<1>2. /\ queue' \in [Replicas -> SUBSET Deployments]
      /\ timer' \in [Replicas -> SUBSET Deployments]
  <2>1. \E Q \in SUBSET Deployments : queue' = [queue EXCEPT ![r] = Q]
    BY DEF IInv, TypeOK, WatchEvent, TimerFires, ReconcileNotFound, Dequeue,
           ReconcileNoUpdate, BeginReconcile, StatusError, EndReconcile
  <2>2. \E T \in SUBSET Deployments : timer' = [timer EXCEPT ![r] = T]
    BY DEF IInv, TypeOK, WatchEvent, TimerFires, ReconcileNotFound, Dequeue,
           ReconcileNoUpdate, BeginReconcile, StatusError, EndReconcile
  <2>3. QED
    BY <2>1, <2>2 DEF IInv, TypeOK
<1>3. CachesCopied
  <2>1. CASE cache' = cache
    BY <2>1 DEF IInv, TypeOK, CachesCopied
  <2>2. CASE WatchEvent(r, d)
    <3>1. cache' = [cache EXCEPT ![r] = [cache[r] EXCEPT ![d] = api[d]]]
      BY <2>2 DEF WatchEvent
    <3>2. [cache[r] EXCEPT ![d] = api[d]] \in [Deployments -> Object]
      BY DEF IInv, TypeOK
    <3>3. QED
      BY <3>1, <3>2 DEF IInv, TypeOK, CachesCopied
  <2>3. QED
    BY <2>1, <2>2 DEF TimerFires, ReconcileNotFound, Dequeue,
           ReconcileNoUpdate, BeginReconcile, StatusError, EndReconcile
<1>4. WorkCopied
  <2>1. CASE UNCHANGED <<work, copy>>
    BY <2>1 DEF IInv, TypeOK, WorkCopied
  <2>2. CASE BeginReconcile(r, d)
    BY <2>2 DEF IInv, TypeOK, BeginReconcile, WorkCopied
  <2>3. CASE StatusError(r, d)
    <3>1. Absent(0) \in Object /\ ~Live(Absent(0))
      BY AbsentType
    <3>2. QED
      BY <2>3, <3>1 DEF IInv, TypeOK, StatusError, EndReconcile, WorkCopied
  <2>4. QED
    BY <2>1, <2>2, <2>3
       DEF WatchEvent, TimerFires, ReconcileNotFound, ReconcileNoUpdate
<1>5. restarts' \in 0..MaxRestarts
  BY <1>1 DEF IInv, TypeOK
<1>6. QED
  BY <1>1, <1>2, <1>3, <1>4, <1>5, CopyingIInv

\* A controller that restarts reads its cache anew and keeps the invariant.
LEMMA RestartIInv ==
  ASSUME IInv, NEW r \in Replicas, Restart(r)
  PROVE  IInv'
<1>1. Absent(0) \in Object /\ ~Live(Absent(0))
  BY AbsentType
<1>2. CachesCopied
  BY DEF IInv, TypeOK, Restart, CachesCopied
<1>3. WorkCopied
  BY <1>1 DEF IInv, TypeOK, Restart, WorkCopied
<1>4. /\ queue' \in [Replicas -> SUBSET Deployments]
      /\ timer' \in [Replicas -> SUBSET Deployments]
  BY DEF IInv, TypeOK, Restart
<1>5. restarts' \in 0..MaxRestarts
  BY BoundsAssumption DEF IInv, TypeOK, Restart
<1>6. QED
  BY <1>2, <1>3, <1>4, <1>5, CopyingIInv DEF Restart

\* What a stored status is: the resource versions agree, so the copy it was
\* computed from is the object itself.
LEMMA StoreStatusStep ==
  ASSUME IInv, NEW r \in Replicas, NEW d \in Deployments, StoreStatus(r, d)
  PROVE  /\ Live(api[d]) /\ Writes(api[d])
         /\ api' = [api EXCEPT ![d] = WithStatus(api[d], NewStatus(api[d]))]
<1>1. copy[r] = api[d]
  BY DEF IInv, CopiesAreOld, OldCopy, StoreStatus, UpdateAccepted
<1>2. Live(api[d]) /\ Writes(api[d])
  BY <1>1 DEF IInv, TypeOK, CopiesAreWritten, StoreStatus
<1>3. QED
  BY <1>1, <1>2 DEF StoreStatus

\* A Status().Update that is stored keeps the invariant, whether its reply
\* arrives or not.
LEMMA StoreIInv ==
  ASSUME IInv, NEW r \in Replicas, NEW d \in Deployments,
         StatusCommitted(r, d) \/ StatusReplyLost(r, d)
  PROVE  IInv'
<1> DEFINE o == api[d]
           n == WithStatus(o, NewStatus(o))
<1>1. /\ o \in Object /\ Live(o) /\ Writes(o)
      /\ api' = [api EXCEPT ![d] = n]
  BY StoreStatusStep DEF StatusCommitted, StatusReplyLost, IInv, TypeOK
<1>2. o.phase # "Pending" /\ <<o.gen, o.spec>> \in applied[d]
  BY <1>1 DEF IInv, StatusIsTruthful, AppliedIsCurrent, PhaseOf, Object, Reasons
<1>3. /\ Handle(o).phase \in Phases \ {"Absent"}
      /\ Handle(o).reason \in Reasons \ {"None"}
      /\ Handle(o).phase = PhaseOf(Handle(o).reason)
      /\ Justified(Handle(o).reason, o.spec)
  BY <1>1, <1>2, HandleUpdates, ForwardIsTruthful DEF Live
<1>4. /\ n \in Object /\ n.rv = o.rv + 1 /\ n.gen = o.gen /\ n.spec = o.spec
      /\ n.phase = Handle(o).phase /\ n.reason = Handle(o).reason
      /\ n.obsGen = o.gen /\ n.condGen = o.gen
  BY <1>1, <1>3 DEF WithStatus, NewStatus, Object
<1> HIDE DEF n
<1>5. /\ UNCHANGED <<cache, queue, applied, writes, restarts>>
      /\ work' = [work EXCEPT ![r] = {}]
      /\ copy' = [copy EXCEPT ![r] = Absent(0)]
      /\ timer' \in [Replicas -> SUBSET Deployments]
  BY DEF StatusCommitted, StatusReplyLost, EndReconcile, IInv, TypeOK
<1>6. Absent(0) \in Object /\ ~Live(Absent(0))
  BY AbsentType
<1>7. TypeOK'
  BY <1>1, <1>4, <1>5, <1>6 DEF IInv, TypeOK
<1>8. CopiesAreOld'
  <2> SUFFICES ASSUME NEW q \in Replicas, NEW e \in Deployments
               PROVE  /\ OldCopy(cache[q][e], api'[e])
                      /\ e \in work'[q] => OldCopy(copy'[q], api'[e])
    BY <1>5 DEF CopiesAreOld
  <2>1. OldCopy(cache[q][e], api[e]) /\ (e \in work[q] => OldCopy(copy[q], api[e]))
    BY DEF IInv, CopiesAreOld
  <2>2. cache[q][e].rv \in Nat /\ copy[q].rv \in Nat /\ api[e].rv \in Nat
    BY DEF IInv, TypeOK, Object
  <2>3. /\ e = d => api'[e].rv = api[e].rv + 1
        /\ e # d => api'[e] = api[e]
    BY <1>1, <1>4 DEF IInv, TypeOK
  <2>4. e \in work'[q] => e \in work[q] /\ copy'[q] = copy[q]
    BY <1>5 DEF IInv, TypeOK
  <2>5. OldCopy(cache[q][e], api'[e]) /\ (e \in work[q] => OldCopy(copy[q], api'[e]))
    BY <2>1, <2>2, <2>3 DEF OldCopy
  <2>6. QED
    BY <2>4, <2>5
<1>9. CopiesAreWritten'
  BY <1>5, <1>6 DEF IInv, TypeOK, CopiesAreWritten
<1>10. AppliedIsCurrent'
  BY <1>1, <1>2, <1>4, <1>5 DEF IInv, TypeOK, AppliedIsCurrent
<1>11. StatusIsTruthful'
  <2> SUFFICES ASSUME NEW e \in Deployments, Live(api'[e])
               PROVE  /\ api'[e].phase = PhaseOf(api'[e].reason)
                      /\ api'[e].obsGen = api'[e].condGen
                      /\ api'[e].reason # "None" =>
                           \E s \in Specs : /\ <<api'[e].condGen, s>> \in applied[e]
                                            /\ Justified(api'[e].reason, s)
    BY <1>5 DEF StatusIsTruthful
  <2>1. CASE e = d
    <3>1. api'[e] = n /\ n.spec \in Specs
      BY <1>1, <1>4, <2>1 DEF IInv, TypeOK, Object
    <3>2. QED
      BY <1>2, <1>3, <1>4, <2>1, <3>1
  <2>2. CASE e # d
    BY <1>1, <2>2 DEF IInv, TypeOK, StatusIsTruthful
  <2>3. QED
    BY <2>1, <2>2
<1>12. QED
  BY <1>7, <1>8, <1>9, <1>10, <1>11 DEF IInv

\* Every step keeps the invariant.
LEMMA NextIInv == IInv /\ [Next]_vars => IInv'
<1> SUFFICES ASSUME IInv, [Next]_vars PROVE IInv'
  OBVIOUS
<1>1. CASE UNCHANGED vars
  BY <1>1 DEF vars, IInv, TypeOK, CopiesAreOld, AppliedIsCurrent,
              CopiesAreWritten, StatusIsTruthful
<1>2. CASE \E d \in Deployments : (\E s \in Specs : Apply(d, s)) \/ Delete(d)
  BY <1>2, UserIInv
<1>3. CASE \E r \in Replicas, d \in Deployments :
             \/ WatchEvent(r, d) \/ TimerFires(r, d) \/ ReconcileNotFound(r, d)
             \/ ReconcileNoUpdate(r, d) \/ BeginReconcile(r, d)
             \/ StatusError(r, d)
  BY <1>3, LocalIInv
<1>4. CASE \E r \in Replicas, d \in Deployments :
             StatusCommitted(r, d) \/ StatusReplyLost(r, d)
  BY <1>4, StoreIInv
<1>5. CASE \E r \in Replicas : Restart(r)
  BY <1>5, RestartIInv
<1>6. QED
  BY <1>1, <1>2, <1>3, <1>4, <1>5 DEF Next

-----------------------------------------------------------------------------
(* The theorems. *)

\* The invariant holds in every reachable state.
LEMMA IInvHolds == Spec => []IInv
  BY InitIInv, NextIInv, PTL DEF Spec

\* Every variable holds values of its kind, and a replica holds a copy exactly
\* while it reconciles.
THEOREM TypeCorrect == Spec => []TypeOK
<1>1. IInv => TypeOK
  BY DEF IInv
<1>2. QED
  BY <1>1, IInvHolds, PTL

\* The status in the API server is always one the controller has established
\* for the generation it names.
THEOREM Truthful == Spec => []StatusIsTruthful
<1>1. IInv => StatusIsTruthful
  BY DEF IInv
<1>2. QED
  BY <1>1, IInvHolds, PTL

\* Every version of an object is newer than the last: the invariant of the
\* caches is what makes a cache that has missed a change differ from the object.
LEMMA ChangedIsUncached ==
  ASSUME IInv, IInv', NEW r \in Replicas, NEW d \in Deployments,
         UNCHANGED cache, api'[d].rv = api[d].rv + 1
  PROVE  cache'[r][d] # api'[d]
<1>1. cache[r][d].rv <= api[d].rv
  BY DEF IInv, CopiesAreOld, OldCopy
<1>2. cache[r][d].rv \in Nat /\ api[d].rv \in Nat
  BY DEF IInv, TypeOK, Object
<1>3. QED
  BY <1>1, <1>2

\* Adding a name to one replica's timer takes none from any.
LEMMA GrowsOrStays ==
  ASSUME timer \in [Replicas -> SUBSET Deployments],
         NEW r \in Replicas, NEW d \in Deployments, NEW q \in Replicas,
         \/ timer' = timer
         \/ timer' = [timer EXCEPT ![r] = @ \cup {d}]
         \/ timer' = [timer EXCEPT ![r] = @]
  PROVE  timer[q] \subseteq timer'[q]
<1>1. CASE q = r
  BY <1>1
<1>2. CASE q # r
  BY <1>2
<1>3. QED
  BY <1>1, <1>2

\* Every step keeps objects with a status to write awaited by each controller.
LEMMA NextNoLostWakeup ==
  ASSUME IInv, IInv', NoLostWakeup, [Next]_vars
  PROVE  NoLostWakeup'
<1> SUFFICES ASSUME NEW q \in Replicas, NEW e \in Deployments, Wanted(api'[e])
             PROVE  \/ e \in queue'[q] \cup timer'[q] \cup work'[q]
                    \/ cache'[q][e] # api'[e]
  BY DEF NoLostWakeup
<1> DEFINE Awaited == \/ e \in queue[q] \cup timer[q] \cup work[q]
                      \/ cache[q][e] # api[e]
           AwaitedNext == \/ e \in queue'[q] \cup timer'[q] \cup work'[q]
                          \/ cache'[q][e] # api'[e]
<1>1. api'[e] = api[e] => Awaited
  BY DEF NoLostWakeup
<1>2. CASE UNCHANGED vars
  BY <1>1, <1>2 DEF vars
<1>3. ASSUME NEW d \in Deployments, (\E s \in Specs : Apply(d, s)) \/ Delete(d)
      PROVE  AwaitedNext
  <2>1. UNCHANGED <<cache, queue, timer, work>>
    BY <1>3 DEF Apply, Delete
  <2>2. CASE e = d
    <3>1. api'[d].rv = api[d].rv + 1
      BY <1>3, UserVersion
    <3>2. QED
      BY <2>1, <2>2, <3>1, ChangedIsUncached
  <2>3. CASE e # d
    <3>1. api'[e] = api[e]
      BY <1>3, <2>3 DEF Apply, Delete, IInv, TypeOK
    <3>2. QED
      BY <1>1, <2>1, <3>1
  <2>4. QED
    BY <2>2, <2>3
<1>4. ASSUME NEW r \in Replicas, NEW d \in Deployments,
             WatchEvent(r, d) \/ TimerFires(r, d)
      PROVE  AwaitedNext
  BY <1>1, <1>4 DEF WatchEvent, TimerFires, IInv, TypeOK
<1>5. ASSUME NEW r \in Replicas, NEW d \in Deployments,
             \/ ReconcileNotFound(r, d) \/ ReconcileNoUpdate(r, d)
             \/ BeginReconcile(r, d)
      PROVE  AwaitedNext
  <2>1. /\ Dequeue(r, d) /\ UNCHANGED <<api, cache>>
        /\ queue' = [queue EXCEPT ![r] = @ \ {d}] /\ work[r] = {}
    BY <1>5 DEF ReconcileNotFound, ReconcileNoUpdate, BeginReconcile, Dequeue
  <2>2. CASE cache[q][e] # api[e]
    BY <2>1, <2>2
  <2>3. CASE q = r /\ e = d /\ cache[q][e] = api[e]
    <3>1. Wanted(cache[r][d])
      BY <2>1, <2>3
    <3>2. ~ReconcileNotFound(r, d)
      BY <3>1 DEF ReconcileNotFound, Wanted
    <3>3. CASE ReconcileNoUpdate(r, d)
      BY <2>3, <3>1, <3>3 DEF ReconcileNoUpdate, Wanted, IInv, TypeOK
    <3>4. CASE BeginReconcile(r, d)
      BY <2>3, <3>4 DEF BeginReconcile, IInv, TypeOK
    <3>5. QED
      BY <1>5, <3>2, <3>3, <3>4
  <2>4. CASE (q # r \/ e # d) /\ cache[q][e] = api[e]
    <3>1. e \in queue[q] \cup timer[q] \cup work[q]
      BY <1>1, <2>1, <2>4
    <3>2. e \in queue[q] => e \in queue'[q]
      BY <2>1, <2>4 DEF IInv, TypeOK
    <3>3. e \in timer[q] => e \in timer'[q]
      <4>1. \/ timer' = timer
            \/ timer' = [timer EXCEPT ![r] = @ \cup {d}]
            \/ timer' = [timer EXCEPT ![r] = @]
        BY <1>5 DEF ReconcileNotFound, ReconcileNoUpdate, BeginReconcile
      <4>2. QED
        BY <4>1, GrowsOrStays DEF IInv, TypeOK
    <3>4. e \in work[q] => e \in work'[q]
      <4>1. work' = work \/ work' = [work EXCEPT ![r] = {d}]
        BY <1>5 DEF ReconcileNotFound, ReconcileNoUpdate, BeginReconcile
      <4>2. QED
        BY <2>1, <4>1 DEF IInv, TypeOK
    <3>5. QED
      BY <3>1, <3>2, <3>3, <3>4
  <2>5. QED
    BY <2>2, <2>3, <2>4
<1>6. ASSUME NEW r \in Replicas, NEW d \in Deployments,
             StatusCommitted(r, d) \/ StatusReplyLost(r, d) \/ StatusError(r, d)
      PROVE  AwaitedNext
  <2>1. /\ d \in work[r] /\ UNCHANGED <<cache, queue>>
        /\ work' = [work EXCEPT ![r] = {}]
        /\ timer[q] \subseteq timer'[q]
    <3>1. d \in work[r]
      BY <1>6 DEF StatusCommitted, StatusReplyLost, StatusError, StoreStatus
    <3>2. EndReconcile(r)
      BY <1>6 DEF StatusCommitted, StatusReplyLost, StatusError
    <3>3. \/ timer' = [timer EXCEPT ![r] = @ \cup {d}]
          \/ timer' = [timer EXCEPT ![r] = @]
      BY <1>6 DEF StatusCommitted, StatusReplyLost, StatusError
    <3>4. timer[q] \subseteq timer'[q]
      BY <3>3, GrowsOrStays DEF IInv, TypeOK
    <3>5. QED
      BY <3>1, <3>2, <3>4 DEF EndReconcile
  <2>2. CASE e # d
    <3>1. api'[e] = api[e]
      BY <1>6, <2>2 DEF StatusCommitted, StatusReplyLost, StatusError,
                        StoreStatus, IInv, TypeOK
    <3>2. e \in work[q] => e \in work'[q]
      BY <2>1, <2>2 DEF IInv, TypeOK
    <3>3. QED
      BY <1>1, <2>1, <3>1, <3>2
  <2>3. CASE e = d /\ (StatusCommitted(r, d) \/ StatusReplyLost(r, d))
    <3>1. StoreStatus(r, d)
      BY <2>3 DEF StatusCommitted, StatusReplyLost
    <3>2. api'[d].rv = api[d].rv + 1
      BY <3>1, StoreStatusStep DEF WithStatus, IInv, TypeOK
    <3>3. QED
      BY <2>1, <2>3, <3>2, ChangedIsUncached
  <2>4. CASE e = d /\ StatusError(r, d)
    <3>1. api' = api /\ timer' = [timer EXCEPT ![r] = @ \cup {d}]
      BY <2>4 DEF StatusError
    <3>2. CASE q = r
      BY <2>4, <3>1, <3>2 DEF IInv, TypeOK
    <3>3. CASE q # r
      BY <1>1, <2>1, <3>1, <3>3 DEF IInv, TypeOK
    <3>4. QED
      BY <3>2, <3>3
  <2>5. QED
    BY <1>6, <2>2, <2>3, <2>4
<1>7. ASSUME NEW r \in Replicas, Restart(r)
      PROVE  AwaitedNext
  <2>1. UNCHANGED api
    BY <1>7 DEF Restart
  <2>2. CASE q = r
    BY <1>7, <2>1, <2>2 DEF Restart, Wanted, IInv, TypeOK
  <2>3. CASE q # r
    BY <1>1, <1>7, <2>1, <2>3 DEF Restart, IInv, TypeOK
  <2>4. QED
    BY <2>2, <2>3
<1>8. QED
  BY <1>2, <1>3, <1>4, <1>5, <1>6, <1>7 DEF Next

\* Whatever conflicts, errors, lost replies and restarts happen, an object that
\* wants a reconciliation is awaited by every replica of the controller.
THEOREM NoWakeupLost == Spec => []NoLostWakeup
<1>1. Init => NoLostWakeup
  <2>1. ~Live(Absent(0))
    BY AbsentType
  <2>2. QED
    BY <2>1 DEF Init, NoLostWakeup, Wanted
<1>2. IInv /\ IInv' /\ NoLostWakeup /\ [Next]_vars => NoLostWakeup'
  BY NextNoLostWakeup
<1>3. QED
  BY <1>1, <1>2, IInvHolds, PTL DEF Spec

-----------------------------------------------------------------------------
(* The controller implements the life cycle. *)

\* A stored status sends the object forward: it was computed from the object as
\* it is, whose phase is one the handlers know.
LEMMA StoreGoesForward ==
  ASSUME IInv, NEW r \in Replicas, NEW d \in Deployments, StoreStatus(r, d)
  PROVE  GoesForward(api[d], Handle(api[d]))
<1>1. api[d] \in Object /\ Live(api[d]) /\ Writes(api[d])
  BY StoreStatusStep DEF IInv, TypeOK
<1>2. api[d].phase # "Pending"
  BY <1>1 DEF IInv, StatusIsTruthful, PhaseOf, Object, Reasons
<1>3. QED
  BY <1>1, <1>2, HandleUpdates DEF Live

\* What users see of all objects.
View == [d \in Deployments |-> Seen(api[d])]

\* A step on one object is a step on what users see of that object.
LEMMA ViewOfOne ==
  ASSUME IInv, NEW d \in Deployments, NEW o, api' = [api EXCEPT ![d] = o]
  PROVE  View' = [View EXCEPT ![d] = Seen(o)] /\ View[d] = Seen(api[d])
  BY DEF IInv, TypeOK, View

\* Users see of a live object that it is there.
LEMMA SeenIsThere ==
  ASSUME NEW o \in Object
  PROVE  Seen(o) = L!Gone <=> ~Live(o)
<1>1. CASE Live(o)
  <2>1. Seen(o).phase = o.phase /\ L!Gone.phase = "Absent"
    BY <1>1 DEF Seen, L!Gone
  <2>2. QED
    BY <1>1, <2>1 DEF Live
<1>2. CASE ~Live(o)
  BY <1>2 DEF Seen, L!Gone
<1>3. QED
  BY <1>1, <1>2

\* What users see of a live object of which they change the spec.
LEMMA SeenChanged ==
  ASSUME NEW o, Live(o), NEW s
  PROVE  [Seen(o) EXCEPT !.spec = s, !.gen = @ + 1] =
         [spec |-> s, gen |-> o.gen + 1, phase |-> o.phase, reason |-> o.reason,
          seen |-> o.obsGen]
<1> DEFINE e == [Seen(o) EXCEPT !.spec = s, !.gen = @ + 1]
<1>1. Seen(o) = [spec |-> o.spec, gen |-> o.gen, phase |-> o.phase, reason |-> o.reason,
                 seen |-> o.obsGen]
  BY DEF Seen
<1>2. /\ e.spec = s /\ e.gen = o.gen + 1
      /\ e.phase = o.phase /\ e.reason = o.reason /\ e.seen = o.obsGen
  BY <1>1
<1>3. e \in [spec : {o.spec, s}, gen : {o.gen, o.gen + 1}, phase : {o.phase},
             reason : {o.reason}, seen : {o.obsGen}]
  <2> DEFINE Seens == [spec : {o.spec, s}, gen : {o.gen, o.gen + 1}, phase : {o.phase},
                       reason : {o.reason}, seen : {o.obsGen}]
  <2>1. Seen(o) \in Seens /\ Seen(o).gen + 1 \in {o.gen, o.gen + 1}
    BY <1>1
  <2>2. QED
    BY <2>1
<1>4. e = [spec |-> s, gen |-> o.gen + 1, phase |-> o.phase, reason |-> o.reason,
           seen |-> o.obsGen]
  <2>. HIDE DEF e
  <2>1. QED
    BY <1>2, <1>3
<1>5. QED
  BY <1>4, Zenon

\* What users see of a live object that advances to another phase.
LEMMA SeenAdvanced ==
  ASSUME NEW o, Live(o), NEW phase, NEW reason
  PROVE  [Seen(o) EXCEPT !.phase = phase, !.reason = reason, !.seen = o.gen] =
         [spec |-> o.spec, gen |-> o.gen, phase |-> phase, reason |-> reason,
          seen |-> o.gen]
<1> DEFINE e == [Seen(o) EXCEPT !.phase = phase, !.reason = reason, !.seen = o.gen]
<1>1. Seen(o) = [spec |-> o.spec, gen |-> o.gen, phase |-> o.phase, reason |-> o.reason,
                 seen |-> o.obsGen]
  BY DEF Seen
<1>2. /\ e.spec = o.spec /\ e.gen = o.gen
      /\ e.phase = phase /\ e.reason = reason /\ e.seen = o.gen
  BY <1>1
<1>3. e \in [spec : {o.spec}, gen : {o.gen}, phase : {o.phase, phase},
             reason : {o.reason, reason}, seen : {o.obsGen, o.gen}]
  <2>1. Seen(o) \in [spec : {o.spec}, gen : {o.gen}, phase : {o.phase, phase},
                     reason : {o.reason, reason}, seen : {o.obsGen, o.gen}]
    BY <1>1
  <2>2. QED
    BY <2>1
<1>4. e = [spec |-> o.spec, gen |-> o.gen, phase |-> phase, reason |-> reason,
           seen |-> o.gen]
  <2>. HIDE DEF e
  <2>1. QED
    BY <1>2, <1>3
<1>5. QED
  BY <1>4, Zenon

\* A user who applies a manifest creates or changes the object.
LEMMA ApplyFollows ==
  ASSUME IInv, NEW d \in Deployments, NEW s \in Specs, Apply(d, s)
  PROVE  L!Create(d, s) \/ L!Change(d, s)
<1>1. api \in [Deployments -> Object] /\ api[d] \in Object
  BY DEF IInv, TypeOK
<1>2. CASE ~Live(api[d])
  <2>1. api' = [api EXCEPT ![d] = Created(api[d].rv + 1, s)]
    BY <1>1, <1>2 DEF Apply
  <2>2. Seen(Created(api[d].rv + 1, s)) = L!New(s)
    BY DEF Seen, Live, Created, NoStatus, L!New
  <2>3. View' = [View EXCEPT ![d] = L!New(s)] /\ View[d] = L!Gone
    BY <1>1, <1>2, <2>1, <2>2, ViewOfOne, SeenIsThere
  <2>4. QED
    BY <2>3 DEF L!Create, View
<1>3. CASE Live(api[d])
  <2> DEFINE o == [api[d] EXCEPT !.rv = @ + 1, !.gen = @ + 1, !.spec = s]
  <2>1. api' = [api EXCEPT ![d] = o]
    BY <1>1, <1>3 DEF Apply
  <2>2. Seen(o) = [Seen(api[d]) EXCEPT !.spec = s, !.gen = @ + 1]
    <3>1. /\ o.gen = api[d].gen + 1 /\ o.spec = s /\ o.phase = api[d].phase
          /\ o.reason = api[d].reason /\ o.obsGen = api[d].obsGen
      BY <1>1 DEF Object
    <3>. HIDE DEF o
    <3>2. Live(o)
      BY <1>3, <3>1 DEF Live
    <3>3. Seen(o) = [spec |-> s, gen |-> api[d].gen + 1, phase |-> api[d].phase,
                     reason |-> api[d].reason, seen |-> api[d].obsGen]
      BY <3>1, <3>2 DEF Seen
    <3>4. QED
      BY <1>3, <3>3, SeenChanged, Zenon
  <2>. HIDE DEF o
  <2>3. View' = [View EXCEPT ![d] = Seen(o)] /\ View[d] = Seen(api[d])
    BY <2>1, ViewOfOne
  <2>4. View' = [View EXCEPT ![d].spec = s, ![d].gen = @ + 1]
    BY <2>2, <2>3 DEF View
  <2>5. View[d] # L!Gone
    BY <1>1, <1>3, <2>3, SeenIsThere
  <2>6. QED
    BY <2>4, <2>5 DEF L!Change, View
<1>4. QED
  BY <1>2, <1>3

\* A user who deletes the object removes it.
LEMMA DeleteFollows ==
  ASSUME IInv, NEW d \in Deployments, Delete(d)
  PROVE  L!Remove(d)
<1>1. api \in [Deployments -> Object] /\ api[d] \in Object /\ Live(api[d])
  BY DEF IInv, TypeOK, Delete
<1>2. api' = [api EXCEPT ![d] = Absent(api[d].rv + 1)]
  BY <1>1 DEF Delete
<1>3. Seen(Absent(api[d].rv + 1)) = L!Gone
  BY DEF Seen, Live, Absent, NoStatus, L!Gone
<1>4. View' = [View EXCEPT ![d] = L!Gone] /\ View[d] # L!Gone
  BY <1>1, <1>2, <1>3, ViewOfOne, SeenIsThere
<1>5. QED
  BY <1>4 DEF L!Remove, View

\* A replica that stores a status, whether it learns of it or not, advances the
\* object, by its present spec and generation.
LEMMA StoreFollows ==
  ASSUME IInv, NEW r \in Replicas, NEW d \in Deployments, StoreStatus(r, d)
  PROVE  L!Advance(d)
<1> DEFINE o == api[d]
           h == Handle(o)
           n == WithStatus(o, NewStatus(o))
<1>1. o \in Object /\ Live(o) /\ api' = [api EXCEPT ![d] = n]
  BY StoreStatusStep DEF IInv, TypeOK
<1>2. GoesForward(o, h)
  BY StoreGoesForward
<1>3. h.phase # "Absent"
  BY <1>2, ForwardIsTruthful
<1>. HIDE DEF h
<1>4. Seen(n) = [Seen(o) EXCEPT !.phase = h.phase, !.reason = h.reason, !.seen = o.gen]
  <2>1. /\ n.gen = o.gen /\ n.spec = o.spec /\ n.phase = h.phase
        /\ n.reason = h.reason /\ n.obsGen = o.gen
    BY DEF WithStatus, NewStatus, h
  <2>2. Live(n)
    BY <1>3, <2>1 DEF Live
  <2>. HIDE DEF n
  <2>3. Seen(n) = [spec |-> o.spec, gen |-> o.gen, phase |-> h.phase,
                   reason |-> h.reason, seen |-> o.gen]
    BY <2>1, <2>2 DEF Seen
  <2>4. QED
    BY <1>1, <2>3, SeenAdvanced, Zenon
<1>5. /\ Seen(o).phase = o.phase /\ Seen(o).spec = o.spec
      /\ Seen(o).gen = o.gen
  BY <1>1 DEF Seen
<1>. HIDE DEF n, o
<1>6. View' = [View EXCEPT ![d] = Seen(n)] /\ View[d] = Seen(o)
  BY <1>1, ViewOfOne DEF o
<1>7. View' = [View EXCEPT ![d].phase = h.phase, ![d].reason = h.reason,
                           ![d].seen = View[d].gen]
  BY <1>4, <1>5, <1>6 DEF View
<1>8. GoesForward(View[d], h)
  BY <1>2, <1>5, <1>6 DEF GoesForward
<1>9. QED
  BY <1>7, <1>8 DEF GoesForward, L!Advance, View

\* Every other step leaves what users see.
LEMMA NextFollows == IInv /\ [Next]_vars => [L!LifecycleNext]_View
<1> SUFFICES ASSUME IInv, [Next]_vars
             PROVE  L!LifecycleNext \/ View' = View
  OBVIOUS
<1>1. CASE UNCHANGED api
  BY <1>1 DEF View
<1>2. ASSUME NEW d \in Deployments, NEW s \in Specs, Apply(d, s)
      PROVE  L!LifecycleNext
  BY <1>2, ApplyFollows DEF L!LifecycleNext
<1>3. ASSUME NEW d \in Deployments, Delete(d)
      PROVE  L!LifecycleNext
  BY <1>3, DeleteFollows DEF L!LifecycleNext
<1>4. ASSUME NEW r \in Replicas, NEW d \in Deployments, StoreStatus(r, d)
      PROVE  L!LifecycleNext
  BY <1>4, StoreFollows DEF L!LifecycleNext
<1>5. ASSUME NEW r \in Replicas, NEW d \in Deployments,
             \/ WatchEvent(r, d) \/ TimerFires(r, d)
             \/ ReconcileNotFound(r, d) \/ ReconcileNoUpdate(r, d)
             \/ BeginReconcile(r, d) \/ StatusError(r, d) \/ Restart(r)
      PROVE  UNCHANGED api
  BY <1>5 DEF WatchEvent, TimerFires, ReconcileNotFound, ReconcileNoUpdate,
              BeginReconcile, StatusError, Dequeue, Restart
<1>6. QED
  <2>1. Next \/ UNCHANGED api
    BY DEF vars
  <2>2. ASSUME NEW r \in Replicas, Restart(r) PROVE UNCHANGED api
    BY <2>2 DEF Restart
  <2>3. QED
    BY <1>1, <1>2, <1>3, <1>4, <1>5, <2>1, <2>2
       DEF Next, StatusCommitted, StatusReplyLost

\* Whatever the replicas, their caches, conflicts, lost replies, retries and
\* restarts, users see every object as if one process acted on it in single steps.
THEOREM ControllerFollowsLifecycle == Spec => FollowsLifecycle
<1>1. Init => L!LifecycleInit
  <2>1. Seen(Absent(0)) = L!Gone
    BY DEF Seen, Live, Absent, NoStatus, L!Gone
  <2>2. QED
    BY <2>1 DEF Init, L!LifecycleInit
<1>2. IInv /\ [Next]_vars => [L!LifecycleNext]_View
  BY NextFollows
<1>3. QED
  BY <1>1, <1>2, IInvHolds, PTL DEF Spec, FollowsLifecycle, L!LifecycleSpec, View
=============================================================================
