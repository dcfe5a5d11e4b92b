------------------------------ MODULE Heartbeat ------------------------------
(***************************************************************************)
(* The heartbeat of a streaming run: sdk/lineage/heartbeat.go.  Goroutines *)
(* of the program call Start, Stop and UpdateRecordsProcessed of one       *)
(* Heartbeat and may cancel the context that it was started with.          *)
(*                                                                         *)
(* Start and Stop decide under the mutex and act outside of it: go run,    *)
(* and the closing of stopCh and the waiting for stoppedCh, come later,    *)
(* and closing a closed channel is a panic that ends the program.          *)
(***************************************************************************)
EXTENDS Naturals

CONSTANTS
  HeartbeatCallers,   \* goroutines that use the heartbeat
  MaxHeartbeats,      \* bound: calls of Start that start it
  MaxRecords          \* bound: records processed

ASSUME HeartbeatAssumption == MaxHeartbeats \in Nat /\ MaxRecords \in Nat

Lives == 1 .. MaxHeartbeats

VARIABLES
  running,           \* Heartbeat.running
  stopCh, stoppedCh, \* whether the channels are closed
  cancelled,         \* whether the context is
  lives,             \* goroutines of run that were started
  routine,           \* where each of them is
  records,           \* Heartbeat.recordsProcessed
  event,             \* the count in the event that each goroutine is emitting
  reported,          \* the count in the latest event emitted
  caller,            \* where each caller of Stop is
  stopped,           \* whether a call of Stop that stopped it has returned
  panicked           \* whether the program has ended in a panic

heartbeatVars == <<running, stopCh, stoppedCh, cancelled, lives, routine, records,
                   event, reported, caller, stopped, panicked>>

NewHeartbeat ==
  /\ running = FALSE
  /\ stopCh = FALSE /\ stoppedCh = FALSE /\ cancelled = FALSE
  /\ lives = 0
  /\ routine = [l \in Lives |-> "none"]
  /\ records = 0
  /\ event = [l \in Lives |-> 0]
  /\ reported = 0
  /\ caller = [c \in HeartbeatCallers |-> "free"]
  /\ stopped = FALSE
  /\ panicked = FALSE

-----------------------------------------------------------------------------
(* The callers. *)

\* While it is running, Start does nothing.
Start(c) ==
  /\ caller[c] = "free" /\ ~panicked
  /\ ~running
  /\ lives < MaxHeartbeats
  /\ running' = TRUE
  /\ lives' = lives + 1
  /\ routine' = [routine EXCEPT ![lives + 1] = "beating"]
  /\ UNCHANGED <<stopCh, stoppedCh, cancelled, records, event, reported, caller, stopped,
                 panicked>>

\* While it is not running, Stop does nothing.
Stop(c) ==
  /\ caller[c] = "free" /\ ~panicked
  /\ running
  /\ running' = FALSE
  /\ caller' = [caller EXCEPT ![c] = "closing"]
  /\ UNCHANGED <<stopCh, stoppedCh, cancelled, lives, routine, records, event, reported,
                 stopped, panicked>>

CloseStopCh(c) ==
  /\ caller[c] = "closing" /\ ~panicked
  /\ stopCh' = TRUE
  /\ panicked' = stopCh
  /\ caller' = [caller EXCEPT ![c] = "waiting"]
  /\ UNCHANGED <<running, stoppedCh, cancelled, lives, routine, records, event, reported,
                 stopped>>

\* Mutant: Stop does not wait for the goroutine.
StopReturnsAtOnce(c) ==
  /\ caller[c] = "waiting" /\ ~panicked
  /\ caller' = [caller EXCEPT ![c] = "free"]
  /\ stopped' = TRUE
  /\ UNCHANGED <<running, stopCh, stoppedCh, cancelled, lives, routine, records, event,
                 reported, panicked>>

StopReturns(c) ==
  /\ caller[c] = "waiting" /\ ~panicked
  /\ stoppedCh
  /\ caller' = [caller EXCEPT ![c] = "free"]
  /\ stopped' = TRUE
  /\ UNCHANGED <<running, stopCh, stoppedCh, cancelled, lives, routine, records, event,
                 reported, panicked>>

\* The pipeline processes records.
UpdateRecordsProcessed(c) ==
  /\ caller[c] = "free" /\ ~panicked
  /\ records < MaxRecords
  /\ records' = records + 1
  /\ UNCHANGED <<running, stopCh, stoppedCh, cancelled, lives, routine, event, reported,
                 caller, stopped, panicked>>

CancelContext ==
  /\ ~cancelled /\ ~panicked
  /\ cancelled' = TRUE
  /\ UNCHANGED <<running, stopCh, stoppedCh, lives, routine, records, event, reported,
                 caller, stopped, panicked>>

-----------------------------------------------------------------------------
(* The goroutine of run. *)

\* emitHeartbeat reads the count under the mutex, ...
ReadRecords(l) ==
  /\ routine[l] = "beating" /\ ~panicked
  /\ event' = [event EXCEPT ![l] = records]
  /\ routine' = [routine EXCEPT ![l] = "emitting"]
  /\ UNCHANGED <<running, stopCh, stoppedCh, cancelled, lives, records, reported, caller,
                 stopped, panicked>>

\* ... and emits, or fails to, outside of it.
Emit(l, sent) ==
  /\ routine[l] = "emitting" /\ ~panicked
  /\ reported' = IF sent THEN event[l] ELSE reported
  /\ routine' = [routine EXCEPT ![l] = "selecting"]
  /\ UNCHANGED <<running, stopCh, stoppedCh, cancelled, lives, records, event, caller,
                 stopped, panicked>>

Tick(l) ==
  /\ routine[l] = "selecting" /\ ~panicked
  /\ routine' = [routine EXCEPT ![l] = "beating"]
  /\ UNCHANGED <<running, stopCh, stoppedCh, cancelled, lives, records, event, reported,
                 caller, stopped, panicked>>

\* Mutant: the end of the context does not close stoppedCh.
LeaveUnclosed(l) ==
  /\ routine[l] = "selecting" /\ ~panicked
  /\ stopCh \/ cancelled
  /\ stoppedCh' = (stoppedCh \/ ~cancelled)
  /\ panicked' = (stoppedCh /\ ~cancelled)
  /\ routine' = [routine EXCEPT ![l] = "ended"]
  /\ UNCHANGED <<running, stopCh, cancelled, lives, records, event, reported, caller,
                 stopped>>

\* The deferred close.
Leave(l) ==
  /\ routine[l] = "selecting" /\ ~panicked
  /\ stopCh \/ cancelled
  /\ stoppedCh' = TRUE
  /\ panicked' = stoppedCh
  /\ routine' = [routine EXCEPT ![l] = "ended"]
  /\ UNCHANGED <<running, stopCh, cancelled, lives, records, event, reported, caller,
                 stopped>>

run(l) ==
  \/ ReadRecords(l)
  \/ \E sent \in BOOLEAN : Emit(l, sent)
  \/ Tick(l)
  \/ Leave(l)

Calls(c) == Start(c) \/ Stop(c) \/ CloseStopCh(c) \/ StopReturns(c) \/ UpdateRecordsProcessed(c)

HeartbeatNext ==
  \/ \E c \in HeartbeatCallers : Calls(c)
  \/ \E l \in Lives : run(l)
  \/ CancelContext

HeartbeatSpec == NewHeartbeat /\ [][HeartbeatNext]_heartbeatVars

\* Goroutines are scheduled, and an emission ends (its client has a timeout).
\* Of several cases that are ready, select takes each sooner or later.
HeartbeatFairness ==
  /\ \A c \in HeartbeatCallers :
       WF_heartbeatVars(CloseStopCh(c)) /\ WF_heartbeatVars(StopReturns(c))
  /\ \A l \in Lives : WF_heartbeatVars(run(l)) /\ SF_heartbeatVars(Leave(l))

-----------------------------------------------------------------------------
HeartbeatTypeOK ==
  /\ running \in BOOLEAN /\ stopCh \in BOOLEAN /\ stoppedCh \in BOOLEAN
  /\ cancelled \in BOOLEAN /\ stopped \in BOOLEAN /\ panicked \in BOOLEAN
  /\ lives \in 0 .. MaxHeartbeats
  /\ routine \in [Lives -> {"none", "beating", "emitting", "selecting", "ended"}]
  /\ records \in 0 .. MaxRecords /\ reported \in 0 .. MaxRecords
  /\ event \in [Lives -> 0 .. MaxRecords]
  /\ caller \in [HeartbeatCallers -> {"free", "closing", "waiting"}]

\* A heartbeat that is started once, however its callers race with one another
\* and with the end of the context, never panics; and when the Stop that stopped
\* it returns, its goroutine emits no more.  (Started again after a Stop it
\* panics: its channels are made once.)
OneLifeIsSafe ==
  lives <= 1 => /\ ~panicked
                /\ stopped => \A l \in Lives : routine[l] \in {"none", "ended"}

\* A Stop returns, whether or not the context was cancelled before or after, or
\* the program has ended in a panic.
StopsReturn ==
  \A c \in HeartbeatCallers : caller[c] # "free" ~> caller[c] = "free" \/ panicked
=============================================================================
