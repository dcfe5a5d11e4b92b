----------------------------- MODULE RunRecords -----------------------------
(***************************************************************************)
(* Records of runs: sdk/runs, with its in-memory store or the one in       *)
(* Postgres, and the health that status.go computes of them.               *)
(*                                                                         *)
(* CompleteRun is Get, assignments and Update; UpdateRun is the Update of  *)
(* a caller that has assigned to the record with which it started the run. *)
(* The in-memory store takes and gives out that very record, so that the   *)
(* assignments change it at once and without the lock; with Postgres they  *)
(* change a copy, and Update writes it back whole, with no error if the    *)
(* row has gone.                                                           *)
(*                                                                         *)
(* In Postgres a run has no duration_ms before its first Update, and its   *)
(* row cannot be read: Get and List scan the NULL into an int64 and fail.  *)
(* CompleteRun then fails as well, and so does GetPackageStatus.           *)
(***************************************************************************)
EXTENDS Naturals, FiniteSets, Sequences, FiniteSetsExt

CONSTANTS
  RunIds,        \* IDs that callers give, or that generateRunID makes
  Clients,       \* goroutines that use the service
  Deployed,      \* the environments in which runs are started
  Outcomes,      \* the statuses that CompleteRun is given
  MaxStarted,    \* bound: runs started
  MaxCompleted   \* bound: calls of CompleteRun and UpdateRun

Environments == {"dev", "int", "prod"}
RunStatus == {"running", "success", "failure", "cancelled"}

ASSUME RecordsAssumption ==
  /\ Deployed \subseteq Environments
  /\ Outcomes \subseteq RunStatus \ {"running"}
  /\ MaxStarted \in Nat /\ MaxCompleted \in Nat

\* Records stand in the order in which their runs were started, which is that of
\* their StartTime.  "timed" tells that duration_ms is not NULL; the other fields
\* that CompleteRun sets are told by the number of its call, the message.
Records == 1 .. MaxStarted
None == 0

VARIABLES
  store,      \* "memory" or "postgres"
  record,     \* the records, whether the store still has them or not
  started,    \* how many there are
  holds,      \* the record that the store has under each ID, or None
  calls,      \* CompleteRun or UpdateRun of each client
  asked       \* the status that each of these calls was given, in turn

recordVars == <<store, record, started, holds, calls, asked>>

Started(id, env) ==
  [id |-> id, env |-> env, status |-> "running", message |-> 0, timed |-> FALSE]
NoRecord == Started("none", "none")
NoCall == [pc |-> "none"]

RecordsInit ==
  /\ store \in {"memory", "postgres"}
  /\ record = [r \in Records |-> NoRecord]
  /\ started = 0
  /\ holds = [i \in RunIds |-> None]
  /\ calls = [c \in Clients |-> NoCall]
  /\ asked = <<>>

\* Create refuses an ID that is taken; Postgres' leaves duration_ms out.
Create(id, env) ==
  /\ holds[id] = None
  /\ holds' = [holds EXCEPT ![id] = started + 1]
  /\ record' = [record EXCEPT ![started + 1] = Started(id, env)]

\* generateRunID gives all runs of one second the same ID: its suffix is constant.
StartRun(c, id, env) ==
  /\ calls[c] = NoCall
  /\ started < MaxStarted
  /\ started' = started + 1
  /\ Create(id, env)
  /\ UNCHANGED <<store, calls, asked>>

DeleteRun(c, id) ==
  /\ calls[c] = NoCall
  /\ holds[id] # None
  /\ holds' = [holds EXCEPT ![id] = None]
  /\ UNCHANGED <<store, record, started, calls, asked>>

-----------------------------------------------------------------------------
(* CompleteRun and UpdateRun. *)

BeginCall(c, id, r, status) ==
  /\ calls[c] = NoCall
  /\ Len(asked) < MaxCompleted
  /\ asked' = Append(asked, status)
  /\ calls' = [calls EXCEPT ![c] =
                 [pc |-> "status", id |-> id, status |-> status, number |-> Len(asked) + 1,
                  record |-> r, copy |-> record[r]]]
  /\ UNCHANGED <<store, record, started, holds>>

\* Scan fails on the NULL of a row that has no duration.
CanBeRead(r) == store = "postgres" => record[r].timed

\* Without the record, or with one that cannot be read, CompleteRun fails.
Get(c, id, status) ==
  /\ holds[id] # None /\ CanBeRead(holds[id])
  /\ BeginCall(c, id, holds[id], status)

\* A caller reports on the run it has started, which may go on, and assigns to
\* the fields that CompleteRun sets; with Postgres the record is its own copy.
UpdateRun(c, r, status) ==
  /\ r <= started
  /\ BeginCall(c, record[r].id, r, status)

\* The assignment of a field: to the store's own record, or to the copy.
Assign(c, field, value, next) ==
  IF store = "memory"
  THEN /\ record' = [record EXCEPT ![calls[c].record][field] = value]
       /\ calls' = [calls EXCEPT ![c].pc = next]
  ELSE /\ calls' = [calls EXCEPT ![c].pc = next, ![c].copy[field] = value]
       /\ UNCHANGED record

SetStatus(c) ==
  /\ calls[c].pc = "status"
  /\ Assign(c, "status", calls[c].status, "message")
  /\ UNCHANGED <<store, started, holds, asked>>

SetMessage(c) ==
  /\ calls[c].pc = "message"
  /\ Assign(c, "message", calls[c].number, "update")
  /\ UNCHANGED <<store, started, holds, asked>>

\* In memory the record takes the place of whichever has the ID by now.
UpdateInMemory(c) ==
  /\ store = "memory"
  /\ holds' = IF holds[calls[c].id] = None THEN holds
              ELSE [holds EXCEPT ![calls[c].id] = calls[c].record]
  /\ UNCHANGED record

\* Mutant: the UPDATE leaves the message out.
UpdateStatusOnly(c) ==
  /\ store = "postgres"
  /\ record' = IF holds[calls[c].id] = None THEN record
               ELSE [record EXCEPT ![holds[calls[c].id]].status = calls[c].copy.status,
                                   ![holds[calls[c].id]].timed = TRUE]
  /\ UNCHANGED holds

UpdateInPostgres(c) ==
  LET call == calls[c] IN
  /\ store = "postgres"
  /\ record' = IF holds[call.id] = None THEN record
               ELSE [record EXCEPT ![holds[call.id]].status = call.copy.status,
                                   ![holds[call.id]].message = call.copy.message,
                                   ![holds[call.id]].timed = TRUE]
  /\ UNCHANGED holds

Update(c) ==
  /\ calls[c].pc = "update"
  /\ UpdateInMemory(c) \/ UpdateInPostgres(c)
  /\ calls' = [calls EXCEPT ![c] = NoCall]
  /\ UNCHANGED <<store, started, asked>>

CompleteRun(c) == SetStatus(c) \/ SetMessage(c) \/ Update(c)

RecordsNext ==
  \E c \in Clients :
    \/ \E id \in RunIds, env \in Deployed : StartRun(c, id, env)
    \/ \E id \in RunIds : DeleteRun(c, id)
    \/ \E id \in RunIds, status \in Outcomes : Get(c, id, status)
    \/ \E r \in Records, status \in Outcomes \cup {"running"} : UpdateRun(c, r, status)
    \/ CompleteRun(c)

RecordsSpec == RecordsInit /\ [][RecordsNext]_recordVars

-----------------------------------------------------------------------------
(* Queries. *)

Stored(env) == {r \in Records : record[r].env = env /\ \E i \in RunIds : holds[i] = r}

\* Postgres lists runs from the newest; a map is in no order.
Lists(env) ==
  {list \in [1 .. Cardinality(Stored(env)) -> Stored(env)] :
     IF store = "postgres"
     THEN \A i, j \in DOMAIN list : i < j => list[i] > list[j]
     ELSE \A i, j \in DOMAIN list : i # j => list[i] # list[j]}

Failed(r) == record[r].status = "failure"

\* Of the last five runs.
calculateHealth(list) ==
  LET checked == 1 .. Min({Len(list), 5})
      failed == Cardinality({i \in checked : Failed(list[i])})
  IN IF list = <<>> THEN "unknown"
     ELSE IF Failed(list[1]) THEN (IF failed >= 3 THEN "unhealthy" ELSE "degraded")
     ELSE IF failed > Cardinality(checked) \div 2 THEN "degraded" ELSE "healthy"

OverallHealth(health) ==
  LET are(h) == Cardinality({env \in Environments : health[env] = h})
  IN IF are("unhealthy") > 0 THEN "unhealthy"
     ELSE IF are("unknown") = Cardinality(Environments) THEN "unknown"
     ELSE IF are("healthy") = Cardinality(Environments) - are("unknown") THEN "healthy"
     ELSE "degraded"

\* ListRuns(env, 10) fails if one of the ten newest runs cannot be read.
CanBeListed(env) ==
  \A r \in Stored(env) :
    Cardinality({newer \in Stored(env) : newer > r}) < 10 => CanBeRead(r)

\* What GetPackageStatus may answer, of each environment and overall: nothing if
\* one of them cannot be listed.
PackageStatus ==
  LET answers == {h \in [Environments -> {"unknown", "healthy", "degraded", "unhealthy"}] :
                    \A env \in Environments :
                      /\ CanBeListed(env)
                      /\ \E list \in Lists(env) : h[env] = calculateHealth(list)}
  IN {[health |-> h, overall |-> OverallHealth(h)] : h \in answers}

-----------------------------------------------------------------------------
RecordsTypeOK ==
  /\ store \in {"memory", "postgres"}
  /\ record \in [Records -> [id : RunIds \cup {"none"}, env : Environments \cup {"none"},
                             status : RunStatus, message : 0 .. MaxCompleted,
                             timed : BOOLEAN]]
  /\ holds \in [RunIds -> {None} \cup 1 .. started]
  /\ \A c \in Clients : calls[c].pc \in {"none", "status", "message", "update"}

\* With Postgres what is stored of a run is what one call has reported, status
\* and message: calls that overlap write it whole, and none is read that was not
\* written.  (In memory they may mix theirs.)
OneOutcome ==
  store = "postgres" =>
    \A r \in Records :
      /\ record[r].status = IF record[r].message = 0 THEN "running" ELSE asked[record[r].message]
      /\ record[r].timed <=> record[r].message # 0

\* When the newest run of a package in an environment has failed, and the status
\* of the package can be had, neither the environment nor the package is reported
\* healthy or unknown, whatever the older runs were and in whichever order they
\* were completed.  (In memory any run may count as the newest, so only when all of
\* them have failed.)
FailureShows ==
  \A env \in Environments :
    LET latest == IF store = "postgres" THEN {Max(Stored(env))} ELSE Stored(env)
    IN Stored(env) # {} /\ (\A r \in latest : Failed(r)) =>
         \A answer \in PackageStatus :
           /\ answer.health[env] \in {"degraded", "unhealthy"}
           /\ answer.overall \in {"degraded", "unhealthy"}

StatusIsOfRuns == OneOutcome /\ FailureShows
=============================================================================
