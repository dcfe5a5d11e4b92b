----------------------------- MODULE ToolsProofs -----------------------------
(***************************************************************************)
(* Proofs about Seed, HealthProbe and RunRecords, and about all that       *)
(* MCTools puts together.                                                  *)
(***************************************************************************)
EXTENDS MCTools, OverridesProofs

-----------------------------------------------------------------------------
(* Seed, by one developer who uses one profile and whose edits go forward. *)

Seeding(s) == pc[s] \notin Ended

\* Every checksum recorded was of rows older than x, or of none.
RecordsBefore(x) == \A m \in meta : m.checksum = NoRows \/ m.checksum[2] < x

\* Rows are resolved from the manifests as they are or were.
Resolved(s) ==
  /\ rows[s] # NoRows => rows[s][2] <= source[profile[s]] /\ rows[s][2] \notin Empties
  /\ Seeding(s) =>
       IF rows[s] = NoRows THEN s \in clean /\ RecordsBefore(source[profile[s]])
       ELSE \A m \in meta : m.checksum = NoRows \/ m.checksum[2] <= rows[s][2]
  /\ pc[s] = "checking" => rows[s] # NoRows
  /\ pc[s] = "recording" => table = rows[s] \/ ~hasMeta

\* What is recorded is what is in the table, or older than all that will be seeded.
Recorded(s) ==
  \A m \in meta :
    /\ m.checksum # NoRows =>
         m.checksum[2] <= source[profile[s]] /\ m.checksum[2] \notin Empties
    /\ \/ m.checksum = table \/ m.checksum = NoRows
       \/ /\ m.checksum[2] < source[profile[s]]
          /\ Seeding(s) /\ rows[s] # NoRows => m.checksum[2] < rows[s][2]

\* Rows are of the profile they were resolved for.
RowsOfProfile == \A s \in Seeders : rows[s] # NoRows => rows[s][1] = profile[s]

SeedTypes == TypeOK /\ RowsOfProfile

SeedInv(s) == Resolved(s) /\ Recorded(s)

\* Rows, where there are any, are of a profile and of a version.
LEMMA RowsAre ==
  /\ \A f \in Profiles, v \in Versions :
       <<f, v>> \in AllRows /\ <<f, v>> # NoRows /\ <<f, v>>[1] = f /\ <<f, v>>[2] = v
  /\ \A x \in AllRows : x # NoRows =>
       x = <<x[1], x[2]>> /\ x[1] \in Profiles /\ x[2] \in Versions
  /\ NoRows \in AllRows
BY DEF AllRows, NoRows

\* The rows that a seeding reads are of the profile and the version it is of.
LEMMA ResolvedRows ==
  ASSUME TypeOK, NEW f \in Profiles
  PROVE  /\ resolveSeedRows(f) \in AllRows
         /\ resolveSeedRows(f) # NoRows =>
              /\ resolveSeedRows(f)[1] = f /\ resolveSeedRows(f)[2] = source[f]
              /\ source[f] \notin Empties
         /\ resolveSeedRows(f) = NoRows => source[f] \in Empties
<1>1. source[f] \in Versions
  BY DEF TypeOK
<1>2. QED
  BY <1>1, RowsAre DEF resolveSeedRows

\* Every step of a seeding keeps the types.
LEMMA NextSeedTypes ==
  ASSUME SeedTypes, [Next]_vars PROVE SeedTypes'
<1> USE DEF SeedTypes, TypeOK, RowsOfProfile, Goto, Ended
<1> USE RowsAre
<1> HIDE DEF NoRows, AllRows
<1>1. ASSUME NEW f \in Profiles, NEW v \in Versions, Edit(f, v) PROVE SeedTypes'
  BY <1>1 DEF Edit
<1>2. ASSUME NEW s \in Seeders, NEW f \in Profiles, NEW forced \in BOOLEAN,
             NEW cleaned \in BOOLEAN, Begin(s, f, forced, cleaned)
      PROVE  SeedTypes'
  <2> DEFINE resolved == resolveSeedRows(f)
  <2>1. resolved \in AllRows /\ (resolved # NoRows => resolved[1] = f)
    BY ResolvedRows
  <2>2. /\ \E point \in {"writing", "checking"} : pc' = [pc EXCEPT ![s] = point]
        /\ profile' = [profile EXCEPT ![s] = f] /\ rows' = [rows EXCEPT ![s] = resolved]
        /\ clean' \subseteq Seeders /\ UNCHANGED <<source, table, meta, hasMeta>>
    BY <1>2 DEF Begin
  <2> HIDE DEF resolved
  <2>3. QED
    BY <2>1, <2>2
<1>3. ASSUME NEW s \in Seeders, Check(s) PROVE SeedTypes'
  <2>1. hasMeta' \in BOOLEAN /\ (hasMeta => hasMeta')
    <3>1. hasMeta' = hasMeta \/ hasMeta' = TRUE
      BY <1>3 DEF Check
    <3>2. QED
      BY <3>1
  <2>2. /\ \E point \in {"skipped", "writing"} : pc' = [pc EXCEPT ![s] = point]
        /\ UNCHANGED <<source, table, meta, profile, rows, clean>>
    BY <1>3 DEF Check
  <2>3. QED
    BY <2>1, <2>2
<1>4. ASSUME NEW s \in Seeders, Write(s) PROVE SeedTypes'
  BY <1>4 DEF Write, generateSeedSQL
<1>5. ASSUME NEW s \in Seeders, WriteFails(s) PROVE SeedTypes'
  BY <1>5 DEF WriteFails
<1>6. ASSUME NEW s \in Seeders, Record(s) PROVE SeedTypes'
  <2>1. CASE UNCHANGED meta
    BY <1>6, <2>1 DEF Record
  <2>2. CASE /\ hasMeta
             /\ meta' = {m \in meta : m.profile # profile[s]}
                          \cup {[profile |-> profile[s], checksum |-> rows[s]]}
    <3> DEFINE new == [profile |-> profile[s], checksum |-> rows[s]]
    <3>1. /\ new.profile = profile[s] /\ new.checksum = rows[s]
          /\ new \in [profile : Profiles, checksum : AllRows]
      OBVIOUS
    <3> HIDE DEF new
    <3>2. meta' = {m \in meta : m.profile # profile[s]} \cup {new}
      BY <2>2 DEF new
    <3>3. \A m, n \in meta' : m.profile = n.profile => m = n
      BY <3>1, <3>2
    <3>4. \A m \in meta' : m.checksum # NoRows => m.checksum[1] = m.profile
      BY <3>1, <3>2
    <3>5. meta' \subseteq [profile : Profiles, checksum : AllRows]
      BY <3>1, <3>2
    <3>6. /\ pc' = [pc EXCEPT ![s] = "seeded"]
          /\ UNCHANGED <<source, table, hasMeta, profile, rows, clean>>
      BY <1>6 DEF Record
    <3>7. QED
      BY <2>2, <3>3, <3>4, <3>5, <3>6
  <2>3. QED
    BY <1>6, <2>1, <2>2 DEF Record
<1>7. ASSUME NEW s \in Seeders, Crash(s) PROVE SeedTypes'
  BY <1>7 DEF Crash
<1>8. CASE PodRestarts
  BY <1>8 DEF PodRestarts
<1>9. CASE UNCHANGED vars
  BY <1>9 DEF vars
<1>10. QED
  BY <1>1, <1>2, <1>3, <1>4, <1>5, <1>6, <1>7, <1>8, <1>9 DEF Next

\* A step does to what a seeder has resolved, and to what is recorded, no harm.
LEMMA NextSeedInv ==
  ASSUME NEW s, NEW f, Seeders = {s}, Profiles = {f}, Reverts = FALSE,
         SeedTypes, SeedInv(s), [Next]_vars
  PROVE  SeedInv(s)'
<1>1. profile[s] = f /\ source[f] \in Nat
  BY VersionsAssumption DEF SeedTypes, TypeOK, Versions
<1>2. SeedTypes'
  BY NextSeedTypes
<1>3. profile'[s] = f
  BY <1>2 DEF SeedTypes, TypeOK
<1>4. \A m \in meta : /\ m.profile = f
                      /\ m.checksum # NoRows => m.checksum = <<f, m.checksum[2]>> /\ m.checksum[2] \in Nat
  BY RowsAre, VersionsAssumption DEF SeedTypes, TypeOK, Versions
<1>5. rows[s] # NoRows => rows[s] = <<f, rows[s][2]>> /\ rows[s][2] \in Nat
  BY RowsAre, VersionsAssumption, <1>1 DEF SeedTypes, TypeOK, RowsOfProfile, Versions
<1> USE DEF SeedInv, Resolved, Recorded, RecordsBefore, Seeding, Ended
<1> HIDE DEF NoRows
<1>6. ASSUME NEW v \in Versions, Edit(f, v) PROVE SeedInv(s)'
  <2>1. /\ source'[f] = v /\ v > source[f] /\ v \in Nat
        /\ UNCHANGED <<table, meta, hasMeta, pc, profile, rows, clean>>
    BY <1>6, VersionsAssumption DEF Edit, SeedTypes, TypeOK, Versions
  <2>2. QED
    BY <1>1, <1>4, <1>5, <2>1
<1>7. ASSUME NEW forced \in BOOLEAN, NEW cleaned \in BOOLEAN, Begin(s, f, forced, cleaned)
      PROVE  SeedInv(s)'
  <2> DEFINE resolved == resolveSeedRows(f)
  <2>1. /\ resolved # NoRows => resolved[2] = source[f] /\ source[f] \notin Empties
        /\ resolved = NoRows => source[f] \in Empties
    BY ResolvedRows DEF SeedTypes
  <2>2. /\ rows'[s] = resolved /\ pc'[s] \in {"writing", "checking"}
        /\ UNCHANGED <<source, table, meta, hasMeta>>
    BY <1>7 DEF Begin, Goto, SeedTypes, TypeOK
  <2> DEFINE point == IF forced \/ cleaned THEN "writing" ELSE "checking"
  <2>3. resolved = NoRows => s \in clean' /\ pc'[s] = "writing"
    <3>1. /\ resolved # NoRows \/ cleaned
          /\ clean' = IF cleaned THEN clean \cup {s} ELSE clean \ {s}
          /\ pc' = [pc EXCEPT ![s] = point]
      BY <1>7 DEF Begin, Goto
    <3>2. cleaned => s \in clean' /\ point = "writing"
      BY <3>1
    <3>3. pc'[s] = point
      BY <3>1 DEF SeedTypes, TypeOK
    <3> HIDE DEF point, resolved
    <3>4. QED
      BY <3>1, <3>2, <3>3
  <2> HIDE DEF resolved
  <2>4. \A m \in meta : m.checksum # NoRows =>
          m.checksum[2] <= source[f] /\ m.checksum[2] \notin Empties
    BY <1>1
  <2>5. resolved = NoRows => RecordsBefore(source[f])
    BY <1>1, <1>4, <2>1, <2>4
  <2>6. Resolved(s)'
    BY <1>1, <1>3, <2>1, <2>2, <2>3, <2>4, <2>5
  <2>7. Recorded(s)'
    BY <1>1, <1>3, <1>4, <2>1, <2>2, <2>4
  <2>8. QED
    BY <2>6, <2>7
<1>8. CASE Check(s)
  <2>1. /\ UNCHANGED <<source, table, meta, profile, rows, clean>>
        /\ pc[s] = "checking" /\ pc'[s] \in {"skipped", "writing"}
    BY <1>8 DEF Check, Goto, SeedTypes, TypeOK
  <2>2. QED
    BY <2>1
<1>9. CASE Write(s)
  <2>1. /\ pc[s] = "writing" /\ pc'[s] \in {"recording", "failed"}
        /\ UNCHANGED <<source, meta, hasMeta, profile, rows, clean>>
        /\ table' = generateSeedSQL(s)
    BY <1>9 DEF Write, Goto, SeedTypes, TypeOK
  <2>2. table' = rows[s]
    BY <2>1 DEF generateSeedSQL
  <2>3. Resolved(s)'
    BY <2>1, <2>2
  <2>4. Recorded(s)'
    BY <1>1, <1>4, <1>5, <2>1, <2>2
  <2>5. QED
    BY <2>3, <2>4
<1>10. CASE WriteFails(s) \/ Crash(s)
  <2>1. /\ Seeding(s) /\ pc'[s] = "failed"
        /\ UNCHANGED <<source, table, meta, hasMeta, profile, rows, clean>>
    BY <1>10 DEF WriteFails, Crash, Goto, SeedTypes, TypeOK
  <2>2. QED
    BY <2>1
<1>11. CASE Record(s)
  <2>1. /\ pc[s] = "recording" /\ pc'[s] = "seeded"
        /\ UNCHANGED <<source, table, hasMeta, profile, rows, clean>>
    BY <1>11 DEF Record, Goto, SeedTypes, TypeOK
  <2>2. CASE UNCHANGED meta
    BY <2>1, <2>2
  <2>3. CASE hasMeta /\ \A m \in meta' : m.checksum = rows[s]
    BY <1>1, <2>1, <2>3
  <2>4. UNCHANGED meta \/ (hasMeta /\ \A m \in meta' : m.checksum = rows[s])
    BY <1>1, <1>4, <1>11 DEF Record
  <2>5. QED
    BY <2>2, <2>3, <2>4
<1>12. CASE PodRestarts
  BY <1>12 DEF PodRestarts
<1>13. CASE UNCHANGED vars
  BY <1>13 DEF vars
<1>14. QED
  BY <1>6, <1>7, <1>8, <1>9, <1>10, <1>11, <1>12, <1>13 DEF Next

\* The invariant holds before any seeding.
LEMMA InitSeed == Init => SeedTypes /\ \A s \in Seeders : SeedInv(s)
<1> SUFFICES ASSUME Init PROVE SeedTypes /\ \A s \in Seeders : SeedInv(s)
  OBVIOUS
<1>1. SeedTypes
  BY RowsAre DEF Init, SeedTypes, TypeOK, RowsOfProfile, Ended
<1>2. \A s \in Seeders : SeedInv(s)
  BY DEF Init, SeedInv, Resolved, Recorded, Seeding, Ended
<1>3. QED
  BY <1>1, <1>2

\* Every variable of Seed holds values of its kind, and _dp_seed_meta has one record
\* of a profile, of rows of that profile, for any number of seeders and profiles.
THEOREM SeedTypeOKHolds == Spec => []TypeOK
<1>1. SeedTypes => TypeOK
  BY DEF SeedTypes
<1>2. SeedTypes /\ [Next]_vars => SeedTypes'
  BY NextSeedTypes
<1>3. QED
  BY <1>1, <1>2, InitSeed, PTL DEF Spec

\* For a developer who uses one profile and never goes back to older rows: a seeding
\* that is skipped as unchanged finds its rows in the table, after any number of
\* edits, seedings, failures, interruptions and restarts of the database.
THEOREM SkippedIsExactHolds ==
  ASSUME NEW dev, NEW f, Seeders = {dev}, Profiles = {f}, Reverts = FALSE
  PROVE  Spec => SkippedIsExact
<1> DEFINE Inv == SeedTypes /\ SeedInv(dev)
<1>1. Init => Inv
  BY InitSeed
<1>2. Inv /\ [Next]_vars => Inv'
  BY NextSeedTypes, NextSeedInv
<1>3. Inv /\ [Next]_vars => [\A s \in Seeders : pc[s] = "checking" /\ pc'[s] = "skipped"
                                                => table = rows[s]]_vars
  <2> SUFFICES ASSUME Inv, Next, NEW s \in Seeders, pc[s] = "checking", pc'[s] = "skipped"
               PROVE  table = rows[s]
    OBVIOUS
  <2>1. Check(s)
    BY DEF Next, Edit, Begin, Check, Write, WriteFails, Record, Crash, PodRestarts, Goto,
           SeedTypes, TypeOK, Ended
  <2>2. querySeedChecksum(s, rows[s])
    BY <2>1 DEF Check, Goto, SeedTypes, TypeOK
  <2>3. PICK m \in meta : m.checksum = rows[s]
    BY <2>2 DEF querySeedChecksum
  <2>4. rows[s] # NoRows /\ Seeding(s)
    BY DEF SeedInv, Resolved, Seeding, Ended
  <2>5. rows[s][2] \in Nat
    <3>1. rows[s] \in AllRows
      BY DEF SeedTypes, TypeOK
    <3>2. rows[s][2] \in Versions
      BY <2>4, <3>1, RowsAre
    <3>3. QED
      BY <3>2, VersionsAssumption DEF Versions
  <2>6. QED
    BY <2>3, <2>4, <2>5 DEF SeedInv, Recorded
<1>4. QED
  BY <1>1, <1>2, <1>3, PTL DEF Spec, SkippedIsExact
-----------------------------------------------------------------------------
(* RunRecords. *)

RecordOf ==
  [id : RunIds \cup {"none"}, env : Environments \cup {"none"}, status : RunStatus,
   message : 0 .. MaxCompleted, timed : BOOLEAN]
CallOf ==
  [pc : {"status", "message", "update"}, id : RunIds, status : RunStatus,
   number : 1 .. MaxCompleted, record : Records, copy : RecordOf]

RecordTypes ==
  /\ store \in {"memory", "postgres"}
  /\ record \in [Records -> RecordOf]
  /\ started \in 0 .. MaxStarted
  /\ holds \in [RunIds -> {None} \cup 1 .. started]
  /\ calls \in [Clients -> {NoCall} \cup CallOf]
  /\ \A c \in Clients : calls[c] # NoCall => calls[c].record \in 1 .. started
  /\ \A r \in 1 .. started : record[r].id \in RunIds
  /\ asked \in Seq(RunStatus) /\ Len(asked) <= MaxCompleted

\* A record's status is that of the call whose message it has; it has a duration
\* once a call has updated it.
OfOneCall(x) ==
  /\ x.message <= Len(asked)
  /\ x.status = IF x.message = 0 THEN "running" ELSE asked[x.message]
  /\ x.timed <=> x.message # 0

\* What a call has set in its copy.
CopySays(call) ==
  call # NoCall =>
    /\ call.number <= Len(asked) /\ asked[call.number] = call.status
    /\ call.pc \in {"message", "update"} => call.copy.status = call.status
    /\ call.pc = "update" => call.copy.message = call.number

RecordsInv ==
  /\ RecordTypes
  /\ store = "postgres" =>
       /\ \A r \in Records : OfOneCall(record[r])
       /\ \A c \in Clients : CopySays(calls[c])

\* What is known of each call of CompleteRun or UpdateRun under way.
LEMMA CallsAre ==
  /\ \A call \in CallOf :
       /\ call # NoCall /\ call.pc \in {"status", "message", "update"}
       /\ call.id \in RunIds /\ call.status \in RunStatus /\ call.number \in 1 .. MaxCompleted
       /\ call.record \in Records /\ call.copy \in RecordOf
  /\ NoCall.pc = "none"
<1>1. NoCall.pc = "none"
  BY DEF NoCall
<1>2. \A call \in CallOf : call.pc \in {"status", "message", "update"}
  BY DEF CallOf
<1>3. QED
  BY <1>1, <1>2 DEF CallOf

\* A field of a record is set, and the others stay.
LEMMA SetField ==
  ASSUME NEW x \in RecordOf
  PROVE  /\ \A st \in RunStatus :
              LET y == [x EXCEPT !["status"] = st]
              IN y \in RecordOf /\ y.id = x.id /\ y.status = st /\ y.message = x.message
         /\ \A m \in 0 .. MaxCompleted :
              LET y == [x EXCEPT !["message"] = m]
              IN y \in RecordOf /\ y.id = x.id /\ y.status = x.status /\ y.message = m
BY DEF RecordOf

\* The invariant holds without records.
LEMMA InitRecords == RecordsInit => RecordsInv
<1> SUFFICES ASSUME RecordsInit PROVE RecordsInv
  OBVIOUS
<1>1. /\ NoRecord \in RecordOf /\ NoRecord.message = 0 /\ NoRecord.status = "running"
      /\ NoRecord.timed = FALSE
  BY RecordsAssumption DEF NoRecord, Started, RecordOf, RunStatus
<1>2. asked = <<>> /\ Len(asked) = 0 /\ asked \in Seq(RunStatus)
  BY DEF RecordsInit
<1>3. RecordTypes
  BY <1>1, <1>2, RecordsAssumption DEF RecordsInit, RecordTypes
<1>4. \A r \in Records : OfOneCall(record[r])
  BY <1>1, <1>2 DEF RecordsInit, OfOneCall
<1>5. \A c \in Clients : CopySays(calls[c])
  BY DEF RecordsInit, CopySays
<1>6. QED
  BY <1>3, <1>4, <1>5 DEF RecordsInv

\* StartRun keeps the invariant.
LEMMA StartRunKeepsRecords ==
  ASSUME RecordsInv, NEW c \in Clients, NEW id \in RunIds, NEW env \in Deployed,
         StartRun(c, id, env)
  PROVE  RecordsInv'
<1> DEFINE new == Started(id, env)
<1>1. /\ new \in RecordOf /\ new.message = 0 /\ new.status = "running"
      /\ new.timed = FALSE /\ new.id = id
  BY RecordsAssumption DEF Started, RecordOf, RunStatus
<1> HIDE DEF new
<1>2. /\ started < MaxStarted /\ started' = started + 1
      /\ holds' = [holds EXCEPT ![id] = started + 1]
      /\ record' = [record EXCEPT ![started + 1] = new]
      /\ UNCHANGED <<store, calls, asked>>
  BY DEF StartRun, Create, new
<1>3. RecordTypes'
  <2>1. \A r \in 1 .. started' : record'[r].id \in RunIds
    <3> SUFFICES ASSUME NEW r \in 1 .. started' PROVE record'[r].id \in RunIds
      OBVIOUS
    <3>1. r \in Records /\ started \in Nat /\ (r = started + 1 \/ r \in 1 .. started)
      BY <1>2, RecordsAssumption DEF RecordsInv, RecordTypes, Records
    <3>2. IF r = started + 1 THEN record'[r] = new ELSE record'[r] = record[r]
      BY <1>2, <3>1 DEF RecordsInv, RecordTypes
    <3>3. QED
      BY <1>1, <3>1, <3>2 DEF RecordsInv, RecordTypes
  <2>2. QED
    BY <1>1, <1>2, <2>1, RecordsAssumption DEF RecordsInv, RecordTypes, Records, None
<1>4. ASSUME store = "postgres", NEW r \in Records PROVE OfOneCall(record'[r])
  <2>1. record'[r] = new \/ record'[r] = record[r]
    BY <1>2 DEF RecordsInv, RecordTypes
  <2>2. OfOneCall(new)
    BY <1>1, LenProperties DEF OfOneCall, RecordsInv, RecordTypes
  <2>3. QED
    BY <1>4, <2>1, <2>2 DEF RecordsInv
<1>5. QED
  BY <1>2, <1>3, <1>4 DEF RecordsInv, OfOneCall, CopySays

\* DeleteRun keeps the invariant.
LEMMA DeleteRunKeepsRecords ==
  ASSUME RecordsInv, NEW c \in Clients, NEW id \in RunIds, DeleteRun(c, id)
  PROVE  RecordsInv'
BY DEF DeleteRun, RecordsInv, RecordTypes, OfOneCall, CopySays

\* A call that begins keeps the invariant.
LEMMA BeginCallKeepsRecords ==
  ASSUME RecordsInv, NEW c \in Clients, NEW id \in RunIds, NEW status \in RunStatus,
         NEW r \in 1 .. started, BeginCall(c, id, r, status)
  PROVE  RecordsInv'
<1> DEFINE n == Len(asked) + 1
           call == [pc |-> "status", id |-> id, status |-> status, number |-> n,
                    record |-> r, copy |-> record[r]]
<1>1. /\ calls' = [calls EXCEPT ![c] = call] /\ asked' = Append(asked, status)
      /\ Len(asked) < MaxCompleted
      /\ UNCHANGED <<store, record, started, holds>>
  BY DEF BeginCall
<1>2. asked \in Seq(RunStatus) /\ Len(asked) \in Nat
  BY LenProperties DEF RecordsInv, RecordTypes
<1>3. /\ asked' \in Seq(RunStatus) /\ Len(asked') = n /\ asked'[n] = status
      /\ \A i \in 1 .. Len(asked) : asked'[i] = asked[i]
  BY <1>1, <1>2, AppendProperties
<1>4. r \in Records
  BY RecordsAssumption DEF RecordsInv, RecordTypes, Records
<1>5. call \in CallOf
  BY <1>1, <1>2, <1>4, RecordsAssumption DEF CallOf, RecordsInv, RecordTypes
<1>6. /\ call.pc = "status" /\ call.number = n /\ call.status = status
      /\ call.record \in 1 .. started
  BY <1>1 DEF RecordsInv, RecordTypes
<1> HIDE DEF call
<1>7. RecordTypes'
  <2>1. calls' \in [Clients -> {NoCall} \cup CallOf]
    BY <1>1, <1>5 DEF RecordsInv, RecordTypes
  <2>2. \A d \in Clients : calls'[d] # NoCall => calls'[d].record \in 1 .. started
    BY <1>1, <1>6 DEF RecordsInv, RecordTypes
  <2>3. Len(asked') <= MaxCompleted
    BY <1>1, <1>2, <1>3, RecordsAssumption
  <2>4. QED
    BY <1>1, <1>3, <2>1, <2>2, <2>3 DEF RecordsInv, RecordTypes
<1>8. ASSUME store = "postgres", NEW s \in Records PROVE OfOneCall(record[s])'
  <2>1. record[s] \in RecordOf /\ OfOneCall(record[s])
    BY <1>8 DEF RecordsInv, RecordTypes
  <2>2. record[s].message \in Nat
    BY <2>1, RecordsAssumption DEF RecordOf
  <2>3. QED
    BY <1>1, <1>2, <1>3, <2>1, <2>2 DEF OfOneCall
<1>9. ASSUME store = "postgres", NEW d \in Clients PROVE CopySays(calls[d])'
  <2>1. CASE d = c
    <3>1. calls'[d] = call
      BY <1>1, <2>1 DEF RecordsInv, RecordTypes
    <3>2. QED
      BY <1>2, <1>3, <1>6, <3>1 DEF CopySays
  <2>2. CASE d # c
    <3>1. calls'[d] = calls[d] /\ CopySays(calls[d]) /\ calls[d] \in {NoCall} \cup CallOf
      BY <1>1, <1>9, <2>2 DEF RecordsInv, RecordTypes
    <3>2. calls[d] # NoCall => calls[d].number \in 1 .. MaxCompleted
      BY <3>1, CallsAre
    <3>3. QED
      BY <1>2, <1>3, <3>1, <3>2, RecordsAssumption DEF CopySays
  <2>3. QED
    BY <2>1, <2>2
<1>10. QED
  BY <1>1, <1>7, <1>8, <1>9 DEF RecordsInv

\* The Get of CompleteRun begins a call of the record found.
LEMMA GetKeepsRecords ==
  ASSUME RecordsInv, NEW c \in Clients, NEW id \in RunIds, NEW status \in Outcomes,
         Get(c, id, status)
  PROVE  RecordsInv'
<1>1. holds[id] \in 1 .. started
  BY DEF Get, RecordsInv, RecordTypes, None
<1>2. status \in RunStatus
  BY RecordsAssumption
<1>3. QED
  BY <1>1, <1>2, BeginCallKeepsRecords DEF Get

\* UpdateRun begins one of the caller's own record.
LEMMA UpdateRunKeepsRecords ==
  ASSUME RecordsInv, NEW c \in Clients, NEW r \in Records,
         NEW status \in Outcomes \cup {"running"}, UpdateRun(c, r, status)
  PROVE  RecordsInv'
<1>1. r \in 1 .. started
  BY DEF UpdateRun, RecordsInv, RecordTypes, Records
<1>2. status \in RunStatus
  BY RecordsAssumption DEF RunStatus
<1>3. record[r].id \in RunIds
  BY <1>1 DEF RecordsInv, RecordTypes
<1>4. QED
  BY <1>1, <1>2, <1>3, BeginCallKeepsRecords DEF UpdateRun

\* A call goes on to next; so does one whose copy becomes y.
GoneOn(call, next) == [call EXCEPT !.pc = next]
GoneOnWith(call, next, y) == [call EXCEPT !.pc = next, !.copy = y]

\* A call that assigns to its copy stays the call it is.
LEMMA SetInCopy ==
  ASSUME NEW call \in CallOf, NEW next \in {"message", "update"}
  PROVE  /\ GoneOn(call, next) \in CallOf
         /\ GoneOn(call, next).record = call.record
         /\ \A y \in RecordOf :
              /\ GoneOnWith(call, next, y) \in CallOf
              /\ GoneOnWith(call, next, y).pc = next
              /\ GoneOnWith(call, next, y).copy = y
              /\ GoneOnWith(call, next, y).status = call.status
              /\ GoneOnWith(call, next, y).number = call.number
              /\ GoneOnWith(call, next, y).record = call.record
BY DEF CallOf, GoneOn, GoneOnWith

\* A call is replaced by one of the same record.
LEMMA SetCall ==
  ASSUME RecordTypes, NEW c \in Clients, NEW new \in CallOf, new.record \in 1 .. started,
         calls' = [calls EXCEPT ![c] = new], UNCHANGED <<store, started, holds, asked>>,
         record' \in [Records -> RecordOf],
         \A r \in 1 .. started : record'[r].id \in RunIds
  PROVE  RecordTypes' /\ \A d \in Clients : calls'[d] = IF d = c THEN new ELSE calls[d]
<1>1. \A d \in Clients : calls'[d] = IF d = c THEN new ELSE calls[d]
  BY DEF RecordTypes
<1>2. calls' \in [Clients -> {NoCall} \cup CallOf]
  BY DEF RecordTypes
<1>3. QED
  BY <1>1, <1>2 DEF RecordTypes

\* The assignments to the copy or to the shared record keep the invariant.
LEMMA AssignKeepsRecords ==
  ASSUME RecordsInv, NEW c \in Clients, calls[c].pc \in {"status", "message"},
         NEW field, NEW value, NEW next \in {"message", "update"},
         \/ field = "status" /\ value = calls[c].status /\ next = "message"
         \/ field = "message" /\ value = calls[c].number /\ next = "update"
              /\ calls[c].pc = "message",
         Assign(c, field, value, next), UNCHANGED <<store, started, holds, asked>>
  PROVE  RecordsInv'
<1> DEFINE call == calls[c]
<1>1. call \in CallOf
  BY CallsAre DEF RecordsInv, RecordTypes
<1>2. /\ call # NoCall /\ call.status \in RunStatus
      /\ call.number \in 1 .. MaxCompleted /\ call.number \in 0 .. MaxCompleted
      /\ call.record \in Records /\ call.copy \in RecordOf
      /\ call.record \in 1 .. started
  BY <1>1, CallsAre, RecordsAssumption DEF RecordsInv, RecordTypes
<1>3. ASSUME NEW x \in RecordOf
      PROVE  /\ [x EXCEPT ![field] = value] \in RecordOf
             /\ [x EXCEPT ![field] = value].id = x.id
             /\ field = "status" => [x EXCEPT ![field] = value].status = value
             /\ field = "message" => /\ [x EXCEPT ![field] = value].message = value
                                     /\ [x EXCEPT ![field] = value].status = x.status
  BY <1>2, SetField
<1>4. CASE store = "memory"
  <2> DEFINE y == [record[call.record] EXCEPT ![field] = value]
  <2>1. record[call.record] \in RecordOf
    BY <1>2 DEF RecordsInv, RecordTypes
  <2>2. y \in RecordOf /\ y.id = record[call.record].id
    BY <1>3, <2>1
  <2>3. /\ record' = [record EXCEPT ![call.record] = y]
        /\ calls' = [calls EXCEPT ![c] = [call EXCEPT !.pc = next]]
    BY <1>4 DEF Assign
  <2> DEFINE new == GoneOn(call, next)
  <2>4. calls' = [calls EXCEPT ![c] = new]
    BY <2>3 DEF GoneOn
  <2>5. new \in CallOf /\ new.record \in 1 .. started
    BY <1>1, <1>2, SetInCopy
  <2> HIDE DEF y, new
  <2>6. record' \in [Records -> RecordOf]
    BY <2>2, <2>3 DEF RecordsInv, RecordTypes
  <2>7. \A r \in 1 .. started : record'[r].id \in RunIds
    <3> SUFFICES ASSUME NEW r \in 1 .. started PROVE record'[r].id \in RunIds
      OBVIOUS
    <3>1. r \in Records /\ record[r].id \in RunIds
      BY RecordsAssumption DEF RecordsInv, RecordTypes, Records
    <3>2. IF r = call.record THEN record'[r] = y ELSE record'[r] = record[r]
      BY <2>3, <3>1 DEF RecordsInv, RecordTypes
    <3>3. QED
      BY <2>2, <3>1, <3>2
  <2>8. RecordTypes'
    BY <2>4, <2>5, <2>6, <2>7, SetCall DEF RecordsInv
  <2>9. QED
    BY <1>4, <2>8 DEF RecordsInv
<1>5. CASE store = "postgres"
  <2> DEFINE y == [call.copy EXCEPT ![field] = value]
             set == GoneOnWith(call, next, y)
  <2>1. /\ y \in RecordOf
        /\ field = "status" => y.status = value
        /\ field = "message" => y.message = value /\ y.status = call.copy.status
    BY <1>2, <1>3
  <2>2. calls' = [calls EXCEPT ![c] = set] /\ UNCHANGED record
    BY <1>5 DEF Assign, GoneOnWith
  <2> HIDE DEF y, call
  <2>3. /\ set \in CallOf /\ set.pc = next /\ set.copy = y
        /\ set.status = call.status /\ set.number = call.number
        /\ set.record \in 1 .. started
    <3>1. \A z \in RecordOf :
            /\ GoneOnWith(call, next, z) \in CallOf
            /\ GoneOnWith(call, next, z).pc = next
            /\ GoneOnWith(call, next, z).copy = z
            /\ GoneOnWith(call, next, z).status = call.status
            /\ GoneOnWith(call, next, z).number = call.number
            /\ GoneOnWith(call, next, z).record = call.record
      BY <1>1, SetInCopy
    <3>2. QED
      BY <1>2, <2>1, <3>1
  <2> HIDE DEF set
  <2>4. RecordTypes' /\ \A d \in Clients : calls'[d] = IF d = c THEN set ELSE calls[d]
    BY <2>2, <2>3, SetCall DEF RecordsInv, RecordTypes
  <2>5. CopySays(call)
    BY <1>5 DEF RecordsInv, call
  <2>6. CopySays(set)
    BY <1>2, <2>1, <2>3, <2>5 DEF CopySays, call
  <2>7. \A d \in Clients : CopySays(calls'[d])
    <3> SUFFICES ASSUME NEW d \in Clients PROVE CopySays(calls'[d])
      OBVIOUS
    <3>1. calls'[d] = set \/ calls'[d] = calls[d]
      BY <2>4
    <3>2. CopySays(calls[d])
      BY <1>5 DEF RecordsInv
    <3>3. QED
      BY <2>6, <3>1, <3>2
  <2>8. QED
    BY <2>2, <2>4, <2>7 DEF RecordsInv, OfOneCall, CopySays
<1>6. QED
  BY <1>4, <1>5 DEF RecordsInv, RecordTypes

\* The Update of a call keeps the invariant.
LEMMA UpdateKeepsRecords ==
  ASSUME RecordsInv, NEW c \in Clients, Update(c) PROVE RecordsInv'
<1> DEFINE call == calls[c]
           x == record[holds[call.id]]
           y == [x EXCEPT !.status = call.copy.status, !.message = call.copy.message,
                          !.timed = TRUE]
<1>1. call \in CallOf /\ call.pc = "update"
  BY CallsAre DEF RecordsInv, RecordTypes, Update
<1>2. /\ call # NoCall /\ call.id \in RunIds /\ call.number \in 1 .. MaxCompleted
      /\ call.record \in Records /\ call.copy \in RecordOf
  BY <1>1, CallsAre
<1>3. calls' = [calls EXCEPT ![c] = NoCall] /\ UNCHANGED <<store, started, asked>>
  BY DEF Update
<1>4. call.record \in 1 .. started
  BY <1>2 DEF RecordsInv, RecordTypes
<1>5. CASE UpdateInMemory(c)
  BY <1>3, <1>4, <1>5 DEF RecordsInv, RecordTypes, UpdateInMemory
<1>6. CASE UNCHANGED <<record, holds>>
  BY <1>3, <1>6 DEF RecordsInv, RecordTypes, OfOneCall, CopySays
<1>7. CASE UpdateInPostgres(c) /\ holds[call.id] # None
  <2>1. /\ holds[call.id] \in Records /\ UNCHANGED holds /\ store = "postgres"
        /\ record \in [Records -> RecordOf]
    BY <1>2, <1>7, RecordsAssumption
       DEF UpdateInPostgres, RecordsInv, RecordTypes, Records, None
  <2>2. x \in RecordOf
    BY <2>1
  <2>3. call.copy.status \in RunStatus /\ call.copy.message \in 0 .. MaxCompleted
    BY <1>2 DEF RecordOf
  <2>4. /\ y \in RecordOf /\ y.status = call.copy.status /\ y.message = call.copy.message
        /\ y.timed = TRUE /\ y.id = x.id
    BY <2>2, <2>3 DEF RecordOf
  <2>11. record' = [record EXCEPT ![holds[call.id]] = y]
    BY <1>7, <2>1, <2>2 DEF UpdateInPostgres, RecordOf
  <2> HIDE DEF x, y
  <2>12. \A r \in 1 .. started : record'[r].id \in RunIds
    <3> SUFFICES ASSUME NEW r \in 1 .. started PROVE record'[r].id \in RunIds
      OBVIOUS
    <3>1. r \in Records /\ record[r].id \in RunIds
      BY RecordsAssumption DEF RecordsInv, RecordTypes, Records
    <3>2. IF r = holds[call.id] THEN record'[r] = y ELSE record'[r] = record[r]
      BY <2>1, <2>11, <3>1
    <3>3. QED
      BY <2>4, <3>1, <3>2 DEF x
  <2>5. RecordTypes'
    BY <1>3, <2>1, <2>4, <2>11, <2>12 DEF RecordsInv, RecordTypes
  <2>6. CopySays(call)
    BY <2>1 DEF RecordsInv
  <2>7. OfOneCall(y)
    BY <1>1, <1>2, <2>4, <2>6 DEF CopySays, OfOneCall
  <2>8. \A r \in Records : OfOneCall(record'[r])
    <3> SUFFICES ASSUME NEW r \in Records PROVE OfOneCall(record'[r])
      OBVIOUS
    <3>1. record'[r] = y \/ record'[r] = record[r]
      BY <2>1, <2>11
    <3>2. QED
      BY <2>1, <2>7, <3>1 DEF RecordsInv
  <2>9. \A d \in Clients : CopySays(calls'[d])
    <3> SUFFICES ASSUME NEW d \in Clients PROVE CopySays(calls'[d])
      OBVIOUS
    <3>1. calls'[d] = NoCall \/ calls'[d] = calls[d]
      BY <1>3 DEF RecordsInv, RecordTypes
    <3>2. QED
      BY <2>1, <3>1 DEF RecordsInv, CopySays
  <2>10. QED
    BY <1>3, <2>1, <2>5, <2>8, <2>9 DEF RecordsInv, OfOneCall, CopySays
<1>8. QED
  BY <1>5, <1>6, <1>7 DEF Update, UpdateInPostgres

\* Every step of the run records keeps the invariant.
LEMMA NextRecords == RecordsInv /\ [RecordsNext]_recordVars => RecordsInv'
<1> SUFFICES ASSUME RecordsInv, [RecordsNext]_recordVars PROVE RecordsInv'
  OBVIOUS
<1>1. CASE UNCHANGED recordVars
  BY <1>1 DEF recordVars, RecordsInv, RecordTypes, OfOneCall, CopySays
<1>2. ASSUME NEW c \in Clients, SetStatus(c) PROVE RecordsInv'
  BY <1>2, AssignKeepsRecords DEF SetStatus
<1>3. ASSUME NEW c \in Clients, SetMessage(c) PROVE RecordsInv'
  BY <1>3, AssignKeepsRecords DEF SetMessage
<1>4. QED
  BY <1>1, <1>2, <1>3, StartRunKeepsRecords, DeleteRunKeepsRecords, GetKeepsRecords,
     UpdateRunKeepsRecords, UpdateKeepsRecords DEF RecordsNext, CompleteRun
\* Finitely many runs of an environment are stored.
LEMMA StoredIsFinite ==
  ASSUME RecordTypes, NEW env
  PROVE  /\ Stored(env) \subseteq Nat /\ IsFiniteSet(Stored(env))
         /\ Cardinality(Stored(env)) \in Nat
         /\ Stored(env) # {} => Cardinality(Stored(env)) > 0
<1> DEFINE S == Stored(env)
<1>1. IsFiniteSet(Records) /\ Records \subseteq Nat
  BY FS_Interval, RecordsAssumption DEF Records
<1>2. S \subseteq Records
  BY DEF Stored
<1> HIDE DEF S
<1>3. S \subseteq Nat /\ IsFiniteSet(S)
  BY <1>1, <1>2, FS_Subset
<1>4. Cardinality(S) \in Nat /\ (Cardinality(S) = 0 <=> S = {})
  BY <1>3, FS_CardinalityType, FS_EmptySet
<1>5. S # {} => Cardinality(S) > 0
  BY <1>4
<1>6. QED
  BY <1>3, <1>4, <1>5 DEF S

\* The head of every list of an environment is its newest run with Postgres, and some
\* run of it in memory.
LEMMA HeadIsLatest ==
  ASSUME RecordTypes, NEW env, Stored(env) # {}, NEW list \in Lists(env)
  PROVE  /\ 1 \in DOMAIN list /\ list[1] \in Stored(env)
         /\ store = "postgres" => list[1] = Max(Stored(env))
<1> DEFINE S == Stored(env)
           n == Cardinality(S)
<1>1. S \subseteq Nat /\ IsFiniteSet(S) /\ n \in Nat /\ n > 0
  BY StoredIsFinite
<1>2. list \in [1 .. n -> S]
  BY DEF Lists
<1>3. 1 \in 1 .. n
  BY <1>1
<1>4. ASSUME store = "postgres" PROVE list[1] = Max(S)
  <2>1. \A i, j \in 1 .. n : i < j => list[i] > list[j]
    BY <1>2, <1>4 DEF Lists
  <2>2. \A i \in 1 .. n : list[i] \in Nat
    BY <1>1, <1>2
  <2>3. \A i, j \in 1 .. n : list[i] = list[j] => i = j
    <3> SUFFICES ASSUME NEW i \in 1 .. n, NEW j \in 1 .. n, list[i] = list[j] PROVE i = j
      OBVIOUS
    <3>1. ~(list[i] > list[j]) /\ ~(list[j] > list[i])
      BY <2>2
    <3>2. ~(i < j) /\ ~(j < i)
      BY <2>1, <3>1
    <3>3. QED
      BY <1>1, <3>2
  <2> HIDE DEF n, S
  <2>4. list \in Injection(1 .. n, S)
    BY <1>2, <2>3 DEF Injection, IsInjective
  <2>5. Cardinality(1 .. n) = n
    BY <1>1, FS_Interval
  <2>6. list \in Surjection(1 .. n, S)
    BY <1>1, <2>4, <2>5, FS_Injection DEF n
  <2>7. \A x \in S : list[1] >= x
    <3> SUFFICES ASSUME NEW x \in S PROVE list[1] >= x
      OBVIOUS
    <3>1. PICK i \in 1 .. n : list[i] = x
      BY <2>6 DEF Surjection
    <3>2. i = 1 \/ 1 < i
      BY <1>1
    <3>3. QED
      BY <1>3, <2>1, <2>2, <3>1, <3>2
  <2>8. list[1] \in S
    BY <1>2, <1>3
  <2>9. \A x \in S : (\A y \in S : x >= y) => x = list[1]
    <3> SUFFICES ASSUME NEW x \in S, \A y \in S : x >= y PROVE x = list[1]
      OBVIOUS
    <3>1. x \in Nat /\ list[1] \in Nat /\ x >= list[1] /\ list[1] >= x
      BY <1>1, <2>7, <2>8
    <3>2. QED
      BY <3>1
  <2>10. QED
    BY <2>7, <2>8, <2>9 DEF Max
<1>5. QED
  BY <1>2, <1>3, <1>4

\* The failure of the newest run shows in the environment, whichever list there is.
LEMMA HealthOfFailed ==
  ASSUME NEW list, 1 \in DOMAIN list, Failed(list[1])
  PROVE  calculateHealth(list) \in {"degraded", "unhealthy"}
<1>1. list # <<>>
  OBVIOUS
<1>2. QED
  BY <1>1 DEF calculateHealth

\* And in the package, whatever its other environments are.
LEMMA OverallOfFailed ==
  ASSUME NEW health, NEW env \in Environments, health[env] \in {"degraded", "unhealthy"}
  PROVE  OverallHealth(health) \in {"degraded", "unhealthy"}
<1> DEFINE are(h) == {e \in Environments : health[e] = h}
           U == are("unknown")
           H == are("healthy")
           n(S) == Cardinality(S)
<1>1. IsFiniteSet(Environments)
  <2>1. Environments = (({} \cup {"dev"}) \cup {"int"}) \cup {"prod"}
    BY DEF Environments
  <2>2. QED
    BY <2>1, FS_EmptySet, FS_AddElement
<1>2. U \cup H \subseteq Environments \ {env} /\ U \cap H = {}
  OBVIOUS
<1>3. /\ IsFiniteSet(Environments \ {env})
      /\ n(Environments \ {env}) = n(Environments) - 1 /\ n(Environments) \in Nat
  BY <1>1, FS_RemoveElement, FS_CardinalityType
<1>4. /\ IsFiniteSet(U) /\ IsFiniteSet(H) /\ IsFiniteSet(U \cup H)
      /\ n(U) \in Nat /\ n(H) \in Nat /\ n(U \cup H) <= n(Environments) - 1
  <2>1. U \subseteq Environments \ {env} /\ H \subseteq Environments \ {env}
    BY <1>2
  <2>2. QED
    BY <1>2, <1>3, <2>1, FS_Subset, FS_CardinalityType
<1>5. n(U \cup H) = n(U) + n(H)
  <2>1. n(U \cup H) = n(U) + n(H) - n(U \cap H)
    BY <1>4, FS_Union
  <2>2. n(U \cap H) = 0
    BY <1>2, FS_EmptySet
  <2>3. QED
    BY <1>4, <2>1, <2>2
<1>6. n(U) # n(Environments) /\ n(H) # n(Environments) - n(U)
  BY <1>3, <1>4, <1>5
<1>7. QED
  BY <1>6 DEF OverallHealth

\* A newest run that failed shows in the health that is computed.
LEMMA FailureShowsOf == RecordTypes => FailureShows
<1> SUFFICES ASSUME RecordTypes, NEW env \in Environments, Stored(env) # {},
                    \A r \in IF store = "postgres" THEN {Max(Stored(env))} ELSE Stored(env) :
                      Failed(r),
                    NEW told \in PackageStatus
             PROVE  /\ told.health[env] \in {"degraded", "unhealthy"}
                    /\ told.overall \in {"degraded", "unhealthy"}
  BY DEF FailureShows
<1>1. PICK h : /\ told = [health |-> h, overall |-> OverallHealth(h)]
               /\ \E list \in Lists(env) : h[env] = calculateHealth(list)
  BY DEF PackageStatus
<1>2. PICK list \in Lists(env) : h[env] = calculateHealth(list)
  BY <1>1
<1>3. 1 \in DOMAIN list /\ Failed(list[1])
  BY HeadIsLatest
<1>4. h[env] \in {"degraded", "unhealthy"}
  BY <1>2, <1>3, HealthOfFailed
<1>5. OverallHealth(h) \in {"degraded", "unhealthy"}
  BY <1>4, OverallOfFailed
<1>6. QED
  BY <1>1, <1>4, <1>5

\* For any number of clients, runs and calls of CompleteRun and UpdateRun: with Postgres
\* the status and the message of a run are of one call, however the calls overlap, and
\* it has a duration from the first of them; and a newest run that failed shows in the
\* health of its environment and of the package whenever that can be had.
THEOREM StatusIsOfRunsHolds == RecordsSpec => []StatusIsOfRuns
<1>1. RecordsInv => StatusIsOfRuns
  BY FailureShowsOf DEF StatusIsOfRuns, RecordsInv, OneOutcome, OfOneCall
<1>2. QED
  BY <1>1, InitRecords, NextRecords, PTL DEF RecordsSpec
-----------------------------------------------------------------------------
(* HealthProbe: the wait. *)

\* The k last elements of seq are in W, and the one before them is not.
Trail(seq, k, W) ==
  LET n == Len(seq) IN
  /\ k \in 0 .. n
  /\ \A j \in (n - k + 1) .. n : seq[j] \in W
  /\ k < n => seq[n - k] \notin W

\* The m elements up to the i-th are in W.
Row(seq, i, m, W) == i >= m /\ \A j \in (i - m + 1) .. i : seq[j] \in W

\* A counter has reached a threshold when that many checks in a row agree.
LEMMA TrailMeansRow ==
  ASSUME NEW T, NEW seq \in Seq(T), NEW W, NEW k, Trail(seq, k, W), NEW m \in Nat \ {0}
  PROVE  Row(seq, Len(seq), m, W) <=> k >= m
<1> DEFINE n == Len(seq)
<1>1. n \in Nat
  BY LenProperties
<1>2. k \in 0 .. n /\ (\A j \in (n - k + 1) .. n : seq[j] \in W)
      /\ (k < n => seq[n - k] \notin W)
  BY DEF Trail
<1> HIDE DEF n
<1>3. ASSUME k >= m PROVE n >= m /\ \A j \in (n - m + 1) .. n : seq[j] \in W
  <2>1. n >= m
    BY <1>1, <1>2, <1>3
  <2>2. \A j \in (n - m + 1) .. n : j \in (n - k + 1) .. n
    BY <1>1, <1>2, <1>3
  <2>3. QED
    BY <1>2, <2>1, <2>2
<1>4. ASSUME n >= m, \A j \in (n - m + 1) .. n : seq[j] \in W, ~(k >= m) PROVE FALSE
  <2>1. k < n /\ n - k \in (n - m + 1) .. n
    BY <1>1, <1>2, <1>4
  <2>2. QED
    BY <1>2, <1>4, <2>1
<1>5. QED
  BY <1>3, <1>4 DEF Row, n

\* A check that agrees makes the trail longer, another one ends it.
LEMMA AppendTrail ==
  ASSUME NEW T, NEW seq \in Seq(T), NEW W, NEW k, Trail(seq, k, W), NEW x \in T
  PROVE  /\ x \in W => Trail(Append(seq, x), k + 1, W)
         /\ x \notin W => Trail(Append(seq, x), 0, W)
<1> DEFINE n == Len(seq)
           longer == Append(seq, x)
<1>1. /\ n \in Nat /\ Len(longer) = n + 1 /\ longer[n + 1] = x
      /\ \A j \in 1 .. n : longer[j] = seq[j]
  BY LenProperties, AppendProperties
<1>2. k \in 0 .. n /\ (\A j \in (n - k + 1) .. n : seq[j] \in W)
      /\ (k < n => seq[n - k] \notin W)
  BY DEF Trail
<1> HIDE DEF n, longer
<1>3. ASSUME x \in W PROVE Trail(longer, k + 1, W)
  <2>1. ASSUME NEW j \in ((n + 1) - (k + 1) + 1) .. (n + 1) PROVE longer[j] \in W
    <3>1. j = n + 1 \/ (j \in (n - k + 1) .. n /\ j \in 1 .. n)
      BY <1>1, <1>2
    <3>2. QED
      BY <1>1, <1>2, <1>3, <3>1
  <2>2. ASSUME k + 1 < n + 1 PROVE longer[(n + 1) - (k + 1)] \notin W
    <3>1. k < n /\ (n + 1) - (k + 1) = n - k /\ n - k \in 1 .. n
      BY <1>1, <1>2, <2>2
    <3>2. QED
      BY <1>1, <1>2, <3>1
  <2>3. k + 1 \in 0 .. (n + 1)
    BY <1>1, <1>2
  <2>4. QED
    BY <1>1, <2>1, <2>2, <2>3 DEF Trail
<1>4. ASSUME x \notin W PROVE Trail(longer, 0, W)
  <2>1. (n + 1) - 0 = n + 1 /\ 0 \in 0 .. (n + 1) /\ ((n + 1) - 0 + 1) .. (n + 1) = {}
    BY <1>1
  <2>2. QED
    BY <1>1, <1>4, <2>1 DEF Trail
<1>5. QED
  BY <1>3, <1>4 DEF longer

\* A later check does not change what rows there were.
LEMMA AppendRow ==
  ASSUME NEW T, NEW seq \in Seq(T), NEW W, NEW x \in T, NEW i \in 1 .. Len(seq),
         NEW m \in Nat \ {0}
  PROVE  Row(Append(seq, x), i, m, W) <=> Row(seq, i, m, W)
<1>1. Len(seq) \in Nat /\ \A j \in 1 .. Len(seq) : Append(seq, x)[j] = seq[j]
  BY LenProperties, AppendProperties
<1>2. i >= m => \A j \in (i - m + 1) .. i : j \in 1 .. Len(seq)
  BY <1>1
<1>3. QED
  BY <1>1, <1>2 DEF Row

Healthy == {"healthy"}
NotHealthy == Statuses \ {"healthy"}

Passes(i) == Row(checks, i, SuccessThreshold, Healthy)
Fails(i) == Row(checks, i, FailureThreshold, NotHealthy)

\* The counters say how many checks the trails are long, and a wait whose checks have
\* not reached a threshold goes on.
WaitInv ==
  /\ probe.action \in Probes /\ probe.success \in Nat /\ probe.failure \in Nat
  /\ checks \in Seq(Statuses)
  /\ Trail(checks, successes, Healthy) /\ Trail(checks, failures, NotHealthy)
  /\ wait \in {"called", "delaying"} => checks = <<>>
  /\ checks # <<>> =>
       /\ wait = "healthy" <=> successes >= SuccessThreshold
       /\ wait = "failed" <=> failures >= FailureThreshold
  /\ \A i \in 1 .. (Len(checks) - 1) : ~Passes(i) /\ ~Fails(i)

\* The thresholds of a wait are positive.
LEMMA ThresholdsAre ==
  ASSUME WaitInv PROVE SuccessThreshold \in Nat \ {0} /\ FailureThreshold \in Nat \ {0}
BY DEF WaitInv, SuccessThreshold, FailureThreshold, Default

\* A check gives a status.
LEMMA CheckedIs == ASSUME WaitInv PROVE Checked \in Statuses
BY DEF WaitInv, Checked, Probes, Statuses, checkHTTP, checkExec, checkTCP

\* A wait that has ended has its verdict from the checks.
LEMMA VerdictOfWait == ASSUME WaitInv PROVE VerdictIsEarned
<1> DEFINE n == Len(checks)
<1>1. n \in Nat /\ (n > 0 => checks # <<>>) /\ \A j \in 1 .. n : checks[j] \in Statuses
  BY LenProperties, ElementOfSeq DEF WaitInv
<1>2. SuccessThreshold \in Nat \ {0} /\ FailureThreshold \in Nat \ {0}
  BY ThresholdsAre
<1>3. ASSUME NEW i \in 1 .. n
      PROVE  /\ InARow(i, SuccessThreshold, IsHealthy) <=> Passes(i)
             /\ InARow(i, FailureThreshold, IsNotHealthy) <=> Fails(i)
  <2>1. \A m \in Nat \ {0} : i >= m => \A j \in (i - m + 1) .. i : j \in 1 .. n
    BY <1>1
  <2>2. \A j \in 1 .. n : /\ checks[j] \in Healthy <=> checks[j] = "healthy"
                          /\ checks[j] \in NotHealthy <=> checks[j] # "healthy"
    BY <1>1 DEF Healthy, NotHealthy
  <2>3. InARow(i, SuccessThreshold, IsHealthy) <=> Passes(i)
    BY <1>2, <2>1, <2>2 DEF InARow, IsHealthy, Passes, Row
  <2>4. InARow(i, FailureThreshold, IsNotHealthy) <=> Fails(i)
    BY <1>2, <2>1, <2>2 DEF InARow, IsNotHealthy, Fails, Row
  <2>5. QED
    BY <2>3, <2>4
<1>4. /\ Passes(n) <=> successes >= SuccessThreshold
      /\ Fails(n) <=> failures >= FailureThreshold
  BY <1>2, TrailMeansRow DEF WaitInv, Passes, Fails
<1>5. n > 0 => /\ wait = "healthy" <=> InARow(n, SuccessThreshold, IsHealthy)
               /\ wait = "failed" <=> InARow(n, FailureThreshold, IsNotHealthy)
  <2> SUFFICES ASSUME n > 0
               PROVE  /\ wait = "healthy" <=> InARow(n, SuccessThreshold, IsHealthy)
                      /\ wait = "failed" <=> InARow(n, FailureThreshold, IsNotHealthy)
    OBVIOUS
  <2>1. n \in 1 .. n
    BY <1>1
  <2>2. /\ InARow(n, SuccessThreshold, IsHealthy) <=> Passes(n)
        /\ InARow(n, FailureThreshold, IsNotHealthy) <=> Fails(n)
    BY <1>3, <2>1
  <2>3. QED
    BY <1>1, <1>4, <2>2 DEF WaitInv
<1>6. \A i \in 1 .. (n - 1) : /\ ~InARow(i, SuccessThreshold, IsHealthy)
                              /\ ~InARow(i, FailureThreshold, IsNotHealthy)
  <2> SUFFICES ASSUME NEW i \in 1 .. (n - 1)
               PROVE  /\ ~InARow(i, SuccessThreshold, IsHealthy)
                      /\ ~InARow(i, FailureThreshold, IsNotHealthy)
    OBVIOUS
  <2>1. i \in 1 .. n
    BY <1>1
  <2>2. ~Passes(i) /\ ~Fails(i)
    BY DEF WaitInv
  <2>3. QED
    BY <1>3, <2>1, <2>2
<1>7. QED
  BY <1>5, <1>6 DEF VerdictIsEarned
\* Counting a check keeps the invariant of a wait.
LEMMA CountKeepsWait ==
  ASSUME WaitInv, Count PROVE WaitInv'
<1> DEFINE n == Len(checks)
           S == SuccessThreshold
           F == FailureThreshold
<1>1. /\ n \in Nat /\ Checked \in Statuses /\ S \in Nat \ {0} /\ F \in Nat \ {0}
      /\ successes \in Nat /\ failures \in Nat
  BY LenProperties, CheckedIs, ThresholdsAre DEF WaitInv, Trail
<1>2. /\ wait = "checking" /\ checks' = Append(checks, Checked) /\ UNCHANGED probe
      /\ S' = S /\ F' = F
  BY DEF Count, SuccessThreshold, FailureThreshold
<1>3. /\ checks' \in Seq(Statuses) /\ Len(checks') = n + 1 /\ checks' # <<>>
  BY <1>1, <1>2, AppendProperties DEF WaitInv
<1>4. Checked \in Healthy <=> Checked = "healthy"
  BY DEF Healthy
<1>5. Checked \in NotHealthy <=> Checked # "healthy"
  BY <1>1 DEF NotHealthy
<1>6. /\ Checked \in Healthy =>
           Trail(checks', successes + 1, Healthy) /\ Trail(checks', 0, NotHealthy)
      /\ Checked \notin Healthy =>
           Trail(checks', 0, Healthy) /\ Trail(checks', failures + 1, NotHealthy)
  BY <1>1, <1>2, <1>4, <1>5, AppendTrail DEF WaitInv
<1>7. /\ Checked \in Healthy =>
           /\ successes' = successes + 1 /\ failures' = 0
           /\ wait' = IF successes' >= S THEN "healthy" ELSE "pausing"
      /\ Checked \notin Healthy =>
           /\ failures' = failures + 1 /\ successes' = 0
           /\ wait' = IF failures' >= F THEN "failed" ELSE "pausing"
  BY <1>4 DEF Count
<1>8. Trail(checks', successes', Healthy) /\ Trail(checks', failures', NotHealthy)
  BY <1>6, <1>7
<1>9. /\ wait' = "healthy" <=> successes' >= S
      /\ wait' = "failed" <=> failures' >= F
      /\ wait' \notin {"called", "delaying"}
  BY <1>1, <1>7
<1>10. \A i \in 1 .. n : ~Passes(i) /\ ~Fails(i)
  <2>1. n > 0 => ~Passes(n) /\ ~Fails(n)
    <3> SUFFICES ASSUME n > 0 PROVE ~Passes(n) /\ ~Fails(n)
      OBVIOUS
    <3>1. checks # <<>>
      BY LenProperties DEF WaitInv
    <3>2. ~(successes >= S) /\ ~(failures >= F)
      BY <1>2, <3>1 DEF WaitInv
    <3>3. QED
      BY <1>1, <3>2, TrailMeansRow DEF WaitInv, Passes, Fails
  <2>2. \A i \in 1 .. n : i = n \/ i \in 1 .. (n - 1)
    BY <1>1
  <2>3. QED
    BY <1>1, <2>1, <2>2 DEF WaitInv
<1>11. \A i \in 1 .. n : ~Passes(i)' /\ ~Fails(i)'
  <2> SUFFICES ASSUME NEW i \in 1 .. n PROVE ~Passes(i)' /\ ~Fails(i)'
    OBVIOUS
  <2>1. /\ Row(checks', i, S, Healthy) <=> Row(checks, i, S, Healthy)
        /\ Row(checks', i, F, NotHealthy) <=> Row(checks, i, F, NotHealthy)
    BY <1>1, <1>2, AppendRow DEF WaitInv
  <2>2. QED
    BY <1>2, <1>10, <2>1 DEF Passes, Fails
<1>12. \A i \in 1 .. (Len(checks') - 1) : ~Passes(i)' /\ ~Fails(i)'
  BY <1>1, <1>3, <1>11
<1>13. QED
  BY <1>2, <1>3, <1>8, <1>9, <1>12 DEF WaitInv

\* Every step of the health checks keeps the invariant of a wait.
LEMMA NextWait == WaitInv /\ [ProbeNext]_probeVars => WaitInv'
<1> SUFFICES ASSUME WaitInv, [ProbeNext]_probeVars PROVE WaitInv'
  OBVIOUS
<1>1. CASE Count
  BY <1>1, CountKeepsWait
<1>2. CASE /\ UNCHANGED <<probe, successes, failures, checks>>
           /\ wait' = wait \/ checks = <<>>
                \/ (wait \in {"delaying", "pausing"} /\ wait' \in {"checking", "cancelled"})
           /\ wait' \in {"called", "delaying"} => checks = <<>>
  <2>1. /\ SuccessThreshold' = SuccessThreshold /\ FailureThreshold' = FailureThreshold
        /\ \A i : (Passes(i)' <=> Passes(i)) /\ (Fails(i)' <=> Fails(i))
    BY <1>2 DEF SuccessThreshold, FailureThreshold, Passes, Fails
  <2>2. checks # <<>> =>
          /\ wait' = "healthy" <=> wait = "healthy"
          /\ wait' = "failed" <=> wait = "failed"
    BY <1>2
  <2>3. QED
    BY <1>2, <2>1, <2>2 DEF WaitInv
<1>3. CASE UNCHANGED probeVars
  BY <1>2, <1>3 DEF probeVars, WaitInv
<1>4. CASE BeginWait
  BY <1>2, <1>4 DEF BeginWait, WaitInv
<1>5. CASE TimePasses \/ GiveUp
  BY <1>2, <1>5 DEF TimePasses, GiveUp
<1>6. ASSUME UNCHANGED waitVars, UNCHANGED probe PROVE WaitInv'
  BY <1>2, <1>6 DEF waitVars, WaitInv
<1>7. QED
  BY <1>1, <1>3, <1>4, <1>5, <1>6
     DEF ProbeNext, WaitForHealthy, StartPoller, StopPoller, StopPollerReturns, PollTick,
         PollEnds, AnswerChanges, ContextEnds

-----------------------------------------------------------------------------
(* HealthProbe: the poller. *)

\* The channels are closed by the calls and loops that end, once each unless the
\* program has ended, and lastStatus is what was reported last.
PollInv ==
  /\ pollers \in Nat /\ stops \in Nat
  /\ poll \in [Polls -> {"none", "polling", "ended"}]
  /\ \A l \in Polls : poll[l] # "none" => l <= pollers
  /\ stopper \in [ProbeCallers -> {"free", "waiting", "stopped"}]
  /\ stopAsked \in BOOLEAN /\ stopDone \in BOOLEAN /\ crashed \in BOOLEAN
  /\ stopAsked => stops >= 1
  /\ stopDone => \E l \in Polls : poll[l] = "ended"
  /\ crashed => stops >= 2 \/ pollers >= 2
  /\ \A c \in ProbeCallers : stopper[c] = "stopped" => stopDone
  /\ changes \in Seq(Statuses)
  /\ changes # <<>> => lastStatus = changes[Len(changes)]
  /\ \A i \in 1 .. (Len(changes) - 1) : changes[i] # changes[i + 1]

\* The poller's invariant means that it is safe.
LEMMA SafePoller == PollInv => PollerIsSafe
<1> SUFFICES ASSUME PollInv, pollers <= 1, stops <= 1 PROVE
      /\ ~crashed
      /\ \A i \in 1 .. (Len(changes) - 1) : changes[i] # changes[i + 1]
      /\ (\E c \in ProbeCallers : stopper[c] = "stopped") => \A l \in Polls : poll[l] # "polling"
  BY DEF PollerIsSafe
<1>1. ~crashed
  BY DEF PollInv
<1>2. \A l \in Polls : poll[l] # "none" => l = 1
  BY ProbeAssumption DEF PollInv, Polls
<1>3. ASSUME stopDone PROVE \A l \in Polls : poll[l] # "polling"
  <2>1. PICK k \in Polls : poll[k] = "ended"
    BY <1>3 DEF PollInv
  <2>2. QED
    BY <1>2, <2>1
<1>4. QED
  BY <1>1, <1>3 DEF PollInv

\* Every step of the health checks keeps the poller's invariant.
LEMMA NextPoll == WaitInv /\ PollInv /\ [ProbeNext]_probeVars => PollInv'
<1> SUFFICES ASSUME WaitInv, PollInv, [ProbeNext]_probeVars PROVE PollInv'
  OBVIOUS
<1>1. CASE UNCHANGED pollVars
  BY <1>1 DEF pollVars, PollInv
<1>2. ASSUME NEW c \in ProbeCallers, StartPoller(c) PROVE PollInv'
  <2>1. /\ pollers' = pollers + 1 /\ pollers \in Nat
        /\ poll' = [poll EXCEPT ![pollers + 1] = "polling"]
        /\ UNCHANGED <<stopAsked, stopDone, lastStatus, changes, stops, stopper, crashed>>
    BY <1>2 DEF StartPoller, PollInv
  <2>2. /\ poll' \in [Polls -> {"none", "polling", "ended"}]
        /\ \A l \in Polls : poll'[l] # "none" => l <= pollers'
    <3>1. poll' \in [Polls -> {"none", "polling", "ended"}]
      BY <2>1 DEF PollInv
    <3>2. \A l \in Polls : poll'[l] = poll[l] \/ l = pollers + 1
      BY <2>1 DEF PollInv
    <3>3. \A l \in Polls : l \in Nat /\ (poll[l] # "none" => l <= pollers)
      BY ProbeAssumption DEF PollInv, Polls
    <3>4. QED
      BY <2>1, <3>1, <3>2, <3>3
  <2>3. stopDone => \E l \in Polls : poll'[l] = "ended"
    <3> SUFFICES ASSUME stopDone PROVE \E l \in Polls : poll'[l] = "ended"
      OBVIOUS
    <3>1. PICK l \in Polls : poll[l] = "ended"
      BY DEF PollInv
    <3>2. l # pollers + 1 /\ l \in Nat
      BY <2>1, <3>1 DEF PollInv, Polls
    <3>3. QED
      BY <2>1, <3>1, <3>2 DEF PollInv
  <2>4. crashed => stops >= 2 \/ pollers' >= 2
    BY <2>1 DEF PollInv
  <2>5. QED
    BY <2>1, <2>2, <2>3, <2>4 DEF PollInv
<1>3. ASSUME NEW c \in ProbeCallers, StopPoller(c) PROVE PollInv'
  <2>1. /\ stopAsked' = TRUE /\ crashed' = stopAsked /\ stops' = stops + 1
        /\ stopper' = [stopper EXCEPT ![c] = "waiting"]
        /\ UNCHANGED <<poll, pollers, stopDone, lastStatus, changes>>
    BY <1>3 DEF StopPoller
  <2>2. stops' \in Nat /\ stops' >= 1 /\ (stopAsked => stops' >= 2)
    BY <2>1 DEF PollInv
  <2>3. /\ stopper' \in [ProbeCallers -> {"free", "waiting", "stopped"}]
        /\ \A d \in ProbeCallers : stopper'[d] = "stopped" => stopDone
    BY <2>1 DEF PollInv
  <2>4. QED
    BY <2>1, <2>2, <2>3 DEF PollInv
<1>4. ASSUME NEW c \in ProbeCallers, StopPollerReturns(c) PROVE PollInv'
  BY <1>4 DEF StopPollerReturns, PollInv
<1>5. ASSUME NEW l \in Polls, PollTick(l) PROVE PollInv'
  <2> DEFINE n == Len(changes)
  <2>1. /\ Checked # lastStatus /\ lastStatus' = Checked /\ changes' = Append(changes, Checked)
        /\ UNCHANGED <<poll, pollers, stopAsked, stopDone, stops, stopper, crashed>>
    BY <1>5 DEF PollTick
  <2>2. /\ changes \in Seq(Statuses) /\ n \in Nat /\ Checked \in Statuses
        /\ n > 0 => changes[n] = lastStatus
    BY CheckedIs, LenProperties DEF PollInv
  <2>3. /\ changes' \in Seq(Statuses) /\ Len(changes') = n + 1 /\ changes'[n + 1] = Checked
        /\ \A i \in 1 .. n : changes'[i] = changes[i]
    BY <2>1, <2>2, AppendProperties
  <2> HIDE DEF n
  <2>4. ASSUME NEW i \in 1 .. (Len(changes') - 1) PROVE changes'[i] # changes'[i + 1]
    <3>1. i \in 1 .. n /\ (i = n \/ (i \in 1 .. (n - 1) /\ i + 1 \in 1 .. n))
      BY <2>2, <2>3, <2>4
    <3>2. CASE i = n
      BY <2>1, <2>2, <2>3, <3>1, <3>2
    <3>3. CASE i \in 1 .. (n - 1) /\ i + 1 \in 1 .. n
      <4>1. changes[i] # changes[i + 1]
        BY <3>3 DEF PollInv, n
      <4>2. QED
        BY <2>3, <3>1, <3>3, <4>1
    <3>4. QED
      BY <3>1, <3>2, <3>3
  <2>5. QED
    BY <2>1, <2>3, <2>4 DEF PollInv
<1>6. ASSUME NEW l \in Polls, PollEnds(l) PROVE PollInv'
  <2>1. /\ poll[l] = "polling" /\ poll' = [poll EXCEPT ![l] = "ended"]
        /\ stopDone' = TRUE /\ crashed' = stopDone
        /\ UNCHANGED <<pollers, stopAsked, lastStatus, changes, stops, stopper>>
    BY <1>6 DEF PollEnds
  <2>2. /\ poll' \in [Polls -> {"none", "polling", "ended"}] /\ poll'[l] = "ended"
        /\ \A k \in Polls : poll'[k] # "none" => k <= pollers
    BY <2>1 DEF PollInv
  <2>3. ASSUME stopDone PROVE pollers >= 2
    <3>1. PICK k \in Polls : poll[k] = "ended"
      BY <2>3 DEF PollInv
    <3>2. k # l /\ k <= pollers /\ l <= pollers
      BY <2>1, <3>1 DEF PollInv
    <3>3. QED
      BY <3>2 DEF PollInv, Polls
  <2>4. QED
    BY <2>1, <2>2, <2>3 DEF PollInv
<1>7. QED
  BY <1>1, <1>2, <1>3, <1>4, <1>5, <1>6
     DEF ProbeNext, probeVars, pollVars, WaitForHealthy, BeginWait, TimePasses, GiveUp, Count,
         AnswerChanges, ContextEnds

\* Both invariants hold before any health check.
LEMMA InitProbe == ProbeInit => WaitInv /\ PollInv
<1> SUFFICES ASSUME ProbeInit PROVE WaitInv /\ PollInv
  OBVIOUS
<1>1. /\ probe.action \in Probes /\ probe.success \in Nat /\ probe.failure \in Nat
      /\ checks = <<>> /\ changes = <<>> /\ Len(checks) = 0 /\ Len(changes) = 0
      /\ successes = 0 /\ failures = 0
  BY ProbeAssumption DEF ProbeInit
<1>2. \A W : Trail(checks, 0, W)
  BY <1>1 DEF Trail
<1>3. WaitInv
  BY <1>1, <1>2 DEF WaitInv
<1>4. PollInv
  <2>1. /\ pollers = 0 /\ stops = 0 /\ poll = [l \in Polls |-> "none"]
        /\ stopper = [c \in ProbeCallers |-> "free"]
        /\ stopAsked = FALSE /\ stopDone = FALSE /\ crashed = FALSE
    BY DEF ProbeInit
  <2>2. changes \in Seq(Statuses) /\ 1 .. (Len(changes) - 1) = {}
    BY <1>1
  <2>3. QED
    BY <1>1, <2>1, <2>2 DEF PollInv
<1>5. QED
  BY <1>3, <1>4

\* For any thresholds and number of checks, callers and pollers: a wait ends with the
\* first verdict that its checks have earned; a poller that is started and stopped
\* once neither panics nor reports a status twice, and is silent once stopped.
THEOREM ChecksAreTrustedHolds == ProbeSpec => []ChecksAreTrusted
<1>1. WaitInv /\ PollInv => ChecksAreTrusted
  BY VerdictOfWait, SafePoller DEF ChecksAreTrusted
<1>2. QED
  BY <1>1, InitProbe, NextWait, NextPoll, PTL DEF ProbeSpec

-----------------------------------------------------------------------------
(* Types, of all that MCTools puts together. *)

\* What else the probe's counters and calls are.  Once Stop is called a second time,
\* nothing goes on.
ProbeCounts ==
  /\ wait \in {"called", "delaying", "checking", "pausing", "healthy", "failed", "cancelled"}
  /\ Len(checks) <= MaxChecks
  /\ pollers <= MaxPollers
  /\ lastStatus \in Statuses
  /\ ~stopAsked => stops = 0
  /\ stops >= 2 => crashed
  /\ stops <= 2

\* The counters are in their range at first.
LEMMA InitProbeCounts == ProbeInit => ProbeCounts
BY ProbeAssumption DEF ProbeInit, ProbeCounts, Statuses

\* Every step of the health checks keeps the counters in their range.
LEMMA NextProbeCounts ==
  WaitInv /\ PollInv /\ ProbeCounts /\ [ProbeNext]_probeVars => ProbeCounts'
<1> SUFFICES ASSUME WaitInv, PollInv, ProbeCounts, [ProbeNext]_probeVars PROVE ProbeCounts'
  OBVIOUS
<1> DEFINE Waiting == {"called", "delaying", "checking", "pausing", "healthy", "failed",
                       "cancelled"}
           CountsOfPoller == <<pollers, lastStatus, stopAsked, stops, crashed>>
<1>0. /\ Len(checks) \in Nat /\ pollers \in Nat /\ stops \in Nat /\ Checked \in Statuses
      /\ MaxChecks \in Nat /\ MaxPollers \in Nat
  BY LenProperties, CheckedIs, ProbeAssumption DEF WaitInv, PollInv
<1>1. ASSUME UNCHANGED checks, wait' \in Waiting, UNCHANGED CountsOfPoller PROVE ProbeCounts'
  BY <1>1 DEF ProbeCounts
<1>2. CASE BeginWait \/ TimePasses \/ GiveUp
  BY <1>1, <1>2 DEF BeginWait, TimePasses, GiveUp, pollVars
<1>3. CASE Count
  <2>1. checks' = Append(checks, Checked) /\ wait' \in Waiting /\ UNCHANGED CountsOfPoller
    BY <1>3 DEF Count, pollVars
  <2>2. Len(checks') <= MaxChecks
    <3>1. checks \in Seq(Statuses) /\ Len(checks) < MaxChecks
      BY <1>3 DEF Count, WaitInv
    <3>2. Len(checks') = Len(checks) + 1
      BY <1>0, <2>1, <3>1, AppendProperties
    <3>3. QED
      BY <1>0, <3>1, <3>2
  <2>3. QED
    BY <2>1, <2>2 DEF ProbeCounts
<1>4. ASSUME NEW c \in ProbeCallers, StartPoller(c) PROVE ProbeCounts'
  BY <1>0, <1>4 DEF StartPoller, waitVars, ProbeCounts
<1>5. ASSUME NEW c \in ProbeCallers, StopPoller(c) PROVE ProbeCounts'
  <2>1. /\ ~crashed /\ stopAsked' = TRUE /\ crashed' = stopAsked /\ stops' = stops + 1
        /\ UNCHANGED <<wait, checks, pollers, lastStatus>>
    BY <1>5 DEF StopPoller, waitVars
  <2>2. stops <= 1 /\ (~stopAsked => stops = 0)
    BY <1>0, <2>1 DEF ProbeCounts
  <2>3. QED
    BY <1>0, <2>1, <2>2 DEF ProbeCounts
<1>6. ASSUME NEW c \in ProbeCallers, StopPollerReturns(c) PROVE ProbeCounts'
  BY <1>6 DEF StopPollerReturns, waitVars, ProbeCounts
<1>7. ASSUME NEW l \in Polls, PollTick(l) PROVE ProbeCounts'
  BY <1>0, <1>7 DEF PollTick, waitVars, ProbeCounts
<1>8. ASSUME NEW l \in Polls, PollEnds(l) PROVE ProbeCounts'
  <2>1. ~crashed /\ UNCHANGED <<wait, checks, pollers, lastStatus, stopAsked, stops>>
    BY <1>8 DEF PollEnds, waitVars
  <2>2. QED
    BY <1>0, <2>1 DEF ProbeCounts
<1>9. CASE \/ \E a \in Answers : AnswerChanges(a)
           \/ ContextEnds
           \/ UNCHANGED probeVars
  <2>1. UNCHANGED <<waitVars, pollVars>>
    BY <1>9 DEF AnswerChanges, ContextEnds, probeVars, waitVars, pollVars
  <2>2. QED
    BY <2>1 DEF waitVars, pollVars, ProbeCounts
<1>10. QED
  BY <1>2, <1>3, <1>4, <1>5, <1>6, <1>7, <1>8, <1>9 DEF ProbeNext, WaitForHealthy

\* With the two invariants that makes the types of the health checks.
LEMMA ProbeTypes == WaitInv /\ PollInv /\ ProbeCounts => ProbeTypeOK
<1> SUFFICES ASSUME WaitInv, PollInv, ProbeCounts PROVE ProbeTypeOK
  OBVIOUS
<1>1. /\ Len(checks) \in Nat /\ MaxChecks \in Nat /\ MaxPollers \in Nat
      /\ successes \in 0 .. Len(checks) /\ failures \in 0 .. Len(checks)
  BY LenProperties, ProbeAssumption DEF WaitInv, Trail
<1>2. successes \in 0 .. MaxChecks /\ failures \in 0 .. MaxChecks
  BY <1>1 DEF ProbeCounts
<1>3. pollers \in 0 .. MaxPollers /\ stops \in 0 .. 2
  BY <1>1 DEF PollInv, ProbeCounts
<1>4. QED
  BY <1>2, <1>3 DEF ProbeTypeOK, WaitInv, PollInv, ProbeCounts

\* The types of the invariant of run records are those of the property.
LEMMA RecordsTypes == RecordTypes => RecordsTypeOK
<1> SUFFICES ASSUME RecordTypes PROVE RecordsTypeOK
  OBVIOUS
<1>1. \A c \in Clients : calls[c].pc \in {"none", "status", "message", "update"}
  <2> SUFFICES ASSUME NEW c \in Clients
               PROVE  calls[c].pc \in {"none", "status", "message", "update"}
    OBVIOUS
  <2>1. calls[c] \in {NoCall} \cup CallOf
    BY DEF RecordTypes
  <2>2. QED
    BY <2>1, CallsAre
<1>2. QED
  BY <1>1 DEF RecordTypes, RecordsTypeOK, RecordOf

ToolsInv ==
  /\ SeedTypes
  /\ WaitInv /\ PollInv /\ ProbeCounts
  /\ RecordsInv
  /\ OverridesTypeOK /\ OverridesInv

\* Every variable of Seed, HealthProbe, RunRecords and Overrides holds values of its
\* kind and keeps within its bounds, whichever of them a behaviour is of.
THEOREM ToolsTypeOKHolds == AllSpec => []ToolsTypeOK
<1>1. AllInit => ToolsInv
  BY InitSeed, InitProbe, InitProbeCounts, InitRecords, InitOverrides DEF AllInit, ToolsInv
<1>2. ToolsInv /\ [AllNext]_allVars => ToolsInv'
  <2> SUFFICES ASSUME ToolsInv, [AllNext]_allVars PROVE ToolsInv'
    OBVIOUS
  <2>1. /\ [Next]_vars /\ [ProbeNext]_probeVars
        /\ [RecordsNext]_recordVars /\ [OverridesNext]_overrideVars
    BY DEF AllNext, allVars
  <2>2. SeedTypes'
    BY <2>1, NextSeedTypes DEF ToolsInv
  <2>3. WaitInv' /\ PollInv' /\ ProbeCounts'
    BY <2>1, NextWait, NextPoll, NextProbeCounts DEF ToolsInv
  <2>4. RecordsInv'
    BY <2>1, NextRecords DEF ToolsInv
  <2>5. OverridesTypeOK' /\ OverridesInv'
    BY <2>1, NextOverrides DEF ToolsInv
  <2>6. QED
    BY <2>2, <2>3, <2>4, <2>5 DEF ToolsInv
<1>3. ToolsInv => ToolsTypeOK
  BY ProbeTypes, RecordsTypes DEF ToolsInv, ToolsTypeOK, SeedTypes, RecordsInv
<1>4. QED
  BY <1>1, <1>2, <1>3, PTL DEF AllSpec
=============================================================================
