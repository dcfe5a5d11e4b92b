-------------------------------- MODULE Seed --------------------------------
(***************************************************************************)
(* Dev-seeding of one dataset's table: SeedPackage of sdk/runner/seed.go,  *)
(* which dk dev seed and the automatic seeding of dk run call.             *)
(*                                                                         *)
(* A seeding resolves the rows of its profile from the manifests on disk,  *)
(* compares their checksum with the one recorded for the profile in        *)
(* _dp_seed_meta, and, when they differ, rewrites the table and then       *)
(* records the checksum.  The comparison, the rewriting and the recording  *)
(* are separate kubectl execs: each may fail and anything may happen in    *)
(* between; but each is one psql -c, hence one transaction.                *)
(*                                                                         *)
(* The database forgets everything when its pod restarts.                  *)
(***************************************************************************)
EXTENDS Naturals

CONSTANTS
  Seeders,      \* dk processes; one seeds again after it has ended
  Profiles,     \* the default profile and the named ones
  MaxVersion,   \* bound: last version of a profile's rows
  Empties,      \* the versions that have no rows
  Reverts       \* whether developers go back to an earlier version

ASSUME VersionsAssumption ==
  MaxVersion \in Nat /\ 0 \in Empties /\ Reverts \in BOOLEAN

Versions == 0 .. MaxVersion

(***************************************************************************)
(* Rows stand for themselves and for the checksum computed of them.  A     *)
(* table without rows and one that is not there are not told apart: the    *)
(* dataset has a schema, so each rewriting creates the table.              *)
(***************************************************************************)
NoRows == <<>>
AllRows == {NoRows} \cup (Profiles \X Versions)

\* A seeding under way is "checking", "writing" or "recording".
Ended == {"skipped", "seeded", "failed"}

VARIABLES
  source,   \* version of each profile's rows in the manifests
  table,    \* rows in the dataset's table
  meta,     \* _dp_seed_meta: records of a profile and a checksum
  hasMeta,  \* whether there is a table _dp_seed_meta
  pc,       \* where each seeder is, or how its last seeding has ended
  profile,  \* the profile each seeds
  rows,     \* the rows each has resolved
  clean     \* seeders with --clean

vars == <<source, table, meta, hasMeta, pc, profile, rows, clean>>

resolveSeedRows(f) ==
  IF source[f] \in Empties THEN NoRows ELSE <<f, source[f]>>

Init ==
  /\ source \in [Profiles -> Versions]
  /\ table = NoRows
  /\ meta = {}
  /\ hasMeta = FALSE
  /\ pc = [s \in Seeders |-> "failed"]
  /\ profile \in [Seeders -> Profiles]
  /\ rows = [s \in Seeders |-> NoRows]
  /\ clean = {}

Goto(s, point) == pc' = [pc EXCEPT ![s] = point]

\* A developer edits the manifests.
Edit(f, v) ==
  /\ Reverts \/ v > source[f]
  /\ source' = [source EXCEPT ![f] = v]
  /\ UNCHANGED <<table, meta, hasMeta, pc, profile, rows, clean>>

\* Without rows and without --clean, the dataset is left as it is.
Begin(s, f, forced, cleaned) ==
  /\ pc[s] \in Ended
  /\ resolveSeedRows(f) # NoRows \/ cleaned
  /\ Goto(s, IF forced \/ cleaned THEN "writing" ELSE "checking")
  /\ profile' = [profile EXCEPT ![s] = f]
  /\ rows' = [rows EXCEPT ![s] = resolveSeedRows(f)]
  /\ clean' = IF cleaned THEN clean \cup {s} ELSE clean \ {s}
  /\ UNCHANGED <<source, table, meta, hasMeta>>

querySeedChecksum(s, checksum) == [profile |-> profile[s], checksum |-> checksum] \in meta

\* Mutant: any checksum that is recorded for the profile will do.
CheckAnyChecksum(s) ==
  /\ pc[s] = "checking"
  /\ hasMeta' \in {hasMeta, TRUE}
  /\ \/ (\E m \in meta : m.profile = profile[s]) /\ Goto(s, "skipped")
     \/ Goto(s, "writing")
  /\ UNCHANGED <<source, table, meta, profile, rows, clean>>

\* seedMetaDDL and the query may each fail: then the data counts as changed.
Check(s) ==
  /\ pc[s] = "checking"
  /\ hasMeta' \in {hasMeta, TRUE}
  /\ \/ querySeedChecksum(s, rows[s]) /\ Goto(s, "skipped")
     \/ Goto(s, "writing")
  /\ UNCHANGED <<source, table, meta, profile, rows, clean>>

\* What generateSeedSQL makes of the table: an empty list of rows drops the
\* old ones only with --clean, and Begin lets no other one through.
generateSeedSQL(s) == IF rows[s] # NoRows \/ s \in clean THEN rows[s] ELSE table

Write(s) ==
  /\ pc[s] = "writing"
  /\ table' = generateSeedSQL(s)
  /\ \/ Goto(s, "recording")
     \/ Goto(s, "failed")   \* the transaction is committed, the exec fails
  /\ UNCHANGED <<source, meta, hasMeta, profile, rows, clean>>

WriteFails(s) ==
  /\ pc[s] = "writing"
  /\ Goto(s, "failed")
  /\ UNCHANGED <<source, table, meta, hasMeta, profile, rows, clean>>

\* Mutant: INSERT without ON CONFLICT, into a table without a key.
RecordAnother(s) ==
  /\ pc[s] = "recording"
  /\ hasMeta
  /\ meta' = meta \cup {[profile |-> profile[s], checksum |-> rows[s]]}
  /\ Goto(s, "seeded")
  /\ UNCHANGED <<source, table, hasMeta, profile, rows, clean>>

\* upsertSeedChecksum; its error is ignored, also when --force or --clean have
\* skipped the creation of _dp_seed_meta.
Record(s) ==
  /\ pc[s] = "recording"
  /\ \/ /\ hasMeta
        /\ meta' = {m \in meta : m.profile # profile[s]}
                     \cup {[profile |-> profile[s], checksum |-> rows[s]]}
     \/ UNCHANGED meta
  /\ Goto(s, "seeded")
  /\ UNCHANGED <<source, table, hasMeta, profile, rows, clean>>

\* The dk process is interrupted between two execs.
Crash(s) ==
  /\ pc[s] \notin Ended
  /\ Goto(s, "failed")
  /\ UNCHANGED <<source, table, meta, hasMeta, profile, rows, clean>>

\* "Persistence is disabled in dev mode."
PodRestarts ==
  /\ table' = NoRows
  /\ meta' = {}
  /\ hasMeta' = FALSE
  /\ UNCHANGED <<source, pc, profile, rows, clean>>

Next ==
  \/ \E f \in Profiles, v \in Versions : Edit(f, v)
  \/ \E s \in Seeders :
       \/ \E f \in Profiles, forced, cleaned \in BOOLEAN : Begin(s, f, forced, cleaned)
       \/ Check(s) \/ Write(s) \/ WriteFails(s) \/ Record(s) \/ Crash(s)
  \/ PodRestarts

Spec == Init /\ [][Next]_vars

-----------------------------------------------------------------------------
(* Properties. *)

\* Every variable holds values of its kind; _dp_seed_meta has one record of a
\* profile, whose checksum is of rows of that profile.
TypeOK ==
  /\ source \in [Profiles -> Versions]
  /\ table \in AllRows
  /\ meta \subseteq [profile : Profiles, checksum : AllRows]
  /\ hasMeta \in BOOLEAN /\ (meta # {} => hasMeta)
  /\ pc \in [Seeders -> Ended \cup {"checking", "writing", "recording"}]
  /\ profile \in [Seeders -> Profiles]
  /\ rows \in [Seeders -> AllRows]
  /\ clean \subseteq Seeders
  /\ \A m, n \in meta : m.profile = n.profile => m = n
  /\ \A m \in meta : m.checksum # NoRows => m.checksum[1] = m.profile

\* "If the data hasn't changed, the seed is skipped": a seeding that is skipped
\* as unchanged finds exactly the rows it has resolved in the table, whatever
\* seedings have failed, lost their recording or been interrupted before it, and
\* whenever the database has lost everything.  ("The contents always match the
\* seed spec.")
SkippedIsExact ==
  [][\A s \in Seeders :
       pc[s] = "checking" /\ pc'[s] = "skipped" => table = rows[s]]_vars
=============================================================================
