------------------------------- MODULE Publish -------------------------------
(***************************************************************************)
(* A package directory and the registry: dk publish (cli/cmd/publish.go,   *)
(* sdk/registry/bundler.go, oras.go) and the overrides of dk run --set and *)
(* -f (applyOverrides in cli/cmd/run.go), which are written into dk.yaml.  *)
(*                                                                         *)
(* A publisher reads dk.yaml three times (for the version, for the config  *)
(* and into the manifest layer) and the other files once, checks that the  *)
(* tag is free, and then pushes the blobs and, last, the manifest and its  *)
(* tag.  The developer edits files meanwhile, other processes publish or   *)
(* run, each call may fail, and each process may be interrupted.           *)
(***************************************************************************)
EXTENDS Naturals, FiniteSets

CONSTANTS
  PackageVersions,     \* of the package
  Files,        \* of the package, dk.yaml apart
  Sort,         \* what each file is to the bundler
  Publishers,    \* dk processes, each on its own host
  MaxChanges,     \* bound: edits in a behaviour
  MaxCommands    \* bound: dk commands in a behaviour

\* "source", or in "schemas/", or a name that is excluded, or one that only
\* begins with "schemas", as schemas.sql does.
Sorts == {"source", "schemas", "excluded", "schemas-like"}

ASSUME PublishAssumption ==
  /\ Sort \in [Files -> Sorts]
  /\ MaxChanges \in Nat /\ MaxCommands \in Nat
  /\ IsFiniteSet(Publishers)

\* What a file system read of dk.yaml finds: the developer's text-th text, a
\* version, and whether overrides have been merged into it.
Empty == [text |-> 0, version |-> "none", merged |-> FALSE]

VARIABLES
  dk,         \* dk.yaml
  backup,     \* dk.yaml.bak; Empty if there is none
  present,    \* the files that exist
  edits,      \* number of edits
  latest,     \* the number of the developer's latest text of dk.yaml
  overrides,  \* runs with overrides that have begun since, or ran then
  blobs,      \* the registry's blobs
  tags,       \* the artifact whose manifest each tag names, or Empty
  work,       \* the command of each process
  commands    \* number of commands begun

directory == <<dk, backup, present, edits, latest, overrides>>
registry == <<blobs, tags>>
publishVars == <<dk, backup, present, edits, latest, overrides, blobs, tags, work, commands>>

Idle == [pc |-> "idle"]

PublishInit ==
  /\ dk \in [text : {1}, version : PackageVersions, merged : {FALSE}]
  /\ backup = Empty
  /\ present = Files
  /\ edits = 0 /\ latest = 1 /\ overrides = 0
  /\ blobs = {} /\ tags = [v \in PackageVersions |-> Empty]
  /\ work = [p \in Publishers |-> Idle]
  /\ commands = 0

\* Process p runs this command; is at this point of it.
Runs(p, command) == work[p] # Idle /\ work[p].command = command
At(p, pc) == work[p] # Idle /\ work[p].pc = pc

\* The processes that read the directory have seen it change.
Disturbed(w) == [p \in Publishers |-> IF w[p] = Idle THEN Idle ELSE [w[p] EXCEPT !.calm = FALSE]]

-----------------------------------------------------------------------------
(* The developer. *)

EditManifest(v) ==
  /\ edits < MaxChanges
  /\ edits' = edits + 1
  /\ latest' = latest + 1
  /\ dk' = [text |-> latest', version |-> v, merged |-> FALSE]
  /\ overrides' = 2 * Cardinality({p \in Publishers : Runs(p, "run")})
  /\ work' = Disturbed(work)
  /\ UNCHANGED <<backup, present, blobs, tags, commands>>

EditFile(f) ==
  /\ edits < MaxChanges
  /\ edits' = edits + 1
  /\ present' = IF f \in present THEN present \ {f} ELSE present \cup {f}
  /\ work' = Disturbed(work)
  /\ UNCHANGED <<dk, backup, latest, overrides, blobs, tags, commands>>

-----------------------------------------------------------------------------
(* A command moves on, or ends. *)

GoOn(p, pc) == work' = [work EXCEPT ![p].pc = pc]
End(p) == work' = [work EXCEPT ![p] = Idle]

BeginCommand(p, begun) ==
  /\ work[p] = Idle
  /\ commands < MaxCommands
  /\ commands' = commands + 1
  /\ work' = [work EXCEPT ![p] = begun]

\* Commands read dk.yaml whole, and fail without a kind in it.
Parsed(file) == file # Empty

-----------------------------------------------------------------------------
(* dk run with overrides. *)

ParseForRun(p) ==
  /\ Parsed(dk)
  /\ BeginCommand(p, [command |-> "run", pc |-> "override", calm |-> TRUE, base |-> Empty])
  /\ overrides' = overrides + 1
  /\ UNCHANGED <<dk, backup, present, edits, latest, registry>>

\* Merging into a file that reads empty is no error.
ReadBase(p) ==
  /\ At(p, "override")
  /\ work' = [work EXCEPT ![p].base = dk, ![p].pc = "truncate_backup"]
  /\ UNCHANGED <<directory, registry, commands>>

TruncateBackup(p) ==
  /\ At(p, "truncate_backup")
  /\ backup' = Empty
  /\ GoOn(p, "backup")
  /\ UNCHANGED <<dk, present, edits, latest, overrides, registry, commands>>

\* Mutant: the merged text is written before the original is safe.
WriteBackupLate(p) ==
  /\ At(p, "backup")
  /\ dk' = Empty
  /\ GoOn(p, "merge")
  /\ UNCHANGED <<backup, present, edits, latest, overrides, registry, commands>>

WriteBackup(p) ==
  /\ At(p, "backup")
  /\ backup' = work[p].base
  /\ GoOn(p, "truncate")
  /\ UNCHANGED <<dk, present, edits, latest, overrides, registry, commands>>

Truncate(p) ==
  /\ At(p, "truncate")
  /\ dk' = Empty
  /\ work' = [Disturbed(work) EXCEPT ![p].pc = "merge"]
  /\ UNCHANGED <<backup, present, edits, latest, overrides, registry, commands>>

\* The run goes on with the merged text, which stays.  When it cannot be written
\* the original is, if that works.
WriteMerged(p) ==
  /\ At(p, "merge")
  /\ dk' \in {[work[p].base EXCEPT !.merged = TRUE], work[p].base, Empty}
  /\ work' = [Disturbed(work) EXCEPT ![p] = Idle]
  /\ UNCHANGED <<backup, present, edits, latest, overrides, registry, commands>>

-----------------------------------------------------------------------------
(* dk publish. *)

\* The version is that of dk.yaml or, if given, that of --tag.
ParseForPublish(p, v, stamp) ==
  /\ Parsed(dk)
  /\ BeginCommand(p, [command |-> "publish", pc |-> "config", calm |-> TRUE, tag |-> v,
               checked |-> "no", artifact |-> [stamp |-> stamp]])
  /\ UNCHANGED <<directory, registry>>

\* An artifact with one more part.
Add(p, part, value, pc) ==
  work' = [work EXCEPT ![p].pc = pc,
                       ![p].artifact = [x \in DOMAIN @ \cup {part} |->
                                          IF x = part THEN value ELSE @[x]]]

Bundle(p) ==
  /\ At(p, "config")
  /\ IF Parsed(dk) THEN Add(p, "config", dk, "manifests") ELSE End(p)
  /\ UNCHANGED <<directory, registry, commands>>

\* addDirToTar: everything in schemas/.
InSchemas == {f \in present : Sort[f] = "schemas"}

\* With dk.yaml, which may read empty now.
CreateManifestLayer(p) ==
  /\ At(p, "manifests")
  /\ Add(p, "manifests", [dk |-> dk, files |-> InSchemas], "content")
  /\ UNCHANGED <<directory, registry, commands>>

\* Mutant: the files of the manifest layer are not skipped.
CreateContentLayerWhole(p) ==
  /\ At(p, "content")
  /\ Add(p, "content", {f \in present : Sort[f] # "excluded"}, "check")
  /\ UNCHANGED <<directory, registry, commands>>

CreateContentLayer(p) ==
  /\ At(p, "content")
  /\ Add(p, "content", {f \in present : Sort[f] = "source"}, "check")
  /\ UNCHANGED <<directory, registry, commands>>

\* Mutant: a tag that exists is no obstacle.
CheckTagIgnored(p) ==
  /\ At(p, "check")
  /\ work' = [work EXCEPT ![p].pc = "push", ![p].checked = "free"]
  /\ UNCHANGED <<directory, registry, commands>>

\* A registry that cannot say counts as one without the tag.
Exists(tag) == {IF tags[tag] = Empty THEN "free" ELSE "exists", "failed"}

CheckTag(p) ==
  /\ At(p, "check")
  /\ \E answer \in Exists(work[p].tag) :
       IF answer = "exists" THEN End(p)   \* ImmutabilityError
       ELSE work' = [work EXCEPT ![p].pc = "push", ![p].checked = answer]
  /\ UNCHANGED <<directory, registry, commands>>

\* --dry-run, or oras cannot push any further.
StopsShort(p) ==
  /\ At(p, "push")
  /\ End(p)
  /\ UNCHANGED <<directory, registry, commands>>

\* The config and the layers, found by their contents.
BlobsOf(a) == {<<part, IF part = "config" THEN <<a.config, a.stamp>> ELSE a[part]>> :
                 part \in {"config", "manifests", "content"}}

PushBlob(p, b) ==
  /\ At(p, "push")
  /\ b \in BlobsOf(work[p].artifact) \ blobs
  /\ blobs' = blobs \cup {b}
  /\ UNCHANGED <<directory, tags, work, commands>>

\* Mutant: the manifest is not pushed last.
PushManifestEarly(p) ==
  /\ At(p, "push")
  /\ tags' = [tags EXCEPT ![work[p].tag] = work[p].artifact]
  /\ UNCHANGED <<directory, blobs, work, commands>>

\* The copy's last step.  Its reply may be lost, which dk reports as a failure.
PushManifest(p) ==
  /\ At(p, "push")
  /\ BlobsOf(work[p].artifact) \subseteq blobs
  /\ tags' = [tags EXCEPT ![work[p].tag] = work[p].artifact]
  /\ work' = [q \in Publishers |->
                IF q = p THEN Idle
                ELSE IF Runs(q, "publish") /\ work[q].tag = work[p].tag
                        /\ work[q].checked = "free"
                     THEN [work[q] EXCEPT !.checked = "overtaken"] ELSE work[q]]
  /\ UNCHANGED <<directory, blobs, commands>>

InterruptPublish(p) ==
  /\ work[p] # Idle
  /\ End(p)
  /\ UNCHANGED <<directory, registry, commands>>

-----------------------------------------------------------------------------
Developer ==
  \/ \E v \in PackageVersions : EditManifest(v)
  \/ \E f \in Files : EditFile(f)

Run(p) ==
  ParseForRun(p) \/ ReadBase(p) \/ TruncateBackup(p) \/ WriteBackup(p)
    \/ Truncate(p) \/ WriteMerged(p)

\* An artifact says when, to the second, and on which host it was bundled.
PublishPackage(p) ==
  \/ \E v \in PackageVersions : ParseForPublish(p, v, <<p, commands>>)
  \/ Bundle(p) \/ CreateManifestLayer(p) \/ CreateContentLayer(p)
  \/ CheckTag(p) \/ StopsShort(p)
  \/ At(p, "push")
       /\ \E b \in BlobsOf(work[p].artifact) : PushBlob(p, b)
  \/ PushManifest(p)

PublishNext ==
  \/ Developer
  \/ \E p \in Publishers : Run(p) \/ PublishPackage(p) \/ InterruptPublish(p)

PublishSpec == PublishInit /\ [][PublishNext]_publishVars

-----------------------------------------------------------------------------
(* Properties. *)

\* "Tag immutability is enforced": a tag that names an artifact comes to name
\* another only by a publisher that could not ask the registry for the tag, or
\* that found it free before another publisher took it.
TagsAreImmutable ==
  [][\A v \in PackageVersions : tags[v] # Empty /\ tags'[v] # tags[v] =>
       \E p \in Publishers : work[p] # Idle /\ work'[p] = Idle /\ work[p].tag = v
                              /\ work[p].checked \in {"failed", "overtaken"}]_publishVars

\* "attempting to publish the same version twice will fail": a tag that names an
\* artifact names it for ever.
PublishedTwiceFails ==
  [][\A v \in PackageVersions : tags[v] # Empty => tags'[v] = tags[v]]_publishVars

\* The two layers and the config of an artifact that was bundled while nothing
\* in the directory changed agree: config and manifest layer hold one text of
\* dk.yaml, and every file is in exactly one layer, those apart that are
\* excluded and, which nobody asks for, those whose names begin with "schemas".
CalmBundlesAreWhole ==
  \A p \in Publishers :
    work[p] # Idle /\ work[p].pc \in {"check", "push"} /\ work[p].calm =>
      LET a == work[p].artifact
      IN /\ a.manifests.dk = a.config
         /\ a.manifests.files \cap a.content = {}
         /\ a.manifests.files \cup a.content =
              {f \in present : Sort[f] \in {"source", "schemas"}}

\* applyOverrides: "the user can restore from .bak".  What the developer last
\* wrote is in dk.yaml or in its backup, interrupted and failing runs included;
\* but only until a second run with overrides begins, whose backup is what the
\* first has written, and not if a run that has read an older text still writes.
TextIsKept ==
  overrides <= 1 => \E file \in {dk, backup} : file.text = latest /\ ~file.merged

\* A tag that has its manifest names nothing as long as blobs are missing.
Named == [v \in PackageVersions |-> IF tags[v] # Empty /\ BlobsOf(tags[v]) \subseteq blobs
                             THEN tags[v] ELSE Empty]
Offers == {<<work[p].tag, work[p].artifact>> : p \in {q \in Publishers : At(q, "push")}}
R == INSTANCE Registry WITH Tags <- PackageVersions, Nothing <- Empty,
                            named <- Named, offers <- Offers

\* Publishing implements Registry: whatever is pushed, interrupted, or pushed
\* again, a tag names at once a whole artifact that was made for it.
PublishesWhole == R!RegistrySpec
=============================================================================
