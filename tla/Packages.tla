------------------------------ MODULE Packages ------------------------------
(***************************************************************************)
(* A package directory and the commands that judge it: dk lint, the first  *)
(* step of dk build, dk dataset validate, and dk lock with its --verify.   *)
(* dk.yaml, datasets/, schemas/ and dk.lock are edited by the developer    *)
(* and by dk dataset create and add, while dk lock runs.                   *)
(*                                                                         *)
(* A text is "" when it is missing and "?" when the check of its format    *)
(* refuses it.  A schema reference is a sequence: <<>> when there is none, *)
(* <<module>>, or <<module, operator, version>> for module@constraint.  An *)
(* issue is its severity, code and field; the indices of lists are left    *)
(* out of fields, and wording out of issues.                               *)
(***************************************************************************)
EXTENDS Naturals, Sequences, FiniteSets, SequencesExt

CONSTANTS
  Manifests,     \* contents of dk.yaml
  DatasetFiles,  \* contents of a dataset.yaml, other than those dk writes
  DatasetDirs,   \* the names of directories in datasets/, in their order
  SchemaDirs,    \* contents of schemas/: sets of <<extension, state of the file>>
  Constraints,   \* constraints given to dk dataset add: <<>> or <<operator, version>>
  Lockers,       \* processes of dk lock
  MaxPackageEdits  \* changes of the package before a behaviour is cut

ASSUME PackagesAssumption ==
  MaxPackageEdits \in Nat /\ IsFiniteSet(Lockers) /\ DatasetDirs \in Seq(STRING)

VARIABLES
  dkYaml,        \* dk.yaml
  datasets,      \* datasets/<name>/dataset.yaml, by name
  schemas,       \* schemas/
  lock,          \* dk.lock
  lockers,       \* what each dk lock is doing
  changes,         \* how often the package was changed
  locked         \* history: the last dk lock that ended read the package as it is

packageVars == <<dkYaml, datasets, schemas, lock, lockers, changes, locked>>

AbsentFile == [kind |-> "absent"]
BrokenFile == [kind |-> "broken"]      \* not YAML, or of other types than the program's
NoLock == [state |-> "absent", schemas |-> [m \in {} |-> ""]]
GarbledLock == [state |-> "garbled", schemas |-> [m \in {} |-> ""]]
Lock(s) == [state |-> "present", schemas |-> s]

-----------------------------------------------------------------------------
(* Formats and issues.                                                     *)

Malformed(text) == text = "?"

Err(code, field) == <<"error", code, field>>
Warn(code, field) == <<"warning", code, field>>
When(cond, issue) == IF cond THEN {issue} ELSE {}
HasErrors(issues) == \E i \in issues : i[1] # "warning"

ParseSchemaRef(ref) == [module |-> ref[1], constraint |-> Tail(ref)]

isSchemaRefValid(ref) ==
  /\ ~Malformed(ref[1]) /\ ref[1] # ""
  /\ Len(ref) > 1 => ref[2] # "" \/ ref[3] # ""

\* Issues of inline schema fields: both validators, under their own codes.
FieldIssues(fields, incomplete, duplicate) ==
  UNION {When(fields[i].name = "", Err(incomplete, "spec.schema.name"))
           \cup When(/\ fields[i].name # ""
                     /\ \E j \in 1..(i - 1) : fields[j].name = fields[i].name,
                     Err(duplicate, "spec.schema.name"))
           \cup When(fields[i].type = "", Err(incomplete, "spec.schema.type"))
           : i \in DOMAIN fields}

Classifications == {"", "public", "internal", "confidential", "restricted"}

-----------------------------------------------------------------------------
(* ManifestValidator, by kind.                                             *)

Kinds == {"Connector", "Store", "DataSet", "DataSetGroup", "Transform"}

\* ParseManifest refuses a missing or unknown kind and fields of wrong types: of
\* such a file only the kind is kept.
ParseManifest(m) == m.kind \in Kinds /\ DOMAIN m # {"kind"}

\* What is a list in the files is a sequence here, and schemas/ is finite.
IsList(s) == s \in Seq(ToSet(s))

ASSUME FilesAssumption ==
  /\ \A m \in Manifests : ParseManifest(m) =>
       /\ m.kind = "Transform" => IsList(m.inputs) /\ IsList(m.outputs) /\ IsList(m.trigger)
       /\ m.kind = "DataSet" => IsList(m.schema)
  /\ \A f \in DatasetFiles : f = BrokenFile \/ IsList(f.schema)
  /\ \A files \in SchemaDirs : IsFiniteSet(files)

\* A missing name and an unsafe one share a code.
validateCommonFields(m) ==
  When(m.name = "" \/ Malformed(m.name), Err("E001", "metadata.name"))
    \cup When(m.kind # "Connector" /\ Malformed(m.namespace),
              Err("E001", "metadata.namespace"))
    \cup When(m.kind \in {"Connector", "Transform"} /\ Malformed(m.version),
              Err("E020", "version"))

validateConnector(c) ==
  When(c.type = "", Err("E200", "spec.type"))
    \cup When(c.capabilities = {}, Err("E201", "spec.capabilities"))
    \cup When(~(c.capabilities \subseteq {"source", "destination"}),
              Err("E002", "spec.capabilities"))
    \cup When(Malformed(c.provider), Err("E001", "spec.provider"))
    \cup When(\E t \in c.tools : t.name = "", Err("E001", "spec.tools.name"))
    \cup When(\E t \in c.tools : t.type \notin {"exec", "config"},
              Err("E002", "spec.tools.type"))

validateStore(s) ==
  When(s.connector = "", Err("E210", "spec.connector"))
    \cup When(s.connection = {}, Err("E211", "spec.connection"))
    \cup When(Malformed(s.connectorVersion), Err("E002", "spec.connectorVersion"))
    \cup When("" \in s.secrets, Err("E212", "spec.secrets"))

validateDataSet(a) ==
  When(a.store = "", Err("E220", "spec.store"))
    \cup When(Malformed(a.version), Err("E020", "metadata.version"))
    \cup When(~a.located, Err("E221", "spec"))
    \cup When(a.ref # <<>> /\ a.schema # <<>>, Err("E310", "spec.schemaRef"))
    \cup When(a.ref # <<>> /\ ~isSchemaRefValid(a.ref), Err("E311", "spec.schemaRef"))
    \cup FieldIssues(a.schema, "E222", "E043")
    \cup When(a.classification \notin Classifications, Err("E002", "spec.classification"))

validateDataSetGroup(g) ==
  When(g.store = "", Err("E240", "spec.store"))
    \cup When(g.datasets = {}, Err("E241", "spec.datasets"))

validateDataSetRef(ref, path) ==
  When(ref.dataset = "" /\ ~ref.tags, Err("E001", path))
    \cup When(ref.dataset # "" /\ ref.tags, Err("E002", path))
    \cup When(ref.version # "" /\ ~ref.tags, Warn("W210", path))
    \cup When(ref.schema # <<>> /\ ~isSchemaRefValid(ref.schema), Err("E311", path))

Policies == {"schedule", "on-change", "manual"}

\* A trigger is <<>> when there is none.
triggerIssues(trigger) ==
  UNION {When(t.policy \notin Policies \cup {"composite"}, Err("E002", "spec.trigger.policy"))
           \cup When(t.policy = "schedule" /\ ~t.schedule,
                     Err("E001", "spec.trigger.schedule"))
           \cup When(t.policy = "composite" /\ t.policies = {},
                     Err("E001", "spec.trigger.policies"))
           \cup When(t.policy = "composite" /\ ~(t.policies \subseteq Policies),
                     Err("E002", "spec.trigger.policies"))
           : t \in ToSet(trigger)}

refIssues(refs, path) == UNION {validateDataSetRef(r, path) : r \in ToSet(refs)}

validateTransform(tr) ==
  When(tr.runtime \notin {"cloudquery", "generic-go", "generic-python", "dbt"},
       Err("E002", "spec.runtime"))
    \cup When(tr.mode \notin {"", "batch", "streaming"}, Err("E002", "spec.mode"))
    \cup When(tr.inputs = <<>>, Err("E230", "spec.inputs"))
    \cup When(tr.outputs = <<>>, Err("E231", "spec.outputs"))
    \cup When(tr.runtime \in {"generic-go", "generic-python", "dbt"} /\ tr.image = "",
              Err("E232", "spec.image"))
    \cup When(tr.mode \in {"", "batch"} /\ tr.trigger = <<>>, Warn("W209", "spec.trigger"))
    \cup triggerIssues(tr.trigger)
    \cup When(Malformed(tr.timeout), Err("E031", "spec.timeout"))
    \cup refIssues(tr.inputs, "spec.inputs")
    \cup refIssues(tr.outputs, "spec.outputs")

ManifestIssues(m) ==
  validateCommonFields(m) \cup
    (CASE m.kind = "Connector" -> validateConnector(m)
       [] m.kind = "Store" -> validateStore(m)
       [] m.kind = "DataSet" -> validateDataSet(m)
       [] m.kind = "DataSetGroup" -> validateDataSetGroup(m)
       [] m.kind = "Transform" -> validateTransform(m))

-----------------------------------------------------------------------------
(* DataSetValidator: other rules than ManifestValidator's for that kind; a *)
(* missing location is only a warning, and no rule looks at the reference. *)

validateStructure(a) ==
  When(a.apiVersion = "", Err("E070", "apiVersion"))
    \cup When(a.kind = "", Err("E070", "kind"))
    \cup When(a.kind \notin {"", "DataSet"}, Err("E002", "kind"))
    \cup When(a.name = "", Err("E070", "metadata.name"))
    \cup When(Malformed(a.name), Err("E002", "metadata.name"))
    \cup When(a.store = "", Err("E070", "spec.store"))
    \cup When(~a.located, Warn("E070", "spec"))
    \cup When(a.classification \notin Classifications, Err("E002", "spec.classification"))
    \cup FieldIssues(a.schema, "E070", "E002")

\* LoadAllDataSets fails on the first dataset.yaml that it cannot read.
DataSetsLoad == \A d \in DOMAIN datasets : datasets[d] # BrokenFile

LoadAllDataSets == {datasets[d] : d \in ToSet(DatasetDirs)} \ {AbsentFile}

-----------------------------------------------------------------------------
(* AggregateValidator.  A result keeps issues and their verdict apart: the *)
(* commands look at one or the other.                                      *)

Valid == [valid |-> TRUE, errors |-> {}, warnings |-> {}]
AddError(code, field) == [valid |-> FALSE, errors |-> {Err(code, field)}, warnings |-> {}]
AddWarning(msg) == [valid |-> TRUE, errors |-> {}, warnings |-> {msg}]

MergeResults(r, other) ==
  [valid |-> r.valid /\ other.valid,
   errors |-> r.errors \cup other.errors,
   warnings |-> r.warnings \cup other.warnings]

\* The warnings of a manifest without errors are dropped.
validateManifest ==
  IF ~ParseManifest(dkYaml) THEN AddError("E041", "dk.yaml")
  ELSE LET issues == ManifestIssues(dkYaml)
       IN  IF HasErrors(issues) THEN [valid |-> FALSE, errors |-> issues, warnings |-> {}]
           ELSE Valid

\* Avro, JSON and Protobuf files; what has another extension is not looked at.
validateSchemas ==
  LET bad == {f \in schemas : f[1] \in {".avsc", ".json", ".proto"} /\ f[2] = "bad"}
      unread == {f \in schemas : f[1] \in {".avsc", ".json", ".proto"} /\ f[2] = "unreadable"}
  IN  [valid |-> bad = {},
       errors |-> {Err("E042", f[1]) : f \in bad},
       warnings |-> {f[1] : f \in unread}]

\* The issues of datasets are all kept, and errors among them decide.
validateDataSets ==
  IF ~DataSetsLoad THEN AddWarning("datasets")
  ELSE LET issues == UNION {validateStructure(ds) : ds \in LoadAllDataSets}
       IN  [valid |-> ~HasErrors(issues), errors |-> issues, warnings |-> {}]

SchemaRefs == {ds.ref : ds \in LoadAllDataSets} \ {<<>>}

\* Mutant: an E312 is added to the errors and the result stays valid.
validateSchemaLockValid ==
  LET missing == {r \in SchemaRefs : ParseSchemaRef(r).module \notin DOMAIN lock.schemas}
  IN  CASE lock.state = "garbled" -> AddWarning("dk.lock")
        [] lock.state # "garbled" /\ ~DataSetsLoad -> Valid
        [] lock.state = "absent" /\ DataSetsLoad ->
             IF SchemaRefs # {} THEN AddWarning("dk.lock not found") ELSE Valid
        [] lock.state = "present" /\ DataSetsLoad ->
             [valid |-> TRUE,
              errors |-> {Err("E312", ParseSchemaRef(r).module) : r \in missing},
              warnings |-> {}]

\* With or without a lock, datasets that do not load have nothing to be locked.
validateSchemaLock ==
  LET missing == {r \in SchemaRefs : ParseSchemaRef(r).module \notin DOMAIN lock.schemas}
  IN  CASE lock.state = "garbled" -> AddWarning("dk.lock")
        [] lock.state # "garbled" /\ ~DataSetsLoad -> Valid
        [] lock.state = "absent" /\ DataSetsLoad ->
             IF SchemaRefs # {} THEN AddWarning("dk.lock not found") ELSE Valid
        [] lock.state = "present" /\ DataSetsLoad ->
             [valid |-> missing = {},
              errors |-> {Err("E312", ParseSchemaRef(r).module) : r \in missing},
              warnings |-> {}]

Validate ==
  LET manifest == IF dkYaml = AbsentFile THEN AddError("E040", "dk.yaml")
                  ELSE validateManifest
  IN  MergeResults(MergeResults(manifest, validateSchemas),
                   MergeResults(validateDataSets, validateSchemaLock))

-----------------------------------------------------------------------------
(* The verdicts of the commands on a result of Validate.                   *)

\* dk lint ends well on a verdict without warnings, and goes by the issues else;
\* --strict adds the result's own warnings, not those among the issues.
LintFails(result, strict) ==
  /\ ~(result.valid /\ result.warnings = {})
  /\ HasErrors(result.errors) \/ (strict /\ result.warnings # {})

\* dk lint --scan-dir of a directory with this package alone: only a dk.yaml in
\* which the kind Transform is found is looked at, and the issues are counted.
ProjectLintFails(result, strict) ==
  /\ dkYaml.kind = "Transform"
  /\ LET passed == result.valid /\ result.warnings = {}
         totalErrors ==
           IF ~passed /\ HasErrors(result.errors) THEN Cardinality(result.errors) ELSE 0
         totalWarnings == IF passed THEN 0 ELSE Cardinality(result.warnings)
     IN  totalErrors > 0 \/ (strict /\ totalWarnings > 0)

\* The first step of dk build goes by the verdict.
BuildFails(result) == dkYaml = AbsentFile \/ ~result.valid \/ ~ParseManifest(dkYaml)

\* dk dataset validate without an argument: a warning fails it, too.
DataSetValidateFails ==
  ~DataSetsLoad \/ \E ds \in LoadAllDataSets : validateStructure(ds) # {}

-----------------------------------------------------------------------------
(* dk lock.                                                                *)

extractTransformSchemaRefs ==
  IF dkYaml.kind # "Transform" \/ ~ParseManifest(dkYaml) THEN <<>>
  ELSE LET refs == dkYaml.inputs \o dkYaml.outputs
       IN  [i \in DOMAIN refs |-> refs[i].schema]

\* Mutant: the datasets are left out.
collectTransformRefs == extractTransformSchemaRefs

\* References of datasets, in the order of their directories, then dk.yaml's; with
\* <<>> where there is none.
collectSchemaRefs ==
  LET refOf(d) == IF DataSetsLoad /\ datasets[d] # AbsentFile THEN datasets[d].ref ELSE <<>>
  IN  [i \in DOMAIN DatasetDirs |-> refOf(DatasetDirs[i])] \o extractTransformSchemaRefs

Refs(refs) == ToSet(refs) \ {<<>>}

stripConstraintPrefix(constraint) == IF constraint = <<>> THEN "" ELSE constraint[2]

lockedVersion(ref) ==
  LET version == stripConstraintPrefix(ParseSchemaRef(ref).constraint)
  IN  IF version = "" THEN "0.0.0" ELSE version

\* The first reference to a module decides its version.
buildLockFromRefs(refs) ==
  LET places(m) == {i \in DOMAIN refs : refs[i] # <<>> /\ ParseSchemaRef(refs[i]).module = m}
  IN  [m \in {ParseSchemaRef(r).module : r \in Refs(refs)} |->
         lockedVersion(refs[Min(places(m))])]

\* dk lock --verify; without references it accepts any dk.lock.
VerifyFails ==
  /\ Refs(collectSchemaRefs) # {}
  /\ \/ lock.state # "present"
     \/ \E r \in Refs(collectSchemaRefs) :
          ParseSchemaRef(r).module \notin DOMAIN lock.schemas

IdleLocker == [pc |-> "idle", schemas |-> [m \in {} |-> ""], current |-> FALSE]

\* The references are read; without one dk lock ends and leaves dk.lock as it is.
CollectRefs(l) ==
  /\ lockers[l].pc = "idle"
  /\ IF Refs(collectSchemaRefs) = {}
       THEN locked' = (\A k \in Lockers : lockers[k].pc # "truncated") /\ UNCHANGED lockers
       ELSE /\ lockers' = [lockers EXCEPT ![l] =
                 [pc |-> "collected", schemas |-> buildLockFromRefs(collectSchemaRefs),
                  current |-> TRUE]]
            /\ UNCHANGED locked
  /\ UNCHANGED <<dkYaml, datasets, schemas, lock, changes>>

\* os.WriteFile empties the file first: an empty dk.lock reads as one without entries.
TruncateLock(l) ==
  /\ lockers[l].pc = "collected"
  /\ lock' = Lock([m \in {} |-> ""])
  /\ lockers' = [lockers EXCEPT ![l].pc = "truncated"]
  /\ UNCHANGED <<dkYaml, datasets, schemas, changes, locked>>

\* Over what another wrote since, a shorter text leaves the other's rest behind it.
WriteLockFile(l) ==
  /\ lockers[l].pc = "truncated"
  /\ LET mine == Lock(lockers[l].schemas)
         alone == lock \in {mine, Lock([m \in {} |-> ""])}
     IN  /\ lock' \in {mine} \cup (IF alone THEN {} ELSE {GarbledLock})
         /\ locked' = (lockers[l].current /\ alone)
  /\ lockers' = [lockers EXCEPT ![l] = IdleLocker]
  /\ UNCHANGED <<dkYaml, datasets, schemas, changes>>

\* dk lock is killed, with the file as it is.
LockKilled(l) ==
  /\ lockers[l].pc # "idle"
  /\ locked' = (locked /\ lockers[l].pc # "truncated")
  /\ lockers' = [lockers EXCEPT ![l] = IdleLocker]
  /\ UNCHANGED <<dkYaml, datasets, schemas, lock, changes>>

-----------------------------------------------------------------------------
(* Changes of the package.                                                 *)

\* What dk lock has read, or wrote, is no longer the package.
Changed ==
  /\ changes < MaxPackageEdits
  /\ changes' = changes + 1
  /\ locked' = FALSE
  /\ lockers' = [l \in Lockers |-> [lockers[l] EXCEPT !.current = FALSE]]

NewDataSet(name, store, ref) ==
  [apiVersion |-> "v1alpha1", kind |-> "DataSet", name |-> name, store |-> store,
   located |-> FALSE, classification |-> "", ref |-> ref, schema |-> <<>>]

\* dk dataset create: the name is looked for in all datasets, provided they load.
Scaffold(name, store, force) ==
  /\ \/ force
     \/ /\ datasets[name] = AbsentFile
        /\ DataSetsLoad => \A ds \in LoadAllDataSets : ds.name # name
  /\ datasets' = [datasets EXCEPT ![name] = NewDataSet(name, store, <<>>)]
  /\ Changed /\ UNCHANGED <<dkYaml, schemas, lock>>

\* dk dataset add: only the file is looked for.
runDataSetAdd(name, constraint, store, force) ==
  /\ force \/ datasets[name] = AbsentFile
  /\ datasets' = [datasets EXCEPT ![name] = NewDataSet(name, store, <<name>> \o constraint)]
  /\ Changed /\ UNCHANGED <<dkYaml, schemas, lock>>

EditDkYaml(m) ==
  /\ dkYaml' = m
  /\ Changed /\ UNCHANGED <<datasets, schemas, lock>>

EditDataset(name, file) ==
  /\ datasets' = [datasets EXCEPT ![name] = file]
  /\ Changed /\ UNCHANGED <<dkYaml, schemas, lock>>

EditSchemas(files) ==
  /\ schemas' = files
  /\ Changed /\ UNCHANGED <<dkYaml, datasets, lock>>

\* Removed, or left with the marks of a merge.
EditLock ==
  /\ lock' \in {NoLock, GarbledLock}
  /\ changes < MaxPackageEdits /\ changes' = changes + 1 /\ locked' = FALSE
  /\ UNCHANGED <<dkYaml, datasets, schemas, lockers>>

-----------------------------------------------------------------------------
PackagesInit ==
  /\ dkYaml \in Manifests
  /\ datasets = [d \in ToSet(DatasetDirs) |-> AbsentFile]
  /\ schemas = {} /\ lock = NoLock
  /\ lockers = [l \in Lockers |-> IdleLocker]
  /\ changes = 0 /\ locked = FALSE

PackagesNext ==
  \/ \E l \in Lockers :
       CollectRefs(l) \/ TruncateLock(l) \/ WriteLockFile(l) \/ LockKilled(l)
  \/ \E d \in ToSet(DatasetDirs), store \in {"", "pg"}, force \in BOOLEAN :
       \/ Scaffold(d, store, force)
       \/ \E c \in Constraints : runDataSetAdd(d, c, store, force)
  \/ \E m \in Manifests \cup {AbsentFile} : EditDkYaml(m)
  \/ \E d \in ToSet(DatasetDirs), f \in DatasetFiles \cup {AbsentFile} : EditDataset(d, f)
  \/ \E files \in SchemaDirs : EditSchemas(files)
  \/ EditLock

PackagesSpec == PackagesInit /\ [][PackagesNext]_packageVars

-----------------------------------------------------------------------------
\* What dk lock --verify accepts has no E312 in dk lint, and no warning of a missing
\* dk.lock: lock and lint read the same references (collectSchemaRefs in lock.go,
\* validateSchemaLock in aggregate.go).  And a dk lock that ended with the package
\* still as it read it, while no other is writing, leaves what --verify accepts,
\* each module at a version that one of its references names.
VerifiedLints ==
  LET result == Validate
      refs == Refs(collectSchemaRefs)
  IN  /\ ~VerifyFails =>
           /\ \A i \in result.errors : i[2] # "E312"
           /\ "dk.lock not found" \notin result.warnings
      /\ (locked /\ \A l \in Lockers : lockers[l].pc # "truncated") =>
           /\ ~VerifyFails
           /\ \A r \in refs : LET m == ParseSchemaRef(r).module IN
                \E q \in refs : /\ ParseSchemaRef(q).module = m
                              /\ lock.schemas[m] = lockedVersion(q)

\* The commands that judge a package agree, although one goes by the list of issues,
\* one by a verdict kept beside it, and one by warnings, too: dk build refuses in its
\* first step, dk lint fails and dk lint --scan-dir fails (of what it looks at) just
\* the packages with an issue that is an error, the latter two agree under --strict,
\* and datasets that dk dataset validate accepts have no issue in dk lint.
LintsAgree ==
  LET result == Validate
      bad == HasErrors(result.errors)
  IN  /\ BuildFails(result) <=> bad
      /\ LintFails(result, FALSE) <=> bad
      /\ \A strict \in BOOLEAN :
           dkYaml.kind = "Transform" =>
             (ProjectLintFails(result, strict) <=> LintFails(result, strict))
      /\ ~DataSetValidateFails => validateDataSets = Valid
=============================================================================
