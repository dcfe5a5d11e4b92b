------------------------------- MODULE Config -------------------------------
(***************************************************************************)
(* Configuration of dk in three scopes, and the dk config commands:        *)
(* sdk/localdev/config.go and cli/cmd/config.go.                           *)
(*                                                                         *)
(* A command loads the file of one scope, changes one key or one mirror in *)
(* memory and writes the whole file back: os.WriteFile truncates the file  *)
(* before it writes, nothing locks it, and a command may be interrupted    *)
(* anywhere.  Every dk command reads the files while others write them.    *)
(*                                                                         *)
(* A file is what yaml.Unmarshal finds in it, so that a file that does not *)
(* exist and an empty one are the same; so is, for a reader that passes    *)
(* over errors, one that cannot be read or parsed.  One write is whole;    *)
(* what it leaves of a longer text under it makes the file malformed, or   *)
(* says nothing.  A key is a tuple: the only component of a static key is  *)
(* its name; a dynamic key (of a plugin override, a destination or a       *)
(* chart) is an entry's name and a field.                                  *)
(***************************************************************************)
EXTENDS Naturals, Sequences, SequencesExt, FiniteSets

CONSTANTS
  Scopes,        \* the scopes dk finds a path for, narrowest first
  StaticKeys,    \* some of "dev.runtime", "dev.workspace", ...
  DynamicKeys,   \* some pairs of an entry's name and a field
  ChartEntries,  \* the names of those entries that are charts
  Texts,         \* valid values, none of them empty, by scope
  Mirrors,       \* valid registries
  Commanders,    \* dk config processes
  MaxCommands    \* bound: commands in a behaviour

ConfigScope == Range(Scopes)
Empty == ""
Keys == {<<k>> : k \in StaticKeys} \cup DynamicKeys
IsStatic(key) == Len(key) = 1

ASSUME ConfigAssumption ==
  /\ StaticKeys \subseteq {"dev.runtime", "dev.workspace", "dev.k3d.clusterName",
                           "plugins.registry"}
  /\ DOMAIN Texts = ConfigScope
  /\ \A s \in ConfigScope : Empty \notin Texts[s]
  /\ Scopes \in Seq(STRING)
  /\ \A key \in DynamicKeys : Len(key) = 2 /\ key = <<key[1], key[2]>>
  /\ \A key \in DynamicKeys : key[2] = "values" => key[1] \in ChartEntries
  /\ MaxCommands \in Nat

BuiltIn(k) ==
  CASE k = "dev.runtime" -> "k3d"
    [] k = "dev.k3d.clusterName" -> "dk-local"
    [] k = "plugins.registry" -> "ghcr.io/infobloxopen"
    [] OTHER -> Empty

\* The keys LoadConfigFromPath gives their default, and those SaveConfig
\* writes even when they are empty (they have no omitempty).
Defaulted == {"dev.runtime", "dev.k3d.clusterName"} \cap StaticKeys
AlwaysWritten == {"dev.runtime", "dev.workspace", "dev.k3d.clusterName"} \cap StaticKeys

\* A chart's values are a map, in which an empty value is still one.
IsMapValue(key) == Len(key) = 2 /\ key[2] = "values"
IsChartKey(key) == Len(key) = 2 /\ key[1] \in ChartEntries

\* ValidateField: what may be set; a chart's version may be empty as well.
ValidateField(key, value) ==
  /\ key \in Keys
  /\ key # <<"dev.runtime">>   \* whose only valid value is its default
  /\ value = Empty => key = <<"dev.workspace">> \/ IsChartKey(key)

NoFile == [static |-> <<>>, entries |-> <<>>, mirrors |-> <<>>]

VARIABLES
  files,      \* the file of each scope, NoFile if it is malformed
  malformed,  \* scopes whose file cannot be read or parsed
  command,    \* the command each process runs
  alone,      \* processes whose file nobody else has written since they loaded it
  commands    \* number of commands begun

\* A process without a command.
NoCommand == [pc |-> "idle"]

configVars == <<files, malformed, command, alone, commands>>

-----------------------------------------------------------------------------
(* Loading, changing and saving one scope's file. *)

Without(f, x) == [y \in DOMAIN f \ {x} |-> f[y]]
With(f, x, v) == [y \in DOMAIN f \cup {x} |-> IF y = x THEN v ELSE f[y]]
Lookup(f, x, default) == IF x \in DOMAIN f THEN f[x] ELSE default

\* A Config: every static key has a value, possibly empty.
LoadConfigFromPath(file) ==
  [file EXCEPT !.static =
     [k \in StaticKeys |->
        IF k \in Defaulted /\ Lookup(file.static, k, Empty) = Empty
        THEN BuiltIn(k) ELSE Lookup(file.static, k, Empty)]]

SaveConfigToPath(config) ==
  [config EXCEPT !.static =
     [k \in {j \in StaticKeys : j \in AlwaysWritten \/ config.static[j] # Empty} |->
        config.static[k]]]

\* An empty version is written as no version: its entry remains.
SetField(config, key, value) ==
  IF IsStatic(key) THEN [config EXCEPT !.static[key[1]] = value]
  ELSE LET entry == Lookup(config.entries, key[1], <<>>)
       IN [config EXCEPT !.entries =
             With(@, key[1], IF value = Empty /\ ~IsMapValue(key)
                             THEN Without(entry, key[2])
                             ELSE With(entry, key[2], value))]

\* Mutant: the entry goes whatever else it holds.
UnsetFieldWhole(config, key) ==
  IF IsStatic(key) THEN [config EXCEPT !.static[key[1]] = Empty]
  ELSE IF key[1] \notin DOMAIN config.entries THEN config
  ELSE [config EXCEPT !.entries = Without(@, key[1])]

\* An entry without fields is removed.
UnsetField(config, key) ==
  IF IsStatic(key) THEN [config EXCEPT !.static[key[1]] = Empty]
  ELSE IF key[1] \notin DOMAIN config.entries THEN config
  ELSE LET entry == Without(config.entries[key[1]], key[2])
       IN [config EXCEPT !.entries =
             IF DOMAIN entry = {} THEN Without(@, key[1]) ELSE With(@, key[1], entry)]

-----------------------------------------------------------------------------
(* Reading all scopes: dk config get, and the merge the other commands use. *)

\* The set of the one value a file gives a key, or the empty set.
GetField(file, key) ==
  IF IsStatic(key)
  THEN {file.static[k] : k \in {key[1]} \cap DOMAIN file.static} \ {Empty}
  ELSE UNION {{file.entries[e][f] : f \in {key[2]} \cap DOMAIN file.entries[e]} :
                 e \in {key[1]} \cap DOMAIN file.entries}

\* The indices of the scopes that give the key a value.
Setting(fs, key) == {i \in DOMAIN Scopes : GetField(fs[Scopes[i]], key) # {}}

Narrowest(is) == CHOOSE i \in is : \A j \in is : i <= j

EffectiveSource(fs, key) ==
  IF Setting(fs, key) = {} THEN "built-in" ELSE Scopes[Narrowest(Setting(fs, key))]

EffectiveValue(fs, key) ==
  IF Setting(fs, key) = {}
  THEN IF IsStatic(key) THEN BuiltIn(key[1]) ELSE Empty
  ELSE CHOOSE v \in GetField(fs[EffectiveSource(fs, key)], key) : TRUE

\* yaml.Unmarshal of a file into a Config: a key that is present replaces the
\* value, also by an empty one, and so does a whole entry.
Unmarshal(file, config) ==
  [static  |-> [k \in StaticKeys |-> Lookup(file.static, k, config.static[k])],
   entries |-> [e \in DOMAIN config.entries \cup DOMAIN file.entries |->
                  Lookup(file.entries, e, Lookup(config.entries, e, <<>>))],
   mirrors |-> IF file.mirrors = <<>> THEN config.mirrors ELSE file.mirrors]

EmptyConfig == [NoFile EXCEPT !.static = [k \in StaticKeys |-> Empty]]

applyDefaults(config) ==
  [config EXCEPT !.static = [k \in StaticKeys |-> IF @[k] = Empty THEN BuiltIn(k) ELSE @[k]]]

\* Mutant: the narrowest scope first.
MergeScopesReversed(fs) ==
  LET merged[n \in 0 .. Len(Scopes)] ==
        IF n = 0 THEN EmptyConfig ELSE Unmarshal(fs[Scopes[n]], merged[n - 1])
  IN  applyDefaults(merged[Len(Scopes)])

\* The broadest scope first.
MergeScopes(fs) ==
  LET merged[n \in 0 .. Len(Scopes)] ==
        IF n = 0 THEN EmptyConfig
        ELSE Unmarshal(fs[Scopes[Len(Scopes) - n + 1]], merged[n - 1])
  IN  applyDefaults(merged[Len(Scopes)])

\* The set of the one merged configuration, or none: any file that cannot be read
\* or parsed is an error.  (EffectiveValue passes over such a file.)
LoadHierarchicalConfig == IF malformed = {} THEN {MergeScopes(files)} ELSE {}

-----------------------------------------------------------------------------
\* A file is missing or, written by hand, malformed, or it sets one static key, all
\* the fields of one entry or one mirror.
FieldsOf(entry) == {key[2] : key \in {k \in DynamicKeys : k[1] = entry}}

OneKey(k, v) == [NoFile EXCEPT !.static = [j \in {k} |-> v]]
OneEntry(entry, v) ==
  [NoFile EXCEPT !.entries = [e \in {entry} |-> [f \in FieldsOf(entry) |-> v]]]
OneMirror(m) == [NoFile EXCEPT !.mirrors = <<m>>]

HandWritten(s) ==
  {NoFile}
    \cup {OneKey(k, v) : k \in StaticKeys \ {"dev.runtime"}, v \in Texts[s]}
    \cup {OneEntry(key[1], v) : key \in DynamicKeys, v \in Texts[s]}
    \cup {OneMirror(m) : m \in Mirrors}

ConfigInit ==
  /\ files \in [ConfigScope -> UNION {HandWritten(s) : s \in ConfigScope}]
  /\ \A s \in ConfigScope : files[s] \in HandWritten(s)
  /\ malformed \in SUBSET {s \in ConfigScope : files[s] = NoFile}
  /\ command = [p \in Commanders |-> NoCommand]
  /\ alone = {}
  /\ commands = 0

\* Mutant: loads what is in effect instead of what the scope's file holds.
LoadConfigForScopeMerged(s) == MergeScopes(files)

LoadConfigForScope(s) == LoadConfigFromPath(files[s])

\* A command loads its scope's file, or fails if it cannot, and changes the
\* configuration in memory.
LoadAndChange(p, s, key, value, config) ==
  /\ command[p] = NoCommand
  /\ s \notin malformed
  /\ commands < MaxCommands
  /\ commands' = commands + 1
  /\ command' = [command EXCEPT ![p] =
        [pc |-> "saving", scope |-> s, key |-> key, value |-> value,
         loaded |-> files[s], config |-> config]]
  /\ alone' = alone \cup {p}
  /\ UNCHANGED <<files, malformed>>

ConfigSet(p, s, key, value) ==
  /\ ValidateField(key, value)
  /\ LoadAndChange(p, s, key, {value}, SetField(LoadConfigForScope(s), key, value))

ConfigUnset(p, s, key) == LoadAndChange(p, s, key, {}, UnsetField(LoadConfigForScope(s), key))

ConfigAddMirror(p, s, m) ==
  /\ m \notin Range(files[s].mirrors)
  /\ LoadAndChange(p, s, <<>>, {}, [LoadConfigForScope(s) EXCEPT !.mirrors = Append(@, m)])

ConfigRemoveMirror(p, s, m) ==
  /\ m \in Range(files[s].mirrors)
  /\ LoadAndChange(p, s, <<>>, {},
          [LoadConfigForScope(s) EXCEPT !.mirrors = SelectSeq(@, LAMBDA n : n # m)])

\* Those that run no command on p's file stay alone with theirs.
Disturbs(p) ==
  {q \in alone : q = p \/ command[q].scope # command[p].scope}

\* os.WriteFile opens the file with O_TRUNC ...
TruncateFile(p) ==
  /\ command[p].pc = "saving"
  /\ files' = [files EXCEPT ![command[p].scope] = NoFile]
  /\ malformed' = malformed \ {command[p].scope}
  /\ command' = [command EXCEPT ![p].pc = "writing"]
  /\ alone' = Disturbs(p)
  /\ UNCHANGED commands

\* ... and then writes it.  Over what another process has written in between, the
\* tail of which may stay if it is longer: the file may then be malformed.
WriteFile(p) ==
  LET s == command[p].scope
      over == files[s] # NoFile \/ s \in malformed
  IN /\ command[p].pc = "writing"
     /\ \/ /\ files' = [files EXCEPT ![s] = SaveConfigToPath(command[p].config)]
           /\ malformed' = malformed \ {s}
        \/ /\ over
           /\ files' = [files EXCEPT ![s] = NoFile]
           /\ malformed' = malformed \cup {s}
     /\ command' = [command EXCEPT ![p] = NoCommand]
     /\ alone' = Disturbs(p) \ {p}
     /\ UNCHANGED commands

InterruptCommand(p) ==
  /\ command[p] # NoCommand
  /\ command' = [command EXCEPT ![p] = NoCommand]
  /\ alone' = alone \ {p}
  /\ UNCHANGED <<files, malformed, commands>>

ConfigNext ==
  \E p \in Commanders :
    \/ \E s \in ConfigScope :
         \/ \E key \in Keys, v \in Texts[s] \cup {Empty} : ConfigSet(p, s, key, v)
         \/ \E key \in Keys : ConfigUnset(p, s, key)
         \/ \E m \in Mirrors : ConfigAddMirror(p, s, m) \/ ConfigRemoveMirror(p, s, m)
    \/ TruncateFile(p) \/ WriteFile(p) \/ InterruptCommand(p)

ConfigSpec == ConfigInit /\ [][ConfigNext]_configVars

-----------------------------------------------------------------------------
(* Properties. *)

\* What a key is worth in the scopes other than s.
EffectiveWithout(fs, s, key) == EffectiveValue([fs EXCEPT ![s] = NoFile], key)

\* A default that a command writes down because its file had no value for it.
Materialised(before, after, key) ==
  IsStatic(key) /\ key[1] \in Defaulted
    /\ GetField(before, key) = {} /\ GetField(after, key) = {BuiltIn(key[1])}

\* dk config set and unset: a command whose file nobody else writes meanwhile
\* gives its key, in that scope, the value it was asked for, or none ("reverting
\* to the next lower scope's value or the built-in default"); no other key
\* changes its value, but for the runtime and the cluster name, whose defaults
\* the command writes into a file that does not name them.
CommandTouchesItsKey ==
  [][\A p \in alone :
       command[p].pc = "writing" /\ files' # files =>
         LET s == command[p].scope
             key == command[p].key
             loaded == command[p].loaded
             wanted == IF IsMapValue(key) THEN command[p].value
                       ELSE command[p].value \ {Empty}
         IN p \notin alone' /\ command'[p] = NoCommand =>
              /\ key \in Keys =>
                   /\ GetField(files'[s], key) = wanted
                   /\ wanted = {} => EffectiveValue(files', key) = EffectiveWithout(files, s, key)
              /\ \A other \in Keys \ {key} :
                   \/ GetField(files'[s], other) = GetField(loaded, other)
                   \/ Materialised(loaded, files'[s], other)]_configVars

\* dk config get: whatever commands race, are interrupted or are lost, the value
\* in effect has been configured in the very scope that is named as its source,
\* or it is a built-in default.
EffectiveIsConfigured ==
  \A key \in Keys :
    LET source == EffectiveSource(files, key)
        value == EffectiveValue(files, key)
    IN \/ source \in ConfigScope /\ value \in Texts[source]
       \/ value = Empty
       \/ IsStatic(key) /\ value = BuiltIn(key[1])

\* A scope narrower than the one a key's value comes from names the key, with
\* no value, or the key's entry, without the field.
Shadowed(key) ==
  \E s \in ConfigScope :
    /\ \A t \in Setting(files, key) : \E i \in DOMAIN Scopes : Scopes[i] = s /\ i < t
    /\ key[1] \in DOMAIN files[s].static \cup DOMAIN files[s].entries

\* "System MUST merge configuration from all scopes, with narrower scopes
\* overriding broader scopes for scalar values": the merged configuration that
\* the other commands use, when every file can be read, holds the values that dk
\* config get shows, except where a narrower scope hides them by what it leaves
\* empty.  (When one cannot, there is no merged configuration, and the commands do
\* without one, while dk config get still shows what the other files say.)
MergedIsEffective ==
  \A config \in LoadHierarchicalConfig, key \in Keys :
    ~Shadowed(key) =>
      GetField(config, key) \ {Empty} = {EffectiveValue(files, key)} \ {Empty}
=============================================================================
