------------------------------ MODULE Overrides ------------------------------
(***************************************************************************)
(* Overrides of dk.yaml: dk run and dk lint merge override files (-f) into *)
(* it and then set single paths (--set), with sdk/manifest/merge.go.  The  *)
(* result replaces dk.yaml only when every override could be applied.      *)
(*                                                                         *)
(* A document is a tree of maps, lists and scalars; a path is what         *)
(* parsePath makes of its text, a sequence of keys, some with an index.    *)
(* An address is the same in single steps into a document, each by a key   *)
(* or by an index.                                                         *)
(***************************************************************************)
EXTENDS Integers, Sequences, SequencesExt

CONSTANTS
  Names,           \* the keys of maps
  Depth,           \* bound: no document is deeper
  Documents,       \* the texts of dk.yaml
  OverrideFiles,   \* the files given with -f
  Settings,        \* the path and value of each --set
  Addresses,       \* where a document is looked at
  MaxOverrides     \* bound: overrides of one command

Map(f) == [kind |-> "map", of |-> f]
List(s) == [kind |-> "list", of |-> s]
Scalar(v) == [kind |-> "scalar", of |-> v]
Nothing == [kind |-> "nothing", of |-> ""]

\* The values of each depth.  A map has all keys, and Nothing at those that it has
\* not; a null of a text is a scalar.
Leaves == {Nothing} \cup [kind : {"scalar"}, of : STRING]
Values[n \in 0 .. Depth] ==
  IF n = 0 THEN Leaves
  ELSE LET inner == Values[n - 1]
       IN Leaves \cup [kind : {"map"}, of : [Names -> inner]]
                 \cup [kind : {"list"}, of : Seq(inner)]

Maps == {v \in Values[Depth] : v.kind = "map"}

\* A file without any text parses to a nil map.
NilDocument == Nothing

Part == [key : Names, isArr : BOOLEAN, index : Int]
Key(k) == [key |-> k, isArr |-> FALSE, index |-> -1]
Element(k, i) == [key |-> k, isArr |-> TRUE, index |-> i]

Steps == [key : Names, at : {0}] \cup [key : {""}, at : Nat \ {0}]
ByKey(k) == [key |-> k, at |-> 0]
ByIndex(i) == [key |-> "", at |-> i]

Address(parts) ==
  FlattenSeq([i \in DOMAIN parts |->
    IF parts[i].isArr THEN <<ByKey(parts[i].key), ByIndex(parts[i].index + 1)>>
    ELSE <<ByKey(parts[i].key)>>])

\* The value of --set is a scalar, whatever its text.
ASSUME OverridesAssumption ==
  /\ MaxOverrides \in Nat /\ Depth \in Nat
  /\ Documents \subseteq Maps \cup {NilDocument}
  /\ OverrideFiles \subseteq Maps
  /\ Settings \subseteq [path : Seq(Part), value : Leaves \ {Nothing}]
  /\ \A setting \in Settings :
       setting.path # <<>> /\ Len(Address(setting.path)) <= Depth
  /\ Addresses \subseteq Seq(Steps)

VARIABLES
  original,   \* dk.yaml
  base,       \* the document under construction
  applied,    \* the overrides applied to it, in turn
  command     \* "merging", "setting", or how it has ended

overrideVars == <<original, base, applied, command>>

OverridesInit ==
  /\ original \in Documents
  /\ base = original
  /\ applied = <<>>
  /\ command = "merging"

-----------------------------------------------------------------------------
(* merge.go. *)

In(v, k) == IF v.kind = "map" THEN v.of[k] ELSE Nothing

\* Mutant: maps are replaced, too.
DeepMergeShallow(doc, file) ==
  Map([k \in Names |-> IF In(file, k) = Nothing THEN In(doc, k) ELSE In(file, k)])

\* Maps merge, of each depth in turn; anything else of the override replaces what the
\* base has.
DeepMerge(doc, file) ==
  LET merge[n \in 0 .. Depth] ==
        IF n = 0 THEN <<>>
        ELSE [b \in Values[n] |-> [o \in Values[n] |->
               Map([k \in Names |->
                 IF In(o, k) = Nothing THEN In(b, k)
                 ELSE IF In(b, k).kind = "map" /\ In(o, k).kind = "map"
                      THEN merge[n - 1][In(b, k)][In(o, k)]
                      ELSE In(o, k)])]]
  IN merge[Depth][doc][file]

Step(v, s) ==
  CASE v.kind = "map" /\ s.at = 0 -> v.of[s.key]
    [] v.kind = "list" /\ s.at \in DOMAIN v.of -> v.of[s.at]
    [] OTHER -> Nothing

\* What is met on the way to an address, and at its end.
Visited(v, a) ==
  LET at[i \in 0 .. Len(a)] == IF i = 0 THEN v ELSE Step(at[i - 1], a[i]) IN at

getPath(v, a) == Visited(v, a)[Len(a)]

\* A list of at least that length.
Extended(v, length) ==
  LET list == IF v.kind = "list" THEN v.of ELSE <<>>
  IN [i \in 1 .. (IF Len(list) > length THEN Len(list) ELSE length) |->
        IF i <= Len(list) THEN list[i] ELSE Nothing]

\* What is where a step goes in and of another kind gives way.
Put(v, s, w) ==
  IF s.at = 0 THEN Map([k \in Names |-> IF k = s.key THEN w ELSE In(v, k)])
              ELSE List([Extended(v, s.at) EXCEPT ![s.at] = w])

\* From the end of the address on, each value is put into the one around it.
setPathRecursive(v, a, value) ==
  LET set[i \in 0 .. Len(a)] ==
        IF i = 0 THEN value
        ELSE LET n == Len(a) - i IN Put(Visited(v, a)[n], a[n + 1], set[i - 1])
  IN set[Len(a)]

ValidOverridePaths ==
  {<<"apiVersion">>, <<"kind">>, <<"metadata">>}
  \cup {<<"metadata", k>> : k \in {"name", "namespace", "version", "labels", "annotations"}}
  \cup {<<"spec", k>> : k \in {"runtime", "mode", "description", "owner", "image", "command",
          "timeout", "retries", "replicas", "env", "inputs", "outputs", "config", "source",
          "destination", "provides", "accepts", "trigger", "resources"}}
  \cup {<<"spec", "trigger", k>> : k \in {"policy", "schedule"}}
  \cup {<<"spec", "resources", k>> : k \in {"cpu", "memory"}}

\* Under these, paths may go on: with a key, and under the lists with an index.
Nested == {<<"metadata", "labels">>, <<"metadata", "annotations">>}
  \cup {<<"spec", k>> : k \in {"inputs", "outputs", "env", "config", "provides", "accepts",
          "source", "destination", "trigger", "resources"}}
Indexed == {<<"spec", k>> : k \in {"inputs", "outputs", "env"}}

Keys(parts) == [i \in DOMAIN parts |-> parts[i].key]

\* Indices do not count when a path is compared with the valid ones.
ValidateOverridePath(parts) ==
  \/ Keys(parts) \in ValidOverridePaths
  \/ /\ Len(parts) > 2 /\ ~parts[1].isArr /\ ~parts[2].isArr
     /\ SubSeq(Keys(parts), 1, 2) \in Nested
  \/ /\ Len(parts) >= 2 /\ ~parts[1].isArr /\ parts[2].isArr
     /\ SubSeq(Keys(parts), 1, 2) \in Indexed

-----------------------------------------------------------------------------
(* applyOverrides and applyLintOverrides. *)

ApplyFile(file) ==
  /\ command = "merging"
  /\ Len(applied) < MaxOverrides
  /\ base' = DeepMerge(base, file)
  /\ applied' = Append(applied, [file |-> file])
  /\ UNCHANGED <<original, command>>

\* An index below zero, and a nil map, are panics.
Panics(parts) == base = NilDocument \/ \E i \in DOMAIN parts : parts[i].isArr /\ parts[i].index < 0

ApplySet(setting) ==
  /\ command \in {"merging", "setting"}
  /\ Len(applied) < MaxOverrides
  /\ ValidateOverridePath(setting.path) /\ ~Panics(setting.path)
  /\ base' = setPathRecursive(base, Address(setting.path), setting.value)
  /\ applied' = Append(applied, setting)
  /\ command' = "setting"
  /\ UNCHANGED original

FailSet(setting) ==
  /\ command \in {"merging", "setting"}
  /\ ~ValidateOverridePath(setting.path) \/ Panics(setting.path)
  /\ command' = "failed"
  /\ UNCHANGED <<original, base, applied>>

\* A file that cannot be read or parsed.
FailFile ==
  /\ command = "merging"
  /\ command' = "failed"
  /\ UNCHANGED <<original, base, applied>>

OverridesNext ==
  \/ \E file \in OverrideFiles : ApplyFile(file)
  \/ \E setting \in Settings : ApplySet(setting) \/ FailSet(setting)
  \/ FailFile

OverridesSpec == OverridesInit /\ [][OverridesNext]_overrideVars

-----------------------------------------------------------------------------
(* Where an override applies. *)

IsFile(override) == "file" \in DOMAIN override

\* An override that says something of what is below an address.
IsBelow(a, override) ==
  IF IsFile(override) THEN getPath(override.file, a).kind = "map"
  ELSE IsStrictPrefix(a, Address(override.path))

\* Two addresses part where one goes on by a key and the other by an index.
PartInKind(a, b) ==
  \E n \in DOMAIN a \cap DOMAIN b :
    /\ \A i \in 1 .. (n - 1) : a[i] = b[i]
    /\ (a[n].at = 0) # (b[n].at = 0)

\* An override says of an address: what it is now, that nothing can be there any
\* more, or nothing.
Decides(a, override) ==
  IF IsFile(override)
  THEN \E n \in 0 .. Len(a) :
         LET v == Visited(override.file, a)[n]
         IN v.kind \in {"scalar", "list"} \/ (v.kind = "map" /\ n < Len(a) /\ a[n + 1].at > 0)
  ELSE LET p == Address(override.path) IN IsPrefix(p, a) \/ PartInKind(a, p)

Decision(a, override) ==
  IF IsFile(override) THEN getPath(override.file, a)
  ELSE LET p == Address(override.path)
       IN IF IsPrefix(p, a) THEN getPath(override.value, SubSeq(a, Len(p) + 1, Len(a))) ELSE Nothing

OverridesTypeOK ==
  /\ original \in Documents
  /\ base \in Maps \cup {NilDocument}
  /\ applied \in Seq([file : OverrideFiles] \cup Settings)
  /\ Len(applied) <= MaxOverrides
  /\ command \in {"merging", "setting", "failed"}

\* "Scalars: override replaces base; maps: recursive merge; arrays: override
\* replaces base": at each address the document is what the last override that
\* says something of it decides, or else what it was; no other address changes,
\* however maps, lists and scalars take each other's place.
OverridesAreExact ==
  \A a \in Addresses :
    (\A i \in DOMAIN applied : ~IsBelow(a, applied[i])) =>
      LET deciding == {i \in DOMAIN applied : Decides(a, applied[i])}
      IN getPath(base, a) =
           IF deciding = {} THEN getPath(original, a)
           ELSE Decision(a, applied[CHOOSE i \in deciding : \A j \in deciding : j <= i])
=============================================================================
