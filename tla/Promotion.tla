----------------------------- MODULE Promotion -----------------------------
(***************************************************************************)
(* Promotion of a package to one cell of an environment by pull request:   *)
(* Promoter.Promote of sdk/promotion, for dk promote and dk rollback, and  *)
(* the GitHub repository it works on.                                      *)
(*                                                                         *)
(* Promote makes six requests one after the other, without a transaction:  *)
(* read the base branch's commit, create a branch at it, read values.yaml  *)
(* from the base branch, read its SHA on the new branch and write it       *)
(* there, and open the pull request.  Other promotions, and the people who *)
(* own the overrides in values.yaml, change the base branch in between.    *)
(*                                                                         *)
(* The packages, environments and cells have values files of their own, so *)
(* promotions of different ones do not meet but in their branch's base.    *)
(***************************************************************************)
EXTENDS Naturals

CONSTANTS
  Promotions,   \* calls of Promote, each by a process of its own
  Versions,     \* package versions
  NoVersion,    \* the version of a values file that is not there
  Seconds,      \* what the timestamp in a branch's name can be
  MaxEdits,     \* bound: different overrides, but for none
  ReadsFail,    \* whether a request that reads a file that is there may fail
  Reverts       \* whether users go back to earlier overrides

ASSUME ConstantsAssumption ==
  /\ NoVersion \notin Versions /\ MaxEdits \in Nat
  /\ ReadsFail \in BOOLEAN /\ Reverts \in BOOLEAN

(***************************************************************************)
(* A values file is its appVersion and all the rest, the user's overrides, *)
(* which are numbered in the order in which users first write them: 0 for  *)
(* none.                                                                   *)
(***************************************************************************)
File == [version : Versions \cup {NoVersion}, overrides : 0 .. MaxEdits]
NoFile == [version |-> NoVersion, overrides |-> 0]

\* Branch names, for one package, environment and cell.
BranchNames == Versions \X Seconds
NoBranch == <<>>

Failed == "failed"

VARIABLES
  main,       \* the values file on the base branch
  branches,   \* branch names in use
  base, head, \* for each: the values file at its fork, and at its tip
  pc,         \* where each call of Promote is
  request,    \* req.Version of each
  branch,     \* branch name of each
  existing,   \* for each: the values file as it was last read
  pr          \* pull request of each: "none", "open" or "merged"

vars == <<main, branches, base, head, pc, request, branch, existing, pr>>

Init ==
  /\ main \in {NoFile} \cup {[version |-> v, overrides |-> 0] : v \in Versions}
  /\ branches = {}
  /\ base = [b \in BranchNames |-> NoFile]
  /\ head = [b \in BranchNames |-> NoFile]
  /\ pc = [p \in Promotions |-> "idle"]
  /\ request = [p \in Promotions |-> NoVersion]
  /\ branch = [p \in Promotions |-> NoBranch]
  /\ existing = [p \in Promotions |-> NoFile]
  /\ pr = [p \in Promotions |-> "none"]

Goto(p, point) == pc' = [pc EXCEPT ![p] = point]

-----------------------------------------------------------------------------
(* Promote. *)

\* getBranchSHA: existing stands for the commit until the values are read.
\* branchName has the second in which the call has come here.
Begin(p, v, t) ==
  /\ pc[p] = "idle"
  /\ request' = [request EXCEPT ![p] = v]
  /\ branch' = [branch EXCEPT ![p] = <<v, t>>]
  /\ existing' = [existing EXCEPT ![p] = main]
  /\ Goto(p, "creating")
  /\ UNCHANGED <<main, branches, base, head, pr>>

Fork(p) ==
  /\ branches' = branches \cup {branch[p]}
  /\ base' = [base EXCEPT ![branch[p]] = existing[p]]
  /\ head' = [head EXCEPT ![branch[p]] = existing[p]]

\* Mutant: a branch that is there already is taken for one's own.
CreateBranchReuse(p) ==
  /\ pc[p] = "creating"
  /\ \/ branch[p] \notin branches /\ Fork(p)
     \/ branch[p] \in branches /\ UNCHANGED <<branches, base, head>>
  /\ Goto(p, "reading") \/ Goto(p, Failed)
  /\ UNCHANGED <<main, request, branch, existing, pr>>

\* Creates a reference that is not there; the reply may be lost.
CreateBranch(p) ==
  /\ pc[p] = "creating"
  /\ branch[p] \notin branches
  /\ Fork(p)
  /\ Goto(p, "reading") \/ Goto(p, Failed)
  /\ UNCHANGED <<main, request, branch, existing, pr>>

\* Mutant: the error of CreateBranch is ignored.
CreateBranchFailsIgnored(p) ==
  /\ pc[p] = "creating"
  /\ Goto(p, "reading")
  /\ UNCHANGED <<main, branches, base, head, request, branch, existing, pr>>

\* The request fails, as it does when the name is taken.
CreateBranchFails(p) ==
  /\ pc[p] = "creating"
  /\ Goto(p, Failed)
  /\ UNCHANGED <<main, branches, base, head, request, branch, existing, pr>>

\* Mutant: the values file is never read.
ReadValuesNot(p) ==
  /\ pc[p] = "reading"
  /\ existing' = [existing EXCEPT ![p] = NoFile]
  /\ Goto(p, "writing")
  /\ UNCHANGED <<main, branches, base, head, request, branch, pr>>

\* getFileContent, whose error is ignored: it counts as a missing file.
ReadValues(p) ==
  /\ pc[p] = "reading"
  /\ \/ existing' = [existing EXCEPT ![p] = main]
     \/ ReadsFail /\ existing' = [existing EXCEPT ![p] = NoFile]
  /\ Goto(p, "writing")
  /\ UNCHANGED <<main, branches, base, head, request, branch, pr>>

\* GenerateValuesContent, for a missing file, has no overrides either.
MergeAppVersion(f, v) == [f EXCEPT !.version = v]

\* UpdateFile: only this call writes to its branch between the two requests.
UpdateFile(p) ==
  /\ pc[p] = "writing"
  /\ head' = [head EXCEPT ![branch[p]] = MergeAppVersion(existing[p], request[p])]
  /\ Goto(p, "proposing") \/ Goto(p, Failed)
  /\ UNCHANGED <<main, branches, base, request, branch, existing, pr>>

\* Also when the SHA of a file that is there could not be read.
UpdateFileFails(p) ==
  /\ pc[p] = "writing"
  /\ Goto(p, Failed)
  /\ UNCHANGED <<main, branches, base, head, request, branch, existing, pr>>

CreatePR(p) ==
  /\ pc[p] = "proposing"
  /\ pr' = [pr EXCEPT ![p] = "open"]
  /\ Goto(p, "success") \/ Goto(p, Failed)
  /\ UNCHANGED <<main, branches, base, head, request, branch, existing>>

CreatePRFails(p) ==
  /\ pc[p] = "proposing"
  /\ Goto(p, Failed)
  /\ UNCHANGED <<main, branches, base, head, request, branch, existing, pr>>

Promote(p) ==
  \/ CreateBranch(p) \/ CreateBranchFails(p)
  \/ ReadValues(p)
  \/ UpdateFile(p) \/ UpdateFileFails(p)
  \/ CreatePR(p) \/ CreatePRFails(p)

-----------------------------------------------------------------------------
(* The repository, and its other users. *)

\* Three-way merge of a field that was o at the fork: y and t are what it is on
\* the base branch and on the other.
Conflict(o, y, t) == y # o /\ t # o /\ y # t
Merged(o, y, t) == IF t = o THEN y ELSE t

Mergeable(o, y, t) ==
  /\ ~Conflict(o.version, y.version, t.version)
  /\ ~Conflict(o.overrides, y.overrides, t.overrides)
  /\ o = NoFile => y \in {NoFile, t}

\* A reviewer merges the pull request.  Nobody has to: EnableAutoMerge does
\* nothing.
Merge(p) ==
  LET o == base[branch[p]]
      t == head[branch[p]]
  IN  /\ pr[p] = "open"
      /\ Mergeable(o, main, t)
      /\ main' = [version |-> Merged(o.version, main.version, t.version),
                  overrides |-> Merged(o.overrides, main.overrides, t.overrides)]
      /\ pr' = [pr EXCEPT ![p] = "merged"]
      /\ UNCHANGED <<branches, base, head, pc, request, branch, existing>>

\* An edit of the overrides reaches the base branch.
EditOverrides(n) ==
  /\ main # NoFile
  /\ Reverts \/ n > main.overrides
  /\ main' = [main EXCEPT !.overrides = n]
  /\ UNCHANGED <<branches, base, head, pc, request, branch, existing, pr>>

Next ==
  \/ \E p \in Promotions :
       \/ \E v \in Versions, t \in Seconds : Begin(p, v, t)
       \/ Promote(p)
       \/ Merge(p)
  \/ \E n \in 0 .. MaxEdits : EditOverrides(n)

Spec == Init /\ [][Next]_vars

-----------------------------------------------------------------------------
(* Properties. *)

Points == {"idle", "creating", "reading", "writing", "proposing", "success", Failed}

\* Every variable holds values of its kind, and a pull request has a branch.
TypeOK ==
  /\ main \in File
  /\ branches \subseteq BranchNames
  /\ base \in [BranchNames -> File]
  /\ head \in [BranchNames -> File]
  /\ pc \in [Promotions -> Points]
  /\ request \in [Promotions -> Versions \cup {NoVersion}]
  /\ branch \in [Promotions -> BranchNames \cup {NoBranch}]
  /\ existing \in [Promotions -> File]
  /\ pr \in [Promotions -> {"none", "open", "merged"}]
  /\ \A p \in Promotions :
       /\ pc[p] # "idle" => request[p] \in Versions /\ branch[p] \in BranchNames
       /\ pr[p] # "none" => branch[p] \in branches

\* What a pull request proposes is what its promotion was asked for: its branch
\* holds the requested version with the overrides the promotion has read, even
\* if another promotion of that version began in the same second, and stays so
\* when it is merged.  A promotion that reports success has a pull request.
ProposalIsExact ==
  \A p \in Promotions :
    /\ pr[p] # "none" =>
         head[branch[p]] = MergeAppVersion(existing[p], request[p])
    /\ pc[p] = "success" => pr[p] # "none"

\* "Preserving all other user overrides": a promotion that is merged leaves the
\* overrides on the base branch as they are, including those that were edited
\* after it has created its branch, or after it has read the values.
OverridesPreserved ==
  [][\A p \in Promotions :
       pr[p] # "merged" /\ pr'[p] = "merged" =>
         main'.overrides = main.overrides]_vars
=============================================================================
